---------------------------- MODULE TicketSerial ----------------------------
(***************************************************************************)
(* Serial numbers of tickets: set_serial_num of                            *)
(* tickets/models/ticket/general.py, a date and a number that is one more  *)
(* than the largest of that date.  The distributed lock around it is given *)
(* back when the row was saved, before the transaction of the request      *)
(* commits, so a saved number is not yet visible to the next opener; the   *)
(* unique index decides then, and makes the later one wait for the outcome *)
(* of the earlier.                                                         *)
(***************************************************************************)
EXTENDS Naturals, FiniteSets

CONSTANTS
    Opener,         \* requests that open one ticket each
    Nobody,
    MaxDay,         \* days the clock may reach
    MaxNum          \* numbers of a day (9999)

SerialAssumption ==
    /\ Nobody \notin Opener
    /\ MaxDay \in Nat \ {0} /\ MaxNum \in Nat \ {0}

Day == 1..MaxDay

VARIABLES
    today,
    ticket,         \* ticket[o]: how far the opener is, its date and its number
    lock,           \* owner of TICKET_LOCK_SET_SERIAL_NUM
    alive           \* openers whose process runs (and renews its lock)

vars == <<today, ticket, lock, alive>>

Stages == {"idle", "begun", "locked", "read", "saved", "open", "committed",
           "conflict", "full", "lost"}

TypeOK ==
    /\ today \in Day
    /\ ticket \in [Opener -> [pc : Stages, day : Day, num : 0..MaxNum]]
    /\ lock \in Opener \cup {Nobody}
    /\ alive \subseteq Opener

Init ==
    /\ today = 1
    /\ ticket = [o \in Opener |-> [pc |-> "idle", day |-> 1, num |-> 0]]
    /\ lock = Nobody
    /\ alive = Opener

-----------------------------------------------------------------------------
At(o, stage) == o \in alive /\ ticket[o].pc = stage

Committed(day) == {o \in Opener : ticket[o].pc = "committed" /\ ticket[o].day = day}

\* Rows of an open transaction: seen by nobody, but the index makes others wait.
Written(day) == {o \in Opener : ticket[o].pc \in {"saved", "open"} /\ ticket[o].day = day}

Last(day) ==
    IF Committed(day) = {} THEN 0
    ELSE CHOOSE n \in {ticket[o].num : o \in Committed(day)} :
           \A o \in Committed(day) : ticket[o].num <= n

Same(o, S) == \E q \in S \ {o} : ticket[q].num = ticket[o].num

Midnight ==
    /\ today < MaxDay
    /\ today' = today + 1
    /\ UNCHANGED <<ticket, lock, alive>>

\* date_created and the row, without a number.
Create(o) ==
    /\ At(o, "idle")
    /\ ticket' = [ticket EXCEPT ![o].pc = "begun", ![o].day = today]
    /\ UNCHANGED <<today, lock, alive>>

Acquire(o) ==
    /\ At(o, "begun") /\ lock = Nobody
    /\ ticket' = [ticket EXCEPT ![o].pc = "locked"]
    /\ lock' = o
    /\ UNCHANGED <<today, alive>>

\* Faulty: numbers of all days together.
get_next_serial_num_any(o) ==
    LET all == {ticket[q].num : q \in UNION {Committed(d) : d \in Day}}
    IN  IF all = {} THEN 1 ELSE 1 + CHOOSE n \in all : \A k \in all : k <= n

get_next_serial_num(o) == Last(ticket[o].day) + 1

\* Faulty: the last number of the day is taken for one too many.
DayFullOff(o) == get_next_serial_num(o) >= MaxNum

DayFull(o) == get_next_serial_num(o) > MaxNum

Compute(o) ==
    /\ At(o, "locked")
    /\ IF DayFull(o)
         THEN ticket' = [ticket EXCEPT ![o].pc = "full"] /\ lock' = Nobody
         ELSE ticket' = [ticket EXCEPT ![o].pc = "read", ![o].num = get_next_serial_num(o)]
              /\ UNCHANGED lock
    /\ UNCHANGED <<today, alive>>

\* Faulty: no unique index.
ConflictNever(o) == FALSE

Conflict(o) == Same(o, Committed(ticket[o].day))

\* The save waits while the same number is written and not committed.
Save(o) ==
    /\ At(o, "read") /\ ~Same(o, Written(ticket[o].day))
    /\ IF Conflict(o)
         THEN ticket' = [ticket EXCEPT ![o].pc = "conflict"]
              /\ lock' = IF lock = o THEN Nobody ELSE lock
         ELSE ticket' = [ticket EXCEPT ![o].pc = "saved"] /\ UNCHANGED lock
    /\ UNCHANGED <<today, alive>>

Release(o) ==
    /\ At(o, "saved")
    /\ ticket' = [ticket EXCEPT ![o].pc = "open"]
    /\ lock' = IF lock = o THEN Nobody ELSE lock
    /\ UNCHANGED <<today, alive>>

\* The rest of the request, then the commit of its transaction.
Commit(o) ==
    /\ At(o, "open")
    /\ ticket' = [ticket EXCEPT ![o].pc = "committed"]
    /\ UNCHANGED <<today, lock, alive>>

\* A later step of the request raises: the transaction is rolled back.
Rollback(o) ==
    /\ At(o, "open")
    /\ ticket' = [ticket EXCEPT ![o].pc = "lost"]
    /\ UNCHANGED <<today, lock, alive>>

\* The process dies: its transaction is rolled back and its lock stays.
Die(o) ==
    /\ o \in alive /\ ticket[o].pc \in {"begun", "locked", "read", "saved", "open"}
    /\ alive' = alive \ {o}
    /\ ticket' = [ticket EXCEPT ![o].pc = "lost"]
    /\ UNCHANGED <<today, lock>>

\* Faulty: the lock has no expiry.
LockExpiresNever == FALSE /\ UNCHANGED vars

\* Nobody renews the lock of a dead process.
LockExpires ==
    /\ lock # Nobody /\ lock \notin alive
    /\ lock' = Nobody
    /\ UNCHANGED <<today, ticket, alive>>

Work(o) == Acquire(o) \/ Compute(o) \/ Save(o) \/ Release(o) \/ Commit(o)

Next ==
    \/ \E o \in Opener : Create(o) \/ Work(o) \/ Rollback(o) \/ Die(o)
    \/ LockExpires
    \/ Midnight

Spec == Init /\ [][Next]_vars

\* A request goes on while its process lives, and keys expire.
Fairness == WF_vars(LockExpires) /\ \A o \in Opener : WF_vars(Work(o))
FairSpec == Spec /\ Fairness

-----------------------------------------------------------------------------
(* Properties *)

\* The tickets of a day have the numbers 1 to k, each once: neither the rolled back
\* ones nor those that were saved while another was uncommitted leave a gap or a
\* double (get_next_serial_num reads committed rows only).
SerialsDense ==
    \A d \in Day : {ticket[o].num : o \in Committed(d)} = 1..Cardinality(Committed(d))

\* A ticket is refused for the limit of its day only when that day has all its tickets.
FullMeansFull ==
    \A o \in Opener : ticket[o].pc = "full" => Cardinality(Committed(ticket[o].day)) = MaxNum

\* Whoever wants a number gets one, or an answer.
OpensEnd ==
    \A o \in Opener :
        ticket[o].pc = "begun" ~> ticket[o].pc \in {"committed", "conflict", "full", "lost"}

=============================================================================
