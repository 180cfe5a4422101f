----------------------------- MODULE TicketFlow -----------------------------
(***************************************************************************)
(* Approval of tickets: tickets/models/ticket/general.py with the views    *)
(* and handlers that call it.                                              *)
(*                                                                         *)
(* Every HTTP request is one database transaction (ATOMIC_REQUESTS).  A    *)
(* request first reads the tickets it names and checks its user against    *)
(* what it read; then, for each ticket, it takes the row lock and decides  *)
(* by the row under the lock; at the end it commits or rolls back.         *)
(* work[r] holds the rows a request has written and not committed, and so  *)
(* also says which row locks it holds.                                     *)
(***************************************************************************)
EXTENDS Naturals, FiniteSets, Sequences

CONSTANTS
    MaxTicket,      \* tickets are numbered in the order of their creation
    User,
    Applicant,      \* the user who applies for every ticket
    NoUser,
    Flow,           \* flows a ticket may be opened with: sequences of sets of users
    Request,
    Content,        \* what may be applied for
    NoGrant

Ticket == 1..MaxTicket
States == {"pending", "approved", "rejected", "closed"}

ASSUME ConstantsAssumption ==
    /\ MaxTicket \in Nat
    /\ Applicant \in User
    /\ NoUser \notin User
    /\ Flow \subseteq Seq(SUBSET User) /\ << >> \notin Flow
    /\ Content # {} /\ NoGrant \notin Content

VARIABLES
    db,             \* db[t]: the committed rows of a ticket, its steps and what it granted
    req,            \* req[r]: a request and how far it is
    work            \* work[r]: rows written by a request that has not committed

vars == <<db, req, work>>

Step == [state : States, status : {"pending", "active", "closed"},
         by : User \cup {NoUser}, assignees : SUBSET User]
Row == [status : {"absent", "open", "closed"}, state : States, level : Nat,
        steps : Seq(Step), content : Content, grant : Content \cup {NoGrant}]

NewRow(assignees, c) ==
    [status |-> "open", state |-> "pending", level |-> 1, content |-> c, grant |-> NoGrant,
     steps |-> [i \in DOMAIN assignees |->
                  [state |-> "pending", status |-> "pending", by |-> NoUser,
                   assignees |-> assignees[i]]]]

AbsentRow == [NewRow(<< >>, CHOOSE c \in Content : TRUE) EXCEPT !.status = "absent"]

Vias == {"api", "bulk", "direct", "super"}
Idle == [pc |-> "idle", via |-> "api", act |-> "approve", user |-> Applicant,
         todo |-> {}, seen |-> [t \in Ticket |-> AbsentRow], did |-> {}]

TypeOK ==
    /\ db \in [Ticket -> Row]
    /\ req \in [Request ->
         [pc : {"idle", "received", "read", "done", "part", "refused", "dead"},
          via : Vias, act : {"approve", "reject", "close"}, user : User,
          todo : SUBSET Ticket, seen : [Ticket -> Row], did : SUBSET Ticket]]
    /\ \A r \in Request : DOMAIN work[r] \subseteq Ticket

Init ==
    /\ db = [t \in Ticket |-> AbsentRow]
    /\ req = [r \in Request |-> Idle]
    /\ work = [r \in Request |-> << >>]

-----------------------------------------------------------------------------
(* Tickets *)

\* The applicant decides on his own ticket only when nobody else could.
exclude_applicant(users) ==
    IF Cardinality(users) # 1 THEN users \ {Applicant} ELSE users

has_current_assignee(row, u) ==
    row.level \in DOMAIN row.steps /\ u \in row.steps[row.level].assignees

has_all_assignee(row, u) == \E i \in DOMAIN row.steps : u \in row.steps[i].assignees

\* Faulty: forgets that an approved step is not pending.
has_next_any(row) ==
    row.level + 1 \in DOMAIN row.steps /\ row.steps[row.level + 1].status = "active"

has_next(row) ==
    row.level + 1 \in DOMAIN row.steps /\ row.steps[row.level + 1].status = "pending"

\* Faulty: state and status the wrong way round.
change_step_swapped(row, s, u) ==
    [row EXCEPT !.steps[row.level].state = "closed", !.steps[row.level].status = s,
                !.steps[row.level].by = u]

change_step(row, s, u) ==
    [row EXCEPT !.steps[row.level].state = s, !.steps[row.level].status = "closed",
                !.steps[row.level].by = IF s = "closed" THEN @ ELSE u]

\* The handler of the last approval grants what the row applies for (reads are committed
\* reads, so it sees the row as it is under the lock).
finish_or_next(row, s) ==
    IF s \in {"rejected", "closed"} \/ ~has_next(row)
      THEN [row EXCEPT !.state = s, !.status = "closed",
                       !.grant = IF s = "approved" THEN row.content ELSE @]
      ELSE [row EXCEPT !.steps[row.level + 1].status = "active", !.level = @ + 1]

change_state(row, s, u) == finish_or_next(change_step(row, s, u), s)

Outcome(act) ==
    CASE act = "approve" -> "approved" [] act = "reject" -> "rejected" [] OTHER -> "closed"

\* Faulty: the lock is taken and the row is not looked at again.
ConflictAssignee(row, act, u) ==
    act \in {"approve", "reject"} /\ ~has_current_assignee(row, u)
\* Faulty: the user is checked before the lock only.
ConflictClosed(row, act, u) == row.status = "closed"

\* AlreadyClosed, TicketStateChanged or PermissionError, by the row under the lock.
Conflict(row, act, u) ==
    \/ row.status = "closed"
    \/ act \in {"approve", "reject"} /\ ~has_current_assignee(row, u)

\* Faulty: level and status are those of the copy read before the lock.
LockedStale(r, t) ==
    [db[t] EXCEPT !.status = req[r].seen[t].status, !.level = req[r].seen[t].level]

\* The row the decision works on: re-read under the lock.
Locked(r, t) == db[t]

Open(t) ==
    /\ db[t].status = "absent" /\ \A o \in 1..(t - 1) : db[o].status # "absent"
    /\ \E flow \in Flow, c \in Content :
         db' = [db EXCEPT ![t] = NewRow([i \in DOMAIN flow |-> exclude_applicant(flow[i])], c)]
    /\ UNCHANGED <<req, work>>

-----------------------------------------------------------------------------
(* Requests *)

Allowed(via, act) ==
    CASE via = "api" -> TRUE
      [] via = "super" -> act = "close"
      [] OTHER -> act \in {"approve", "reject"}

Receive(r) ==
    /\ req[r].pc = "idle"
    /\ \E via \in Vias, act \in {"approve", "reject", "close"}, u \in User :
       \E todo \in SUBSET {t \in Ticket : db[t].status # "absent"} :
         /\ Allowed(via, act)
         /\ todo # {} /\ (via # "bulk" => Cardinality(todo) = 1)
         /\ req' = [req EXCEPT ![r].pc = "received", ![r].via = via, ![r].act = act,
                               ![r].user = u, ![r].todo = todo]
    /\ UNCHANGED <<db, work>>

\* check_object_permissions of the copy that was read; the closing of a ticket is
\* open to its applicant too, and a component may close any.
MayAct(r, row) ==
    \/ req[r].via = "super"
    \/ has_current_assignee(row, req[r].user)
    \/ req[r].act = "close" /\ req[r].user = Applicant

Related(t, u) == u = Applicant \/ has_all_assignee(db[t], u)

\* get_object, or the queryset of a bulk request: pending tickets of this user.
Read(r) ==
    LET q == req[r]
        found == IF q.via = "bulk"
                   THEN {t \in q.todo : db[t].state = "pending" /\ Related(t, q.user)}
                   ELSE {t \in q.todo : MayAct(r, db[t])}
    IN  /\ q.pc = "received"
        /\ req' = [req EXCEPT
             ![r].pc = IF found # {} THEN "read" ELSE IF q.via = "bulk" THEN "done" ELSE "refused",
             ![r].todo = found, ![r].seen = [t \in Ticket |-> IF t \in found THEN db[t] ELSE @[t]]]
        /\ UNCHANGED <<db, work>>

\* Faulty: tickets in the order the client named them.
TurnAny(r, t) == t \in req[r].todo

\* Bulk requests go through the tickets from the newest to the oldest.
Turn(r, t) == t \in req[r].todo /\ \A o \in req[r].todo : o <= t

\* A request that has ended, with the tickets it decided.
Finished(r, how, decided) ==
    [req EXCEPT ![r].pc = how, ![r].did = decided, ![r].todo = {}, ![r].seen = Idle.seen]

LockFree(r, t) == \A q \in Request \ {r} : t \notin DOMAIN work[q]

\* A bulk request checks its user against the copy, and an answer that is not an
\* exception commits what it has done so far.
BulkDenied(r, t) ==
    req[r].via = "bulk" /\ ~has_current_assignee(req[r].seen[t], req[r].user)

Applied(r, t) == IF req[r].via = "api" /\ req[r].act = "approve" THEN Content ELSE {Locked(r, t).content}

\* Row lock, checks, step, ticket and effect of one ticket.
Decide(r, t) ==
    /\ req[r].pc = "read" /\ Turn(r, t) /\ ~BulkDenied(r, t) /\ LockFree(r, t)
    /\ ~Conflict(Locked(r, t), req[r].act, req[r].user)
    /\ \E c \in Applied(r, t) :
         LET row == [Locked(r, t) EXCEPT !.content = c]
             new == change_state(row, Outcome(req[r].act), req[r].user)
         IN  work' = [work EXCEPT ![r] =
                        [o \in DOMAIN @ \cup {t} |-> IF o = t THEN new ELSE @[o]]]
    /\ req' = [req EXCEPT ![r].todo = @ \ {t}]
    /\ UNCHANGED db

\* An exception rolls the whole request back, a bulk one too.
Refuse(r, t) ==
    /\ req[r].pc = "read" /\ Turn(r, t) /\ ~BulkDenied(r, t) /\ LockFree(r, t)
    /\ Conflict(Locked(r, t), req[r].act, req[r].user)
    /\ req' = Finished(r, "refused", {})
    /\ work' = [work EXCEPT ![r] = << >>]
    /\ UNCHANGED db

Commit(r) ==
    /\ req[r].pc = "read"
    /\ \/ req[r].todo = {}
       \/ \E t \in Ticket : Turn(r, t) /\ BulkDenied(r, t)
    /\ db' = [t \in Ticket |-> IF t \in DOMAIN work[r] THEN work[r][t] ELSE db[t]]
    /\ req' = Finished(r, IF req[r].todo = {} THEN "done" ELSE "part", DOMAIN work[r])
    /\ work' = [work EXCEPT ![r] = << >>]

\* The worker or its connection dies: the database rolls back.
Die(r) ==
    /\ req[r].pc \in {"received", "read"}
    /\ req' = Finished(r, "dead", {})
    /\ work' = [work EXCEPT ![r] = << >>]
    /\ UNCHANGED db

Serve(r) ==
    \/ Read(r)
    \/ \E t \in Ticket : Decide(r, t) \/ Refuse(r, t)
    \/ Commit(r)

Next ==
    \/ \E t \in Ticket : Open(t)
    \/ \E r \in Request : Receive(r) \/ Serve(r) \/ Die(r)

Spec == Init /\ [][Next]_vars

\* A request that was received is worked on until it ends.
Fairness == \A r \in Request : WF_vars(Serve(r))
FairSpec == Spec /\ Fairness

-----------------------------------------------------------------------------
(* Properties *)

Ended(r) == req[r].pc \in {"done", "part", "refused", "dead"}
ApprovedSteps(t) == {i \in DOMAIN db[t].steps : db[t].steps[i].state = "approved"}

\* What a ticket applies for is granted exactly when every step was approved, each by
\* one of its own assignees, although requests check their user before they hold
\* the lock (_create_asset_permission is called from the last approval).
GrantNeedsEveryStep ==
    \A t \in Ticket : db[t].grant # NoGrant =>
        /\ db[t].status = "closed" /\ db[t].state = "approved"
        /\ \A i \in DOMAIN db[t].steps :
             db[t].steps[i].state = "approved" /\ db[t].steps[i].by \in db[t].steps[i].assignees
        /\ db[t].grant = db[t].content

\* Every approval that was answered with success approved one step of its own: none
\* is lost to another that decided at the same time, and none counts for two steps.
ApprovalsCount ==
    \A t \in Ticket :
        Cardinality({r \in Request : req[r].act = "approve" /\ t \in req[r].did})
          = Cardinality(ApprovedSteps(t))

\* A finished ticket stays as it is, whatever requests that read it before still do.
FinishedKept == \A t \in Ticket : db[t].status = "closed" => db'[t] = db[t]
ClosedIsFinal == [][FinishedKept]_vars

\* Every request that was received is answered.
RequestsEnd == \A r \in Request : req[r].pc = "received" ~> Ended(r)

\* The flow implements the abstract decision.
ticketOf(t) ==
    [state |-> IF db[t].status = "absent" THEN "absent" ELSE db[t].state,
     levels |-> Len(db[t].steps), approvals |-> Cardinality(ApprovedSteps(t)),
     effect |-> db[t].grant # NoGrant]

D == INSTANCE TicketDecision WITH ticket <- [t \in Ticket |-> ticketOf(t)]
DecisionSpec == D!Spec

=============================================================================
