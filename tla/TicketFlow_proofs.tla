-------------------------- MODULE TicketFlow_proofs --------------------------
(***************************************************************************)
(* Theorems about who gets in, for any tickets, users, flows, threads and  *)
(* connections. TicketFlow: tickets are decided as TicketDecision says.    *)
(* The argument is about rows: a row is sound when the steps below its     *)
(* level are approved by their assignees and the others wait, and a row    *)
(* that a request has written and not committed is one decision away from  *)
(* the committed row, which nobody else can change: the row lock keeps the *)
(* tickets of two requests apart. TicketSerial: the numbers of a day have  *)
(* no gap and no double. AuthGuard: no user is made under an undisturbed   *)
(* thread. AppletAccounts: an account is used by one connection where it   *)
(* should be.                                                              *)
(***************************************************************************)
EXTENDS TicketFlow, FiniteSetTheorems, SequenceTheorems, TLAPS

ApprovedAt(row, i) ==
    row.steps[i].state = "approved" /\ row.steps[i].by \in row.steps[i].assignees

WaitingAt(row, i) ==
    row.steps[i].state = "pending" /\ (i > row.level => row.steps[i].status = "pending")

\* What is true of the row of a ticket at any time.
SoundOpen(row) ==
    /\ row.state = "pending" /\ row.grant = NoGrant /\ row.level \in DOMAIN row.steps
    /\ \A i \in DOMAIN row.steps : IF i < row.level THEN ApprovedAt(row, i) ELSE WaitingAt(row, i)

SoundClosed(row) ==
    /\ row.state # "pending"
    /\ IF row.state = "approved"
         THEN row.grant = row.content /\ \A i \in DOMAIN row.steps : ApprovedAt(row, i)
         ELSE row.grant = NoGrant

Sound(row) ==
    /\ row \in Row
    /\ row.status = "absent" => row.steps = << >> /\ row.grant = NoGrant
    /\ row.status = "open" => SoundOpen(row)
    /\ row.status = "closed" => SoundClosed(row)

\* The abstract ticket of a row.
Approved(row) == {i \in DOMAIN row.steps : row.steps[i].state = "approved"}
TicketOfRow(row) ==
    [state |-> IF row.status = "absent" THEN "absent" ELSE row.state,
     levels |-> Len(row.steps), approvals |-> Cardinality(Approved(row)),
     effect |-> row.grant # NoGrant]

DecidedFrom(old, new) ==
    /\ old.status = "open" /\ Sound(new) /\ new.status # "absent"
    /\ D!Decision(TicketOfRow(old), TicketOfRow(new))

IInv ==
    /\ TypeOK
    /\ work = [r \in Request |-> work[r]]
    /\ \A t \in Ticket : Sound(db[t])
    /\ \A r \in Request : \A t \in req[r].todo : db[t].status # "absent"
    /\ \A r \in Request : \A t \in DOMAIN work[r] : DecidedFrom(db[t], work[r][t])
    /\ \A r, q \in Request : r # q => DOMAIN work[r] \cap DOMAIN work[q] = {}

-----------------------------------------------------------------------------
(* Rows.                                                                   *)

\* Abstract tickets, and updates of their fields.
AbstractTicket == [state : {"absent"} \cup States, levels : Nat, approvals : Nat, effect : BOOLEAN]

LEMMA SameFields ==
    ASSUME NEW x \in AbstractTicket, NEW y \in AbstractTicket,
           x.state = y.state, x.levels = y.levels, x.approvals = y.approvals, x.effect = y.effect
    PROVE  x = y
  BY DEF AbstractTicket

LEMMA ContentExists == (CHOOSE c \in Content : TRUE) \in Content
  BY ConstantsAssumption

LEMMA AbsentIsSound == Sound(AbsentRow) /\ TicketOfRow(AbsentRow) = D!Absent
  <1> DEFINE chosen == CHOOSE c \in Content : TRUE
  <1>1. chosen \in Content
    BY ContentExists
  <1> DEFINE step(i) == [state |-> "pending", status |-> "pending", by |-> NoUser,
                         assignees |-> << >>[i]]
             steps == [i \in DOMAIN << >> |-> step(i)]
  <1>3. << >> \in Seq(Step) /\ Len(<< >>) = 0 /\ DOMAIN << >> = {}
    BY EmptySeq, LenProperties
  <1>0. steps = << >>
    <2>1. steps = [i \in 1..0 |-> step(i)]
      BY <1>3
    <2>2. steps \in [1..0 -> Step] /\ steps \in Seq(Step)
      BY <2>1
    <2>3. Len(steps) = 0
      BY <2>2, LenProperties
    <2> QED
      BY <2>2, <2>3, EmptySeq
  <1>2. AbsentRow = [status |-> "absent", state |-> "pending", level |-> 1, content |-> chosen,
                     grant |-> NoGrant, steps |-> << >>]
    <2>1. NewRow(<< >>, chosen) = [status |-> "open", state |-> "pending", level |-> 1,
                                   content |-> chosen, grant |-> NoGrant, steps |-> steps]
      BY DEF NewRow
    <2> HIDE DEF chosen, step
    <2>2. [NewRow(<< >>, chosen) EXCEPT !.status = "absent"]
            = [status |-> "absent", state |-> "pending", level |-> 1, content |-> chosen,
               grant |-> NoGrant, steps |-> << >>]
      BY <1>0, <2>1
    <2> QED
      BY <2>2 DEF AbsentRow, chosen
  <1>4. AbsentRow \in Row
    BY <1>1, <1>2, <1>3 DEF Row, States
  <1>5. Approved(AbsentRow) = {}
    BY <1>2, <1>3 DEF Approved
  <1>6. Cardinality({}) = 0
    BY FS_EmptySet
  <1> QED
    BY <1>2, <1>3, <1>4, <1>5, <1>6 DEF Sound, TicketOfRow, D!Absent

\* A new ticket waits at its first step (open_by_system).
LEMMA NewIsSound ==
    ASSUME NEW flow \in Flow, NEW c \in Content
    PROVE  LET row == NewRow([i \in DOMAIN flow |-> exclude_applicant(flow[i])], c)
           IN  Sound(row) /\ row.status = "open" /\ D!Opened(D!Absent, TicketOfRow(row))
  <1> DEFINE given == [i \in DOMAIN flow |-> exclude_applicant(flow[i])]
             step(i) == [state |-> "pending", status |-> "pending", by |-> NoUser,
                         assignees |-> given[i]]
             row == NewRow(given, c)
             n == Len(flow)
  <1>1. flow \in Seq(SUBSET User) /\ flow # << >>
    BY ConstantsAssumption
  <1>2. n \in Nat \ {0} /\ DOMAIN flow = 1..n /\ \A i \in 1..n : flow[i] \in SUBSET User
    BY <1>1
  <1>3. \A i \in 1..n : given[i] \in SUBSET User
    BY <1>2 DEF exclude_applicant
  <1>4. DOMAIN given = 1..n
    BY <1>2
  <1>5. row = [status |-> "open", state |-> "pending", level |-> 1, content |-> c,
               grant |-> NoGrant, steps |-> [i \in 1..n |-> step(i)]]
    BY <1>4 DEF NewRow
  <1> HIDE DEF given
  <1>6. \A i \in 1..n : step(i) \in Step
    BY <1>3 DEF Step, States
  <1>7. row.steps \in Seq(Step) /\ Len(row.steps) = n /\ DOMAIN row.steps = 1..n
    BY <1>2, <1>5, <1>6
  <1>8. row \in Row
    BY <1>5, <1>7 DEF Row, States
  <1>9. SoundOpen(row)
    BY <1>2, <1>5, <1>7 DEF SoundOpen, WaitingAt
  <1>10. Approved(row) = {}
    BY <1>5, <1>7 DEF Approved
  <1>11. Cardinality({}) = 0
    BY FS_EmptySet
  <1> HIDE DEF row
  <1>12. TicketOfRow(row) = [state |-> "pending", levels |-> n, approvals |-> 0, effect |-> FALSE]
    <2>1. row.status # "absent" /\ row.state = "pending" /\ (row.grant # NoGrant) = FALSE
      BY <1>5
    <2>2. Len(row.steps) = n /\ Cardinality(Approved(row)) = 0
      BY <1>7, <1>10, <1>11
    <2> QED
      BY <2>1, <2>2, Zenon DEF TicketOfRow
  <1>13. D!Opened(D!Absent, TicketOfRow(row))
    <2>1. \A m \in Nat \ {0} :
            D!Opened(D!Absent, [state |-> "pending", levels |-> m, approvals |-> 0, effect |-> FALSE])
      <3> TAKE m \in Nat \ {0}
      <3> DEFINE new == [state |-> "pending", levels |-> m, approvals |-> 0, effect |-> FALSE]
      <3>1. new.levels = m
        OBVIOUS
      <3>2. new = [D!Absent EXCEPT !.state = "pending", !.levels = m]
        <4>1. new \in AbstractTicket /\ D!Absent \in AbstractTicket
          BY DEF AbstractTicket, D!Absent, States
        <4>2. [D!Absent EXCEPT !.state = "pending", !.levels = m] \in AbstractTicket
          BY <4>1 DEF AbstractTicket, States
        <4>3. D!Absent.approvals = 0 /\ D!Absent.effect = FALSE
          BY DEF D!Absent
        <4> QED
          BY <4>1, <4>2, <4>3, SameFields DEF AbstractTicket
      <3> QED
        BY <3>1, <3>2, Zenon DEF D!Opened
    <2> QED
      BY <1>2, <1>12, <2>1
  <1>14. Sound(row) /\ row.status = "open"
    BY <1>5, <1>8, <1>9 DEF Sound
  <1> QED
    BY <1>13, <1>14 DEF row, given

\* An open ticket has as many approvals as it has left steps behind.
LEMMA OpenApprovals ==
    ASSUME NEW row, Sound(row), row.status = "open"
    PROVE  /\ Approved(row) = 1..(row.level - 1)
           /\ row.level \in Nat \ {0} /\ row.level <= Len(row.steps)
           /\ Cardinality(Approved(row)) = row.level - 1
           /\ TicketOfRow(row) = [state |-> "pending", levels |-> Len(row.steps),
                                  approvals |-> row.level - 1, effect |-> FALSE]
  <1>1. row \in Row /\ SoundOpen(row)
    BY DEF Sound
  <1>2. row.steps \in Seq(Step) /\ DOMAIN row.steps = 1..Len(row.steps) /\ Len(row.steps) \in Nat
    BY <1>1 DEF Row
  <1>3. row.level \in 1..Len(row.steps)
    BY <1>1, <1>2 DEF SoundOpen
  <1>4. Approved(row) = 1..(row.level - 1)
    BY <1>1, <1>2, <1>3 DEF SoundOpen, Approved, ApprovedAt, WaitingAt
  <1>5. Cardinality(1..(row.level - 1)) = row.level - 1
    BY <1>3, FS_Interval
  <1>6. row.state = "pending" /\ row.grant = NoGrant
    BY <1>1 DEF SoundOpen
  <1> QED
    <2>1. TicketOfRow(row) = [state |-> "pending", levels |-> Len(row.steps),
                              approvals |-> row.level - 1, effect |-> FALSE]
      <3>1. row.status # "absent" /\ (row.grant # NoGrant) = FALSE
        BY <1>6
      <3>2. Cardinality(Approved(row)) = row.level - 1
        BY <1>4, <1>5
      <3> QED
        BY <1>6, <3>1, <3>2, Zenon DEF TicketOfRow
    <2> QED
      BY <1>2, <1>3, <1>4, <1>5, <2>1

-----------------------------------------------------------------------------
(* Decisions.                                                              *)

\* What is left of a row under the lock when a request decides it: another content
\* changes nothing that matters.
LEMMA ContentIsFree ==
    ASSUME NEW row, Sound(row), row.status = "open", NEW c \in Content
    PROVE  LET new == [row EXCEPT !.content = c]
           IN  Sound(new) /\ new.status = "open" /\ new.content = c
               /\ new.steps = row.steps /\ new.level = row.level
               /\ TicketOfRow(new) = TicketOfRow(row)
  <1> DEFINE new == [row EXCEPT !.content = c]
  <1>1. row \in Row /\ SoundOpen(row)
    BY DEF Sound
  <1>2. /\ new \in Row /\ new.status = "open" /\ new.state = "pending" /\ new.grant = NoGrant
        /\ new.steps = row.steps /\ new.level = row.level /\ new.content = c
    BY <1>1 DEF Row, SoundOpen
  <1> HIDE DEF new
  <1>3. SoundOpen(new)
    BY <1>1, <1>2 DEF SoundOpen, ApprovedAt, WaitingAt
  <1>4. Sound(new)
    BY <1>2, <1>3 DEF Sound
  <1>5. TicketOfRow(new) = TicketOfRow(row)
    BY <1>2, <1>4, OpenApprovals
  <1> QED
    BY <1>2, <1>4, <1>5 DEF new

\* The step at the level takes its outcome, the others stay (change_step).
LEMMA StepChanges ==
    ASSUME NEW row, Sound(row), row.status = "open", NEW u \in User,
           NEW s \in {"approved", "rejected", "closed"}
    PROVE  LET new == change_step(row, s, u)
           IN  /\ new \in Row /\ DOMAIN new.steps = DOMAIN row.steps /\ Len(new.steps) = Len(row.steps)
               /\ new.status = "open" /\ new.state = "pending" /\ new.grant = NoGrant
               /\ new.level = row.level /\ new.content = row.content
               /\ \A i \in DOMAIN row.steps : i # row.level => new.steps[i] = row.steps[i]
               /\ new.steps[row.level].state = s
               /\ new.steps[row.level].assignees = row.steps[row.level].assignees
               /\ s = "approved" => new.steps[row.level].by = u
  <1> DEFINE new == change_step(row, s, u)
             old == row.steps[row.level]
             step == [old EXCEPT !.state = s, !.status = "closed", !.by = IF s = "closed" THEN @ ELSE u]
  <1>1. row \in Row /\ SoundOpen(row)
    BY DEF Sound
  <1>2. row.steps \in Seq(Step) /\ row.level \in 1..Len(row.steps)
    BY <1>1 DEF Row, SoundOpen
  <1>3. old \in Step
    BY <1>2
  <1>4. /\ step \in Step /\ step.state = s /\ step.assignees = old.assignees
        /\ s = "approved" => step.by = u
    BY <1>3 DEF Step, States
  <1>5. new = [row EXCEPT !.steps = [row.steps EXCEPT ![row.level] = step]]
    BY <1>1, <1>2, <1>3, ZenonT(60) DEF change_step, Row, Step
  <1> HIDE DEF step, new, old
  <1>6. [row.steps EXCEPT ![row.level] = step] \in Seq(Step)
    BY <1>2, <1>4
  <1>7. /\ new \in Row /\ new.steps = [row.steps EXCEPT ![row.level] = step]
        /\ new.status = "open" /\ new.state = "pending" /\ new.grant = NoGrant
        /\ new.level = row.level /\ new.content = row.content
    BY <1>1, <1>5, <1>6 DEF Row, SoundOpen
  <1>8. DOMAIN new.steps = DOMAIN row.steps /\ Len(new.steps) = Len(row.steps)
    BY <1>2, <1>4, <1>7
  <1> QED
    BY <1>2, <1>4, <1>7, <1>8 DEF new, old

\* The decisions of TicketDecision on an open ticket, spelled out.
LEMMA AbstractDecisions ==
    ASSUME NEW l \in Nat, NEW a \in Nat, a < l, NEW s \in {"rejected", "closed"}
    PROVE  LET open == [state |-> "pending", levels |-> l, approvals |-> a, effect |-> FALSE]
           IN  /\ a + 1 < l => D!Decision(open, [state |-> "pending", levels |-> l,
                                                approvals |-> a + 1, effect |-> FALSE])
               /\ a + 1 = l => D!Decision(open, [state |-> "approved", levels |-> l,
                                                approvals |-> a + 1, effect |-> TRUE])
               /\ D!Decision(open, [state |-> s, levels |-> l, approvals |-> a, effect |-> FALSE])
  <1> DEFINE open == [state |-> "pending", levels |-> l, approvals |-> a, effect |-> FALSE]
             next == [state |-> "pending", levels |-> l, approvals |-> a + 1, effect |-> FALSE]
             last == [state |-> "approved", levels |-> l, approvals |-> a + 1, effect |-> TRUE]
             ended == [state |-> s, levels |-> l, approvals |-> a, effect |-> FALSE]
  <1>1. {open, next, last, ended} \subseteq AbstractTicket
    BY DEF AbstractTicket, States
  <1>5. /\ open.state = "pending" /\ open.approvals = a /\ open.levels = l /\ open.effect = FALSE
        /\ next.state = "pending" /\ next.approvals = a + 1 /\ next.levels = l /\ next.effect = FALSE
        /\ last.state = "approved" /\ last.approvals = a + 1 /\ last.levels = l /\ last.effect = TRUE
        /\ ended.state = s /\ ended.approvals = a /\ ended.levels = l /\ ended.effect = FALSE
    OBVIOUS
  <1> HIDE DEF open, next, last, ended
  <1>2. next = [open EXCEPT !.approvals = @ + 1]
    BY <1>1, <1>5, SameFields DEF AbstractTicket
  <1>3. last = [open EXCEPT !.approvals = @ + 1, !.state = "approved", !.effect = TRUE]
    BY <1>1, <1>5, SameFields DEF AbstractTicket
  <1>4. ended = [open EXCEPT !.state = ended.state]
    BY <1>1, <1>5, SameFields DEF AbstractTicket
  <1>6. a + 1 < l => D!Decision(open, next)
    BY <1>2, <1>5 DEF D!Decision, D!StepApproved
  <1>7. a + 1 = l => D!Decision(open, last)
    BY <1>3, <1>5 DEF D!Decision, D!LastApproved
  <1>8. D!Decision(open, ended)
    BY <1>4, <1>5 DEF D!Decision, D!Ended
  <1> QED
    BY <1>6, <1>7, <1>8 DEF open, next, last, ended

\* A request that passes the checks under the lock decides the row (change_state).
LEMMA DecidedRow ==
    ASSUME NEW row, Sound(row), row.status = "open", NEW u \in User,
           NEW s \in {"approved", "rejected", "closed"},
           s = "approved" => has_current_assignee(row, u)
    PROVE  DecidedFrom(row, change_state(row, s, u))
  <1> DEFINE mid == change_step(row, s, u)
             new == change_state(row, s, u)
             n == Len(row.steps)
  <1>1. row \in Row /\ SoundOpen(row)
    BY DEF Sound
  <1>2. /\ row.steps \in Seq(Step) /\ DOMAIN row.steps = 1..n /\ n \in Nat
        /\ row.level \in 1..n
    BY <1>1 DEF Row, SoundOpen
  <1>3. /\ mid \in Row /\ DOMAIN mid.steps = 1..n /\ Len(mid.steps) = n
        /\ mid.status = "open" /\ mid.state = "pending" /\ mid.grant = NoGrant
        /\ mid.level = row.level
        /\ \A i \in 1..n : i # row.level => mid.steps[i] = row.steps[i]
        /\ mid.steps[row.level].state = s
        /\ mid.steps[row.level].assignees = row.steps[row.level].assignees
        /\ s = "approved" => mid.steps[row.level].by = u
    BY <1>2, StepChanges, SMTT(60)
  <1>4. new = finish_or_next(mid, s)
    BY DEF change_state
  <1>5. TicketOfRow(row) = [state |-> "pending", levels |-> n, approvals |-> row.level - 1, effect |-> FALSE]
    BY OpenApprovals
  <1>6. s = "approved" => ApprovedAt(mid, row.level)
    BY <1>1, <1>2, <1>3 DEF has_current_assignee, ApprovedAt
  <1>7. \A i \in 1..n : /\ i < row.level => ApprovedAt(mid, i)
                        /\ i > row.level => WaitingAt(mid, i) /\ mid.steps[i].status = "pending"
    BY <1>1, <1>2, <1>3 DEF SoundOpen, ApprovedAt, WaitingAt
  <1> HIDE DEF mid, new, n
  <1>8. CASE s \in {"rejected", "closed"}
    <2>1. new = [mid EXCEPT !.state = s, !.status = "closed", !.grant = mid.grant]
      BY <1>4, <1>8 DEF finish_or_next
    <2>2. /\ new \in Row /\ new.steps = mid.steps /\ new.state = s /\ new.status = "closed"
          /\ new.grant = NoGrant
      BY <1>3, <1>8, <2>1 DEF Row, States
    <2>3. Sound(new)
      BY <1>8, <2>2 DEF Sound, SoundClosed
    <2>4. Approved(new) = 1..(row.level - 1)
      <3>1. \A i \in 1..n : mid.steps[i].state = "approved" <=> i < row.level
        <4> TAKE i \in 1..n
        <4>1. i < row.level => mid.steps[i].state = "approved"
          BY <1>7 DEF ApprovedAt
        <4>2. i > row.level => mid.steps[i].state = "pending"
          BY <1>7 DEF WaitingAt
        <4>3. i = row.level => mid.steps[i].state # "approved"
          BY <1>3, <1>8
        <4> QED
          BY <1>2, <4>1, <4>2, <4>3
      <3>2. Approved(new) = {i \in 1..n : mid.steps[i].state = "approved"}
        BY <1>3, <2>2 DEF Approved
      <3> QED
        BY <1>2, <3>1, <3>2
    <2>5. Cardinality(Approved(new)) = row.level - 1
      BY <1>2, <2>4, FS_Interval
    <2>6. TicketOfRow(new) = [state |-> s, levels |-> n, approvals |-> row.level - 1, effect |-> FALSE]
      <3>1. new.status # "absent" /\ (new.grant # NoGrant) = FALSE /\ Len(new.steps) = n
        BY <1>3, <2>2
      <3> QED
        BY <2>2, <2>5, <3>1, Zenon DEF TicketOfRow
    <2>7. D!Decision(TicketOfRow(row), TicketOfRow(new))
      <3>1. row.level - 1 \in Nat /\ row.level - 1 < n
        BY <1>2
      <3> QED
        BY <1>2, <1>5, <1>8, <2>6, <3>1, AbstractDecisions
    <2> QED
      BY <2>2, <2>3, <2>7 DEF DecidedFrom, new
  <1>9. CASE s = "approved" /\ row.level = n
    <2>1. ~has_next(mid)
      BY <1>2, <1>3, <1>9 DEF has_next
    <2>2. new = [mid EXCEPT !.state = s, !.status = "closed", !.grant = mid.content]
      BY <1>4, <1>9, <2>1 DEF finish_or_next
    <2>3. /\ new \in Row /\ new.steps = mid.steps /\ new.state = "approved" /\ new.status = "closed"
          /\ new.grant = new.content /\ new.content \in Content
      BY <1>3, <1>9, <2>2 DEF Row, States
    <2>4. \A i \in 1..n : ApprovedAt(new, i)
      <3>1. \A i \in 1..n : ApprovedAt(mid, i)
        <4> TAKE i \in 1..n
        <4>1. i < row.level \/ i = row.level
          BY <1>2, <1>9
        <4> QED
          BY <1>6, <1>7, <1>9, <4>1
      <3> QED
        BY <2>3, <3>1 DEF ApprovedAt
    <2>5. Sound(new)
      BY <1>3, <2>3, <2>4 DEF Sound, SoundClosed
    <2>6. Approved(new) = 1..n
      BY <1>3, <2>3, <2>4 DEF Approved, ApprovedAt
    <2>7. Cardinality(Approved(new)) = n /\ n = row.level - 1 + 1
      BY <1>2, <1>9, <2>6, FS_Interval
    <2>8. TicketOfRow(new) = [state |-> "approved", levels |-> n, approvals |-> n, effect |-> TRUE]
      <3>1. new.status # "absent" /\ (new.grant # NoGrant) = TRUE /\ Len(new.steps) = n
        BY <1>3, <2>3, ConstantsAssumption
      <3> QED
        BY <2>3, <2>7, <3>1, Zenon DEF TicketOfRow
    <2>9. D!Decision(TicketOfRow(row), TicketOfRow(new))
      <3>1. row.level - 1 \in Nat /\ row.level - 1 < n
        BY <1>2
      <3> QED
        BY <1>2, <1>5, <2>7, <2>8, <3>1, AbstractDecisions
    <2> QED
      BY <2>3, <2>5, <2>9 DEF DecidedFrom, new
  <1>10. CASE s = "approved" /\ row.level # n
    <2> DEFINE l == row.level + 1
    <2>0. l \in 1..n /\ row.level < l /\ l - 1 = row.level
      BY <1>2, <1>10
    <2>1. has_next(mid)
      BY <1>3, <1>7, <2>0 DEF has_next
    <2>2. new = [mid EXCEPT !.steps[mid.level + 1].status = "active", !.level = mid.level + 1]
      BY <1>4, <1>10, <2>1 DEF finish_or_next
    <2>3. mid.steps \in Seq(Step) /\ mid.steps[l] \in Step
      BY <1>3, <2>0 DEF Row
    <2> DEFINE step == [mid.steps[l] EXCEPT !.status = "active"]
               steps == [mid.steps EXCEPT ![l] = step]
    <2>12. /\ step \in Step /\ step.state = mid.steps[l].state /\ step.by = mid.steps[l].by
           /\ step.assignees = mid.steps[l].assignees
      BY <2>3 DEF Step
    <2> HIDE DEF step
    <2>13. \A i \in 1..n : steps[i] = IF i = l THEN step ELSE mid.steps[i]
      BY <1>3, <2>0, <2>3
    <2>4. /\ steps \in Seq(Step) /\ DOMAIN steps = 1..n /\ Len(steps) = n
          /\ \A i \in 1..n : /\ steps[i].state = mid.steps[i].state /\ steps[i].by = mid.steps[i].by
                             /\ steps[i].assignees = mid.steps[i].assignees
                             /\ i > l => steps[i].status = mid.steps[i].status
      BY <1>3, <2>0, <2>3, <2>12, <2>13
    <2> HIDE DEF steps, l
    <2>5. new = [mid EXCEPT !.steps = steps, !.level = l]
      BY <1>3, <2>2 DEF steps, step, l
    <2>6. /\ new \in Row /\ new.steps = steps /\ new.level = l /\ new.status = "open"
          /\ new.state = "pending" /\ new.grant = NoGrant
      <3>1. l \in Nat /\ steps \in Seq(Step)
        BY <1>2, <2>0, <2>4
      <3>2. new \in Row
        BY <1>3, <2>5, <3>1 DEF Row
      <3> QED
        BY <1>3, <2>5, <3>2 DEF Row
    <2>7. \A i \in 1..n : IF i < l THEN ApprovedAt(new, i) ELSE WaitingAt(new, i)
      <3> TAKE i \in 1..n
      <3>1. CASE i = row.level
        <4>1. i < l
          BY <2>0, <3>1
        <4> QED
          BY <1>6, <1>10, <2>4, <2>6, <3>1, <4>1 DEF ApprovedAt
      <3>2. CASE i < row.level
        <4>1. i < l /\ ApprovedAt(mid, i)
          BY <1>2, <1>7, <2>0, <3>2 DEF ApprovedAt
        <4> QED
          BY <2>4, <2>6, <4>1 DEF ApprovedAt
      <3>3. CASE i > row.level
        <4>1. ~(i < l) /\ mid.steps[i].state = "pending" /\ mid.steps[i].status = "pending"
          BY <1>2, <1>7, <2>0, <3>3 DEF WaitingAt
        <4> QED
          BY <2>4, <2>6, <4>1 DEF WaitingAt
      <3> QED
        BY <1>2, <3>1, <3>2, <3>3
    <2>8. Sound(new)
      BY <2>0, <2>4, <2>6, <2>7 DEF Sound, SoundOpen
    <2>9. TicketOfRow(new) = [state |-> "pending", levels |-> n, approvals |-> row.level, effect |-> FALSE]
      BY <2>0, <2>4, <2>6, <2>8, OpenApprovals
    <2>10. row.level - 1 \in Nat /\ row.level - 1 < n /\ row.level - 1 + 1 = row.level /\ row.level < n
      BY <1>2, <1>10
    <2>11. D!Decision(TicketOfRow(row), TicketOfRow(new))
      BY <1>2, <1>5, <2>9, <2>10, AbstractDecisions
    <2> QED
      BY <2>6, <2>8, <2>11 DEF DecidedFrom, new
  <1> QED
    BY <1>8, <1>9, <1>10

-----------------------------------------------------------------------------
(* The invariant.                                                          *)

\* Two requests never hold the rows of one ticket.
LEMMA RowsAreApart ==
    ASSUME IInv, NEW r \in Request, NEW q \in Request, NEW t \in DOMAIN work[r], t \in DOMAIN work[q]
    PROVE  r = q
  BY DEF IInv

LEMMA InitHolds == Init => IInv
  <1> SUFFICES ASSUME Init PROVE IInv
    OBVIOUS
  <1>1. AbsentRow \in Row /\ Sound(AbsentRow)
    BY AbsentIsSound DEF Sound
  <1>2. Idle \in [pc : {"idle", "received", "read", "done", "part", "refused", "dead"},
                  via : Vias, act : {"approve", "reject", "close"}, user : User,
                  todo : SUBSET Ticket, seen : [Ticket -> Row], did : SUBSET Ticket]
    BY <1>1, ConstantsAssumption DEF Idle, Vias
  <1>3. \A r \in Request : work[r] = << >> /\ DOMAIN << >> = {}
    BY EmptySeq, LenProperties DEF Init
  <1>4. TypeOK
    BY <1>1, <1>2, <1>3 DEF Init, TypeOK
  <1>5. work = [r \in Request |-> work[r]]
    BY DEF Init
  <1>6. \A t \in Ticket : Sound(db[t])
    BY <1>1 DEF Init
  <1>7. \A r \in Request : req[r].todo = {}
    BY DEF Init, Idle
  <1> QED
    BY <1>3, <1>4, <1>5, <1>6, <1>7 DEF IInv

\* Requests, as far as the rows do not matter.
ReqType == [pc : {"idle", "received", "read", "done", "part", "refused", "dead"},
            via : Vias, act : {"approve", "reject", "close"}, user : User,
            todo : SUBSET Ticket, seen : [Ticket -> Row], did : SUBSET Ticket]

LEMMA FinishedType ==
    ASSUME TypeOK, NEW r \in Request, NEW how \in {"done", "part", "refused", "dead"},
           NEW decided \in SUBSET Ticket
    PROVE  /\ Finished(r, how, decided) \in [Request -> ReqType]
           /\ \A q \in Request : Finished(r, how, decided)[q].todo \subseteq req[q].todo
  <1>1. AbsentRow \in Row
    BY AbsentIsSound DEF Sound
  <1>2. Idle.seen \in [Ticket -> Row]
    BY <1>1 DEF Idle
  <1> DEFINE ended == [req[r] EXCEPT !.pc = how, !.did = decided, !.todo = {}, !.seen = Idle.seen]
  <1>3. req \in [Request -> ReqType]
    BY DEF TypeOK, ReqType
  <1>4. ended \in ReqType
    BY <1>2, <1>3, ZenonT(60) DEF ReqType
  <1>5. Finished(r, how, decided) = [req EXCEPT ![r] = ended]
    BY DEF Finished
  <1>6. ended.todo = {}
    BY <1>3 DEF ReqType
  <1> HIDE DEF ended
  <1> QED
    BY <1>3, <1>4, <1>5, <1>6

\* A request that gives up its rows.
LEMMA RowsDropped ==
    ASSUME IInv, NEW r \in Request, work' = [work EXCEPT ![r] = << >>], UNCHANGED db,
           req' \in [Request -> ReqType],
           \A q \in Request : req'[q].todo \subseteq req[q].todo
    PROVE  IInv'
  <1>1. DOMAIN << >> = {}
    BY EmptySeq, LenProperties
  <1>2. \A q \in Request : work'[q] = IF q = r THEN << >> ELSE work[q]
    BY DEF IInv
  <1>3. \A q \in Request : DOMAIN work'[q] \subseteq DOMAIN work[q]
                         /\ \A t \in DOMAIN work'[q] : work'[q][t] = work[q][t]
    BY <1>1, <1>2
  <1>4. work' = [q \in Request |-> work'[q]]
    BY DEF IInv
  <1>5. TypeOK'
    BY <1>3 DEF IInv, TypeOK, ReqType
  <1>6. \A q \in Request : \A t \in DOMAIN work'[q] : DecidedFrom(db'[t], work'[q][t])
    BY <1>3 DEF IInv
  <1>7. \A p, q \in Request : p # q => DOMAIN work'[p] \cap DOMAIN work'[q] = {}
    BY <1>3 DEF IInv
  <1> QED
    BY <1>4, <1>5, <1>6, <1>7 DEF IInv

\* A request that only moves on.
LEMMA RowsKept ==
    ASSUME IInv, UNCHANGED <<db, work>>, req' \in [Request -> ReqType],
           \A q \in Request : \A t \in req'[q].todo : db[t].status # "absent"
    PROVE  IInv'
  BY DEF IInv, TypeOK, ReqType

LEMMA OpenKeeps ==
    ASSUME IInv, NEW t \in Ticket, Open(t)
    PROVE  IInv' /\ D!Decision(TicketOfRow(db[t]), TicketOfRow(db'[t]))
           /\ \A o \in Ticket \ {t} : db'[o] = db[o]
  <1>1. PICK flow \in Flow, c \in Content :
          db' = [db EXCEPT ![t] = NewRow([i \in DOMAIN flow |-> exclude_applicant(flow[i])], c)]
    BY DEF Open
  <1> DEFINE new == NewRow([i \in DOMAIN flow |-> exclude_applicant(flow[i])], c)
  <1>2. Sound(new) /\ D!Opened(D!Absent, TicketOfRow(new)) /\ new \in Row
    BY NewIsSound DEF Sound
  <1>3. db'[t] = new /\ \A o \in Ticket \ {t} : db'[o] = db[o]
    BY <1>1 DEF IInv, TypeOK
  <1> HIDE DEF new
  <1>4. db[t].status = "absent" /\ Sound(db[t]) /\ UNCHANGED <<req, work>>
    BY DEF Open, IInv
  <1>5. TicketOfRow(db[t]) = D!Absent
    <2>1. db[t].steps = << >> /\ (db[t].grant # NoGrant) = FALSE
      BY <1>4 DEF Sound
    <2>2. Approved(db[t]) = {} /\ Len(db[t].steps) = 0
      BY <2>1, EmptySeq, LenProperties DEF Approved
    <2>3. Cardinality(Approved(db[t])) = 0
      BY <2>2, FS_EmptySet
    <2> QED
      BY <1>4, <2>1, <2>2, <2>3, Zenon DEF TicketOfRow, D!Absent
  <1>6. TypeOK'
    <2>1. db' \in [Ticket -> Row]
      BY <1>1, <1>2 DEF IInv, TypeOK, new
    <2> QED
      BY <1>4, <2>1 DEF IInv, TypeOK
  <1>7. \A r \in Request : t \notin DOMAIN work[r]
    BY <1>4 DEF IInv, DecidedFrom
  <1>8. IInv'
    <2>1. \A o \in Ticket : Sound(db'[o])
      BY <1>2, <1>3 DEF IInv
    <2>2. \A r \in Request : \A o \in DOMAIN work[r] : o \in Ticket /\ db'[o] = db[o]
      BY <1>3, <1>7 DEF IInv, TypeOK
    <2>3. \A r \in Request : \A o \in DOMAIN work'[r] : DecidedFrom(db'[o], work'[r][o])
      BY <1>4, <2>2 DEF IInv
    <2>4. \A r \in Request : \A o \in req'[r].todo : o \in Ticket /\ db[o].status # "absent"
      BY <1>4 DEF IInv, TypeOK
    <2>5. \A r \in Request : \A o \in req'[r].todo : db'[o].status # "absent"
      BY <1>3, <1>4, <2>4
    <2> QED
      BY <1>4, <1>6, <2>1, <2>3, <2>5 DEF IInv
  <1>9. D!Decision(TicketOfRow(db[t]), TicketOfRow(db'[t]))
    BY <1>2, <1>3, <1>5 DEF D!Decision
  <1> QED
    BY <1>3, <1>8, <1>9

LEMMA ReceiveKeeps ==
    ASSUME IInv, NEW r \in Request, Receive(r)
    PROVE  IInv'
  <1>1. PICK via \in Vias, act \in {"approve", "reject", "close"}, u \in User,
             todo \in SUBSET {t \in Ticket : db[t].status # "absent"} :
          /\ Allowed(via, act)
          /\ todo # {} /\ (via # "bulk" => Cardinality(todo) = 1)
          /\ req' = [req EXCEPT ![r].pc = "received", ![r].via = via, ![r].act = act,
                                ![r].user = u, ![r].todo = todo]
    BY Zenon DEF Receive
  <1> DEFINE new == [req[r] EXCEPT !.pc = "received", !.via = via, !.act = act,
                                   !.user = u, !.todo = todo]
  <1>2. req' = [req EXCEPT ![r] = new]
    BY <1>1
  <1>3. req \in [Request -> ReqType]
    BY DEF IInv, TypeOK, ReqType
  <1>4. new \in ReqType /\ new.todo = todo
    BY <1>3, ZenonT(60) DEF ReqType
  <1> HIDE DEF new
  <1>5. req' \in [Request -> ReqType]
    BY <1>2, <1>3, <1>4
  <1>6. \A q \in Request : \A t \in req'[q].todo : db[t].status # "absent"
    BY <1>2, <1>3, <1>4 DEF IInv
  <1> QED
    BY <1>5, <1>6, RowsKept DEF Receive

LEMMA ReadKeeps ==
    ASSUME IInv, NEW r \in Request, Read(r)
    PROVE  IInv'
  <1> DEFINE q == req[r]
             found == IF q.via = "bulk"
                        THEN {t \in q.todo : db[t].state = "pending" /\ Related(t, q.user)}
                        ELSE {t \in q.todo : MayAct(r, db[t])}
             how == IF found # {} THEN "read" ELSE IF q.via = "bulk" THEN "done" ELSE "refused"
             seen == [t \in Ticket |-> IF t \in found THEN db[t] ELSE q.seen[t]]
             new == [q EXCEPT !.pc = how, !.todo = found, !.seen = seen]
  <1>1. q \in ReqType /\ req \in [Request -> ReqType] /\ db \in [Ticket -> Row]
    BY SMTT(60) DEF IInv, TypeOK, ReqType
  <1>2. req' = [req EXCEPT ![r] = new] /\ UNCHANGED <<db, work>>
    BY DEF Read
  <1>3. found \subseteq Ticket
    BY <1>1 DEF ReqType
  <1>4. seen \in [Ticket -> Row]
    BY <1>1 DEF ReqType
  <1>5. how \in {"read", "done", "refused"}
    OBVIOUS
  <1> HIDE DEF found, how, seen
  <1>6. new \in ReqType
    BY <1>1, <1>3, <1>4, <1>5 DEF ReqType
  <1>7. new.todo = found /\ found \subseteq q.todo
    BY <1>1 DEF ReqType, found
  <1> HIDE DEF new
  <1>8. \A p \in Request : \A t \in req'[p].todo : db[t].status # "absent"
    BY <1>1, <1>2, <1>7 DEF IInv
  <1> QED
    BY <1>1, <1>2, <1>6, <1>8, RowsKept

\* A decision writes a row that is one decision away, under the lock of the ticket.
LEMMA DecideKeeps ==
    ASSUME IInv, NEW r \in Request, NEW t \in Ticket, Decide(r, t)
    PROVE  IInv'
  <1> DEFINE q == req[r]
             s == Outcome(q.act)
  <1>1. q \in ReqType /\ req \in [Request -> ReqType] /\ Sound(db[t]) /\ db[t] \in Row
    BY DEF IInv, TypeOK, ReqType, Sound
  <1>2. PICK c \in Applied(r, t) :
          work' = [work EXCEPT ![r] =
                     [o \in DOMAIN work[r] \cup {t} |->
                        IF o = t THEN change_state([db[t] EXCEPT !.content = c], s, q.user)
                                 ELSE work[r][o]]]
    BY DEF Decide, Locked
  <1>3. c \in Content
    BY <1>1 DEF Applied, Locked, Row
  <1> DEFINE row == [db[t] EXCEPT !.content = c]
             new == change_state(row, s, q.user)
  <1>4. db[t].status = "open"
    <2>1. t \in q.todo /\ q.pc = "read" /\ db[t].status # "closed"
      BY DEF Decide, Turn, Conflict, Locked
    <2>2. db[t].status # "absent"
      BY <2>1 DEF IInv
    <2> QED
      BY <1>1, <2>1, <2>2 DEF Row
  <1>5. /\ Sound(row) /\ row.status = "open" /\ TicketOfRow(row) = TicketOfRow(db[t])
        /\ row.steps = db[t].steps /\ row.level = db[t].level
    BY <1>1, <1>3, <1>4, ContentIsFree
  <1>6. s \in {"approved", "rejected", "closed"} /\ q.user \in User
    BY <1>1 DEF Outcome, ReqType
  <1>7. s = "approved" => has_current_assignee(row, q.user)
    <2>1. s = "approved" => q.act = "approve"
      BY <1>1 DEF Outcome, ReqType
    <2>2. q.act = "approve" => has_current_assignee(db[t], q.user)
      BY DEF Decide, Conflict, Locked
    <2> QED
      BY <1>5, <2>1, <2>2 DEF has_current_assignee
  <1> HIDE DEF s, row
  <1>8. DecidedFrom(db[t], new)
    <2>1. DecidedFrom(row, new)
      BY <1>5, <1>6, <1>7, DecidedRow
    <2> QED
      BY <1>4, <1>5, <2>1 DEF DecidedFrom
  <1>9. work' = [work EXCEPT ![r] = [o \in DOMAIN work[r] \cup {t} |-> IF o = t THEN new ELSE work[r][o]]]
    BY <1>2 DEF row, s
  <1> HIDE DEF new
  <1>10. /\ work' = [p \in Request |-> work'[p]]
         /\ DOMAIN work'[r] = DOMAIN work[r] \cup {t}
         /\ \A o \in DOMAIN work'[r] : work'[r][o] = IF o = t THEN new ELSE work[r][o]
         /\ \A p \in Request \ {r} : work'[p] = work[p]
    BY <1>9 DEF IInv
  <1>11. \A p \in Request \ {r} : t \notin DOMAIN work[p]
    BY DEF Decide, LockFree
  <1>12. /\ req' \in [Request -> ReqType]
         /\ \A p \in Request : req'[p].todo \subseteq req[p].todo
    <2>1. req' = [req EXCEPT ![r] = [q EXCEPT !.todo = q.todo \ {t}]]
      BY DEF Decide
    <2>2. [q EXCEPT !.todo = q.todo \ {t}] \in ReqType /\ [q EXCEPT !.todo = q.todo \ {t}].todo \subseteq q.todo
      BY <1>1 DEF ReqType
    <2> QED
      BY <1>1, <2>1, <2>2
  <1>13. db' = db
    BY DEF Decide
  <1>14. TypeOK'
    <2>1. \A p \in Request : DOMAIN work'[p] \subseteq Ticket
      BY <1>10, SMTT(60) DEF IInv, TypeOK
    <2> QED
      BY <1>12, <1>13, <2>1 DEF IInv, TypeOK, ReqType
  <1>15. \A p \in Request : \A o \in DOMAIN work'[p] : DecidedFrom(db'[o], work'[p][o])
    BY <1>8, <1>10, <1>13 DEF IInv
  <1>16. \A p, o \in Request : p # o => DOMAIN work'[p] \cap DOMAIN work'[o] = {}
    BY <1>10, <1>11 DEF IInv
  <1>17. \A p \in Request : \A o \in req'[p].todo : db'[o].status # "absent"
    BY <1>12, <1>13 DEF IInv
  <1> QED
    BY <1>10, <1>13, <1>14, <1>15, <1>16, <1>17 DEF IInv

LEMMA RefuseKeeps ==
    ASSUME IInv, NEW r \in Request, Die(r) \/ \E t \in Ticket : Refuse(r, t)
    PROVE  IInv' /\ UNCHANGED db
  <1>1. /\ req' = Finished(r, "dead", {}) \/ req' = Finished(r, "refused", {})
        /\ work' = [work EXCEPT ![r] = << >>] /\ UNCHANGED db
    BY DEF Die, Refuse
  <1>2. /\ req' \in [Request -> ReqType]
        /\ \A q \in Request : req'[q].todo \subseteq req[q].todo
    BY <1>1, FinishedType DEF IInv
  <1> QED
    BY <1>1, <1>2, RowsDropped

\* The rows a request wrote become the committed ones, each one decision further.
LEMMA CommitKeeps ==
    ASSUME IInv, NEW r \in Request, Commit(r)
    PROVE  IInv' /\ \A t \in Ticket : IF t \in DOMAIN work[r]
                      THEN db[t].status = "open" /\ D!Decision(TicketOfRow(db[t]), TicketOfRow(db'[t]))
                      ELSE db'[t] = db[t]
  <1>1. /\ db' = [t \in Ticket |-> IF t \in DOMAIN work[r] THEN work[r][t] ELSE db[t]]
        /\ work' = [work EXCEPT ![r] = << >>]
        /\ req' = Finished(r, IF req[r].todo = {} THEN "done" ELSE "part", DOMAIN work[r])
    BY DEF Commit
  <1>2. DOMAIN work[r] \subseteq Ticket
    BY DEF IInv, TypeOK
  <1>3. /\ req' \in [Request -> ReqType]
        /\ \A q \in Request : req'[q].todo \subseteq req[q].todo
    BY <1>1, <1>2, FinishedType DEF IInv
  <1>4. \A t \in Ticket : IF t \in DOMAIN work[r] THEN DecidedFrom(db[t], db'[t]) ELSE db'[t] = db[t]
    BY <1>1 DEF IInv
  <1>5. \A t \in Ticket : Sound(db'[t]) /\ db'[t] \in Row /\ (db[t].status # "absent" => db'[t].status # "absent")
    BY <1>4 DEF DecidedFrom, IInv, Sound
  <1>6. DOMAIN << >> = {}
    BY EmptySeq, LenProperties
  <1>7. \A q \in Request : work'[q] = IF q = r THEN << >> ELSE work[q]
    BY <1>1 DEF IInv
  <1>8. work' = [q \in Request |-> work'[q]]
    BY <1>1 DEF IInv
  <1>9. TypeOK'
    <2>1. db' \in [Ticket -> Row]
      BY <1>1, <1>5
    <2>2. \A q \in Request : DOMAIN work'[q] \subseteq Ticket
      BY <1>6, <1>7 DEF IInv, TypeOK
    <2> QED
      BY <1>3, <2>1, <2>2 DEF TypeOK, ReqType
  <1>10. \A q \in Request : \A t \in DOMAIN work'[q] : DecidedFrom(db'[t], work'[q][t])
    <2> SUFFICES ASSUME NEW q \in Request, NEW t \in DOMAIN work'[q]
                 PROVE  DecidedFrom(db'[t], work'[q][t])
      OBVIOUS
    <2>1. q # r /\ work'[q] = work[q] /\ t \in DOMAIN work[q] /\ t \notin DOMAIN work[r] /\ t \in Ticket
      BY <1>6, <1>7 DEF IInv, TypeOK
    <2> QED
      BY <1>4, <2>1 DEF IInv
  <1>11. \A p, q \in Request : p # q => DOMAIN work'[p] \cap DOMAIN work'[q] = {}
    BY <1>6, <1>7 DEF IInv
  <1>12. \A q \in Request : \A t \in req'[q].todo : db'[t].status # "absent"
    <2> SUFFICES ASSUME NEW q \in Request, NEW t \in req'[q].todo
                 PROVE  db'[t].status # "absent"
      OBVIOUS
    <2>1. t \in req[q].todo /\ t \in Ticket /\ db[t].status # "absent"
      BY <1>3 DEF IInv, TypeOK
    <2> QED
      BY <1>5, <2>1
  <1> QED
    BY <1>4, <1>5, <1>8, <1>9, <1>10, <1>11, <1>12 DEF IInv, DecidedFrom

-----------------------------------------------------------------------------
(* The theorems.                                                           *)

\* What a step does to the tickets.
Forward == \A t \in Ticket :
    \/ db'[t] = db[t]
    \/ db[t].status # "closed" /\ D!Decision(TicketOfRow(db[t]), TicketOfRow(db'[t]))

LEMMA StepKeeps ==
    ASSUME IInv, [Next]_vars
    PROVE  IInv' /\ Forward
  <1>1. ASSUME NEW t \in Ticket, Open(t)
        PROVE  IInv' /\ Forward
    <2>1. db[t].status # "closed"
      BY <1>1 DEF Open
    <2> QED
      BY <1>1, <2>1, OpenKeeps DEF Forward
  <1>2. ASSUME NEW r \in Request, Receive(r) \/ Read(r) \/ \E t \in Ticket : Decide(r, t)
        PROVE  IInv' /\ Forward
    <2>1. UNCHANGED db
      BY <1>2, ZenonT(60) DEF Receive, Read, Decide
    <2> QED
      BY <1>2, <2>1, ReceiveKeeps, ReadKeeps, DecideKeeps, SMTT(60) DEF Forward
  <1>3. ASSUME NEW r \in Request, Die(r) \/ \E t \in Ticket : Refuse(r, t)
        PROVE  IInv' /\ Forward
    BY <1>3, RefuseKeeps DEF Forward
  <1>4. ASSUME NEW r \in Request, Commit(r)
        PROVE  IInv' /\ Forward
    BY <1>4, CommitKeeps DEF Forward
  <1>5. CASE UNCHANGED vars
    BY <1>5 DEF vars, IInv, TypeOK, Forward
  <1> QED
    BY <1>1, <1>2, <1>3, <1>4, <1>5 DEF Next, Serve

LEMMA InvariantHolds == Spec => []IInv
  <1>1. IInv /\ [Next]_vars => IInv'
    BY StepKeeps
  <1> QED
    BY InitHolds, <1>1, PTL DEF Spec

\* Rows, steps, requests and what they read and wrote keep their types, for any flows,
\* users and requests: no decision indexes a step that is not there.
THEOREM TypesHold == Spec => []TypeOK
  <1>1. IInv => TypeOK
    BY DEF IInv
  <1> QED
    BY InvariantHolds, <1>1, PTL

\* What a ticket applies for is granted only when each step was approved by one of its
\* own assignees, whatever requests decide, close, die or roll back in between
\* (change_state under the row lock and _create_asset_permission).
THEOREM GrantsAreApproved == Spec => []GrantNeedsEveryStep
  <1>1. ASSUME IInv PROVE GrantNeedsEveryStep
    <2> SUFFICES ASSUME NEW t \in Ticket, db[t].grant # NoGrant
                 PROVE  /\ db[t].status = "closed" /\ db[t].state = "approved"
                        /\ \A i \in DOMAIN db[t].steps : ApprovedAt(db[t], i)
                        /\ db[t].grant = db[t].content
      BY DEF GrantNeedsEveryStep, ApprovedAt
    <2>1. Sound(db[t]) /\ db[t].status \in {"absent", "open", "closed"}
      BY <1>1 DEF IInv, Sound, Row
    <2>2. db[t].status = "closed"
      BY <2>1 DEF Sound, SoundOpen
    <2> QED
      BY <2>1, <2>2 DEF Sound, SoundClosed
  <1> QED
    BY InvariantHolds, <1>1, PTL

\* A finished ticket stays as it is: requests that read it before it was finished find
\* it closed under the lock (AlreadyClosed).
THEOREM FinishedStays == Spec => ClosedIsFinal
  <1>1. IInv /\ [Next]_vars => [FinishedKept]_vars
    BY StepKeeps DEF Forward, FinishedKept
  <1> QED
    BY InvariantHolds, <1>1, PTL DEF Spec, ClosedIsFinal

\* Every behaviour of the flow is one of TicketDecision: opened once, approved step by
\* step, ended once, with its effect exactly when the last step was approved.
THEOREM FlowDecides == Spec => DecisionSpec
  <1>1. \A t \in Ticket : ticketOf(t) = TicketOfRow(db[t]) /\ ticketOf(t)' = TicketOfRow(db'[t])
    BY DEF ticketOf, TicketOfRow, ApprovedSteps, Approved
  <1>2. Init => D!Init
    BY <1>1, AbsentIsSound DEF Init, D!Init
  <1>3. IInv /\ [Next]_vars => [D!Next]_[t \in Ticket |-> ticketOf(t)]
    BY <1>1, StepKeeps DEF Forward, D!Next
  <1> QED
    BY InvariantHolds, <1>2, <1>3, PTL DEF Spec, DecisionSpec, D!Spec

-----------------------------------------------------------------------------
(* Approvals that were answered with success, and approved steps.          *)

Approvers(t) == {r \in Request : req[r].act = "approve" /\ t \in req[r].did}
Count(row) == Cardinality(Approved(row))
Adds(r, row) == IF req[r].act = "approve" THEN Count(row) + 1 ELSE Count(row)

\* A request has decided nothing before it ends, a row it has not committed has one approved
\* step more than the committed one if it approves, and as many if it does not.
CountInv ==
    /\ \A r \in Request : req[r].pc # "read" => DOMAIN work[r] = {}
    /\ \A r \in Request : req[r].pc \in {"idle", "received", "read"} => req[r].did = {}
    /\ \A r \in Request : \A t \in DOMAIN work[r] : Count(work[r][t]) = Adds(r, db[t])
    /\ \A t \in Ticket : IsFiniteSet(Approvers(t)) /\ Cardinality(Approvers(t)) = Count(db[t])

\* An approval adds one approved step, a rejection and a closing add none (change_state).
LEMMA DecidedCount ==
    ASSUME NEW row, Sound(row), row.status = "open", NEW u \in User,
           NEW s \in {"approved", "rejected", "closed"},
           s = "approved" => has_current_assignee(row, u)
    PROVE  Count(change_state(row, s, u)) = IF s = "approved" THEN Count(row) + 1 ELSE Count(row)
  <1> DEFINE mid == change_step(row, s, u)
             new == change_state(row, s, u)
             old == [state |-> "pending", levels |-> Len(row.steps),
                     approvals |-> row.level - 1, effect |-> FALSE]
  <1>1. Count(row) = row.level - 1 /\ row.level \in Nat \ {0} /\ TicketOfRow(row) = old
    BY OpenApprovals DEF Count
  <1>2. DecidedFrom(row, new)
    BY DecidedRow
  <1>3. mid \in Row /\ mid.state = "pending"
    BY StepChanges
  <1>4. new.state = IF s \in {"rejected", "closed"} \/ ~has_next(mid) THEN s ELSE "pending"
    BY <1>3 DEF change_state, finish_or_next, Row
  <1> HIDE DEF mid, new
  <1>5. D!Decision(old, TicketOfRow(new)) /\ new.status # "absent"
    BY <1>1, <1>2 DEF DecidedFrom
  <1>6. /\ TicketOfRow(new).approvals = Count(new) /\ TicketOfRow(new).state = new.state
    BY <1>5, Zenon DEF TicketOfRow, Count
  <1> DEFINE abstract == TicketOfRow(new)
  <1> HIDE DEF abstract
  <1>7. /\ abstract.approvals = Count(new) /\ abstract.state = new.state
        /\ D!Decision(old, abstract)
    BY <1>5, <1>6 DEF abstract
  <1>8. old.state = "pending" /\ old.approvals = row.level - 1
    OBVIOUS
  <1>9. ~D!Opened(old, abstract)
    BY <1>8 DEF D!Opened, D!Absent
  <1>10. CASE s = "approved"
    <2>1. ~D!Ended(old, abstract)
      BY <1>4, <1>7, <1>10 DEF D!Ended
    <2>2. abstract.approvals = old.approvals + 1
      BY <1>7, <1>9, <2>1 DEF D!Decision, D!StepApproved, D!LastApproved
    <2> QED
      BY <1>1, <1>7, <1>8, <1>10, <2>2 DEF new
  <1>11. CASE s # "approved"
    <2>1. abstract.state = s /\ s \in {"rejected", "closed"}
      BY <1>4, <1>7, <1>11
    <2>2. D!Ended(old, abstract)
      BY <1>7, <1>8, <1>9, <2>1 DEF D!Decision, D!StepApproved, D!LastApproved
    <2>3. abstract.approvals = old.approvals
      BY <2>2 DEF D!Ended
    <2> QED
      BY <1>1, <1>7, <1>8, <1>11, <2>3 DEF new
  <1> QED
    BY <1>10, <1>11

LEMMA InitCounts == Init => CountInv
  <1> SUFFICES ASSUME Init PROVE CountInv
    OBVIOUS
  <1>1. \A r \in Request : req[r].did = {} /\ DOMAIN work[r] = {}
    <2>1. DOMAIN << >> = {}
      BY EmptySeq, LenProperties
    <2> QED
      BY <2>1 DEF Init, Idle
  <1>2. \A t \in Ticket : Approvers(t) = {} /\ Approved(db[t]) = {}
    <2>1. AbsentRow.steps = << >> /\ DOMAIN << >> = {}
      BY AbsentIsSound, EmptySeq, LenProperties DEF Sound, AbsentRow, NewRow
    <2> QED
      BY <1>1, <2>1 DEF Approvers, Approved, Init
  <1> QED
    BY <1>1, <1>2, FS_EmptySet DEF CountInv, Count

\* A new ticket has no approved step, and nobody has decided it.
LEMMA OpenCounts ==
    ASSUME IInv, CountInv, NEW t \in Ticket, Open(t)
    PROVE  CountInv'
  <1>1. UNCHANGED <<req, work>> /\ db[t].status = "absent"
    BY DEF Open
  <1>2. /\ D!Decision(TicketOfRow(db[t]), TicketOfRow(db'[t]))
        /\ \A o \in Ticket \ {t} : db'[o] = db[o]
    BY OpenKeeps
  <1>3. Count(db[t]) = 0
    <2>1. db[t].steps = << >> /\ DOMAIN << >> = {}
      BY <1>1, EmptySeq, LenProperties DEF IInv, Sound
    <2>2. Approved(db[t]) = {}
      BY <2>1 DEF Approved
    <2> QED
      BY <2>2, FS_EmptySet DEF Count
  <1>4. Count(db'[t]) = 0
    <2> DEFINE old == TicketOfRow(db[t])
               new == TicketOfRow(db'[t])
    <2>1. old.state = "absent" /\ new.approvals = Count(db'[t])
      BY <1>1 DEF TicketOfRow, Count
    <2>2. D!Decision(old, new)
      BY <1>2
    <2> HIDE DEF old, new
    <2>3. D!Opened(old, new)
      BY <2>1, <2>2 DEF D!Decision, D!StepApproved, D!LastApproved, D!Ended
    <2>4. new.approvals = 0
      BY <2>3 DEF D!Opened, D!Absent
    <2> QED
      BY <2>1, <2>4
  <1>5. \A r \in Request : \A o \in DOMAIN work[r] : o \in Ticket /\ o # t
    BY <1>1 DEF IInv, TypeOK, DecidedFrom
  <1>6. \A o \in Ticket : Count(db'[o]) = Count(db[o])
    BY <1>2, <1>3, <1>4
  <1>7. \A o \in Ticket : Approvers(o)' = Approvers(o)
    BY <1>1 DEF Approvers
  <1>8. \A r \in Request : \A o \in DOMAIN work'[r] : Count(work'[r][o]) = Adds(r, db[o])'
    BY <1>1, <1>2, <1>5 DEF CountInv, Adds
  <1> QED
    BY <1>1, <1>6, <1>7, <1>8 DEF CountInv, Count

\* A step that decides nothing: rows stay or are dropped, and a request that ends has
\* decided nothing.
LEMMA NothingCounts ==
    ASSUME IInv, CountInv, NEW r \in Request, UNCHANGED db,
           req' \in [Request -> ReqType], \A q \in Request \ {r} : req'[q] = req[q],
           work' = work \/ work' = [work EXCEPT ![r] = << >>],
           req[r].did = {}, req'[r].did = {},
           req'[r].act = req[r].act \/ DOMAIN work[r] = {},
           req'[r].pc # "read" => DOMAIN work'[r] = {}
    PROVE  CountInv'
  <1>1. DOMAIN << >> = {}
    BY EmptySeq, LenProperties
  <1>2. /\ \A q \in Request \ {r} : work'[q] = work[q]
        /\ work'[r] = work[r] \/ work'[r] = << >>
    BY DEF IInv
  <1>3. \A t \in Ticket : Approvers(t)' = Approvers(t)
    BY DEF Approvers
  <1>4. \A q \in Request : \A t \in DOMAIN work'[q] : Count(work'[q][t]) = Adds(q, db[t])'
    <2> SUFFICES ASSUME NEW q \in Request, NEW t \in DOMAIN work'[q]
                 PROVE  Count(work'[q][t]) = Adds(q, db[t])'
      OBVIOUS
    <2>1. work'[q] = work[q] /\ req'[q].act = req[q].act
      BY <1>1, <1>2
    <2>2. Count(work[q][t]) = Adds(q, db[t])
      BY <2>1 DEF CountInv
    <2> QED
      BY <2>1, <2>2 DEF Adds
  <1>5. \A q \in Request : req'[q].pc # "read" => DOMAIN work'[q] = {}
    BY <1>2 DEF CountInv
  <1>6. \A q \in Request : req'[q].pc \in {"idle", "received", "read"} => req'[q].did = {}
    BY DEF CountInv
  <1> QED
    BY <1>3, <1>4, <1>5, <1>6 DEF CountInv

LEMMA RequestCounts ==
    ASSUME IInv, CountInv, NEW r \in Request,
           Receive(r) \/ Read(r) \/ Die(r) \/ \E t \in Ticket : Refuse(r, t)
    PROVE  CountInv'
  <1>1. req \in [Request -> ReqType] /\ work = [q \in Request |-> work[q]]
    BY DEF IInv, TypeOK, ReqType
  <1>2. req' \in [Request -> ReqType]
    <2>1. IInv'
      BY ReceiveKeeps, ReadKeeps, RefuseKeeps
    <2> QED
      BY <2>1 DEF IInv, TypeOK, ReqType
  <1>3. CASE Receive(r)
    <2>1. /\ req[r].pc = "idle" /\ UNCHANGED <<db, work>>
          /\ \A q \in Request \ {r} : req'[q] = req[q]
          /\ req'[r].did = req[r].did
      <3>1. PICK via \in Vias, act \in {"approve", "reject", "close"}, u \in User,
                 todo \in SUBSET {t \in Ticket : db[t].status # "absent"} :
              /\ Allowed(via, act)
              /\ todo # {} /\ (via # "bulk" => Cardinality(todo) = 1)
              /\ req' = [req EXCEPT ![r].pc = "received", ![r].via = via, ![r].act = act,
                                    ![r].user = u, ![r].todo = todo]
        BY <1>3, ZenonT(60) DEF Receive
      <3>2. req[r].pc = "idle" /\ UNCHANGED <<db, work>>
        BY <1>3 DEF Receive
      <3> QED
        BY <1>1, <3>1, <3>2 DEF ReqType
    <2>2. req[r].did = {} /\ DOMAIN work[r] = {}
      BY <2>1 DEF CountInv
    <2> QED
      BY <1>2, <2>1, <2>2, NothingCounts
  <1>4. CASE Read(r)
    <2>1. /\ req[r].pc = "received" /\ UNCHANGED <<db, work>>
          /\ \A q \in Request \ {r} : req'[q] = req[q]
          /\ req'[r].did = req[r].did
      BY <1>1, <1>4 DEF Read, ReqType
    <2>2. req[r].did = {} /\ DOMAIN work[r] = {}
      BY <2>1 DEF CountInv
    <2> QED
      BY <1>2, <2>1, <2>2, NothingCounts, SMTT(60)
  <1>5. CASE Die(r) \/ \E t \in Ticket : Refuse(r, t)
    <2>1. /\ req[r].pc \in {"received", "read"} /\ UNCHANGED db
          /\ req' = Finished(r, "dead", {}) \/ req' = Finished(r, "refused", {})
          /\ work' = [work EXCEPT ![r] = << >>]
      BY <1>5 DEF Die, Refuse
    <2>2. /\ \A q \in Request \ {r} : req'[q] = req[q]
          /\ req'[r].did = {} /\ req'[r].act = req[r].act
      BY <1>1, <2>1 DEF Finished, ReqType
    <2>3. req[r].did = {} /\ DOMAIN work'[r] = {}
      BY <1>1, <2>1, EmptySeq, LenProperties DEF CountInv
    <2> QED
      BY <1>2, <2>1, <2>2, <2>3, NothingCounts
  <1> QED
    BY <1>3, <1>4, <1>5

LEMMA DecideCounts ==
    ASSUME IInv, CountInv, NEW r \in Request, NEW t \in Ticket, Decide(r, t)
    PROVE  CountInv'
  <1> DEFINE q == req[r]
             s == Outcome(q.act)
  <1>1. /\ req \in [Request -> ReqType] /\ q \in ReqType /\ Sound(db[t]) /\ db[t] \in Row
        /\ q.pc = "read" /\ UNCHANGED db
    BY DEF IInv, TypeOK, ReqType, Sound, Decide
  <1>2. PICK c \in Applied(r, t) :
          work' = [work EXCEPT ![r] =
                     [o \in DOMAIN work[r] \cup {t} |->
                        IF o = t THEN change_state([db[t] EXCEPT !.content = c], s, q.user)
                                 ELSE work[r][o]]]
    BY DEF Decide, Locked
  <1> DEFINE row == [db[t] EXCEPT !.content = c]
             new == change_state(row, s, q.user)
  <1>3. c \in Content /\ db[t].status = "open"
    <2>1. t \in q.todo /\ db[t].status # "closed"
      BY DEF Decide, Turn, Conflict, Locked
    <2>2. db[t].status # "absent"
      BY <2>1 DEF IInv
    <2> QED
      BY <1>1, <2>1, <2>2 DEF Applied, Locked, Row
  <1>4. Sound(row) /\ row.status = "open" /\ row.steps = db[t].steps /\ row.level = db[t].level
    BY <1>1, <1>3, ContentIsFree
  <1>5. /\ s \in {"approved", "rejected", "closed"} /\ q.user \in User
        /\ s = "approved" <=> q.act = "approve"
    BY <1>1 DEF Outcome, ReqType
  <1>6. s = "approved" => has_current_assignee(row, q.user)
    <2>1. q.act = "approve" => has_current_assignee(db[t], q.user)
      BY DEF Decide, Conflict, Locked
    <2> QED
      BY <1>4, <1>5, <2>1 DEF has_current_assignee
  <1> HIDE DEF s, row
  <1>7. Count(new) = Adds(r, db[t])
    <2>1. Count(row) = Count(db[t])
      BY <1>4 DEF Count, Approved
    <2>2. Count(new) = IF s = "approved" THEN Count(row) + 1 ELSE Count(row)
      BY <1>4, <1>5, <1>6, DecidedCount
    <2> QED
      BY <1>5, <2>1, <2>2 DEF Adds
  <1>8. work' = [work EXCEPT ![r] = [o \in DOMAIN work[r] \cup {t} |-> IF o = t THEN new ELSE work[r][o]]]
    BY <1>2 DEF row, s
  <1> HIDE DEF new
  <1>9. /\ \A o \in DOMAIN work'[r] : work'[r][o] = (IF o = t THEN new ELSE work[r][o])
                                      /\ (o = t \/ o \in DOMAIN work[r])
        /\ \A p \in Request \ {r} : work'[p] = work[p]
    BY <1>8 DEF IInv
  <1>10. /\ \A p \in Request : req'[p].pc = req[p].pc /\ req'[p].did = req[p].did /\ req'[p].act = req[p].act
    BY <1>1 DEF Decide, ReqType
  <1>11. \A p \in Request : \A o \in DOMAIN work'[p] : Count(work'[p][o]) = Adds(p, db[o])'
    BY <1>1, <1>7, <1>9, <1>10 DEF CountInv, Adds
  <1>12. \A o \in Ticket : Approvers(o)' = Approvers(o)
    BY <1>10 DEF Approvers
  <1>13. \A p \in Request : req'[p].pc # "read" => DOMAIN work'[p] = {}
    BY <1>1, <1>9, <1>10 DEF CountInv
  <1> QED
    BY <1>1, <1>10, <1>11, <1>12, <1>13 DEF CountInv

\* The rows of a request become the committed ones, and the request is one of those that
\* approved them, if it approved.
LEMMA CommitCounts ==
    ASSUME IInv, CountInv, NEW r \in Request, Commit(r)
    PROVE  CountInv'
  <1>1. /\ req[r].pc = "read"
        /\ db' = [t \in Ticket |-> IF t \in DOMAIN work[r] THEN work[r][t] ELSE db[t]]
        /\ work' = [work EXCEPT ![r] = << >>]
        /\ \E how \in {"done", "part"} : req' = Finished(r, how, DOMAIN work[r])
    BY DEF Commit
  <1>2. req \in [Request -> ReqType]
    BY DEF IInv, TypeOK, ReqType
  <1>3. /\ \A q \in Request \ {r} : req'[q] = req[q]
        /\ req'[r].did = DOMAIN work[r] /\ req'[r].act = req[r].act /\ req'[r].pc \in {"done", "part"}
    BY <1>1, <1>2 DEF Finished, ReqType
  <1>4. DOMAIN << >> = {}
    BY EmptySeq, LenProperties
  <1>5. \A q \in Request : work'[q] = IF q = r THEN << >> ELSE work[q]
    BY <1>1 DEF IInv
  <1>6. req[r].did = {}
    BY <1>1 DEF CountInv
  <1>7. ASSUME NEW t \in Ticket
        PROVE  IsFiniteSet(Approvers(t)') /\ Cardinality(Approvers(t)') = Count(db'[t])
    <2>1. IsFiniteSet(Approvers(t)) /\ Cardinality(Approvers(t)) = Count(db[t]) /\ r \notin Approvers(t)
      BY <1>6 DEF CountInv, Approvers
    <2>2. CASE t \in DOMAIN work[r] /\ req[r].act = "approve"
      <3>1. Approvers(t)' = Approvers(t) \cup {r}
        BY <1>3, <2>2 DEF Approvers
      <3>2. Count(db'[t]) = Count(db[t]) + 1
        BY <1>1, <2>2 DEF CountInv, Adds
      <3> QED
        BY <2>1, <3>1, <3>2, FS_AddElement
    <2>3. CASE ~(t \in DOMAIN work[r] /\ req[r].act = "approve")
      <3>1. Approvers(t)' = Approvers(t)
        BY <1>3, <1>6, <2>3 DEF Approvers
      <3>2. Count(db'[t]) = Count(db[t])
        BY <1>1, <2>3 DEF CountInv, Adds
      <3> QED
        BY <2>1, <3>1, <3>2
    <2> QED
      BY <2>2, <2>3
  <1>8. \A q \in Request : \A t \in DOMAIN work'[q] : Count(work'[q][t]) = Adds(q, db[t])'
    <2> SUFFICES ASSUME NEW q \in Request, NEW t \in DOMAIN work'[q]
                 PROVE  Count(work'[q][t]) = Adds(q, db[t])'
      OBVIOUS
    <2>1. q # r /\ work'[q] = work[q] /\ t \in DOMAIN work[q] /\ t \in Ticket
      BY <1>4, <1>5 DEF IInv, TypeOK
    <2>2. t \notin DOMAIN work[r]
      BY <2>1, RowsAreApart
    <2>3. db'[t] = db[t] /\ req'[q] = req[q]
      BY <1>1, <1>3, <2>1, <2>2
    <2> QED
      BY <2>1, <2>3 DEF CountInv, Adds
  <1>9. \A q \in Request : req'[q].pc # "read" => DOMAIN work'[q] = {}
    BY <1>3, <1>4, <1>5 DEF CountInv
  <1>10. \A q \in Request : req'[q].pc \in {"idle", "received", "read"} => req'[q].did = {}
    BY <1>3 DEF CountInv
  <1> QED
    BY <1>7, <1>8, <1>9, <1>10 DEF CountInv

\* Every approval that was answered with success approved one step of its own: none is lost
\* to another that decided at the same time, and none counts for two steps, whatever
\* requests decide, in bulk or alone, are refused or die (change_state under the row lock,
\* and the rollback of a request as a whole).
THEOREM EveryApprovalCounts == Spec => []ApprovalsCount
  <1>1. IInv /\ CountInv /\ [Next]_vars => CountInv'
    <2> SUFFICES ASSUME IInv, CountInv, [Next]_vars PROVE CountInv'
      OBVIOUS
    <2>1. CASE UNCHANGED vars
      BY <2>1, SMTT(90) DEF vars, CountInv, Approvers, Adds, Count, Approved
    <2> QED
      BY <2>1, OpenCounts, RequestCounts, DecideCounts, CommitCounts DEF Next, Serve
  <1>2. CountInv => ApprovalsCount
    BY DEF CountInv, ApprovalsCount, Approvers, Count, Approved, ApprovedSteps
  <1> QED
    BY InvariantHolds, InitCounts, <1>1, <1>2, PTL DEF Spec

-----------------------------------------------------------------------------
(* TicketSerial: the numbers of the tickets of a day.                      *)

\* Openers of tickets, the rows they number, and the lock around the number.
CONSTANTS Opener, Nobody, MaxDay, MaxNum
VARIABLES today, ticket, lock, alive
Serial == INSTANCE TicketSerial

\* How many tickets a day has.
Tickets(d) == Cardinality(Serial!Committed(d))

\* The tickets of a day have the numbers 1 to k, and one request at most has written the
\* next one without a commit.
DayInv(d) ==
    /\ IsFiniteSet(Serial!Committed(d))
    /\ {ticket[o].num : o \in Serial!Committed(d)} = 1..Tickets(d)
    /\ \A o, q \in Serial!Written(d) : o = q
    /\ \A o \in Serial!Written(d) : ticket[o].num = Tickets(d) + 1

\* A number that was read is the next one, or was taken since by the request that had
\* written it.
NumberInv(o) ==
    LET d == ticket[o].day
    IN  /\ ticket[o].pc \in {"locked", "read", "saved"} => o \in alive /\ lock = o
        /\ ticket[o].pc = "read" => \/ ticket[o].num = Tickets(d) + 1
                                    \/ ticket[o].num = Tickets(d) /\ Tickets(d) > 0 /\ Serial!Written(d) = {}
        /\ ticket[o].pc = "full" => Tickets(d) = MaxNum

SerialInv ==
    /\ Serial!TypeOK
    /\ \A d \in Serial!Day : DayInv(d)
    /\ \A o \in Opener : NumberInv(o)

LEMMA LastIsCount ==
    ASSUME Serial!SerialAssumption, SerialInv, NEW d \in Serial!Day
    PROVE  /\ Serial!Last(d) = Tickets(d) /\ Tickets(d) \in 0..MaxNum
           /\ \A n \in 1..Tickets(d) : \E o \in Serial!Committed(d) : ticket[o].num = n
           /\ \A o \in Serial!Committed(d) : ticket[o].num \in 1..Tickets(d)
<1> DEFINE N == {ticket[o].num : o \in Serial!Committed(d)}
<1>1. Tickets(d) \in Nat /\ N = 1..Tickets(d) /\ IsFiniteSet(Serial!Committed(d))
  BY FS_CardinalityType DEF SerialInv, DayInv, Tickets
<1>2. N \subseteq 0..MaxNum
  BY DEF SerialInv, Serial!TypeOK, Serial!Committed
<1>3. Tickets(d) \in 0..MaxNum
  BY <1>1, <1>2 DEF Serial!SerialAssumption
<1>4. CASE Serial!Committed(d) = {}
  BY <1>1, <1>3, <1>4, FS_EmptySet DEF Serial!Last, Tickets
<1>5. CASE Serial!Committed(d) # {}
  <2>1. Tickets(d) # 0
    BY <1>1, <1>5, FS_EmptySet DEF Tickets
  <2> \A o \in Serial!Committed(d) : ticket[o].num \in N
    OBVIOUS
  <2>2. /\ Tickets(d) \in N
        /\ \A o \in Serial!Committed(d) : ticket[o].num \in Nat /\ ticket[o].num <= Tickets(d)
    <3> HIDE DEF N
    <3> QED BY <1>1, <2>1
  <2>3. \A n \in N : (\A o \in Serial!Committed(d) : ticket[o].num <= n) => n = Tickets(d)
    BY <1>1, <2>1, <2>2, SMTT(60)
  <2>4. Serial!Last(d) = Tickets(d)
    BY <1>5, <2>2, <2>3 DEF Serial!Last
  <2> QED
    BY <1>1, <1>3, <2>4
<1> QED
  BY <1>4, <1>5

SerialRow == [pc : Serial!Stages, day : Serial!Day, num : 0..MaxNum]

\* What a step of one opener makes of the rows.
Moves(o, stage, d, n) ==
    /\ ticket' \in [Opener -> SerialRow]
    /\ ticket'[o].pc = stage /\ ticket'[o].day = d /\ ticket'[o].num = n
    /\ \A q \in Opener \ {o} : ticket'[q] = ticket[q]

LEMMA ToStage ==
    ASSUME SerialInv, NEW o \in Opener, NEW stage \in Serial!Stages,
           ticket' = [ticket EXCEPT ![o].pc = stage]
    PROVE  Moves(o, stage, ticket[o].day, ticket[o].num)
BY DEF SerialInv, Serial!TypeOK, Moves, SerialRow

LEMMA ToDay ==
    ASSUME SerialInv, NEW o \in Opener, NEW stage \in Serial!Stages, NEW d \in Serial!Day,
           ticket' = [ticket EXCEPT ![o].pc = stage, ![o].day = d]
    PROVE  Moves(o, stage, d, ticket[o].num)
BY DEF SerialInv, Serial!TypeOK, Moves, SerialRow

LEMMA ToNumber ==
    ASSUME SerialInv, NEW o \in Opener, NEW stage \in Serial!Stages, NEW n \in 0..MaxNum,
           ticket' = [ticket EXCEPT ![o].pc = stage, ![o].num = n]
    PROVE  Moves(o, stage, ticket[o].day, n)
BY DEF SerialInv, Serial!TypeOK, Moves, SerialRow

\* A step of one opener that commits nothing and writes nothing keeps the days.
LEMMA SameDays ==
    ASSUME SerialInv, NEW o \in Opener, NEW stage, NEW d, NEW n, Moves(o, stage, d, n),
           stage \notin {"committed", "saved", "open"}, ticket[o].pc # "committed",
           NEW e \in Serial!Day
    PROVE  /\ Serial!Committed(e)' = Serial!Committed(e)
           /\ Serial!Written(e)' = Serial!Written(e) \ {o}
           /\ Tickets(e)' = Tickets(e) /\ DayInv(e)'
<1>1. /\ Serial!Committed(e)' = Serial!Committed(e)
      /\ Serial!Written(e)' = Serial!Written(e) \ {o}
  BY DEF Serial!Committed, Serial!Written, Moves
<1>2. Tickets(e)' = Tickets(e)
  BY <1>1 DEF Tickets
<1>3. {ticket'[q].num : q \in Serial!Committed(e)} = {ticket[q].num : q \in Serial!Committed(e)}
  BY DEF Moves, Serial!Committed
<1>4. \A q \in Serial!Written(e) \ {o} : ticket'[q] = ticket[q]
  BY DEF Serial!Written, Moves
<1> QED
  BY <1>1, <1>2, <1>3, <1>4 DEF SerialInv, DayInv

\* Such a step keeps what the others have read, if it leaves them their lock and their life.
LEMMA SameNumbers ==
    ASSUME SerialInv, NEW o \in Opener, NEW stage, NEW d, NEW n, Moves(o, stage, d, n),
           stage \notin {"committed", "saved", "open"}, ticket[o].pc # "committed",
           \A q \in Opener \ {o} : (lock = q => lock' = q) /\ (q \in alive => q \in alive'),
           NumberInv(o)', today' \in Serial!Day, lock' \in Opener \cup {Nobody}, alive' \subseteq Opener
    PROVE  SerialInv'
<1>1. ASSUME NEW q \in Opener \ {o} PROVE NumberInv(q)'
  <2> DEFINE e == ticket[q].day
  <2>1. e \in Serial!Day /\ ticket'[q] = ticket[q]
    BY DEF SerialInv, Serial!TypeOK, Moves
  <2>2. Tickets(e)' = Tickets(e) /\ Serial!Written(e)' = Serial!Written(e) \ {o}
    BY <2>1, SameDays
  <2> QED
    BY <2>1, <2>2 DEF SerialInv, NumberInv
<1>2. \A e \in Serial!Day : DayInv(e)'
  BY SameDays
<1> QED
  BY <1>1, <1>2 DEF SerialInv, Serial!TypeOK, Moves, SerialRow

\* A request begins, waits for the lock, and reads what is committed.
LEMMA BeginKeeps ==
    ASSUME Serial!SerialAssumption, SerialInv, NEW o \in Opener, Serial!Create(o) \/ Serial!Acquire(o)
    PROVE  SerialInv'
<1>1. /\ today \in Serial!Day /\ lock' \in Opener \cup {Nobody} /\ alive' \subseteq Opener
      /\ today' \in Serial!Day
  BY DEF SerialInv, Serial!TypeOK, Serial!Create, Serial!Acquire
<1>2. CASE Serial!Create(o)
  <2>1. Moves(o, "begun", today, ticket[o].num)
    BY <1>1, <1>2, ToDay DEF Serial!Create, Serial!Stages
  <2>2. NumberInv(o)'
    BY <2>1 DEF NumberInv, Moves
  <2> QED
    BY <1>1, <1>2, <2>1, <2>2, SameNumbers DEF Serial!Create, Serial!At
<1>3. CASE Serial!Acquire(o)
  <2>1. Moves(o, "locked", ticket[o].day, ticket[o].num)
    BY <1>3, ToStage DEF Serial!Acquire, Serial!Stages
  <2>2. NumberInv(o)'
    BY <1>3, <2>1 DEF NumberInv, Moves, Serial!Acquire, Serial!At
  <2>3. \A q \in Opener : lock # q
    BY <1>3 DEF Serial!Acquire, Serial!SerialAssumption
  <2> QED
    BY <1>1, <1>3, <2>1, <2>2, <2>3, SameNumbers DEF Serial!Acquire, Serial!At
<1> QED
  BY <1>2, <1>3

LEMMA ComputeKeeps ==
    ASSUME Serial!SerialAssumption, SerialInv, NEW o \in Opener, Serial!Compute(o)
    PROVE  SerialInv'
<1>0. PICK d \in Serial!Day : d = ticket[o].day
  BY DEF SerialInv, Serial!TypeOK
<1>1. /\ lock' \in Opener \cup {Nobody} /\ alive' = alive /\ today' = today
      /\ ticket[o].pc = "locked" /\ lock = o /\ o \in alive /\ ticket[o].num \in 0..MaxNum
  BY DEF SerialInv, Serial!TypeOK, NumberInv, Serial!Compute, Serial!At
<1>2. Serial!get_next_serial_num(o) = Tickets(d) + 1 /\ Tickets(d) \in 0..MaxNum
  BY <1>0, LastIsCount DEF Serial!get_next_serial_num
<1>3. CASE Serial!DayFull(o)
  <2>1. Moves(o, "full", d, ticket[o].num)
    BY <1>0, <1>3, ToStage DEF Serial!Compute, Serial!Stages
  <2>2. Tickets(d) = MaxNum /\ Tickets(d)' = Tickets(d)
    BY <1>1, <1>2, <1>3, <2>1, SameDays DEF Serial!DayFull, Serial!SerialAssumption
  <2>3. NumberInv(o)'
    BY <2>1, <2>2 DEF NumberInv, Moves
  <2> QED
    BY <1>1, <2>1, <2>3, SameNumbers DEF SerialInv, Serial!TypeOK
<1>4. CASE ~ Serial!DayFull(o)
  <2>1. Tickets(d) + 1 \in 0..MaxNum
    BY <1>2, <1>4 DEF Serial!DayFull, Serial!SerialAssumption
  <2>2. Moves(o, "read", d, Tickets(d) + 1) /\ lock' = lock
    BY <1>0, <1>2, <1>4, <2>1, ToNumber DEF Serial!Compute, Serial!Stages
  <2>3. Tickets(d)' = Tickets(d)
    BY <1>1, <2>2, SameDays
  <2>4. NumberInv(o)'
    BY <1>1, <2>2, <2>3 DEF NumberInv, Moves
  <2> QED
    BY <1>1, <2>2, <2>4, SameNumbers DEF SerialInv, Serial!TypeOK
<1> QED
  BY <1>3, <1>4

\* A row that is saved is the only one of its day without a commit.
LEMMA SaveKeeps ==
    ASSUME Serial!SerialAssumption, SerialInv, NEW o \in Opener, Serial!Save(o)
    PROVE  SerialInv'
<1>0. PICK d \in Serial!Day : d = ticket[o].day
  BY DEF SerialInv, Serial!TypeOK
<1>1. /\ ticket[o].pc = "read" /\ lock = o /\ o \in alive /\ alive' = alive /\ today' = today
      /\ lock' \in Opener \cup {Nobody}
  BY DEF SerialInv, Serial!TypeOK, NumberInv, Serial!Save, Serial!At
<1>2. /\ Tickets(d) \in 0..MaxNum
      /\ \A n \in 1..Tickets(d) : \E q \in Serial!Committed(d) : ticket[q].num = n
      /\ \A q \in Serial!Committed(d) : ticket[q].num \in 1..Tickets(d)
  BY LastIsCount
<1>3. CASE Serial!Conflict(o)
  <2>1. Moves(o, "conflict", d, ticket[o].num)
    BY <1>0, <1>3, ToStage DEF Serial!Save, Serial!Stages
  <2>2. NumberInv(o)'
    BY <2>1 DEF NumberInv, Moves
  <2> QED
    BY <1>1, <2>1, <2>2, SameNumbers DEF SerialInv, Serial!TypeOK
<1>4. CASE ~ Serial!Conflict(o)
  <2>1. Moves(o, "saved", d, ticket[o].num) /\ lock' = lock
    BY <1>0, <1>4, ToStage DEF Serial!Save, Serial!Stages
  <2>2. o \notin Serial!Committed(d) /\ o \notin Serial!Written(d)
    BY <1>1 DEF Serial!Committed, Serial!Written
  <2>3. ticket[o].num = Tickets(d) + 1
    <3>1. ~ (ticket[o].num = Tickets(d) /\ Tickets(d) > 0)
      BY <1>0, <1>2, <1>4, <2>2 DEF Serial!Conflict, Serial!Same
    <3> QED
      BY <1>0, <1>1, <3>1 DEF SerialInv, NumberInv
  <2>4. Serial!Written(d) = {}
    BY <1>0, <2>2, <2>3 DEF Serial!Save, Serial!Same, SerialInv, DayInv
  <2>5. \A e \in Serial!Day : /\ Serial!Committed(e)' = Serial!Committed(e)
                              /\ Serial!Written(e)' = IF e = d THEN {o} ELSE Serial!Written(e)
    BY <1>0, <1>1, <2>1, <2>4 DEF Moves, Serial!Committed, Serial!Written
  <2>6. \A e \in Serial!Day : Tickets(e)' = Tickets(e)
    BY <2>5 DEF Tickets
  <2>7. ASSUME NEW e \in Serial!Day PROVE DayInv(e)'
    <3>1. {ticket'[q].num : q \in Serial!Committed(e)} = {ticket[q].num : q \in Serial!Committed(e)}
      BY <1>1, <2>1 DEF Moves, Serial!Committed
    <3>2. \A q \in Serial!Written(e) : e # d => ticket'[q].num = ticket[q].num
      BY <1>0, <1>1, <2>1 DEF Serial!Written, Moves
    <3>3. Tickets(e)' = Tickets(e) /\ Serial!Committed(e)' = Serial!Committed(e) /\ DayInv(e)
      BY <2>5, <2>6 DEF SerialInv
    <3>4. /\ \A p, q \in Serial!Written(e)' : p = q
          /\ \A q \in Serial!Written(e)' : ticket'[q].num = Tickets(e) + 1
      <4>1. CASE e = d
        BY <2>1, <2>3, <2>5, <4>1 DEF Moves
      <4>2. CASE e # d
        BY <2>5, <3>2, <3>3, <4>2 DEF DayInv
      <4> QED
        BY <4>1, <4>2
    <3> QED
      BY <3>1, <3>3, <3>4 DEF DayInv
  <2>8. ASSUME NEW q \in Opener PROVE NumberInv(q)'
    <3>1. CASE q = o
      BY <1>1, <2>1, <3>1 DEF NumberInv, Moves
    <3>2. CASE q # o
      <4>1. PICK e \in Serial!Day : e = ticket[q].day
        BY DEF SerialInv, Serial!TypeOK
      <4>2. ticket'[q] = ticket[q] /\ lock # q
        BY <1>1, <2>1, <3>2 DEF Moves
      <4>3. ticket[q].pc \notin {"locked", "read", "saved"}
        BY <4>2 DEF SerialInv, NumberInv
      <4> QED
        BY <2>6, <4>1, <4>2, <4>3 DEF SerialInv, NumberInv
    <3> QED
      BY <3>1, <3>2
  <2> QED
    BY <1>1, <2>1, <2>7, <2>8 DEF SerialInv, Serial!TypeOK, Moves, SerialRow
<1> QED
  BY <1>3, <1>4

\* The commit adds the next number, and leaves no written row of its day.
LEMMA CommitOfNumber ==
    ASSUME Serial!SerialAssumption, SerialInv, NEW o \in Opener, Serial!Commit(o)
    PROVE  SerialInv'
<1>0. PICK d \in Serial!Day : d = ticket[o].day
  BY DEF SerialInv, Serial!TypeOK
<1>1. Moves(o, "committed", d, ticket[o].num) /\ ticket[o].pc = "open" /\ UNCHANGED <<today, lock, alive>>
  BY <1>0, ToStage DEF Serial!Commit, Serial!Stages, Serial!At
<1>2. Tickets(d) \in 0..MaxNum
  BY LastIsCount
<1>3. Serial!Written(d) = {o} /\ ticket[o].num = Tickets(d) + 1 /\ ticket[o].num \in 0..MaxNum
  BY <1>0, <1>1 DEF SerialInv, Serial!TypeOK, DayInv, Serial!Written
<1>4. o \notin Serial!Committed(d) /\ IsFiniteSet(Serial!Committed(d))
  BY <1>1 DEF Serial!Committed, SerialInv, DayInv
<1>5. \A e \in Serial!Day :
         /\ Serial!Committed(e)' = IF e = d THEN Serial!Committed(d) \cup {o} ELSE Serial!Committed(e)
         /\ Serial!Written(e)' = IF e = d THEN {} ELSE Serial!Written(e)
  BY <1>0, <1>1, <1>3 DEF Moves, Serial!Committed, Serial!Written
<1>6. \A e \in Serial!Day : Tickets(e)' = IF e = d THEN Tickets(d) + 1 ELSE Tickets(e)
  BY <1>4, <1>5, FS_AddElement DEF Tickets
<1>7. ASSUME NEW e \in Serial!Day PROVE DayInv(e)'
  <2>1. {ticket'[q].num : q \in Serial!Committed(e)} = {ticket[q].num : q \in Serial!Committed(e)}
    BY <1>1 DEF Moves, Serial!Committed
  <2>2. \A q \in Serial!Written(e) : e # d => ticket'[q].num = ticket[q].num
    BY <1>0, <1>1 DEF Serial!Written, Moves
  <2>3. IsFiniteSet(Serial!Committed(e)') /\ IsFiniteSet(Serial!Committed(e))
    BY <1>4, <1>5, FS_AddElement DEF SerialInv, DayInv
  <2>4. CASE e = d
    <3>1. {ticket'[q].num : q \in Serial!Committed(d) \cup {o}}
            = {ticket'[q].num : q \in Serial!Committed(d)} \cup {Tickets(d) + 1}
      BY <1>1, <1>3 DEF Moves
    <3>2. {ticket[q].num : q \in Serial!Committed(d)} = 1..Tickets(d)
      BY DEF SerialInv, DayInv
    <3>3. 1..Tickets(d) \cup {Tickets(d) + 1} = 1..(Tickets(d) + 1)
      BY <1>2
    <3> QED
      BY <1>5, <1>6, <2>1, <2>3, <2>4, <3>1, <3>2, <3>3 DEF DayInv
  <2>5. CASE e # d
    <3>1. /\ Tickets(e)' = Tickets(e) /\ Serial!Committed(e)' = Serial!Committed(e)
          /\ Serial!Written(e)' = Serial!Written(e) /\ DayInv(e)
      BY <1>5, <1>6, <2>5 DEF SerialInv
    <3> QED
      BY <2>1, <2>2, <2>5, <3>1 DEF DayInv
  <2> QED
    BY <2>4, <2>5
<1>8. ASSUME NEW q \in Opener PROVE NumberInv(q)'
  <2>1. CASE q = o
    BY <1>1, <2>1 DEF NumberInv, Moves
  <2>2. CASE q # o
    <3>1. PICK e \in Serial!Day : e = ticket[q].day
      BY DEF SerialInv, Serial!TypeOK
    <3>2. ticket'[q] = ticket[q] /\ NumberInv(q)
      BY <1>1, <2>2 DEF Moves, SerialInv
    <3>3. ~ (e = d /\ ticket[q].pc = "full")
      BY <1>2, <1>3, <3>1, <3>2 DEF NumberInv, Serial!SerialAssumption
    <3>4. e = d /\ ticket[q].pc = "read" => ticket[q].num = Tickets(d) + 1
      BY <1>3, <3>1, <3>2 DEF NumberInv
    <3>5. Tickets(d) + 1 > 0
      BY <1>2
    <3> QED
      BY <1>1, <1>5, <1>6, <3>1, <3>2, <3>3, <3>4, <3>5 DEF NumberInv
  <2> QED
    BY <2>1, <2>2
<1> QED
  BY <1>1, <1>7, <1>8 DEF SerialInv, Serial!TypeOK, Moves, SerialRow

\* The rest of a request: its lock, the rollback, its death; and what is nobody's.
LEMMA RestKeeps ==
    ASSUME Serial!SerialAssumption, SerialInv, NEW o \in Opener,
           Serial!Rollback(o) \/ Serial!Die(o)
    PROVE  SerialInv'
<1>1. Moves(o, "lost", ticket[o].day, ticket[o].num)
  BY ToStage DEF Serial!Rollback, Serial!Die, Serial!Stages
<1>2. NumberInv(o)'
  BY <1>1 DEF NumberInv, Moves
<1>3. /\ today' = today /\ lock' = lock /\ alive' \subseteq alive /\ alive \ {o} \subseteq alive'
      /\ ticket[o].pc # "committed"
  BY DEF Serial!Rollback, Serial!Die, Serial!At
<1> QED
  BY <1>1, <1>2, <1>3, SameNumbers DEF SerialInv, Serial!TypeOK

LEMMA ReleaseKeeps ==
    ASSUME Serial!SerialAssumption, SerialInv, NEW o \in Opener, Serial!Release(o)
    PROVE  SerialInv'
<1>1. /\ Moves(o, "open", ticket[o].day, ticket[o].num) /\ UNCHANGED <<today, alive>>
      /\ ticket[o].pc = "saved" /\ lock = o /\ lock' \in Opener \cup {Nobody}
  BY ToStage DEF Serial!Release, Serial!Stages, Serial!At, SerialInv, NumberInv, Serial!TypeOK
<1>2. \A q \in Opener : /\ ticket'[q].day = ticket[q].day /\ ticket'[q].num = ticket[q].num
                        /\ ticket'[q].pc = "committed" <=> ticket[q].pc = "committed"
                        /\ ticket'[q].pc \in {"saved", "open"} <=> ticket[q].pc \in {"saved", "open"}
  BY <1>1 DEF Moves
<1>3. \A e \in Serial!Day : /\ Serial!Committed(e)' = Serial!Committed(e)
                            /\ Serial!Written(e)' = Serial!Written(e)
  BY <1>2 DEF Serial!Committed, Serial!Written
<1>4. \A e \in Serial!Day : Tickets(e)' = Tickets(e)
  BY <1>3 DEF Tickets
<1>5. ASSUME NEW e \in Serial!Day PROVE DayInv(e)'
  <2>1. {ticket'[q].num : q \in Serial!Committed(e)} = {ticket[q].num : q \in Serial!Committed(e)}
    BY <1>2 DEF Serial!Committed
  <2>2. \A q \in Serial!Written(e) : ticket'[q].num = ticket[q].num
    BY <1>2 DEF Serial!Written
  <2> QED
    BY <1>3, <1>4, <2>1, <2>2 DEF SerialInv, DayInv
<1>6. ASSUME NEW q \in Opener PROVE NumberInv(q)'
  <2>1. CASE q = o
    BY <1>1, <2>1 DEF NumberInv, Moves
  <2>2. CASE q # o
    <3>1. PICK e \in Serial!Day : e = ticket[q].day
      BY DEF SerialInv, Serial!TypeOK
    <3> QED
      BY <1>1, <1>3, <1>4, <2>2, <3>1 DEF SerialInv, NumberInv, Moves
  <2> QED
    BY <2>1, <2>2
<1> QED
  BY <1>1, <1>5, <1>6 DEF SerialInv, Serial!TypeOK, Moves, SerialRow

LEMMA NobodysKeeps ==
    ASSUME Serial!SerialAssumption, SerialInv,
           Serial!LockExpires \/ Serial!Midnight \/ UNCHANGED Serial!vars
    PROVE  SerialInv'
<1>1. ticket' = ticket /\ alive' = alive /\ (lock \in alive => lock' = lock)
      /\ lock' \in Opener \cup {Nobody} /\ today' \in Serial!Day
  BY DEF Serial!LockExpires, Serial!Midnight, Serial!vars, SerialInv, Serial!TypeOK, Serial!Day,
         Serial!SerialAssumption
<1>2. \A e \in Serial!Day : /\ Serial!Committed(e)' = Serial!Committed(e)
                            /\ Serial!Written(e)' = Serial!Written(e)
  BY <1>1 DEF Serial!Committed, Serial!Written
<1>3. \A e \in Serial!Day : Tickets(e)' = Tickets(e) /\ DayInv(e)'
  BY <1>1, <1>2 DEF Tickets, SerialInv, DayInv
<1>4. ASSUME NEW q \in Opener PROVE NumberInv(q)'
  <2>1. PICK e \in Serial!Day : e = ticket[q].day
    BY DEF SerialInv, Serial!TypeOK
  <2> QED
    BY <1>1, <1>2, <1>3, <2>1 DEF SerialInv, NumberInv
<1> QED
  BY <1>1, <1>3, <1>4 DEF SerialInv, Serial!TypeOK

LEMMA SerialBegins ==
    ASSUME Serial!SerialAssumption, Serial!Init
    PROVE  SerialInv
<1>1. \A d \in Serial!Day : Serial!Committed(d) = {} /\ Serial!Written(d) = {}
  BY DEF Serial!Init, Serial!Committed, Serial!Written
<1>2. \A d \in Serial!Day : Tickets(d) = 0 /\ IsFiniteSet(Serial!Committed(d))
  BY <1>1, FS_EmptySet DEF Tickets
<1>3. Serial!TypeOK
  BY DEF Serial!Init, Serial!TypeOK, Serial!Day, Serial!Stages, Serial!SerialAssumption
<1>4. \A d \in Serial!Day : DayInv(d)
  BY <1>1, <1>2 DEF DayInv
<1>5. \A o \in Opener : NumberInv(o)
  BY DEF Serial!Init, NumberInv
<1> QED
  BY <1>3, <1>4, <1>5 DEF SerialInv

\* set_serial_num, get_next_serial_num: types hold; the tickets of a day have the numbers 1 to
\* k, each once, whoever rolls back, dies or waits for whose commit; and a ticket is refused
\* for the limit only on a day that is full.
THEOREM SerialsHaveNoGap ==
    ASSUME Serial!SerialAssumption
    PROVE  Serial!Spec => []Serial!TypeOK /\ []Serial!SerialsDense /\ []Serial!FullMeansFull
<1>1. Serial!Init => SerialInv
  BY SerialBegins
<1>2. SerialInv /\ [Serial!Next]_(Serial!vars) => SerialInv'
  BY BeginKeeps, ComputeKeeps, SaveKeeps, ReleaseKeeps, CommitOfNumber, RestKeeps, NobodysKeeps
     DEF Serial!Next, Serial!Work
<1>3. SerialInv => Serial!TypeOK /\ Serial!SerialsDense /\ Serial!FullMeansFull
  <2> SUFFICES ASSUME SerialInv PROVE Serial!SerialsDense /\ Serial!FullMeansFull
    BY DEF SerialInv
  <2>1. \A S : Serial!Cardinality(S) = Cardinality(S)
    BY DEF Serial!Cardinality, Cardinality
  <2>2. Serial!SerialsDense
    BY <2>1 DEF SerialInv, DayInv, Tickets, Serial!SerialsDense
  <2>3. Serial!FullMeansFull
    BY <2>1 DEF SerialInv, NumberInv, Tickets, Serial!FullMeansFull
  <2> QED
    BY <2>2, <2>3
<1> QED
  BY <1>1, <1>2, <1>3, PTL DEF Serial!Spec

-----------------------------------------------------------------------------
(* AuthGuard: the method that makes users is guarded.                      *)

\* Threads of a web worker and the method of the user model they share.
CONSTANTS Threads, Backends
VARIABLES patched, marked, at, disturbed, created
Guard == INSTANCE AuthGuard WITH mark <- marked

\* Inside without a disturbance, a thread finds the method that refuses.
GuardInv ==
    /\ Guard!TypeOK
    /\ \A t \in Guard!Inside \ disturbed : patched
    /\ Guard!Inside = {} => ~patched

LEMMA GuardInit ==
    ASSUME Guard!BackendsAssumption, Guard!Init
    PROVE  GuardInv
<1>1. Guard!Inside = {}
  BY DEF Guard!Init, Guard!Inside
<1>2. at \in [Threads -> 0..Guard!Over]
  BY DEF Guard!Init, Guard!Over, Guard!BackendsAssumption
<1> QED
  BY <1>1, <1>2 DEF Guard!Init, GuardInv, Guard!TypeOK

LEMMA GuardStep ==
    ASSUME Guard!BackendsAssumption, GuardInv, [Guard!Next]_(Guard!vars)
    PROVE  GuardInv'
<1> USE DEF GuardInv, Guard!TypeOK, Guard!Inside, Guard!Over, Guard!BackendsAssumption
<1>1. ASSUME NEW t \in Threads, Guard!Enter(t) PROVE GuardInv'
  <2>1. at[t] = 0 /\ at' = [at EXCEPT ![t] = 1] /\ marked' = marked \cup {t} /\ patched'
    BY <1>1 DEF Guard!Enter, Guard!ReplaceMethod
  <2>2. Guard!Inside' = Guard!Inside \cup {t}
    BY <2>1
  <2> QED
    BY <1>1, <2>1, <2>2 DEF Guard!Enter
<1>2. ASSUME NEW t \in Threads, Guard!AskInVain(t) \/ Guard!AskUnknown(t) \/ Guard!Answer(t)
      PROVE  GuardInv'
  <2>1. PICK n \in 1..Guard!Over : at' = [at EXCEPT ![t] = n]
    BY <1>2 DEF Guard!AskInVain, Guard!AskUnknown, Guard!Answer
  <2>2. /\ at[t] \in 1..Backends /\ UNCHANGED <<patched, marked, disturbed>>
        /\ created' \in SUBSET Threads
    BY <1>2 DEF Guard!AskInVain, Guard!AskUnknown, Guard!Answer
  <2>3. Guard!Inside' = Guard!Inside
    BY <2>1, <2>2
  <2> QED
    BY <2>1, <2>2, <2>3
<1>3. ASSUME NEW t \in Threads, Guard!Leave(t) PROVE GuardInv'
  <2>1. Guard!Inside' = Guard!Inside \ {t}
    BY <1>3 DEF Guard!Leave
  <2>2. /\ marked' = marked \ {t} /\ patched' = FALSE /\ created' = created
        /\ disturbed' = disturbed \cup (Guard!Inside \ {t})
    BY <1>3 DEF Guard!Leave, Guard!Unmark
  <2>3. at' \in [Threads -> 0..Guard!Over]
    BY <1>3 DEF Guard!Leave
  <2>4. disturbed' \in SUBSET Threads /\ Guard!Inside' \ disturbed' = {}
    BY <2>1, <2>2
  <2> QED
    BY <2>1, <2>2, <2>3, <2>4
<1>4. CASE UNCHANGED Guard!vars
  BY <1>4 DEF Guard!vars
<1> QED
  BY <1>1, <1>2, <1>3, <1>4 DEF Guard!Next

\* _authenticate_context, custom_get_or_create: types hold; the method that refuses users never stays in
\* the model once the last thread has left, and no thread outside is refused.
THEOREM MethodComesBack ==
    ASSUME Guard!BackendsAssumption
    PROVE  Guard!Spec => [](Guard!TypeOK /\ Guard!NoLeak)
<1>1. Guard!Init => GuardInv
  BY GuardInit
<1>2. GuardInv /\ [Guard!Next]_(Guard!vars) => GuardInv'
  BY GuardStep
<1>3. GuardInv => Guard!TypeOK /\ Guard!NoLeak
  BY DEF GuardInv, Guard!NoLeak, Guard!TypeOK, Guard!Refuses
<1> QED
  BY <1>1, <1>2, <1>3, PTL DEF Guard!Spec

\* A backend makes a user only for a thread that another one disturbed by leaving since it
\* entered (the custom get_or_create was taken out of the model under it).
THEOREM OnlyTheDisturbedCreate ==
    ASSUME Guard!BackendsAssumption
    PROVE  Guard!Spec => Guard!AloneIsGuarded
<1>1. Guard!Init => GuardInv
  BY GuardInit
<1>2. GuardInv /\ [Guard!Next]_(Guard!vars)
      => GuardInv' /\ [\A t \in Guard!Inside : t \in created' \ created => t \in disturbed]_(Guard!vars)
  <2> SUFFICES ASSUME GuardInv, [Guard!Next]_(Guard!vars), NEW t \in Guard!Inside,
                      t \in created' \ created, t \notin disturbed
               PROVE  FALSE
    BY GuardStep
  <2>1. patched /\ t \in marked
    BY DEF GuardInv, Guard!TypeOK
  <2>2. \A s \in Threads : Guard!AskUnknown(s) => created' = created \/ s = t
    BY DEF Guard!AskUnknown, Guard!AskInVain
  <2> QED
    BY <2>1, <2>2 DEF Guard!Next, Guard!vars, Guard!Enter, Guard!AskUnknown, Guard!AskInVain, Guard!Answer, Guard!Leave,
                 Guard!Refuses
<1> QED
  BY <1>1, <1>2, PTL DEF Guard!Spec, Guard!AloneIsGuarded

-----------------------------------------------------------------------------
(* AppletAccounts: the account a connection runs with.                     *)

\* Connections, the accounts of an applet host, and the keys that say who uses which.
CONSTANTS Conns, Users, UserOf, Applets, AppletOf, Public, Private, PrivateOf,
          HostConcurrent, AppConcurrent, None
VARIABLES keys, phase, chosen, prefer, spoilt
Host == INSTANCE AppletAccounts WITH pc <- phase

Has(c) == phase[c] \in {"take", "using"}

\* What two connections may share: a private account of a host that allows it, and one applet
\* only if that allows it too.
MayShare(c, d) ==
    /\ chosen[c] \notin Public /\ HostConcurrent
    /\ AppletOf[c] = AppletOf[d] => Host!AllConcurrent(AppletOf[c])

\* Two connections with one account may share it.
Apart ==
    \A c, d \in Conns :
        (c # d /\ Has(c) /\ Has(d) /\ chosen[c] = chosen[d] /\ chosen[c] \notin spoilt)
        => MayShare(c, d)

HostInv ==
    /\ Host!TypeOK
    /\ \A c \in Conns : Has(c) => chosen[c] \in Host!Accounts
    /\ Host!UsedHasKey
    /\ Apart

\* The choice of an account that no key the chooser looks at names: who has it may share it,
\* or has not set its key, and then it is spoilt.
LEMMA ChoiceKeeps ==
    ASSUME Host!AppletAssumption, HostInv, NEW c \in Conns, phase[c] = "new",
           NEW account \in Host!Accounts,
           \/ account \in Public \ Host!Used
           \/ account \notin Public /\ Host!PrivateIsFree(account, AppletOf[c]),
           Host!Choose(c, account),
           keys' = keys, prefer' \in [Users -> Public \cup {None}]
    PROVE  HostInv'
<1>1. Host!TypeOK'
  BY DEF HostInv, Host!TypeOK, Host!Choose
<1>2. /\ chosen' = [chosen EXCEPT ![c] = account] /\ phase' = [phase EXCEPT ![c] = "take"]
      /\ spoilt \subseteq spoilt'
      /\ Host!TakenUnseen(account, AppletOf[c]) => account \in spoilt'
      /\ chosen \in [Conns -> Host!Accounts \cup {None}]
      /\ phase \in [Conns -> {"new", "take", "using", "refused", "over"}]
  BY DEF HostInv, Host!TypeOK, Host!Choose
<1>3. \A d \in Conns : Has(d)' => chosen'[d] \in Host!Accounts
  BY <1>2 DEF HostInv, Has
<1>4. Host!UsedHasKey'
  BY <1>2 DEF HostInv, Host!UsedHasKey, Host!KeyOf, Host!NeedsKey
<1>5. ASSUME NEW d \in Conns, d # c, Has(d), chosen[d] = account, account \notin spoilt'
      PROVE  /\ account \notin Public /\ HostConcurrent
             /\ AppletOf[c] = AppletOf[d] => Host!AllConcurrent(AppletOf[c])
  <2>1. account \notin spoilt /\ ~ Host!TakenUnseen(account, AppletOf[c])
    BY <1>2, <1>5
  <2>2. CASE phase[d] = "take"
    BY <1>5, <2>1, <2>2 DEF Host!TakenUnseen, Host!NeedsKey, Host!AllConcurrent
  <2>3. CASE phase[d] = "using" /\ Host!NeedsKey(d)
    <3>1. <<account, AppletOf[d]>> \in keys /\ account \in Host!Used
      BY <1>5, <2>1, <2>3 DEF HostInv, Host!UsedHasKey, Host!KeyOf, Host!Used
    <3> QED
      BY <3>1 DEF Host!PrivateIsFree, Host!AllConcurrent
  <2>4. CASE ~ Host!NeedsKey(d)
    BY <1>5, <2>4 DEF Host!NeedsKey, Host!AllConcurrent
  <2> QED
    BY <1>5, <2>2, <2>3, <2>4 DEF Has
<1>6. Apart'
  <2> SUFFICES ASSUME NEW e \in Conns, NEW d \in Conns, e # d, Has(e)', Has(d)',
                      chosen'[e] = chosen'[d], chosen'[e] \notin spoilt'
               PROVE  MayShare(e, d)'
    BY DEF Apart
  <2>1. CASE e # c /\ d # c
    BY <1>2, <2>1 DEF HostInv, Apart, Has, MayShare
  <2>2. CASE e = c
    BY <1>2, <1>5, <2>2 DEF Has, MayShare
  <2>3. CASE d = c
    BY <1>2, <1>5, <2>3 DEF Has, MayShare, Host!AllConcurrent
  <2> QED
    BY <2>1, <2>2, <2>3
<1> QED
  BY <1>1, <1>3, <1>4, <1>6 DEF HostInv

\* The end of a connection: the account stays spoilt if another one has it.
LEMMA EndKeeps ==
    ASSUME Host!AppletAssumption, HostInv, NEW c \in Conns, Host!End(c),
           keys' \in {keys, keys \ Host!Released(c)}, UNCHANGED <<chosen, prefer>>
    PROVE  HostInv'
<1>1. /\ phase[c] = "using" /\ phase' = [phase EXCEPT ![c] = "over"]
      /\ phase \in [Conns -> {"new", "take", "using", "refused", "over"}]
  BY DEF HostInv, Host!TypeOK, Host!End
<1>2. Host!TypeOK'
  BY <1>1 DEF HostInv, Host!TypeOK, Host!End
<1>3. \A d \in Conns : Has(d)' => d # c /\ Has(d)
  BY <1>1 DEF Has
<1>4. \A d \in Conns : Has(d)' /\ chosen[d] \in spoilt => chosen[d] \in spoilt'
  BY <1>1, <1>3 DEF Has, Host!End
<1>5. Host!UsedHasKey'
  <2> SUFFICES ASSUME NEW d \in Conns, phase'[d] = "using", chosen[d] \notin spoilt', Host!NeedsKey(d)
               PROVE  Host!KeyOf(d) \in keys'
    BY DEF Host!UsedHasKey, Host!KeyOf, Host!NeedsKey
  <2>1. d # c /\ phase[d] = "using" /\ chosen[d] \notin spoilt
    BY <1>1, <1>4 DEF Has
  <2>2. Host!KeyOf(d) \in keys
    BY <2>1 DEF HostInv, Host!UsedHasKey
  <2>3. ~ (chosen[c] = chosen[d] /\ AppletOf[c] = AppletOf[d])
    BY <1>1, <2>1 DEF HostInv, Apart, Has, MayShare, Host!NeedsKey
  <2>4. Host!KeyOf(d) # Host!KeyOf(c)
    BY <2>3 DEF Host!KeyOf
  <2> QED
    BY <2>2, <2>4 DEF Host!Released
<1>6. Apart'
  BY <1>3, <1>4 DEF HostInv, Apart, MayShare
<1> QED
  BY <1>2, <1>3, <1>5, <1>6 DEF HostInv

LEMMA HostStep ==
    ASSUME Host!AppletAssumption, HostInv, [Host!Next]_(Host!vars)
    PROVE  HostInv'
<1>1. ASSUME NEW c \in Conns, Host!ChoosePrivate(c) PROVE HostInv'
  <2> DEFINE account == PrivateOf[UserOf[c]]
  <2>1. account \in Private /\ account \notin Public /\ account \in Host!Accounts
    BY <1>1 DEF Host!ChoosePrivate, Host!MayUsePrivate, Host!AppletAssumption, Host!Accounts
  <2>2. prefer' \in [Users -> Public \cup {None}]
    BY <1>1 DEF Host!ChoosePrivate, HostInv, Host!TypeOK
  <2> QED
    BY <1>1, <2>1, <2>2, ChoiceKeeps DEF Host!ChoosePrivate, Host!MayUsePrivate
<1>2. ASSUME NEW c \in Conns, Host!ChoosePublic(c) PROVE HostInv'
  <2>1. PICK account \in Public \ Host!Used :
          Host!Choose(c, account) /\ prefer' = [prefer EXCEPT ![UserOf[c]] = account]
    BY <1>2 DEF Host!ChoosePublic, Host!Candidates, Host!FreePublic
  <2>2. prefer' \in [Users -> Public \cup {None}] /\ account \in Host!Accounts
    BY <2>1 DEF HostInv, Host!TypeOK, Host!Accounts
  <2> QED
    BY <1>2, <2>1, <2>2, ChoiceKeeps DEF Host!ChoosePublic
<1>3. ASSUME NEW c \in Conns, Host!Refuse(c) PROVE HostInv'
  BY <1>3 DEF Host!Refuse, HostInv, Host!TypeOK, Host!UsedHasKey, Host!KeyOf, Host!NeedsKey, Apart,
     MayShare, Has
<1>4. ASSUME NEW c \in Conns, Host!Take(c) PROVE HostInv'
  <2>1. Host!KeyOf(c) \in Host!Accounts \X Applets
    BY <1>4 DEF Host!Take, HostInv, Has, Host!KeyOf, Host!AppletAssumption
  <2>2. /\ phase[c] = "take" /\ phase' = [phase EXCEPT ![c] = "using"]
        /\ phase \in [Conns -> {"new", "take", "using", "refused", "over"}]
        /\ keys' = keys \cup {Host!KeyOf(c)} /\ UNCHANGED <<chosen, prefer, spoilt>>
    BY <1>4 DEF Host!Take, HostInv, Host!TypeOK
  <2>3. Host!TypeOK'
    BY <2>1, <2>2 DEF HostInv, Host!TypeOK
  <2>4. \A d \in Conns : Has(d)' <=> Has(d)
    BY <2>2 DEF Has
  <2>5. Host!UsedHasKey'
    BY <2>2 DEF HostInv, Host!UsedHasKey, Host!KeyOf, Host!NeedsKey
  <2>6. Apart'
    BY <2>2, <2>4 DEF HostInv, Apart, MayShare
  <2> QED
    BY <2>2, <2>3, <2>4, <2>5, <2>6 DEF HostInv
<1>5. ASSUME NEW c \in Conns, Host!Release(c) PROVE HostInv'
  BY <1>5, EndKeeps DEF Host!Release
<1>6. ASSUME NEW c \in Conns, Host!Vanish(c) PROVE HostInv'
  BY <1>6, EndKeeps DEF Host!Vanish
<1>7. ASSUME NEW c \in Conns, Host!Again(c) PROVE HostInv'
  BY <1>7 DEF Host!Again, HostInv, Host!TypeOK, Host!UsedHasKey, Host!KeyOf, Host!NeedsKey, Apart,
     MayShare, Has
<1>8. ASSUME NEW key \in keys, Host!KeyExpires(key) PROVE HostInv'
  <2>1. key[1] \in Host!Accounts
    BY <1>8 DEF HostInv, Host!TypeOK
  <2>2. Host!TypeOK'
    BY <1>8, <2>1 DEF HostInv, Host!TypeOK, Host!KeyExpires
  <2>3. ASSUME NEW c \in Conns, phase[c] = "using", chosen[c] \notin spoilt', Host!NeedsKey(c)
        PROVE  Host!KeyOf(c) \in keys'
    <3>1. Host!KeyOf(c) \in keys
      BY <1>8, <2>3 DEF HostInv, Host!UsedHasKey, Host!KeyExpires
    <3>2. Host!KeyOf(c)[1] = chosen[c]
      BY DEF Host!KeyOf
    <3>3. Host!KeyOf(c) # key
      BY <1>8, <2>3, <3>2 DEF Host!KeyExpires
    <3> QED
      BY <1>8, <3>1, <3>3 DEF Host!KeyExpires
  <2>4. Host!UsedHasKey'
    BY <1>8, <2>3 DEF Host!UsedHasKey, Host!KeyExpires, Host!KeyOf, Host!NeedsKey
  <2>5. Apart'
    BY <1>8 DEF HostInv, Apart, MayShare, Has, Host!KeyExpires
  <2> QED
    BY <1>8, <2>2, <2>4, <2>5 DEF HostInv, Has, Host!KeyExpires
<1>9. CASE UNCHANGED Host!vars
  BY <1>9 DEF Host!vars, HostInv, Host!TypeOK, Host!UsedHasKey, Host!KeyOf, Host!NeedsKey, Apart,
     MayShare, Has
<1> QED
  BY <1>1, <1>2, <1>3, <1>4, <1>5, <1>6, <1>7, <1>8, <1>9 DEF Host!Next

\* No two of a set is at most one; the instance counts as FiniteSets does.
LEMMA AtMostOne ==
    ASSUME NEW S, \A x, y \in S : x = y
    PROVE  Host!Cardinality(S) <= 1
<1> SUFFICES Cardinality(S) <= 1
  BY DEF Host!Cardinality, Cardinality
<1>1. CASE S = {}
  BY <1>1, FS_EmptySet
<1>2. CASE S # {}
  <2>1. PICK x \in S : S = {x}
    BY <1>2
  <2> QED
    BY <2>1, FS_Singleton
<1> QED
  BY <1>1, <1>2

\* Applet.select_host_account, release_applet_account: with any users, applets and accounts
\* and any number of connections, a public account is used by one connection at a time, on a
\* host of one session a private one too, and the key of such a connection is there while it
\* uses it; all this but for accounts that, since they were last free, two connections chose
\* at the same moment, or whose key expired under its connection.
THEOREM AccountsAreExclusive ==
    ASSUME Host!AppletAssumption
    PROVE  Host!Spec => /\ []Host!TypeOK
                       /\ []Host!PublicIsExclusive /\ []Host!PrivateIsExclusive /\ []Host!UsedHasKey
<1>1. Host!Init => HostInv
  BY DEF Host!Init, HostInv, Host!TypeOK, Host!UsedHasKey, Apart, Has
<1>2. HostInv /\ [Host!Next]_(Host!vars) => HostInv'
  BY HostStep
<1>3. HostInv => /\ Host!TypeOK
                 /\ Host!PublicIsExclusive /\ Host!PrivateIsExclusive /\ Host!UsedHasKey
  <2> SUFFICES ASSUME HostInv
               PROVE  Host!PublicIsExclusive /\ Host!PrivateIsExclusive
    BY DEF HostInv
  <2>1. ASSUME NEW a \in Public \ spoilt PROVE Host!Cardinality(Host!Using(a)) <= 1
    <3>1. \A c, d \in Host!Using(a) : c = d
      BY DEF Host!Using, HostInv, Apart, MayShare, Has
    <3> QED
      BY <3>1, AtMostOne
  <2>2. ASSUME ~HostConcurrent, NEW a \in Private \ spoilt
        PROVE  Host!Cardinality(Host!Using(a)) <= 1
    <3>1. \A c, d \in Host!Using(a) : c = d
      BY <2>2 DEF Host!Using, HostInv, Apart, MayShare, Has
    <3> QED
      BY <3>1, AtMostOne
  <2>3. Host!PublicIsExclusive
    BY <2>1 DEF Host!PublicIsExclusive
  <2> QED
    BY <2>2, <2>3 DEF Host!PrivateIsExclusive
<1> QED
  BY <1>1, <1>2, <1>3, PTL DEF Host!Spec
=============================================================================
