---------------------------- MODULE Access_proofs ----------------------------
(***************************************************************************)
(* What the run of MC_Access checks, proved of its whole specification.    *)
(* Each part of it is an instance of a module that has its theorems in     *)
(* TicketFlow_proofs; here those are instances with the constants of the   *)
(* part.  For each part a lemma Same... says that both instances have the  *)
(* same steps, and a lemma ...Holds that a behaviour that begins in the    *)
(* part stays in it and is one of the module.                              *)
(***************************************************************************)
EXTENDS MC_Access, TLAPS

\* The proofs, for the instances of the run.
Tickets == INSTANCE TicketFlow_proofs
             WITH Opener <- {o1, o2, o3}, Nobody <- none, MaxDay <- 2, MaxNum <- 2,
                  Threads <- {h1, h2, h3}, Backends <- 3, marked <- mark,
                  Conns <- {c1, c2, c3}, Users <- {u1, u2}, UserOf <- UserOfConn,
                  Applets <- {app, web}, AppletOf <- AppletOfConn, Public <- {p1, p2},
                  Private <- {js1}, PrivateOf <- [u \in {u1, u2} |-> IF u = u1 THEN js1 ELSE none],
                  HostConcurrent <- FALSE, AppConcurrent <- {web}, None <- none, phase <- pc
InBulk == INSTANCE TicketFlow_proofs
            WITH MaxTicket <- 2, Flow <- {<<{ann, bob}>>}, Content <- {CHOOSE c \in Content : TRUE},
                 Opener <- {o1, o2, o3}, Nobody <- none, MaxDay <- 2, MaxNum <- 2,
                 Threads <- {h1, h2, h3}, Backends <- 3, marked <- mark,
                 Conns <- {c1, c2, c3}, Users <- {u1, u2}, UserOf <- UserOfConn,
                 Applets <- {app, web}, AppletOf <- AppletOfConn, Public <- {p1, p2},
                 Private <- {js1}, PrivateOf <- [u \in {u1, u2} |-> IF u = u1 THEN js1 ELSE none],
                 HostConcurrent <- TRUE, AppConcurrent <- {web}, None <- none, phase <- pc

LEMMA TicketsConstants == Tickets!ConstantsAssumption
  BY ConstantsAssumption DEF ConstantsAssumption, Tickets!ConstantsAssumption

LEMMA InBulkConstants == InBulk!ConstantsAssumption
  BY AccessAssumption, SMTT(60) DEF AccessAssumption, Bulk!ConstantsAssumption,
     InBulk!ConstantsAssumption

LEMMA SameTicket ==
    /\ Tickets!Init <=> Init
    /\ Tickets!Next <=> Next
    /\ UNCHANGED vars => UNCHANGED Tickets!vars
    /\ Tickets!TypeOK <=> TypeOK
  BY DEF Tickets!Ticket, Tickets!States, Tickets!vars, Tickets!Step, Tickets!Row, Tickets!NewRow,
     Tickets!AbsentRow, Tickets!Vias, Tickets!Idle, Tickets!TypeOK, Tickets!Init,
     Tickets!exclude_applicant, Tickets!has_current_assignee, Tickets!has_all_assignee,
     Tickets!has_next, Tickets!change_step, Tickets!finish_or_next, Tickets!change_state,
     Tickets!Outcome, Tickets!Conflict, Tickets!Locked, Tickets!Open, Tickets!Allowed,
     Tickets!Receive, Tickets!MayAct, Tickets!Related, Tickets!Read, Tickets!Turn, Tickets!Finished,
     Tickets!LockFree, Tickets!BulkDenied, Tickets!Applied, Tickets!Decide, Tickets!Refuse,
     Tickets!Commit, Tickets!Die, Tickets!Serve, Tickets!Next, Ticket, States, vars, Step, Row,
     NewRow, AbsentRow, Vias, Idle, TypeOK, Init, exclude_applicant, has_current_assignee,
     has_all_assignee, has_next, change_step, finish_or_next, change_state, Outcome, Conflict,
     Locked, Open, Allowed, Receive, MayAct, Related, Read, Turn, Finished, LockFree, BulkDenied,
     Applied, Decide, Refuse, Commit, Die, Serve, Next, Tickets!Cardinality, Cardinality

LEMMA TicketHolds ==
    AllSpec /\ part = "ticket"
    => [](part = "ticket" /\ TypeOK)
<1>1. AllInit /\ part = "ticket" => Tickets!Init
  BY SameTicket DEF AllInit
<1>2. part = "ticket" /\ [AllNext]_allvars
      => (part = "ticket")' /\ [Tickets!Next]_(Tickets!vars)
  BY SameTicket, Zenon DEF AllNext, allvars, svars, avars, gvars, vars, InTickets
<1>3. Tickets!ConstantsAssumption
  BY AccessAssumption, ConstantsAssumption DEF AccessAssumption, Tickets!ConstantsAssumption,
     ConstantsAssumption
<1>4. Tickets!Spec => []Tickets!TypeOK
  BY Tickets!TypesHold, <1>3, SMTT(60)
<1> QED
  BY SameTicket, <1>1, <1>2, <1>4, PTL DEF AllSpec, Tickets!Spec

LEMMA SameBulk ==
    /\ InBulk!Init <=> Bulk!Init
    /\ InBulk!Next <=> Bulk!Next
    /\ UNCHANGED Bulk!vars => UNCHANGED InBulk!vars
    /\ InBulk!TypeOK <=> Bulk!TypeOK
  BY DEF InBulk!Ticket, InBulk!States, InBulk!vars, InBulk!Step, InBulk!Row, InBulk!NewRow,
     InBulk!AbsentRow, InBulk!Vias, InBulk!Idle, InBulk!TypeOK, InBulk!Init,
     InBulk!exclude_applicant, InBulk!has_current_assignee, InBulk!has_all_assignee,
     InBulk!has_next, InBulk!change_step, InBulk!finish_or_next, InBulk!change_state,
     InBulk!Outcome, InBulk!Conflict, InBulk!Locked, InBulk!Open, InBulk!Allowed, InBulk!Receive,
     InBulk!MayAct, InBulk!Related, InBulk!Read, InBulk!Turn, InBulk!Finished, InBulk!LockFree,
     InBulk!BulkDenied, InBulk!Applied, InBulk!Decide, InBulk!Refuse, InBulk!Commit, InBulk!Die,
     InBulk!Serve, InBulk!Next, Bulk!Ticket, Bulk!States, Bulk!vars, Bulk!Step, Bulk!Row,
     Bulk!NewRow, Bulk!AbsentRow, Bulk!Vias, Bulk!Idle, Bulk!TypeOK, Bulk!Init,
     Bulk!exclude_applicant, Bulk!has_current_assignee, Bulk!has_all_assignee, Bulk!has_next,
     Bulk!change_step, Bulk!finish_or_next, Bulk!change_state, Bulk!Outcome, Bulk!Conflict,
     Bulk!Locked, Bulk!Open, Bulk!Allowed, Bulk!Receive, Bulk!MayAct, Bulk!Related, Bulk!Read,
     Bulk!Turn, Bulk!Finished, Bulk!LockFree, Bulk!BulkDenied, Bulk!Applied, Bulk!Decide,
     Bulk!Refuse, Bulk!Commit, Bulk!Die, Bulk!Serve, Bulk!Next, InBulk!Cardinality, Bulk!Cardinality

LEMMA BulkHolds ==
    AllSpec /\ part = "bulk"
    => [](part = "bulk" /\ Bulk!TypeOK)
<1>1. AllInit /\ part = "bulk" => InBulk!Init
  BY SameBulk DEF AllInit
<1>2. part = "bulk" /\ [AllNext]_allvars
      => (part = "bulk")' /\ [InBulk!Next]_(InBulk!vars)
  BY SameBulk, Zenon DEF AllNext, allvars, svars, avars, gvars, vars, InTickets, Bulk!vars
<1>3. InBulk!ConstantsAssumption
  BY AccessAssumption, ConstantsAssumption DEF AccessAssumption, InBulk!ConstantsAssumption,
     Bulk!ConstantsAssumption
<1>4. InBulk!Spec => []InBulk!TypeOK
  BY InBulk!TypesHold, <1>3
<1> QED
  BY SameBulk, <1>1, <1>2, <1>4, PTL DEF AllSpec, InBulk!Spec

LEMMA SameSerial ==
    /\ Tickets!Serial!Init <=> Serial!Init
    /\ Tickets!Serial!Next <=> Serial!Next
    /\ UNCHANGED Serial!vars => UNCHANGED Tickets!Serial!vars
    /\ Tickets!Serial!TypeOK <=> Serial!TypeOK
    /\ Tickets!Serial!SerialsDense <=> Serial!SerialsDense
    /\ Tickets!Serial!FullMeansFull <=> Serial!FullMeansFull
  BY DEF Tickets!Serial!Day, Tickets!Serial!vars, Tickets!Serial!Stages, Tickets!Serial!TypeOK,
     Tickets!Serial!Init, Tickets!Serial!At, Tickets!Serial!Committed, Tickets!Serial!Written,
     Tickets!Serial!Last, Tickets!Serial!Same, Tickets!Serial!Midnight, Tickets!Serial!Create,
     Tickets!Serial!Acquire, Tickets!Serial!get_next_serial_num, Tickets!Serial!DayFull,
     Tickets!Serial!Compute, Tickets!Serial!Conflict, Tickets!Serial!Save, Tickets!Serial!Release,
     Tickets!Serial!Commit, Tickets!Serial!Rollback, Tickets!Serial!Die, Tickets!Serial!LockExpires,
     Tickets!Serial!Work, Tickets!Serial!Next, Tickets!Serial!SerialsDense,
     Tickets!Serial!FullMeansFull, Serial!Day, Serial!vars, Serial!Stages, Serial!TypeOK,
     Serial!Init, Serial!At, Serial!Committed, Serial!Written, Serial!Last, Serial!Same,
     Serial!Midnight, Serial!Create, Serial!Acquire, Serial!get_next_serial_num, Serial!DayFull,
     Serial!Compute, Serial!Conflict, Serial!Save, Serial!Release, Serial!Commit, Serial!Rollback,
     Serial!Die, Serial!LockExpires, Serial!Work, Serial!Next, Serial!SerialsDense,
     Serial!FullMeansFull, Tickets!Serial!Cardinality, Serial!Cardinality

LEMMA SerialHolds ==
    AllSpec /\ part = "serial"
    => [](part = "serial" /\ Serial!TypeOK /\ Serial!SerialsDense /\ Serial!FullMeansFull)
<1>1. AllInit /\ part = "serial" => Tickets!Serial!Init
  BY SameSerial DEF AllInit
<1>2. part = "serial" /\ [AllNext]_allvars
      => (part = "serial")' /\ [Tickets!Serial!Next]_(Tickets!Serial!vars)
  BY SameSerial, Zenon DEF AllNext, allvars, svars, avars, gvars, vars, InTickets, Serial!vars
<1>3. Tickets!Serial!SerialAssumption
  BY AccessAssumption, ConstantsAssumption DEF AccessAssumption, Tickets!Serial!SerialAssumption,
     Serial!SerialAssumption
<1>4. Tickets!Serial!Spec => []Tickets!Serial!TypeOK /\ []Tickets!Serial!SerialsDense
          /\ []Tickets!Serial!FullMeansFull
  BY Tickets!SerialsHaveNoGap, <1>3, TicketsConstants
<1> QED
  BY SameSerial, <1>1, <1>2, <1>4, PTL DEF AllSpec, Tickets!Serial!Spec

LEMMA SameSingle ==
    /\ Tickets!Host!Init <=> Single!Init
    /\ Tickets!Host!Next <=> Single!Next
    /\ UNCHANGED Single!vars => UNCHANGED Tickets!Host!vars
    /\ Tickets!Host!TypeOK <=> Single!TypeOK
    /\ Tickets!Host!PublicIsExclusive <=> Single!PublicIsExclusive
    /\ Tickets!Host!PrivateIsExclusive <=> Single!PrivateIsExclusive
    /\ Tickets!Host!UsedHasKey <=> Single!UsedHasKey
  BY DEF Tickets!Host!Accounts, Tickets!Host!vars, Tickets!Host!TypeOK, Tickets!Host!Init,
     Tickets!Host!KeyOf, Tickets!Host!AllConcurrent, Tickets!Host!NeedsKey,
     Tickets!Host!TakenUnseen, Tickets!Host!Choose, Tickets!Host!Used, Tickets!Host!PrivateIsFree,
     Tickets!Host!MayUsePrivate, Tickets!Host!ChoosePrivate, Tickets!Host!FreePublic,
     Tickets!Host!Candidates, Tickets!Host!ChoosePublic, Tickets!Host!Refuse, Tickets!Host!Take,
     Tickets!Host!Released, Tickets!Host!End, Tickets!Host!Release, Tickets!Host!Vanish,
     Tickets!Host!KeyExpires, Tickets!Host!Again, Tickets!Host!Next, Tickets!Host!Using,
     Tickets!Host!PublicIsExclusive, Tickets!Host!PrivateIsExclusive, Tickets!Host!UsedHasKey,
     Tickets!Host!Cardinality, Single!Accounts, Single!vars, Single!TypeOK, Single!Init,
     Single!KeyOf, Single!AllConcurrent, Single!NeedsKey, Single!TakenUnseen, Single!Choose,
     Single!Used, Single!PrivateIsFree, Single!MayUsePrivate, Single!ChoosePrivate,
     Single!FreePublic, Single!Candidates, Single!ChoosePublic, Single!Refuse, Single!Take,
     Single!Released, Single!End, Single!Release, Single!Vanish, Single!KeyExpires, Single!Again,
     Single!Next, Single!Using, Single!PublicIsExclusive, Single!PrivateIsExclusive,
     Single!UsedHasKey, Single!Cardinality

LEMMA SingleHolds ==
    AllSpec /\ part = "single"
    => [](part = "single" /\ Single!TypeOK /\ Single!PublicIsExclusive /\ Single!PrivateIsExclusive
             /\ Single!UsedHasKey)
<1>1. AllInit /\ part = "single" => Tickets!Host!Init
  BY SameSingle DEF AllInit
<1>2. part = "single" /\ [AllNext]_allvars
      => (part = "single")' /\ [Tickets!Host!Next]_(Tickets!Host!vars)
  BY SameSingle, Zenon DEF AllNext, allvars, svars, avars, gvars, vars, InTickets, Single!vars
<1>3. Tickets!Host!AppletAssumption
  BY AccessAssumption, ConstantsAssumption DEF AccessAssumption, Tickets!Host!AppletAssumption,
     Single!AppletAssumption
<1>4. Tickets!Host!Spec => []Tickets!Host!TypeOK /\ []Tickets!Host!PublicIsExclusive
          /\ []Tickets!Host!PrivateIsExclusive /\ []Tickets!Host!UsedHasKey
  BY Tickets!AccountsAreExclusive, <1>3, TicketsConstants
<1> QED
  BY SameSingle, <1>1, <1>2, <1>4, PTL DEF AllSpec, Tickets!Host!Spec

LEMMA SameMany ==
    /\ InBulk!Host!Init <=> Many!Init
    /\ InBulk!Host!Next <=> Many!Next
    /\ UNCHANGED Many!vars => UNCHANGED InBulk!Host!vars
    /\ InBulk!Host!TypeOK <=> Many!TypeOK
    /\ InBulk!Host!PublicIsExclusive <=> Many!PublicIsExclusive
    /\ InBulk!Host!PrivateIsExclusive <=> Many!PrivateIsExclusive
    /\ InBulk!Host!UsedHasKey <=> Many!UsedHasKey
  BY DEF InBulk!Host!Accounts, InBulk!Host!vars, InBulk!Host!TypeOK, InBulk!Host!Init,
     InBulk!Host!KeyOf, InBulk!Host!AllConcurrent, InBulk!Host!NeedsKey, InBulk!Host!TakenUnseen,
     InBulk!Host!Choose, InBulk!Host!Used, InBulk!Host!PrivateIsFree, InBulk!Host!MayUsePrivate,
     InBulk!Host!ChoosePrivate, InBulk!Host!FreePublic, InBulk!Host!Candidates,
     InBulk!Host!ChoosePublic, InBulk!Host!Refuse, InBulk!Host!Take, InBulk!Host!Released,
     InBulk!Host!End, InBulk!Host!Release, InBulk!Host!Vanish, InBulk!Host!KeyExpires,
     InBulk!Host!Again, InBulk!Host!Next, InBulk!Host!Using, InBulk!Host!PublicIsExclusive,
     InBulk!Host!PrivateIsExclusive, InBulk!Host!UsedHasKey, InBulk!Host!Cardinality, Many!Accounts,
     Many!vars, Many!TypeOK, Many!Init, Many!KeyOf, Many!AllConcurrent, Many!NeedsKey,
     Many!TakenUnseen, Many!Choose, Many!Used, Many!PrivateIsFree, Many!MayUsePrivate,
     Many!ChoosePrivate, Many!FreePublic, Many!Candidates, Many!ChoosePublic, Many!Refuse,
     Many!Take, Many!Released, Many!End, Many!Release, Many!Vanish, Many!KeyExpires, Many!Again,
     Many!Next, Many!Using, Many!PublicIsExclusive, Many!PrivateIsExclusive, Many!UsedHasKey,
     Many!Cardinality

LEMMA ManyHolds ==
    AllSpec /\ part = "many"
    => [](part = "many" /\ Many!TypeOK /\ Many!PublicIsExclusive /\ Many!PrivateIsExclusive /\
             Many!UsedHasKey)
<1>1. AllInit /\ part = "many" => InBulk!Host!Init
  BY SameMany DEF AllInit, Single!Init, Many!Init
<1>2. part = "many" /\ [AllNext]_allvars
      => (part = "many")' /\ [InBulk!Host!Next]_(InBulk!Host!vars)
  BY SameMany, Zenon DEF AllNext, allvars, svars, avars, gvars, vars, InTickets, Many!vars
<1>3. InBulk!Host!AppletAssumption
  BY AccessAssumption, ConstantsAssumption DEF AccessAssumption, InBulk!Host!AppletAssumption,
     Many!AppletAssumption
<1>4. InBulk!Host!Spec => []InBulk!Host!TypeOK /\ []InBulk!Host!PublicIsExclusive
          /\ []InBulk!Host!PrivateIsExclusive /\ []InBulk!Host!UsedHasKey
  BY InBulk!AccountsAreExclusive, <1>3, InBulkConstants
<1> QED
  BY SameMany, <1>1, <1>2, <1>4, PTL DEF AllSpec, InBulk!Host!Spec

LEMMA SameGuard ==
    /\ Tickets!Guard!Init <=> Guard!Init
    /\ Tickets!Guard!Next <=> Guard!Next
    /\ UNCHANGED Guard!vars => UNCHANGED Tickets!Guard!vars
    /\ Tickets!Guard!TypeOK <=> Guard!TypeOK
    /\ Tickets!Guard!NoLeak <=> Guard!NoLeak
  BY DEF Tickets!Guard!vars, Tickets!Guard!Inside, Tickets!Guard!Over, Tickets!Guard!TypeOK,
     Tickets!Guard!ReplaceMethod, Tickets!Guard!Enter, Tickets!Guard!Refuses,
     Tickets!Guard!AskInVain, Tickets!Guard!AskUnknown, Tickets!Guard!Answer, Tickets!Guard!Unmark,
     Tickets!Guard!Leave, Tickets!Guard!Init, Tickets!Guard!Next, Tickets!Guard!NoLeak, Guard!vars,
     Guard!Inside, Guard!Over, Guard!TypeOK, Guard!ReplaceMethod, Guard!Enter, Guard!Refuses,
     Guard!AskInVain, Guard!AskUnknown, Guard!Answer, Guard!Unmark, Guard!Leave, Guard!Init,
     Guard!Next, Guard!NoLeak

LEMMA GuardHolds ==
    AllSpec /\ part = "guard"
    => /\ [](part = "guard" /\ Guard!TypeOK /\ Guard!NoLeak)
       /\ [][\A t \in Guard!Inside : t \in created' \ created => t \in disturbed]_(Guard!vars)
<1>1. AllInit /\ part = "guard" => Tickets!Guard!Init
  BY SameGuard DEF AllInit
<1>2. part = "guard" /\ [AllNext]_allvars
      => (part = "guard")' /\ [Tickets!Guard!Next]_(Tickets!Guard!vars)
  BY SameGuard, Zenon DEF AllNext, allvars, svars, avars, gvars, vars, InTickets, Guard!vars
<1>3. Tickets!Guard!BackendsAssumption
  BY AccessAssumption, ConstantsAssumption DEF AccessAssumption, Tickets!Guard!BackendsAssumption,
     Guard!BackendsAssumption
<1>4. Tickets!Guard!Spec => [](Tickets!Guard!TypeOK /\ Tickets!Guard!NoLeak)
  BY Tickets!MethodComesBack, <1>3, TicketsConstants
<1>5. Tickets!Guard!Spec => [][\A t \in Tickets!Guard!Inside : t \in created' \ created
          => t \in disturbed]_(Tickets!Guard!vars)
  BY Tickets!OnlyTheDisturbedCreate, <1>3, TicketsConstants DEF Tickets!Guard!AloneIsGuarded
<1>6. [\A t \in Tickets!Guard!Inside : t \in created' \ created
          => t \in disturbed]_(Tickets!Guard!vars)
      => [\A t \in Guard!Inside : t \in created' \ created => t \in disturbed]_(Guard!vars)
  BY DEF Tickets!Guard!Inside, Guard!Inside, Tickets!Guard!vars, Guard!vars
<1> QED
  BY SameGuard, <1>1, <1>2, <1>4, <1>5, <1>6, PTL DEF AllSpec, Tickets!Guard!Spec

\* Types hold in each part of MC_Access: tickets, their numbers, host accounts, the
\* method that makes users.
THEOREM AccessTypesHold ==
    AllSpec => []TypesOK
<1>1. AllInit => \/ part = "ticket" \/ part = "bulk" \/ part = "serial" \/ part = "single"
                 \/ part = "many" \/ part = "guard"
  BY AccessAssumption DEF AccessAssumption, AllInit
<1>2. /\ part = "ticket" /\ TypeOK => TypesOK
      /\ part = "bulk" /\ Bulk!TypeOK => TypesOK
      /\ part = "serial" /\ Serial!TypeOK => TypesOK
      /\ part = "single" /\ Single!TypeOK => TypesOK
      /\ part = "many" /\ Many!TypeOK => TypesOK
      /\ part = "guard" /\ Guard!TypeOK => TypesOK
  BY DEF TypesOK
<1> QED
  BY <1>1, <1>2, TicketHolds, BulkHolds, SerialHolds, SingleHolds, ManyHolds, GuardHolds, PTL
     DEF AllSpec

\* get_next_serial_num, select_host_account, release_applet_account: in the run's parts no
\* number of a ticket is given twice or left out, and no account of a host is given twice
\* unless two connections chose it at once or its key expired while it was in use.
THEOREM AccessGivesNothingTwice ==
    AllSpec => []NothingIsGivenTwice
<1>1. AllInit => \/ part = "ticket" \/ part = "bulk" \/ part = "serial" \/ part = "single"
                 \/ part = "many" \/ part = "guard"
  BY AccessAssumption DEF AccessAssumption, AllInit
<1>2. /\ part = "ticket" => NothingIsGivenTwice
      /\ part = "bulk" => NothingIsGivenTwice
      /\ part = "serial" /\ Serial!SerialsDense /\ Serial!FullMeansFull => NothingIsGivenTwice
      /\ part = "single" /\ Single!PublicIsExclusive /\ Single!PrivateIsExclusive
                /\ Single!UsedHasKey => NothingIsGivenTwice
      /\ part = "many" /\ Many!PublicIsExclusive /\ Many!PrivateIsExclusive /\ Many!UsedHasKey
                => NothingIsGivenTwice
      /\ part = "guard" => NothingIsGivenTwice
  BY DEF NothingIsGivenTwice
<1> QED
  BY <1>1, <1>2, TicketHolds, BulkHolds, SerialHolds, SingleHolds, ManyHolds, GuardHolds, PTL
     DEF AllSpec

\* _authenticate_context, custom_get_or_create: the method that refuses users does not stay, and a
\* backend makes a user only for a thread that another one disturbed.
THEOREM AccessGuardsTheAlone == AllSpec => OnlyAloneIsGuarded
<1>1. ~(part = "guard") /\ [AllNext]_allvars => ~(part = "guard")' /\ UNCHANGED Guard!vars
  BY Zenon DEF AllNext, allvars, svars, avars, gvars, vars, InTickets, Guard!vars
<1>2. UNCHANGED Guard!vars
      => [\A t \in Guard!Inside : t \in created' \ created => t \in disturbed]_(Guard!vars)
  OBVIOUS
<1>3. /\ part = "guard" /\ Guard!NoLeak => (part = "guard" => Guard!NoLeak)
      /\ ~(part = "guard") => (part = "guard" => Guard!NoLeak)
  OBVIOUS
<1> QED
  BY <1>1, <1>2, <1>3, GuardHolds, PTL DEF AllSpec, OnlyAloneIsGuarded, Guard!AloneIsGuarded
=============================================================================
