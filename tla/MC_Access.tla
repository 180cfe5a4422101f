----------------------------- MODULE MC_Access -----------------------------
(***************************************************************************)
(* Instances for TLC of the modules about who gets in: TicketFlow,         *)
(* TicketSerial, AppletAccounts and AuthGuard.  They share no variable, so *)
(* a run explores them side by side: part says which of them a behaviour   *)
(* is about, and the variables of the others keep their first values.      *)
(***************************************************************************)
EXTENDS TicketFlow, TLC

CONSTANTS
    Parts,                          \* what a run explores
    ann, bob, pat,                  \* users
    o1, o2, o3,                     \* openers of tickets
    c1, c2, c3, none,               \* connections
    app, web, u1, u2, p1, p2, js1,  \* applets, users and accounts of their host
    h1, h2, h3                      \* threads of a web worker

VARIABLES
    part,
    today, ticket, lock, alive,
    keys, pc, chosen, prefer, spoilt,
    patched, mark, at, disturbed, created

svars == <<today, ticket, lock, alive>>
avars == <<keys, pc, chosen, prefer, spoilt>>
gvars == <<patched, mark, at, disturbed, created>>
allvars == <<part, vars, svars, avars, gvars>>

\* One step with two assignees, two steps that share one, and the applicant as the
\* only assignee; and two tickets of one step, decided in bulk.
Flows == {<<{ann, pat}>>, <<{ann, bob}, {bob}>>, <<{pat}>>}
Bulk == INSTANCE TicketFlow WITH MaxTicket <- 2, Flow <- {<<{ann, bob}>>},
          Content <- {CHOOSE c \in Content : TRUE}

\* More openers than a day has numbers.
Serial == INSTANCE TicketSerial WITH Opener <- {o1, o2, o3}, Nobody <- none, MaxDay <- 2, MaxNum <- 2

\* A user with two connections and a private account, and one with neither; on a host that
\* allows one session for a user, and on one that allows many.
UserOfConn == [c \in {c1, c2, c3} |-> IF c \in {c1, c2} THEN u1 ELSE u2]
AppletOfConn == [c \in {c1, c2, c3} |-> IF c \in {c1, c3} THEN app ELSE web]
Single == INSTANCE AppletAccounts WITH Conns <- {c1, c2, c3}, Users <- {u1, u2},
            UserOf <- UserOfConn, Applets <- {app, web}, AppletOf <- AppletOfConn,
            Public <- {p1, p2}, Private <- {js1},
            PrivateOf <- [u \in {u1, u2} |-> IF u = u1 THEN js1 ELSE none],
            HostConcurrent <- FALSE, AppConcurrent <- {web}, None <- none
Many == INSTANCE AppletAccounts WITH Conns <- {c1, c2, c3}, Users <- {u1, u2},
            UserOf <- UserOfConn, Applets <- {app, web}, AppletOf <- AppletOfConn,
            Public <- {p1, p2}, Private <- {js1},
            PrivateOf <- [u \in {u1, u2} |-> IF u = u1 THEN js1 ELSE none],
            HostConcurrent <- TRUE, AppConcurrent <- {web}, None <- none

Guard == INSTANCE AuthGuard WITH Threads <- {h1, h2, h3}, Backends <- 3

ASSUME AccessAssumption ==
    /\ Parts \subseteq {"ticket", "bulk", "serial", "single", "many", "guard"}
    /\ Bulk!ConstantsAssumption
    /\ Serial!SerialAssumption /\ Single!AppletAssumption /\ Many!AppletAssumption
    /\ Guard!BackendsAssumption

AllInit ==
    /\ part \in Parts
    /\ IF part = "bulk" THEN Bulk!Init ELSE Init
    /\ Serial!Init
    /\ Single!Init /\ Guard!Init

InTickets(A) == A /\ UNCHANGED <<part, svars, avars, gvars>>

AllNext ==
    \/ part = "ticket" /\ InTickets(Next)
    \/ part = "bulk" /\ InTickets(Bulk!Next)
    \/ part = "serial" /\ Serial!Next /\ UNCHANGED <<part, vars, avars, gvars>>
    \/ part = "single" /\ Single!Next /\ UNCHANGED <<part, vars, svars, gvars>>
    \/ part = "many" /\ Many!Next /\ UNCHANGED <<part, vars, svars, gvars>>
    \/ part = "guard" /\ Guard!Next /\ UNCHANGED <<part, vars, svars, avars>>

\* Requests that were received and openers go on; none of them is there in another part.
AllFairness ==
    /\ \A r \in Request :
         WF_allvars(InTickets(IF part = "bulk" THEN Bulk!Serve(r) ELSE Serve(r)))
    /\ Serial!Fairness

AllSpec == AllInit /\ [][AllNext]_allvars /\ AllFairness

-----------------------------------------------------------------------------
(* The properties of the modules, each about the part it belongs to. *)

TypesOK ==
    CASE part = "ticket" -> TypeOK
      [] part = "bulk" -> Bulk!TypeOK
      [] part = "serial" -> Serial!TypeOK
      [] part = "single" -> Single!TypeOK
      [] part = "many" -> Many!TypeOK
      [] OTHER -> Guard!TypeOK

\* Requests about tickets and openers of tickets end: row locks are taken in one order, and
\* a lock whose holder died is given up.
CallsEnd == RequestsEnd /\ Serial!OpensEnd

\* The tickets of a day are numbered without a gap or a double, and none is refused before
\* the day is full (get_next_serial_num); an account of a host is used by one connection
\* where it should be, and its key is there as long, unless two chose it at once or its key
\* outlived its day (Applet.select_host_account, ConnectionToken.release_applet_account).
NothingIsGivenTwice ==
    CASE part = "serial" -> Serial!SerialsDense /\ Serial!FullMeansFull
      [] part = "single" -> Single!PublicIsExclusive /\ Single!PrivateIsExclusive /\ Single!UsedHasKey
      [] part = "many" -> Many!PublicIsExclusive /\ Many!UsedHasKey
      [] OTHER -> TRUE

\* authenticate guards a thread no other disturbs, and no thread that is not in it
\* (_authenticate_context in authentication/mixins.py).
OnlyAloneIsGuarded == [](part = "guard" => Guard!NoLeak) /\ Guard!AloneIsGuarded
============================================================================
