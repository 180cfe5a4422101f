------------------------------ MODULE MC_Trees ------------------------------
(***************************************************************************)
(* Instances for TLC of the modules about nodes: NodeMapping, PermTree,    *)
(* PermTreeBuild and NodeTree.  They share no variable, so a run explores  *)
(* them side by side: part says which of them a behaviour is about, and    *)
(* the variables of the others keep their first values.                    *)
(***************************************************************************)
EXTENDS NodeMapping, TLC

CONSTANTS
    Parts,                        \* what a run explores
    t1, t2, t3, p1, p2,           \* threads and processes
    Org, Page, PermVersions,      \* of PermTree
    Asset,
    root, a, b, c, d, e,          \* nodes
    r1, r2, r3                    \* requests

Home == (t1 :> p1) @@ (t2 :> p1) @@ (t3 :> p2)

VARIABLES
    part,
    perm, tree, built, exp, page, work, treelock, treefailures, treeraced,
    nodes, placed, direct_nodes, direct_assets, ungroup, stored, infos, stack, assets, amount,
    row, request, creator

pvars == <<perm, tree, built, exp, page, work, treelock, treefailures, treeraced>>
bvars == <<nodes, placed, direct_nodes, direct_assets, ungroup, stored, infos, stack, assets, amount>>
nvars == <<row, request, creator>>
allvars == <<part, vars, pvars, bvars, nvars>>

Small == INSTANCE PermTree WITH Sync <- TRUE, MaxVersion <- PermVersions, Granting <- {1},
           MaxFailures <- 1, expiring <- exp, lock <- treelock,
           failures <- treefailures, raced <- treeraced
Large == INSTANCE PermTree WITH Sync <- FALSE, MaxVersion <- PermVersions, Granting <- {1},
           MaxFailures <- 1, expiring <- exp, lock <- treelock,
           failures <- treefailures, raced <- treeraced

Build == INSTANCE PermTreeBuild WITH Key <- {<<1>>, <<1, 2>>, <<1, 2, 1>>, <<1, 10>>}

\* Any requests one after the other, on a chain of four nodes and a sibling ...
Edit == INSTANCE NodeTree WITH Root <- root, Nodes <- {root, a, b, c, d, e},
          InitialKey <- (root :> <<1>>) @@ (a :> <<1, 1>>) @@ (b :> <<1, 2>>)
                          @@ (c :> <<1, 1, 1>>) @@ (d :> <<1, 1, 1, 1>>),
          Requests <- {r1, r2, r3}, Ops <- {"create", "create_top", "move", "delete"},
          MaxSelect <- 1, MaxActive <- 1, MaxMark <- 6
\* ... and creations at once, on a tree of two.
Grow == INSTANCE NodeTree WITH Root <- root, Nodes <- {root, a, b, c, d, e},
          InitialKey <- (root :> <<1>>) @@ (a :> <<1, 1>>),
          Requests <- {r1, r2, r3}, Ops <- {"create"}, MaxSelect <- 1, MaxActive <- 3, MaxMark <- 6

ASSUME TreesAssumption ==
    /\ Parts \subseteq {"mapping", "small", "large", "build", "edit", "grow"}
    /\ Small!TreeAssumption /\ Large!TreeAssumption /\ Build!KeyAssumption
    /\ Edit!TreeAssumption /\ Grow!TreeAssumption

AllInit ==
    /\ part \in Parts
    /\ Init /\ Small!Init
    /\ IF part = "build" THEN Build!Init
       ELSE /\ nodes = {} /\ placed = << >> /\ direct_nodes = {} /\ direct_assets = {}
            /\ ungroup = FALSE /\ stored = 0 /\ infos = << >> /\ stack = << >> /\ assets = << >> /\ amount = << >>
    /\ IF part = "edit" THEN Edit!Init ELSE Grow!Init

InMapping(A) == part = "mapping" /\ A /\ UNCHANGED <<part, pvars, bvars, nvars>>
InSmall(A) == part = "small" /\ A /\ UNCHANGED <<part, vars, bvars, nvars>>

AllNext ==
    \/ InMapping(Next)
    \/ InSmall(Small!Next)
    \/ part = "large" /\ Large!Next /\ UNCHANGED <<part, vars, bvars, nvars>>
    \/ part = "build" /\ Build!Next /\ UNCHANGED <<part, vars, pvars, nvars>>
    \/ part = "edit" /\ Edit!Next /\ UNCHANGED <<part, vars, pvars, bvars>>
    \/ part = "grow" /\ Grow!Next /\ UNCHANGED <<part, vars, pvars, bvars>>

AllSpec == AllInit /\ [][AllNext]_allvars

\* What is fair of each, where it moves.  part never changes, so one strong fairness
\* condition stands for those of two parts: a page is opened in the thread it is named after.
AllFairness ==
    /\ WF_allvars(InMapping(LockExpires)) /\ WF_allvars(InMapping(Expire))
    /\ \A p \in Process : WF_allvars(InMapping(Forget(p)))
    /\ WF_allvars(InSmall(Small!Check)) /\ WF_allvars(InSmall(Small!LockExpires))
    /\ \A o \in Org : WF_allvars(InSmall(Small!Expire(o)))
    /\ \A t \in Thread :   \* which are the pages, too
         /\ WF_allvars(InMapping(Serve(t)) \/ InSmall(Small!Refresh(t)))
         /\ SF_allvars(InMapping(Enter(t)) \/ InSmall(Small!Visit(t, FALSE)))
         /\ SF_allvars(InMapping(Lock(t)) \/ InSmall(treelock = Nobody /\ Small!Acquire(t)))
    /\ Grow!Fairness

AllFairSpec == AllSpec /\ AllFairness

Symmetry == Permutations(Page) \cup Permutations(Org) \cup Permutations({r1, r2, r3})

-----------------------------------------------------------------------------
(* The properties of the modules, each about the part it belongs to. *)

TypesOK ==
    /\ TypeOK
    /\ IF part = "large" THEN Large!TypeOK ELSE Small!TypeOK
    /\ part = "build" => Build!TypeOK
    /\ part = "edit" => Edit!TypeOK
    /\ part = "grow" => Grow!TypeOK

\* Neither a process nor a user's tree goes back to what was read before.
NothingOlder == NoOlderMapping /\ Small!NoOlderTree

\* Whatever raced or failed, the tree shows the last permissions in the end where any name
\* the user; elsewhere, when nothing raced or failed (check_asset_permission_expired).
EventuallyCurrent ==
    \A o \in Org : <>[](part # "small" \/ Small!Shows(o) \/ o \in treeraced \ Small!named)

\* A user's tree lists the nodes of an organisation once, and as they are (perms/locks.py,
\* UserPermTreeRefreshUtil); a rebuild counts what the user sees, unless the organisation's
\* root is all he is granted, looks at no node twice, and leaves no ancestor out
\* (UserPermTreeBuildUtil, NodeAssetsUtil).
UserTreeIsRight ==
    /\ Small!OnePart /\ Small!MarkedIsCurrent
    /\ part = "build" => Build!AmountsAreVisible /\ Build!PopIsFinal /\ Build!TreeIsComplete

\* After any requests every parent exists, no creation has failed, and the other nodes are
\* where they were (Node.save, update_child_full_value, create_child).
TreeStaysWhole ==
    /\ [](part = "edit" => Edit!NoGap)
    /\ [](part = "grow" => Grow!CreationsSucceed)
    /\ Edit!OthersStay

\* Calls for the mapping and creations of nodes end, although a process dies with a lock.
CallsEnd == CallsReturn /\ Grow!CreationsEnd
=============================================================================
