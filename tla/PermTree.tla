------------------------------ MODULE PermTree ------------------------------
(***************************************************************************)
(* The tree of nodes a user may see: perms/utils/user_perm_tree.py with    *)
(* perms/signal_handlers/refresh_perms.py and the hourly task of           *)
(* perms/tasks.py.                                                         *)
(*                                                                         *)
(* The tree of one user is stored in the database, one part for each       *)
(* organisation; a redis set marks the organisations whose part was built. *)
(* A change of a permission unmarks its organisation once it is committed; *)
(* a page of the user rebuilds the unmarked parts under a lock and marks   *)
(* them.  In a small installation (Sync) that happens in the transaction   *)
(* of the request, which commits after the mark; otherwise in a background *)
(* thread that commits each part by itself.  One user; what a permission   *)
(* says is a version number.                                               *)
(***************************************************************************)
EXTENDS Naturals, FiniteSets

CONSTANTS
    Org,
    Page,           \* requests, or background threads, that refresh the tree
    Nobody,
    Sync,           \* ASSET_SIZE is small
    MaxVersion,     \* changes of permissions of one organisation
    Granting,       \* the versions in which some permission names the user
    MaxFailures     \* requests or threads that fail

TreeAssumption ==
    /\ Nobody \notin Page
    /\ Sync \in BOOLEAN
    /\ MaxVersion \in Nat /\ Granting \subseteq Nat /\ MaxFailures \in Nat

Version == 0..MaxVersion

VARIABLES
    perm,           \* perm[o]: committed permissions of an organisation
    tree,           \* tree[o]: committed parts of the tree, by who wrote them and from what
    built,          \* organisations in the redis set
    expiring,       \* organisations whose change is committed and not yet unmarked
    page,           \* page[p]: a refresh and how far it is
    work,           \* work[p]: parts written and not committed
    lock,           \* owner of the rebuild lock of this user
    failures,
    raced           \* organisations where a change met a rebuild, or something failed

vars == <<perm, tree, built, expiring, page, work, lock, failures, raced>>

Part == Page \X Version
Idle == [pc |-> "idle", todo |-> {}, read |-> {}]

TypeOK ==
    /\ perm \in [Org -> Version]
    /\ tree \in [Org -> SUBSET Part]
    /\ built \subseteq Org /\ expiring \subseteq Org /\ raced \subseteq Org
    /\ page \in [Page -> [pc : {"idle", "visited", "building", "marked"}, todo : SUBSET Org,
                          read : SUBSET Org]]
    /\ \A p \in Page : DOMAIN work[p] \subseteq Org
    /\ \A p \in Page : \A o \in DOMAIN work[p] :
         work[p][o] \in [version : Version, deleted : SUBSET Part]
    /\ lock \in Page \cup {Nobody}
    /\ failures \in 0..MaxFailures

Init ==
    /\ perm = [o \in Org |-> 0]
    /\ tree = [o \in Org |-> {}]
    /\ built = {} /\ expiring = {} /\ raced = {}
    /\ page = [p \in Page |-> Idle]
    /\ work = [p \in Page |-> << >>]
    /\ lock = Nobody
    /\ failures = 0

-----------------------------------------------------------------------------
(* Changes of permissions *)

\* A rebuild that has read the organisation and may still mark it.
Rebuilding(o) == \E p \in Page : o \in page[p].read

\* A permission, a group or the assets of a node change, and the change is committed;
\* the signal handlers unmark the organisation afterwards.
Change(o) ==
    /\ perm[o] < MaxVersion
    /\ perm' = [perm EXCEPT ![o] = @ + 1]
    /\ expiring' = expiring \cup {o}
    /\ raced' = IF Rebuilding(o) THEN raced \cup {o} ELSE raced
    /\ UNCHANGED <<tree, built, page, work, lock, failures>>

\* Faulty: the expiry looks at one organisation of many.
expire_perm_tree_one(o) == expiring' = {} /\ built' = built \ {o}

expire_perm_tree_for_users_orgs(o) == expiring' = expiring \ {o} /\ built' = built \ {o}

Expire(o) ==
    /\ o \in expiring
    /\ expire_perm_tree_for_users_orgs(o)
    /\ UNCHANGED <<perm, tree, page, work, lock, failures, raced>>

\* The process ends between the commit and the callback.
ExpireLost(o) ==
    /\ o \in expiring /\ failures < MaxFailures
    /\ failures' = failures + 1
    /\ expiring' = expiring \ {o}
    /\ raced' = raced \cup {o}
    /\ UNCHANGED <<perm, tree, built, page, work, lock>>

\* Faulty: a check that finds nothing to do.
CheckNothing == UNCHANGED vars

\* get_all_users_for_perms: the organisations where it finds the user.
named == {o \in Org : perm[o] \in Granting}

\* check_asset_permission_expired takes nearly every permission, expired or not, and
\* unmarks for the users these name, and only for them, every organisation that has a
\* permission: those that name the user, and others, by permissions of other users.
Check ==
    /\ named # {}
    /\ \E unmarked \in SUBSET Org : named \subseteq unmarked /\ built' = built \ unmarked
    /\ UNCHANGED <<perm, tree, expiring, page, work, lock, failures, raced>>

-----------------------------------------------------------------------------
(* Refreshing *)

\* refresh_if_need: the unmarked organisations, or all of them when forced.
Visit(p, force) ==
    LET todo == IF force THEN Org ELSE Org \ built
    IN  /\ page[p].pc = "idle" /\ todo # {}
        /\ page' = [page EXCEPT ![p].pc = "visited", ![p].todo = todo]
        /\ UNCHANGED <<perm, tree, built, expiring, work, lock, failures, raced>>

\* Who does not get the lock at once serves the tree as it is.
Acquire(p) ==
    /\ page[p].pc = "visited"
    /\ IF lock = Nobody
         THEN lock' = p /\ page' = [page EXCEPT ![p].pc = "building"]
         ELSE page' = [page EXCEPT ![p] = Idle] /\ UNCHANGED lock
    /\ UNCHANGED <<perm, tree, built, expiring, work, failures, raced>>

\* The permissions are read and the rows of the part are deleted: rows that others have
\* not committed are not there to be deleted.
Rebuild(p, o) ==
    /\ page[p].pc = "building" /\ o \in page[p].todo \ page[p].read
    /\ Sync \/ work[p] = << >>
    /\ page' = [page EXCEPT ![p].read = @ \cup {o}]
    /\ work' = [work EXCEPT ![p] = [q \in DOMAIN @ \cup {o} |->
                   IF q = o THEN [version |-> perm[o], deleted |-> tree[o]] ELSE @[q]]]
    /\ UNCHANGED <<perm, tree, built, expiring, lock, failures, raced>>

\* What the parts of a transaction leave when it commits.
Replaced(p) ==
    [o \in Org |-> IF o \in DOMAIN work[p]
                     THEN (tree[o] \ work[p][o].deleted) \cup {<<p, work[p][o].version>>}
                     ELSE tree[o]]

\* In the background each part is committed when it is done.
Store(p) ==
    /\ ~Sync /\ page[p].pc = "building" /\ work[p] # << >>
    /\ \E o \in DOMAIN work[p] :
         /\ tree' = Replaced(p)
         /\ work' = [work EXCEPT ![p] = << >>]
         /\ page' = [page EXCEPT ![p].todo = @ \ {o}]
    /\ UNCHANGED <<perm, built, expiring, lock, failures, raced>>

_mark_user_orgs_refresh_finished(p) == page[p].read

Mark(p) ==
    /\ page[p].pc = "building" /\ page[p].todo \subseteq page[p].read
    /\ Sync \/ work[p] = << >>
    /\ built' = built \cup _mark_user_orgs_refresh_finished(p)
    /\ page' = [page EXCEPT ![p].pc = "marked"]
    /\ UNCHANGED <<perm, tree, expiring, work, lock, failures, raced>>

\* Faulty: the lock is given back while the transaction is open.
ReleaseEarly(p) ==
    /\ page[p].pc = "marked"
    /\ IF lock = p
         THEN lock' = Nobody /\ UNCHANGED <<tree, page, work>>
         ELSE /\ tree' = Replaced(p)
              /\ page' = [page EXCEPT ![p] = Idle]
              /\ work' = [work EXCEPT ![p] = << >>]
              /\ UNCHANGED lock
    /\ UNCHANGED <<perm, built, expiring, failures, raced>>

\* The transaction commits (Sync), and gives back the lock.
Release(p) ==
    /\ page[p].pc = "marked"
    /\ tree' = Replaced(p)
    /\ page' = [page EXCEPT ![p] = Idle]
    /\ work' = [work EXCEPT ![p] = << >>]
    /\ lock' = IF lock = p THEN Nobody ELSE lock
    /\ UNCHANGED <<perm, built, expiring, failures, raced>>

\* The request raises later on, or dies: the callback that releases the lock is
\* dropped with the transaction.
Fail(p) ==
    /\ page[p].pc \in {"building", "marked"} /\ failures < MaxFailures
    /\ failures' = failures + 1
    /\ page' = [page EXCEPT ![p] = Idle]
    /\ work' = [work EXCEPT ![p] = << >>]
    /\ raced' = raced \cup page[p].read
    /\ lock' = IF ~Sync /\ lock = p THEN Nobody ELSE lock
    /\ UNCHANGED <<perm, tree, built, expiring>>

\* Nobody renews the key of a lock object that is gone.
LockExpires ==
    /\ lock # Nobody /\ page[lock].pc \notin {"building", "marked"}
    /\ lock' = Nobody
    /\ UNCHANGED <<perm, tree, built, expiring, page, work, failures, raced>>

Refresh(p) ==
    Acquire(p) \/ (\E o \in Org : Rebuild(p, o)) \/ Store(p) \/ Mark(p) \/ Release(p)

Next ==
    \/ \E o \in Org : Change(o) \/ Expire(o) \/ ExpireLost(o)
    \/ Check
    \/ \E p \in Page : (\E force \in BOOLEAN : Visit(p, force)) \/ Refresh(p) \/ Fail(p)
    \/ LockExpires

Spec == Init /\ [][Next]_vars

\* The user comes again and again, requests go on, the task runs every hour.
Fairness ==
    /\ WF_vars(Check) /\ WF_vars(LockExpires)
    /\ \A o \in Org : WF_vars(Expire(o))
    /\ \A p \in Page : WF_vars(Refresh(p)) /\ SF_vars(Visit(p, FALSE)) /\ SF_vars(Acquire(p) /\ lock = Nobody)

FairSpec == Spec /\ Fairness

-----------------------------------------------------------------------------
(* Properties *)

\* The part of an organisation in the tree is what the permissions say now.
Shows(o) == \E p \in Page : tree[o] = {<<p, perm[o]>>}

Busy(o) == o \in expiring \/ \E p \in Page : page[p].pc \in {"building", "marked"}

\* The nodes of an organisation are never listed twice: the part was written by one
\* rebuild, although others write it in transactions of their own
\* (UserGrantedTreeRebuildLock is released when the transaction commits).
OnePart == \A o \in Org : Cardinality(tree[o]) <= 1

\* A part that is marked and at rest shows the permissions as they are, unless a change
\* was committed while a rebuild had read the organisation, or something failed.
MarkedIsCurrent ==
    \A o \in built \ raced : ~Busy(o) => Shows(o)

\* A rebuild never brings back permissions older than those of the part it replaces.
NoOlderTree ==
    [][\A o \in Org : \A old \in tree[o], new \in tree'[o] : new[2] >= old[2]]_vars

\* Whatever raced or failed: where a permission names the user, the tree shows the last
\* permissions in the end.  Where the last one is gone, and its removal met a rebuild or was
\* not heard of, the hourly task may never reach the user, and the old part may stay.
EventuallyCurrent == \A o \in Org : <>[](Shows(o) \/ o \in raced \ named)

=============================================================================
