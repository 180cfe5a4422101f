---------------------------- MODULE Trees_proofs ----------------------------
(***************************************************************************)
(* The mapping of nodes to assets, for any threads, processes, versions    *)
(* and failures; and what the runs of MC_Trees check, proved of their      *)
(* whole specification.  The trees of permissions and of nodes have their  *)
(* theorems in VaultedAccounts_proofs; here those are instances with the   *)
(* constants of the runs.  For each part a lemma Same... says that both    *)
(* instances have the same steps, and a lemma ...Holds that a behaviour    *)
(* that begins in the part stays in it and is one of the module.           *)
(***************************************************************************)
EXTENDS MC_Trees, Sequences, TLAPS

-----------------------------------------------------------------------------
(* NodeMapping: the cache never holds a mapping, because what is put into  *)
(* it is what was found there; so a process always generates its own,      *)
(* under its own lock, and what it generated stays current until a change  *)
(* that finds it holding one.                                              *)

Entered(t) == call[t].pc \notin {"idle", "missed"}

\* The cache is empty, whoever reads or writes it.
NothingCached == cache = None /\ \A t \in Thread : call[t].mapping = None

\* A thread that has passed a lock owns it, and reads the database only inside.
LocksOwned ==
    /\ \A t \in Thread : Entered(t) => inside[home[t]] = t
    /\ \A t \in Thread : call[t].pc \in {"locked", "generating", "generated"} => lock = t

\* What a thread has read is current, or its process is known to have missed a change; and
\* nothing newer is in the memory it will be stored in.
ReadIsFresh ==
    \A t \in Thread : call[t]._mapping # None =>
        /\ Entered(t)
        /\ call[t]._mapping <= version
        /\ home[t] \in raced \/ call[t]._mapping = version
        /\ memory[home[t]] # None => memory[home[t]] <= call[t]._mapping

MemoryIsPast == \A p \in Process : memory[p] # None => memory[p] <= version

IInv ==
    /\ TypeOK /\ NothingCached /\ LocksOwned
    /\ ReadIsFresh /\ MemoryIsPast /\ MemoryIsFresh

LEMMA Initially == Init => IInv
<1> SUFFICES ASSUME Init PROVE IInv
    OBVIOUS
<1>1. TypeOK
  <2>1. Idle \in [pc : Stages, mapping : Mapping, _mapping : Mapping]
    BY DEF Idle, Mapping, Stages
  <2>2. /\ version \in Version /\ failures \in 0..MaxFailures
        /\ memory \in [Process -> Mapping] /\ cache \in Mapping
    BY MappingAssumption DEF Init, Version, Mapping
  <2> QED BY <2>1, <2>2 DEF Init, TypeOK
<1>2. \A t \in Thread : call[t] = Idle /\ home[t] \in Process
    BY MappingAssumption DEF Init
<1>3. NothingCached /\ LocksOwned /\ ReadIsFresh
    BY <1>2 DEF Init, NothingCached, LocksOwned, ReadIsFresh, Entered, Idle
<1>4. MemoryIsPast /\ MemoryIsFresh
    BY DEF Init, MemoryIsPast, MemoryIsFresh
<1> QED BY <1>1, <1>3, <1>4 DEF IInv

\* Types.
LEMMA TypesKept == TypeOK /\ [Next]_vars => TypeOK'
<1> SUFFICES ASSUME TypeOK, [Next]_vars PROVE TypeOK'
    OBVIOUS
<1> USE MappingAssumption DEF TypeOK, Mapping, Version, Stages
<1>1. CASE Change BY <1>1 DEF Change
<1>2. CASE Move BY <1>2 DEF Move
<1>3. CASE Expire BY <1>3 DEF Expire
<1>4. CASE LockExpires BY <1>4 DEF LockExpires
<1>5. ASSUME NEW p \in Process, Forget(p) PROVE TypeOK'
    BY <1>5 DEF Forget
<1>6. ASSUME NEW p \in Process, Lose(p) PROVE TypeOK'
    BY <1>6 DEF Lose
<1>7. ASSUME NEW p \in Process, Restart(p) PROVE TypeOK'
    BY <1>7 DEF Restart, Idle
<1>8. ASSUME NEW t \in Thread, Get(t) PROVE TypeOK'
    BY <1>8 DEF Get, Go
<1>9. ASSUME NEW t \in Thread, Serve(t) PROVE TypeOK'
  <2>1. CASE Enter(t) BY <2>1, SMTT(60) DEF Enter, Go
  <2>2. CASE ReadCache(t) BY <2>2 DEF ReadCache
  <2>3. CASE Lock(t) BY <2>3 DEF Lock, Go
  <2>4. CASE ReadCacheAgain(t) BY <2>4 DEF ReadCacheAgain, Go
  <2>5. CASE Generate(t) BY <2>5, ZenonT(60) DEF Generate
  <2>6. CASE SetCache(t) BY <2>6 DEF SetCache, Go
  <2>7. CASE SetMemory(t) BY <2>7 DEF SetMemory, Idle
  <2> QED BY <1>9, <2>1, <2>2, <2>3, <2>4, <2>5, <2>6, <2>7 DEF Serve
<1>10. CASE UNCHANGED vars BY <1>10 DEF vars
<1> QED BY <1>1, <1>2, <1>3, <1>4, <1>5, <1>6, <1>7, <1>8, <1>9, <1>10 DEF Next

Rest == NothingCached /\ LocksOwned /\ ReadIsFresh /\ MemoryIsPast /\ MemoryIsFresh

LEMMA StepKeeps == IInv /\ [Next]_vars => Rest'
<1> SUFFICES ASSUME IInv, [Next]_vars PROVE Rest'
    OBVIOUS
<1> USE MappingAssumption
    DEF IInv, TypeOK, Mapping, Version, Rest, NothingCached, LocksOwned, ReadIsFresh,
        MemoryIsPast, MemoryIsFresh, Entered
<1>1. CASE Change BY <1>1 DEF Change, Holding
<1>2. CASE Move BY <1>2 DEF Move
<1>3. CASE Expire BY <1>3 DEF Expire
<1>4. CASE LockExpires BY <1>4 DEF LockExpires
<1>5. ASSUME NEW p \in Process, Forget(p) PROVE Rest'
    BY <1>5 DEF Forget
<1>6. ASSUME NEW p \in Process, Lose(p) PROVE Rest'
    BY <1>6 DEF Lose
<1>7. ASSUME NEW p \in Process, Restart(p) PROVE Rest'
    BY <1>7 DEF Restart, Idle
<1>8. ASSUME NEW t \in Thread, Get(t) PROVE Rest'
    BY <1>8, SMTT(60) DEF Get, Go
<1>9. ASSUME NEW t \in Thread, Serve(t) PROVE Rest'
  <2>1. CASE Enter(t) BY <2>1 DEF Enter, Go
  <2>2. CASE ReadCache(t) BY <2>2 DEF ReadCache
  <2>3. CASE Lock(t) BY <2>3 DEF Lock, Go
  <2>4. CASE ReadCacheAgain(t)
    <3>1. /\ call' = [call EXCEPT ![t].pc = "generating"] /\ call[t].pc = "locked"
          /\ UNCHANGED <<version, expiring, inbox, memory, cache, inside, lock, raced>>
      BY <2>4 DEF ReadCacheAgain, Go
    <3> QED BY <3>1
  <2>5. CASE Generate(t) BY <2>5 DEF Generate
  <2>6. CASE SetCache(t) BY <2>6 DEF SetCache, Go
  <2>7. CASE SetMemory(t)
    <3>1. /\ call' = [call EXCEPT ![t] = Idle] /\ call[t].pc = "storing"
          /\ memory' = [memory EXCEPT ![home[t]] = call[t]._mapping]
          /\ inside' = [inside EXCEPT ![home[t]] = Nobody]
          /\ UNCHANGED <<version, expiring, inbox, cache, lock, raced>>
      BY <2>7 DEF SetMemory
    <3>2. \A u \in Thread \ {t} : Entered(u) => home[u] # home[t]
      BY <3>1
    <3>3. NothingCached'
      BY <3>1 DEF Idle
    <3>4. \A u \in Thread : home[u] \in Process /\ call'[u] = IF u = t THEN Idle ELSE call[u]
      BY <3>1
    <3>5. LocksOwned'
      BY <3>1, <3>2, <3>4 DEF Idle
    <3>6. ReadIsFresh'
      <4>1. SUFFICES ASSUME NEW u \in Thread, call'[u]._mapping # None
                     PROVE /\ Entered(u)'
                           /\ call'[u]._mapping <= version'
                           /\ home[u] \in raced' \/ call'[u]._mapping = version'
                           /\ memory'[home[u]] # None => memory'[home[u]] <= call'[u]._mapping
        OBVIOUS
      <4>2. u # t /\ call'[u] = call[u]
        BY <3>4, <4>1 DEF Idle
      <4>3. Entered(u) /\ home[u] # home[t] /\ memory'[home[u]] = memory[home[u]]
        BY <3>1, <3>2, <3>4, <4>1, <4>2
      <4> QED BY <3>1, <3>4, <4>1, <4>2, <4>3
    <3>7. MemoryIsPast' /\ MemoryIsFresh'
      <4>1. \A p \in Process : memory'[p] = IF p = home[t] THEN call[t]._mapping ELSE memory[p]
        BY <3>1
      <4>2. call[t]._mapping # None =>
              call[t]._mapping <= version /\ (home[t] \in raced \/ call[t]._mapping = version)
        BY <3>1
      <4> QED BY <3>1, <4>1, <4>2
    <3> QED BY <3>3, <3>5, <3>6, <3>7
  <2> QED BY <1>9, <2>1, <2>2, <2>3, <2>4, <2>5, <2>6, <2>7 DEF Serve
<1>10. CASE UNCHANGED vars BY <1>10 DEF vars
<1> QED BY <1>1, <1>2, <1>3, <1>4, <1>5, <1>6, <1>7, <1>8, <1>9, <1>10 DEF Next

LEMMA Invariant == Spec => []IInv
<1>1. IInv /\ [Next]_vars => IInv'
    BY TypesKept, StepKeeps DEF IInv, Rest
<1> QED BY Initially, <1>1, PTL DEF Spec

-----------------------------------------------------------------------------
\* A process answers with the present nodes and assets once the expiry of the last change
\* has reached it, for any number of threads and processes (get_node_all_asset_ids_mapping).
THEOREM MemoryStaysFresh == Spec => []MemoryIsFresh
<1>1. IInv => MemoryIsFresh
    BY DEF IInv
<1> QED BY Invariant, <1>1, PTL

\* No two threads, of whatever processes, load the mapping from the database at once, as
\* the comment on the endless lock says.
THEOREM OneLoadsAtATime == Spec => []OneGenerator
<1>1. IInv => OneGenerator
    BY DEF IInv, LocksOwned, OneGenerator, Loading
<1> QED BY Invariant, <1>1, PTL

\* A process never stores an older mapping over a newer one: it stores what was read while
\* the lock of the process was held (locks_for_get_mapping_from_cache).
THEOREM NothingOlderIsStored == Spec => NoOlderMapping
<1>1. IInv /\ [Next]_vars => OlderIsGone
  <2> SUFFICES ASSUME IInv, [Next]_vars, NEW p \in Process, memory[p] # None, memory'[p] # None
               PROVE  memory'[p] >= memory[p]
    BY DEF OlderIsGone
  <2> USE MappingAssumption DEF IInv, TypeOK
  <2>1. memory[p] \in Nat
    BY DEF Mapping, Version
  <2>2. ASSUME memory'[p] # memory[p]
        PROVE  \E t \in Thread : SetMemory(t) /\ home[t] = p
    <3>1. ~UNCHANGED memory
      BY <2>2
    <3>2. \A q \in Process : \/ ~Forget(q) /\ ~Restart(q)
                             \/ memory' = [memory EXCEPT ![q] = None] /\ q # p
      BY DEF Forget, Restart
    <3> QED BY <2>2, <3>1, <3>2 DEF Next, vars, Serve, Change, Move, Expire, LockExpires, Lose, Get,
                 Enter, ReadCache, Lock, ReadCacheAgain, Generate, SetCache, SetMemory
  <2>3. CASE memory'[p] = memory[p]
    BY <2>1, <2>3
  <2>4. ASSUME NEW t \in Thread, SetMemory(t), home[t] = p
        PROVE  memory'[p] >= memory[p]
    <3>1. memory'[p] = call[t]._mapping /\ call[t]._mapping \in Mapping
      BY <2>4 DEF SetMemory
    <3>2. memory[p] <= call[t]._mapping
      BY <2>4, <3>1, SMTT(60) DEF ReadIsFresh
    <3> QED BY <2>1, <3>1, <3>2 DEF Mapping, Version
  <2> QED BY <2>2, <2>3, <2>4
<1> QED BY Invariant, <1>1, PTL DEF Spec, NoOlderMapping

-----------------------------------------------------------------------------
(* The proofs of the other parts.                                          *)

\* The theorems about accounts and tokens are not used here.
CONSTANTS Secrets, NoSecret, Mark, Absent, Keyless, Editors, Updaters, Transfer, Clearing, MaxSaves,
          Paths, MountValues, Clients, MaxWrites, MaxMoves, Accounts, Sessions, Delayed, Manual,
          Debounce, Countdown, QueueTTL, Workers, MaxTime, Tokens, Calls, NoToken, OneTime,
          Reusable, Grace, TokenTime, Reported, Ttl, MaxDeaths
VARIABLES vault, enabled, held, draft, copy, pc, last, loose, saves, carries, stale, undone,
          mount, move, visit, got, used, client, written, writes, moves,
          session, key, guard, debounced, job, attempts, refused, wiped, late, now,
          table, passed, revoked, spent, clock,
          open, live, left, silent, ever, trusted, kill, contact, told, pass, doomed, deaths

-----------------------------------------------------------------------------
(* The parts of the runs.                                                  *)

\* The proofs for trees that a request builds, and requests one after the other.
InRequest == INSTANCE VaultedAccounts_proofs
               WITH InPage <- TRUE, MaxVersion <- PermVersions, Granting <- {1}, MaxFailures <- 1,
                    expiring <- exp, rewritten <- work, failures <- treefailures, raced <- treeraced,
                    Key <- {<<1>>, <<1, 2>>, <<1, 2, 1>>, <<1, 10>>},
                    Root <- root, Nodes <- {root, a, b, c, d, e},
                    InitialKey <- (root :> <<1>>) @@ (a :> <<1, 1>>) @@ (b :> <<1, 2>>)
                                    @@ (c :> <<1, 1, 1>>) @@ (d :> <<1, 1, 1, 1>>),
                    Requests <- {r1, r2, r3}, Ops <- {"create", "create_top", "move", "delete"},
                    MaxSelect <- 1, MaxActive <- 1, MaxMark <- 6,
                    noderow <- row, change <- request

LEMMA SameSmall ==
    /\ InRequest!Tree!Init <=> Small!Init
    /\ InRequest!Tree!Next <=> Small!Next
    /\ UNCHANGED Small!vars => UNCHANGED InRequest!Tree!vars
    /\ InRequest!Tree!TypeOK <=> Small!TypeOK
    /\ InRequest!Tree!OnePart <=> Small!OnePart
    /\ InRequest!Tree!MarkedIsCurrent <=> Small!MarkedIsCurrent
  BY DEF InRequest!Tree!Version, InRequest!Tree!vars, InRequest!Tree!Part, InRequest!Tree!Idle,
     InRequest!Tree!TypeOK, InRequest!Tree!Init, InRequest!Tree!Rebuilding, InRequest!Tree!Change,
     InRequest!Tree!expire_perm_tree_for_users_orgs, InRequest!Tree!Expire,
     InRequest!Tree!ExpireLost, InRequest!Tree!Check, InRequest!Tree!named, InRequest!Tree!Visit, InRequest!Tree!Acquire,
     InRequest!Tree!Rebuild, InRequest!Tree!Replaced, InRequest!Tree!Store,
     InRequest!Tree!_mark_user_orgs_refresh_finished, InRequest!Tree!Mark, InRequest!Tree!Release,
     InRequest!Tree!Fail, InRequest!Tree!LockExpires, InRequest!Tree!Refresh, InRequest!Tree!Next,
     InRequest!Tree!Shows, InRequest!Tree!Busy, InRequest!Tree!OnePart,
     InRequest!Tree!MarkedIsCurrent, Small!Version, Small!vars, Small!Part, Small!Idle,
     Small!TypeOK, Small!Init, Small!Rebuilding, Small!Change,
     Small!expire_perm_tree_for_users_orgs, Small!Expire, Small!ExpireLost, Small!Check, Small!named,
     Small!Visit, Small!Acquire, Small!Rebuild, Small!Replaced, Small!Store,
     Small!_mark_user_orgs_refresh_finished, Small!Mark, Small!Release, Small!Fail,
     Small!LockExpires, Small!Refresh, Small!Next, Small!Shows, Small!Busy, Small!OnePart,
     Small!MarkedIsCurrent, InRequest!Tree!Cardinality, Small!Cardinality

LEMMA SmallHolds ==
    AllSpec /\ ~(part = "large")
    => /\ [](~(part = "large") /\ Small!TypeOK /\ Small!OnePart /\ Small!MarkedIsCurrent)
       /\ [][\A o \in Org : \A old \in tree[o], new \in tree'[o] : new[2] >= old[2]]_(Small!vars)
<1>1. AllInit /\ ~(part = "large") => InRequest!Tree!Init
  BY SameSmall, SMTT(60) DEF AllInit
<1>2. ~(part = "large") /\ [AllNext]_allvars
      => (~(part = "large"))' /\ [InRequest!Tree!Next]_(InRequest!Tree!vars)
  BY SameSmall, ZenonT(60) DEF AllNext, allvars, vars, pvars, bvars, nvars, InMapping, InSmall,
     Small!vars
<1>3. InRequest!Tree!TreeAssumption
  BY TreesAssumption, SMTT(60) DEF TreesAssumption, InRequest!Tree!TreeAssumption, Small!TreeAssumption
<1>4. InRequest!Tree!Spec => []InRequest!Tree!TypeOK /\ []InRequest!Tree!OnePart
          /\ []InRequest!Tree!MarkedIsCurrent
  BY InRequest!TreesAreCurrent, <1>3, SMTT(60)
<1>5. InRequest!Tree!Spec => [][\A o \in Org : \A old \in tree[o], new \in tree'[o]
          : new[2] >= old[2]]_(InRequest!Tree!vars)
  BY InRequest!NoTreeGoesBack, <1>3 DEF InRequest!Tree!NoOlderTree
<1>6. [\A o \in Org : \A old \in tree[o], new \in tree'[o] : new[2] >= old[2]]_(InRequest!Tree!vars)
      => [\A o \in Org : \A old \in tree[o], new \in tree'[o] : new[2] >= old[2]]_(Small!vars)
  BY SMTT(60) DEF Small!vars, InRequest!Tree!vars
<1> QED
  BY SameSmall, <1>1, <1>2, <1>4, <1>5, <1>6, PTL DEF AllSpec, InRequest!Tree!Spec

LEMMA SameBuild ==
    /\ InRequest!Build!Init <=> Build!Init
    /\ InRequest!Build!Next <=> Build!Next
    /\ UNCHANGED Build!vars => UNCHANGED InRequest!Build!vars
    /\ InRequest!Build!TypeOK <=> Build!TypeOK
    /\ InRequest!Build!AmountsAreVisible <=> Build!AmountsAreVisible
    /\ InRequest!Build!PopIsFinal <=> Build!PopIsFinal
    /\ InRequest!Build!TreeIsComplete <=> Build!TreeIsComplete
  BY DEF InRequest!Build!vars, InRequest!Build!input, InRequest!Build!IsBelow,
     InRequest!Build!get_node_ancestor_keys, InRequest!Build!KeyBefore, InRequest!Build!Sorted,
     InRequest!Build!has_any_ancestor_direct_permed, InRequest!Build!granted,
     InRequest!Build!direct_asset_nodes, InRequest!Build!from_asset, InRequest!Build!ancestors,
     InRequest!Build!perm_nodes, InRequest!Build!get_all_asset_ids, InRequest!Build!collected, InRequest!Build!only_root,
     InRequest!Build!Guard, InRequest!Build!Init, InRequest!Build!Top, InRequest!Build!Pop,
     InRequest!Build!Push, InRequest!Build!Next, InRequest!Build!Done, InRequest!Build!TypeOK,
     InRequest!Build!Seen, InRequest!Build!Listed, InRequest!Build!VisibleBelow,
     InRequest!Build!AmountsAreVisible, InRequest!Build!PopIsFinal, InRequest!Build!TreeIsComplete,
     Build!vars, Build!input, Build!IsBelow, Build!get_node_ancestor_keys, Build!KeyBefore,
     Build!Sorted, Build!has_any_ancestor_direct_permed, Build!granted, Build!direct_asset_nodes,
     Build!from_asset, Build!ancestors, Build!perm_nodes, Build!get_all_asset_ids, Build!collected, Build!only_root,
     Build!Guard, Build!Init, Build!Top, Build!Pop, Build!Push, Build!Next, Build!Done,
     Build!TypeOK, Build!Seen, Build!Listed, Build!VisibleBelow, Build!AmountsAreVisible,
     Build!PopIsFinal, Build!TreeIsComplete, InRequest!Build!Cardinality, Build!Cardinality,
     InRequest!Build!Front, Build!Front, InRequest!Build!SetToSeqs, Build!SetToSeqs,
     InRequest!Build!ToSet, Build!ToSet

LEMMA BuildHolds ==
    AllSpec /\ part = "build"
    => [](part = "build" /\ Build!TypeOK /\ Build!AmountsAreVisible /\ Build!PopIsFinal /\
             Build!TreeIsComplete)
<1>1. AllInit /\ part = "build" => InRequest!Build!Init
  BY SameBuild, SMTT(60) DEF AllInit
<1>2. part = "build" /\ [AllNext]_allvars
      => (part = "build")' /\ [InRequest!Build!Next]_(InRequest!Build!vars)
  BY SameBuild, ZenonT(60) DEF AllNext, allvars, vars, pvars, bvars, nvars, InMapping, InSmall,
     Build!vars
<1>3. InRequest!Build!KeyAssumption
  BY TreesAssumption DEF TreesAssumption, InRequest!Build!KeyAssumption, Build!KeyAssumption,
     InRequest!Build!IsFiniteSet, Build!IsFiniteSet
<1>4. InRequest!Build!Spec => []/\ InRequest!Build!TypeOK /\ InRequest!Build!AmountsAreVisible
                                /\ InRequest!Build!PopIsFinal /\ InRequest!Build!TreeIsComplete
  BY InRequest!RebuildsAreRight, <1>3
<1> QED
  BY SameBuild, <1>1, <1>2, <1>4, PTL DEF AllSpec, InRequest!Build!Spec

\* What a move of a node is made of, ...
LEMMA SameEditParts ==
    ASSUME NEW x1, NEW x2, NEW x3, NEW x4
    PROVE  /\ InRequest!Node!View(x1) = Edit!View(x1)
           /\ InRequest!Node!ValidMark(x1, x2) = Edit!ValidMark(x1, x2)
           /\ InRequest!Node!IsBelow(x1, x2) <=> Edit!IsBelow(x1, x2)
           /\ InRequest!Node!Descendants(x1, x2) = Edit!Descendants(x1, x2)
           /\ InRequest!Node!IsAncestor(x1, x2) <=> Edit!IsAncestor(x1, x2)
           /\ InRequest!Node!HasParent(x1, x2) <=> Edit!HasParent(x1, x2)
           /\ InRequest!Node!Duplicate(x1) <=> Edit!Duplicate(x1)
           /\ InRequest!Node!IsLocked(x1, x2) <=> Edit!IsLocked(x1, x2)
           /\ InRequest!Node!Put(x1, x2, x3, x4) <=> Edit!Put(x1, x2, x3, x4)
           /\ InRequest!Node!Fail(x1) <=> Edit!Fail(x1)
           /\ InRequest!Node!OldKey(x1, x2) = Edit!OldKey(x1, x2)
<1>1. InRequest!Node!View(x1) = Edit!View(x1)
  BY SMTT(60) DEF InRequest!Node!View, Edit!View
<1>2. InRequest!Node!ValidMark(x1, x2) = Edit!ValidMark(x1, x2)
  BY SMTT(60) DEF InRequest!Node!Absent, InRequest!Node!Present, InRequest!Node!Keys,
     InRequest!Node!ValidMark, Edit!Absent, Edit!Present, Edit!Keys, Edit!ValidMark,
     InRequest!Node!Front, Edit!Front, InRequest!Node!Last, Edit!Last, InRequest!Node!Max, Edit!Max
<1>3. InRequest!Node!IsBelow(x1, x2) <=> Edit!IsBelow(x1, x2)
  BY SMTT(60) DEF InRequest!Node!IsBelow, Edit!IsBelow, InRequest!Node!IsStrictPrefix, Edit!IsStrictPrefix,
     InRequest!Node!IsPrefix, Edit!IsPrefix
<1>4. InRequest!Node!Descendants(x1, x2) = Edit!Descendants(x1, x2)
  BY SMTT(60) DEF InRequest!Node!Absent, InRequest!Node!Present, InRequest!Node!IsBelow,
     InRequest!Node!Below, InRequest!Node!Descendants, Edit!Absent, Edit!Present, Edit!IsBelow,
     Edit!Below, Edit!Descendants, InRequest!Node!IsStrictPrefix, Edit!IsStrictPrefix,
     InRequest!Node!IsPrefix, Edit!IsPrefix
<1>5. InRequest!Node!IsAncestor(x1, x2) <=> Edit!IsAncestor(x1, x2)
  BY SMTT(60) DEF InRequest!Node!IsBelow, InRequest!Node!IsAncestor, Edit!IsBelow, Edit!IsAncestor,
     InRequest!Node!IsStrictPrefix, Edit!IsStrictPrefix, InRequest!Node!IsPrefix, Edit!IsPrefix
<1>6. InRequest!Node!HasParent(x1, x2) <=> Edit!HasParent(x1, x2)
  BY SMTT(60) DEF InRequest!Node!Absent, InRequest!Node!Present, InRequest!Node!Keys,
     InRequest!Node!HasParent, Edit!Absent, Edit!Present, Edit!Keys, Edit!HasParent,
     InRequest!Node!Front, Edit!Front
<1>7. InRequest!Node!Duplicate(x1) <=> Edit!Duplicate(x1)
  BY SMTT(60) DEF InRequest!Node!Absent, InRequest!Node!Present, InRequest!Node!Keys,
     InRequest!Node!Duplicate, Edit!Absent, Edit!Present, Edit!Keys, Edit!Duplicate,
     InRequest!Node!Cardinality, Edit!Cardinality
<1>8. InRequest!Node!IsLocked(x1, x2) <=> Edit!IsLocked(x1, x2)
  BY SMTT(60) DEF InRequest!Node!Kept, InRequest!Node!IsLocked, Edit!Kept, Edit!IsLocked
<1>9. InRequest!Node!Put(x1, x2, x3, x4) <=> Edit!Put(x1, x2, x3, x4)
  BY SMTT(60) DEF InRequest!Node!Writes, InRequest!Node!Put, Edit!Writes, Edit!Put
<1>10. InRequest!Node!Fail(x1) <=> Edit!Fail(x1)
  BY SMTT(60) DEF InRequest!Node!Unlocked, InRequest!Node!Fail, Edit!Unlocked, Edit!Fail
<1>11. InRequest!Node!OldKey(x1, x2) = Edit!OldKey(x1, x2)
  BY SMTT(60) DEF InRequest!Node!OldKey, Edit!OldKey
<1> QED
  BY <1>1, <1>2, <1>3, <1>4, <1>5, <1>6, <1>7, <1>8, <1>9, <1>10, <1>11, SMTT(60)

\* ... each step on the way, ...
LEMMA SameEditMoves ==
    ASSUME NEW r, NEW n
    PROVE  InRequest!Node!MoveOne(r, n) <=> Edit!MoveOne(r, n)
<1> DEFINE markP == InRequest!Node!ValidMark(InRequest!Node!View(r), request[r].obj)
           objP == [request[r].obj EXCEPT !.mark = markP + 1]
           savedP == [InRequest!Node!View(r) EXCEPT ![request[r].at] = objP]
           newkeyP == Append(objP.key, markP)
           movedP == [savedP EXCEPT ![n] = [key |-> newkeyP, mark |-> request[r].objs[n].mark]]
           belowP == InRequest!Node!Descendants(movedP, InRequest!Node!OldKey(r, n))
           afterP == [m \in {root, a, b, c, d, e} |-> IF m \in belowP
                         THEN [movedP[m] EXCEPT !.key = newkeyP \o SubSeq(@, Len(InRequest!Node!OldKey(r, n)) + 1, Len(@))]
                         ELSE movedP[m]]
           rowsP == [m \in {request[r].at, n} \cup belowP |-> afterP[m]]
           markM == Edit!ValidMark(Edit!View(r), request[r].obj)
           objM == [request[r].obj EXCEPT !.mark = markM + 1]
           savedM == [Edit!View(r) EXCEPT ![request[r].at] = objM]
           newkeyM == Append(objM.key, markM)
           movedM == [savedM EXCEPT ![n] = [key |-> newkeyM, mark |-> request[r].objs[n].mark]]
           belowM == Edit!Descendants(movedM, Edit!OldKey(r, n))
           afterM == [m \in {root, a, b, c, d, e} |-> IF m \in belowM
                         THEN [movedM[m] EXCEPT !.key = newkeyM \o SubSeq(@, Len(Edit!OldKey(r, n)) + 1, Len(@))]
                         ELSE movedM[m]]
           rowsM == [m \in {request[r].at, n} \cup belowM |-> afterM[m]]
<1>1. markP = markM /\ objP = objM /\ savedP = savedM /\ newkeyP = newkeyM /\ movedP = movedM
  BY SameEditParts, ZenonT(60)
<1>2. belowP = belowM /\ InRequest!Node!OldKey(r, n) = Edit!OldKey(r, n)
  <2> HIDE DEF movedP, movedM
  <2> QED
    BY <1>1, SameEditParts
<1>3. afterP = afterM
  <2> HIDE DEF movedP, movedM, belowP, belowM, newkeyP, newkeyM
  <2> QED
    BY <1>1, <1>2, SMTT(60)
<1>4. rowsP = rowsM
  <2> HIDE DEF belowP, belowM, afterP, afterM
  <2> QED
    BY <1>2, <1>3, SMTT(60)
<1>5. InRequest!Node!MoveOne(r, n) <=>
        /\ request[r].state = "open" /\ request[r].op = "move" /\ n \in request[r].left
        /\ \A m \in request[r].left
                  : ~InRequest!Node!IsBelow(InRequest!Node!OldKey(r, n), InRequest!Node!OldKey(r, m))
        /\ ~InRequest!Node!IsAncestor(InRequest!Node!OldKey(r, n), request[r].obj.key)
        /\ markP < 6 /\ ~InRequest!Node!IsLocked(r, {request[r].at, n} \cup belowP)
        /\ IF /\ InRequest!Node!HasParent(savedP, request[r].at)
                  /\ ~InRequest!Node!Duplicate(movedP) /\ InRequest!Node!HasParent(movedP, n)
              /\ ~InRequest!Node!Duplicate(afterP) /\ \A m \in belowP
                        : InRequest!Node!HasParent(afterP, m)
           THEN /\ InRequest!Node!Put(r, rowsP, objP, request[r].left \ {n})
                /\ UNCHANGED <<row, creator>>
           ELSE InRequest!Node!Fail(r)
  BY Zenon DEF InRequest!Node!MoveOne
<1>6. Edit!MoveOne(r, n) <=>
        /\ request[r].state = "open" /\ request[r].op = "move" /\ n \in request[r].left
        /\ \A m \in request[r].left : ~Edit!IsBelow(Edit!OldKey(r, n), Edit!OldKey(r, m))
        /\ ~Edit!IsAncestor(Edit!OldKey(r, n), request[r].obj.key)
        /\ markM < 6 /\ ~Edit!IsLocked(r, {request[r].at, n} \cup belowM)
        /\ IF /\ Edit!HasParent(savedM, request[r].at) /\ ~Edit!Duplicate(movedM)
                  /\ Edit!HasParent(movedM, n)
              /\ ~Edit!Duplicate(afterM) /\ \A m \in belowM : Edit!HasParent(afterM, m)
           THEN /\ Edit!Put(r, rowsM, objM, request[r].left \ {n})
                /\ UNCHANGED <<row, creator>>
           ELSE Edit!Fail(r)
  BY ZenonT(60) DEF Edit!MoveOne
<1> HIDE DEF markP, objP, savedP, movedP, belowP, afterP, rowsP,
             markM, objM, savedM, movedM, belowM, afterM, rowsM
<1> QED
  BY <1>1, <1>2, <1>3, <1>4, <1>5, <1>6, SameEditParts, ZenonT(60)

\* ... and every other step.
LEMMA SameEditSteps ==
    ASSUME NEW r, NEW n
    PROVE  /\ InRequest!Node!Arrive(r) <=> Edit!Arrive(r)
           /\ InRequest!Node!Lock(r) <=> Edit!Lock(r)
           /\ InRequest!Node!CreateChild(r) <=> Edit!CreateChild(r)
           /\ InRequest!Node!Delete(r) <=> Edit!Delete(r)
           /\ InRequest!Node!Commit(r) <=> Edit!Commit(r)
           /\ InRequest!Node!RefuseAncestor(r, n) <=> Edit!RefuseAncestor(r, n)
           /\ InRequest!Node!MoveOne(r, n) <=> Edit!MoveOne(r, n)
<1>1. InRequest!Node!Arrive(r) <=> Edit!Arrive(r)
  BY SMTT(60) DEF InRequest!Node!Absent, InRequest!Node!New, InRequest!Node!Kept, InRequest!Node!Present,
     InRequest!Node!Begin, InRequest!Node!BeginCreate, InRequest!Node!Arrive, Edit!Absent, Edit!New,
     Edit!Kept, Edit!Present, Edit!Begin, Edit!BeginCreate, Edit!Arrive, InRequest!Node!Cardinality,
     Edit!Cardinality
<1>2. InRequest!Node!Lock(r) <=> Edit!Lock(r)
  BY SMTT(60) DEF InRequest!Node!Lock, Edit!Lock
<1>3. InRequest!Node!CreateChild(r) <=> Edit!CreateChild(r)
  BY ZenonT(60) DEF InRequest!Node!Absent, InRequest!Node!Kept, InRequest!Node!Present, InRequest!Node!Keys,
     InRequest!Node!HasParent, InRequest!Node!View, InRequest!Node!Writes, InRequest!Node!IsLocked,
     InRequest!Node!ValidMark, InRequest!Node!Put, InRequest!Node!Unlocked, InRequest!Node!Fail,
     InRequest!Node!CreateChild, Edit!Absent, Edit!Kept, Edit!Present, Edit!Keys, Edit!HasParent,
     Edit!View, Edit!Writes, Edit!IsLocked, Edit!ValidMark, Edit!Put, Edit!Unlocked, Edit!Fail,
     Edit!CreateChild, InRequest!Node!Front, Edit!Front, InRequest!Node!Last, Edit!Last,
     InRequest!Node!Max, Edit!Max
<1>4. InRequest!Node!Delete(r) <=> Edit!Delete(r)
  BY SMTT(60) DEF InRequest!Node!Absent, InRequest!Node!Kept, InRequest!Node!Present, InRequest!Node!IsBelow,
     InRequest!Node!Below, InRequest!Node!View, InRequest!Node!Writes, InRequest!Node!IsLocked,
     InRequest!Node!Put, InRequest!Node!Descendants, InRequest!Node!Delete, Edit!Absent, Edit!Kept,
     Edit!Present, Edit!IsBelow, Edit!Below, Edit!View, Edit!Writes, Edit!IsLocked, Edit!Put,
     Edit!Descendants, Edit!Delete, InRequest!Node!IsStrictPrefix, Edit!IsStrictPrefix,
     InRequest!Node!IsPrefix, Edit!IsPrefix
<1>5. InRequest!Node!Commit(r) <=> Edit!Commit(r)
  BY SMTT(60) DEF InRequest!Node!Absent, InRequest!Node!Present, InRequest!Node!Keys,
     InRequest!Node!Duplicate, InRequest!Node!View, InRequest!Node!Unlocked, InRequest!Node!Fail,
     InRequest!Node!Finished, InRequest!Node!Commit, Edit!Absent, Edit!Present, Edit!Keys,
     Edit!Duplicate, Edit!View, Edit!Unlocked, Edit!Fail, Edit!Finished, Edit!Commit,
     InRequest!Node!Cardinality, Edit!Cardinality
<1>6. InRequest!Node!RefuseAncestor(r, n) <=> Edit!RefuseAncestor(r, n)
  BY SMTT(60) DEF InRequest!Node!IsBelow, InRequest!Node!OldKey, InRequest!Node!IsAncestor,
     InRequest!Node!RefuseAncestor, Edit!IsBelow, Edit!OldKey, Edit!IsAncestor, Edit!RefuseAncestor,
     InRequest!Node!IsStrictPrefix, Edit!IsStrictPrefix, InRequest!Node!IsPrefix, Edit!IsPrefix
<1>7. InRequest!Node!MoveOne(r, n) <=> Edit!MoveOne(r, n)
  BY SameEditMoves
<1> QED
  BY <1>1, <1>2, <1>3, <1>4, <1>5, <1>6, <1>7, SMTT(60)

LEMMA SameEdit ==
    /\ InRequest!Node!Init <=> Edit!Init
    /\ InRequest!Node!Next <=> Edit!Next
    /\ UNCHANGED Edit!vars => UNCHANGED InRequest!Node!vars
    /\ InRequest!Node!TypeOK <=> Edit!TypeOK
    /\ InRequest!Node!NoGap <=> Edit!NoGap
<1>1. InRequest!Node!Init <=> Edit!Init
  BY SMTT(60) DEF InRequest!Node!Absent, InRequest!Node!New, InRequest!Node!Init, Edit!Absent, Edit!New,
     Edit!Init, InRequest!Node!Cardinality, Edit!Cardinality, InRequest!Node!Front, Edit!Front
<1>2. InRequest!Node!Next <=> Edit!Next
  BY SameEditSteps, ZenonT(60) DEF InRequest!Node!Next, Edit!Next
<1>3. UNCHANGED Edit!vars => UNCHANGED InRequest!Node!vars
  BY SMTT(60) DEF InRequest!Node!vars, Edit!vars
<1>4. InRequest!Node!TypeOK <=> Edit!TypeOK
  BY SMTT(60) DEF InRequest!Node!Absent, InRequest!Node!Rows, InRequest!Node!Kept, InRequest!Node!Present,
     InRequest!Node!Keys, InRequest!Node!Duplicate, InRequest!Node!TypeOK, Edit!Absent, Edit!Rows,
     Edit!Kept, Edit!Present, Edit!Keys, Edit!Duplicate, Edit!TypeOK, InRequest!Node!Cardinality,
     Edit!Cardinality
<1>5. InRequest!Node!NoGap <=> Edit!NoGap
  BY DEF InRequest!Node!Absent, InRequest!Node!Present, InRequest!Node!Keys,
     InRequest!Node!HasParent, InRequest!Node!NoGap, Edit!Absent, Edit!Present, Edit!Keys,
     Edit!HasParent, Edit!NoGap, InRequest!Node!Front, Edit!Front
<1> QED
  BY <1>1, <1>2, <1>3, <1>4, <1>5

LEMMA EditHolds ==
    AllSpec /\ part = "edit"
    => /\ [](part = "edit" /\ Edit!TypeOK /\ Edit!NoGap)
       /\ [][\A r \in {r1, r2, r3} : request[r].state = "open" /\ request'[r].state = "done" =>
             \A n \in Edit!Present(row) \cap Edit!Present(row)' :
               (request[r].op = "move" /\ n \in DOMAIN request[r].objs)
                 \/ Edit!ParentOf(row, n) = Edit!ParentOf(row', n)]_(Edit!vars)
<1>1. AllInit /\ part = "edit" => InRequest!Node!Init
  BY SameEdit, SMTT(60) DEF AllInit
<1>2. part = "edit" /\ [AllNext]_allvars
      => (part = "edit")' /\ [InRequest!Node!Next]_(InRequest!Node!vars)
  BY SameEdit, ZenonT(60) DEF AllNext, allvars, vars, pvars, bvars, nvars, InMapping, InSmall, Edit!vars
<1>3. InRequest!Node!TreeAssumption
  BY TreesAssumption, ZenonT(60) DEF TreesAssumption, InRequest!Node!TreeAssumption, Edit!TreeAssumption,
     InRequest!Node!IsFiniteSet, Edit!IsFiniteSet, InRequest!Node!Front, Edit!Front
<1>4. InRequest!Node!Spec => []InRequest!Node!TypeOK
  BY InRequest!NodesHaveKeys, <1>3
<1>5. InRequest!Node!Spec => []InRequest!Node!NoGap
  BY InRequest!SerialTreesStayWhole, <1>3
<1>6. InRequest!Node!Spec => [][\A r \in {r1, r2, r3} : request[r].state = "open"
          /\ request'[r].state = "done" =>
             \A n \in InRequest!Node!Present(row) \cap InRequest!Node!Present(row)' :
               (request[r].op = "move" /\ n \in DOMAIN request[r].objs)
                 \/ InRequest!Node!ParentOf(row, n) = InRequest!Node!ParentOf(row', n)]_(InRequest!Node!vars)
  BY InRequest!SerialTreesStayWhole, <1>3, SMTT(60) DEF InRequest!Node!OthersStay
<1>7. [\A r \in {r1, r2, r3} : request[r].state = "open" /\ request'[r].state = "done" =>
             \A n \in InRequest!Node!Present(row) \cap InRequest!Node!Present(row)' :
               (request[r].op = "move" /\ n \in DOMAIN request[r].objs)
                 \/ InRequest!Node!ParentOf(row, n) = InRequest!Node!ParentOf(row', n)]_(InRequest!Node!vars)
      => [\A r \in {r1, r2, r3} : request[r].state = "open" /\ request'[r].state = "done" =>
             \A n \in Edit!Present(row) \cap Edit!Present(row)' :
               (request[r].op = "move" /\ n \in DOMAIN request[r].objs)
                 \/ Edit!ParentOf(row, n) = Edit!ParentOf(row', n)]_(Edit!vars)
  <2>1. /\ InRequest!Node!Present(row) = Edit!Present(row)
        /\ InRequest!Node!Present(row') = Edit!Present(row')
    BY SMTT(60) DEF InRequest!Node!Absent, Edit!Absent, InRequest!Node!Present, Edit!Present
  <2>2. \A n : /\ InRequest!Node!ParentOf(row, n) = Edit!ParentOf(row, n)
               /\ InRequest!Node!ParentOf(row', n) = Edit!ParentOf(row', n)
    BY <2>1, SMTT(60) DEF InRequest!Node!ParentOf, Edit!ParentOf, InRequest!Node!Front, Edit!Front
  <2> QED
    BY <2>1, <2>2, SMTT(60) DEF InRequest!Node!Absent, Edit!Absent, InRequest!Node!Present,
       Edit!Present, InRequest!Node!vars, Edit!vars
<1> QED
  BY SameEdit, <1>1, <1>2, <1>4, <1>5, <1>6, <1>7, PTL DEF AllSpec, InRequest!Node!Spec

\* For trees that threads build, and creations at once.
InBackground == INSTANCE VaultedAccounts_proofs
                  WITH InPage <- FALSE, MaxVersion <- PermVersions, Granting <- {1}, MaxFailures <- 1,
                       expiring <- exp, rewritten <- work, failures <- treefailures,
                       raced <- treeraced, Key <- {<<1>>, <<1, 2>>, <<1, 2, 1>>, <<1, 10>>},
                       Root <- root, Nodes <- {root, a, b, c, d, e},
                       InitialKey <- (root :> <<1>>) @@ (a :> <<1, 1>>),
                       Requests <- {r1, r2, r3}, Ops <- {"create"}, MaxSelect <- 1, MaxActive <- 3,
                       MaxMark <- 6, noderow <- row, change <- request

LEMMA SameLarge ==
    /\ InBackground!Tree!Init <=> Large!Init
    /\ InBackground!Tree!Next <=> Large!Next
    /\ UNCHANGED Large!vars => UNCHANGED InBackground!Tree!vars
    /\ InBackground!Tree!TypeOK <=> Large!TypeOK
    /\ InBackground!Tree!OnePart <=> Large!OnePart
    /\ InBackground!Tree!MarkedIsCurrent <=> Large!MarkedIsCurrent
  BY DEF InBackground!Tree!Version, InBackground!Tree!vars, InBackground!Tree!Part,
     InBackground!Tree!Idle, InBackground!Tree!TypeOK, InBackground!Tree!Init,
     InBackground!Tree!Rebuilding, InBackground!Tree!Change,
     InBackground!Tree!expire_perm_tree_for_users_orgs, InBackground!Tree!Expire,
     InBackground!Tree!ExpireLost, InBackground!Tree!Check, InBackground!Tree!named, InBackground!Tree!Visit,
     InBackground!Tree!Acquire, InBackground!Tree!Rebuild, InBackground!Tree!Replaced,
     InBackground!Tree!Store, InBackground!Tree!_mark_user_orgs_refresh_finished,
     InBackground!Tree!Mark, InBackground!Tree!Release, InBackground!Tree!Fail,
     InBackground!Tree!LockExpires, InBackground!Tree!Refresh, InBackground!Tree!Next,
     InBackground!Tree!Shows, InBackground!Tree!Busy, InBackground!Tree!OnePart,
     InBackground!Tree!MarkedIsCurrent, Large!Version, Large!vars, Large!Part, Large!Idle,
     Large!TypeOK, Large!Init, Large!Rebuilding, Large!Change,
     Large!expire_perm_tree_for_users_orgs, Large!Expire, Large!ExpireLost, Large!Check, Large!named,
     Large!Visit, Large!Acquire, Large!Rebuild, Large!Replaced, Large!Store,
     Large!_mark_user_orgs_refresh_finished, Large!Mark, Large!Release, Large!Fail,
     Large!LockExpires, Large!Refresh, Large!Next, Large!Shows, Large!Busy, Large!OnePart,
     Large!MarkedIsCurrent, InBackground!Tree!Cardinality, Large!Cardinality

LEMMA LargeHolds ==
    AllSpec /\ part = "large"
    => /\ [](part = "large" /\ Large!TypeOK /\ Large!OnePart /\ Large!MarkedIsCurrent)
       /\ [][\A o \in Org : \A old \in tree[o], new \in tree'[o] : new[2] >= old[2]]_(Small!vars)
<1>1. AllInit /\ part = "large" => InBackground!Tree!Init
  BY SameLarge, SMTT(60) DEF AllInit, Large!Idle, Small!Idle, Large!Init, Small!Init
<1>2. part = "large" /\ [AllNext]_allvars
      => (part = "large")' /\ [InBackground!Tree!Next]_(InBackground!Tree!vars)
  BY SameLarge, ZenonT(60) DEF AllNext, allvars, vars, pvars, bvars, nvars, InMapping, InSmall,
     Large!vars
<1>3. InBackground!Tree!TreeAssumption
  BY TreesAssumption DEF TreesAssumption, InBackground!Tree!TreeAssumption, Large!TreeAssumption
<1>4. InBackground!Tree!Spec => []InBackground!Tree!TypeOK /\ []InBackground!Tree!OnePart
          /\ []InBackground!Tree!MarkedIsCurrent
  BY InBackground!TreesAreCurrent, <1>3
<1>5. InBackground!Tree!Spec => [][\A o \in Org : \A old \in tree[o], new \in tree'[o]
          : new[2] >= old[2]]_(InBackground!Tree!vars)
  BY InBackground!NoTreeGoesBack, <1>3 DEF InBackground!Tree!NoOlderTree
<1>6. [\A o \in Org : \A old \in tree[o], new \in tree'[o]
          : new[2] >= old[2]]_(InBackground!Tree!vars)
      => [\A o \in Org : \A old \in tree[o], new \in tree'[o] : new[2] >= old[2]]_(Small!vars)
  BY DEF Small!vars, InBackground!Tree!vars
<1> QED
  BY SameLarge, <1>1, <1>2, <1>4, <1>5, <1>6, PTL DEF AllSpec, InBackground!Tree!Spec

\* What a move of a node is made of, ...
LEMMA SameGrowParts ==
    ASSUME NEW x1, NEW x2, NEW x3, NEW x4
    PROVE  /\ InBackground!Node!View(x1) = Grow!View(x1)
           /\ InBackground!Node!ValidMark(x1, x2) = Grow!ValidMark(x1, x2)
           /\ InBackground!Node!IsBelow(x1, x2) <=> Grow!IsBelow(x1, x2)
           /\ InBackground!Node!Descendants(x1, x2) = Grow!Descendants(x1, x2)
           /\ InBackground!Node!IsAncestor(x1, x2) <=> Grow!IsAncestor(x1, x2)
           /\ InBackground!Node!HasParent(x1, x2) <=> Grow!HasParent(x1, x2)
           /\ InBackground!Node!Duplicate(x1) <=> Grow!Duplicate(x1)
           /\ InBackground!Node!IsLocked(x1, x2) <=> Grow!IsLocked(x1, x2)
           /\ InBackground!Node!Put(x1, x2, x3, x4) <=> Grow!Put(x1, x2, x3, x4)
           /\ InBackground!Node!Fail(x1) <=> Grow!Fail(x1)
           /\ InBackground!Node!OldKey(x1, x2) = Grow!OldKey(x1, x2)
<1>1. InBackground!Node!View(x1) = Grow!View(x1)
  BY DEF InBackground!Node!View, Grow!View
<1>2. InBackground!Node!ValidMark(x1, x2) = Grow!ValidMark(x1, x2)
  BY DEF InBackground!Node!Absent, InBackground!Node!Present, InBackground!Node!Keys,
     InBackground!Node!ValidMark, Grow!Absent, Grow!Present, Grow!Keys, Grow!ValidMark,
     InBackground!Node!Front, Grow!Front, InBackground!Node!Last, Grow!Last, InBackground!Node!Max,
     Grow!Max
<1>3. InBackground!Node!IsBelow(x1, x2) <=> Grow!IsBelow(x1, x2)
  BY DEF InBackground!Node!IsBelow, Grow!IsBelow, InBackground!Node!IsStrictPrefix,
     Grow!IsStrictPrefix, InBackground!Node!IsPrefix, Grow!IsPrefix
<1>4. InBackground!Node!Descendants(x1, x2) = Grow!Descendants(x1, x2)
  BY DEF InBackground!Node!Absent, InBackground!Node!Present, InBackground!Node!IsBelow,
     InBackground!Node!Below, InBackground!Node!Descendants, Grow!Absent, Grow!Present,
     Grow!IsBelow, Grow!Below, Grow!Descendants, InBackground!Node!IsStrictPrefix,
     Grow!IsStrictPrefix, InBackground!Node!IsPrefix, Grow!IsPrefix
<1>5. InBackground!Node!IsAncestor(x1, x2) <=> Grow!IsAncestor(x1, x2)
  BY DEF InBackground!Node!IsBelow, InBackground!Node!IsAncestor, Grow!IsBelow, Grow!IsAncestor,
     InBackground!Node!IsStrictPrefix, Grow!IsStrictPrefix, InBackground!Node!IsPrefix,
     Grow!IsPrefix
<1>6. InBackground!Node!HasParent(x1, x2) <=> Grow!HasParent(x1, x2)
  BY DEF InBackground!Node!Absent, InBackground!Node!Present, InBackground!Node!Keys,
     InBackground!Node!HasParent, Grow!Absent, Grow!Present, Grow!Keys, Grow!HasParent,
     InBackground!Node!Front, Grow!Front
<1>7. InBackground!Node!Duplicate(x1) <=> Grow!Duplicate(x1)
  BY DEF InBackground!Node!Absent, InBackground!Node!Present, InBackground!Node!Keys,
     InBackground!Node!Duplicate, Grow!Absent, Grow!Present, Grow!Keys, Grow!Duplicate,
     InBackground!Node!Cardinality, Grow!Cardinality
<1>8. InBackground!Node!IsLocked(x1, x2) <=> Grow!IsLocked(x1, x2)
  BY DEF InBackground!Node!Kept, InBackground!Node!IsLocked, Grow!Kept, Grow!IsLocked
<1>9. InBackground!Node!Put(x1, x2, x3, x4) <=> Grow!Put(x1, x2, x3, x4)
  BY DEF InBackground!Node!Writes, InBackground!Node!Put, Grow!Writes, Grow!Put
<1>10. InBackground!Node!Fail(x1) <=> Grow!Fail(x1)
  BY DEF InBackground!Node!Unlocked, InBackground!Node!Fail, Grow!Unlocked, Grow!Fail
<1>11. InBackground!Node!OldKey(x1, x2) = Grow!OldKey(x1, x2)
  BY DEF InBackground!Node!OldKey, Grow!OldKey
<1> QED
  BY <1>1, <1>2, <1>3, <1>4, <1>5, <1>6, <1>7, <1>8, <1>9, <1>10, <1>11

\* ... each step on the way, ...
LEMMA SameGrowMoves ==
    ASSUME NEW r, NEW n
    PROVE  InBackground!Node!MoveOne(r, n) <=> Grow!MoveOne(r, n)
<1> DEFINE markP == InBackground!Node!ValidMark(InBackground!Node!View(r), request[r].obj)
           objP == [request[r].obj EXCEPT !.mark = markP + 1]
           savedP == [InBackground!Node!View(r) EXCEPT ![request[r].at] = objP]
           newkeyP == Append(objP.key, markP)
           movedP == [savedP EXCEPT ![n] = [key |-> newkeyP, mark |-> request[r].objs[n].mark]]
           belowP == InBackground!Node!Descendants(movedP, InBackground!Node!OldKey(r, n))
           afterP == [m \in {root, a, b, c, d, e} |-> IF m \in belowP
                         THEN [movedP[m] EXCEPT !.key = newkeyP \o SubSeq(@, Len(InBackground!Node!OldKey(r, n)) + 1, Len(@))]
                         ELSE movedP[m]]
           rowsP == [m \in {request[r].at, n} \cup belowP |-> afterP[m]]
           markM == Grow!ValidMark(Grow!View(r), request[r].obj)
           objM == [request[r].obj EXCEPT !.mark = markM + 1]
           savedM == [Grow!View(r) EXCEPT ![request[r].at] = objM]
           newkeyM == Append(objM.key, markM)
           movedM == [savedM EXCEPT ![n] = [key |-> newkeyM, mark |-> request[r].objs[n].mark]]
           belowM == Grow!Descendants(movedM, Grow!OldKey(r, n))
           afterM == [m \in {root, a, b, c, d, e} |-> IF m \in belowM
                         THEN [movedM[m] EXCEPT !.key = newkeyM \o SubSeq(@, Len(Grow!OldKey(r, n)) + 1, Len(@))]
                         ELSE movedM[m]]
           rowsM == [m \in {request[r].at, n} \cup belowM |-> afterM[m]]
<1>1. markP = markM /\ objP = objM /\ savedP = savedM /\ newkeyP = newkeyM /\ movedP = movedM
  BY SameGrowParts
<1>2. belowP = belowM /\ InBackground!Node!OldKey(r, n) = Grow!OldKey(r, n)
  <2> HIDE DEF movedP, movedM
  <2> QED
    BY <1>1, SameGrowParts
<1>3. afterP = afterM
  <2> HIDE DEF movedP, movedM, belowP, belowM, newkeyP, newkeyM
  <2> QED
    BY <1>1, <1>2
<1>4. rowsP = rowsM
  <2> HIDE DEF belowP, belowM, afterP, afterM
  <2> QED
    BY <1>2, <1>3
<1>5. InBackground!Node!MoveOne(r, n) <=>
        /\ request[r].state = "open" /\ request[r].op = "move" /\ n \in request[r].left
        /\ \A m \in request[r].left
                  : ~InBackground!Node!IsBelow(InBackground!Node!OldKey(r, n), InBackground!Node!OldKey(r, m))
        /\ ~InBackground!Node!IsAncestor(InBackground!Node!OldKey(r, n), request[r].obj.key)
        /\ markP < 6 /\ ~InBackground!Node!IsLocked(r, {request[r].at, n} \cup belowP)
        /\ IF /\ InBackground!Node!HasParent(savedP, request[r].at)
                  /\ ~InBackground!Node!Duplicate(movedP) /\ InBackground!Node!HasParent(movedP, n)
              /\ ~InBackground!Node!Duplicate(afterP) /\ \A m \in belowP
                        : InBackground!Node!HasParent(afterP, m)
           THEN /\ InBackground!Node!Put(r, rowsP, objP, request[r].left \ {n})
                /\ UNCHANGED <<row, creator>>
           ELSE InBackground!Node!Fail(r)
  BY Zenon DEF InBackground!Node!MoveOne
<1>6. Grow!MoveOne(r, n) <=>
        /\ request[r].state = "open" /\ request[r].op = "move" /\ n \in request[r].left
        /\ \A m \in request[r].left : ~Grow!IsBelow(Grow!OldKey(r, n), Grow!OldKey(r, m))
        /\ ~Grow!IsAncestor(Grow!OldKey(r, n), request[r].obj.key)
        /\ markM < 6 /\ ~Grow!IsLocked(r, {request[r].at, n} \cup belowM)
        /\ IF /\ Grow!HasParent(savedM, request[r].at) /\ ~Grow!Duplicate(movedM)
                  /\ Grow!HasParent(movedM, n)
              /\ ~Grow!Duplicate(afterM) /\ \A m \in belowM : Grow!HasParent(afterM, m)
           THEN /\ Grow!Put(r, rowsM, objM, request[r].left \ {n})
                /\ UNCHANGED <<row, creator>>
           ELSE Grow!Fail(r)
  BY Zenon DEF Grow!MoveOne
<1> HIDE DEF markP, objP, savedP, movedP, belowP, afterP, rowsP,
             markM, objM, savedM, movedM, belowM, afterM, rowsM
<1> QED
  BY <1>1, <1>2, <1>3, <1>4, <1>5, <1>6, SameGrowParts

\* ... and every other step.
LEMMA SameGrowSteps ==
    ASSUME NEW r, NEW n
    PROVE  /\ InBackground!Node!Arrive(r) <=> Grow!Arrive(r)
           /\ InBackground!Node!Lock(r) <=> Grow!Lock(r)
           /\ InBackground!Node!CreateChild(r) <=> Grow!CreateChild(r)
           /\ InBackground!Node!Delete(r) <=> Grow!Delete(r)
           /\ InBackground!Node!Commit(r) <=> Grow!Commit(r)
           /\ InBackground!Node!RefuseAncestor(r, n) <=> Grow!RefuseAncestor(r, n)
           /\ InBackground!Node!MoveOne(r, n) <=> Grow!MoveOne(r, n)
<1>1. InBackground!Node!Arrive(r) <=> Grow!Arrive(r)
  BY DEF InBackground!Node!Absent, InBackground!Node!New, InBackground!Node!Kept,
     InBackground!Node!Present, InBackground!Node!Begin, InBackground!Node!BeginCreate,
     InBackground!Node!Arrive, Grow!Absent, Grow!New, Grow!Kept, Grow!Present, Grow!Begin,
     Grow!BeginCreate, Grow!Arrive, InBackground!Node!Cardinality, Grow!Cardinality
<1>2. InBackground!Node!Lock(r) <=> Grow!Lock(r)
  BY DEF InBackground!Node!Lock, Grow!Lock
<1>3. InBackground!Node!CreateChild(r) <=> Grow!CreateChild(r)
  BY DEF InBackground!Node!Absent, InBackground!Node!Kept, InBackground!Node!Present,
     InBackground!Node!Keys, InBackground!Node!HasParent, InBackground!Node!View,
     InBackground!Node!Writes, InBackground!Node!IsLocked, InBackground!Node!ValidMark,
     InBackground!Node!Put, InBackground!Node!Unlocked, InBackground!Node!Fail,
     InBackground!Node!CreateChild, Grow!Absent, Grow!Kept, Grow!Present, Grow!Keys, Grow!HasParent,
     Grow!View, Grow!Writes, Grow!IsLocked, Grow!ValidMark, Grow!Put, Grow!Unlocked, Grow!Fail,
     Grow!CreateChild, InBackground!Node!Front, Grow!Front, InBackground!Node!Last, Grow!Last,
     InBackground!Node!Max, Grow!Max
<1>4. InBackground!Node!Delete(r) <=> Grow!Delete(r)
  BY DEF InBackground!Node!Absent, InBackground!Node!Kept, InBackground!Node!Present,
     InBackground!Node!IsBelow, InBackground!Node!Below, InBackground!Node!View,
     InBackground!Node!Writes, InBackground!Node!IsLocked, InBackground!Node!Put,
     InBackground!Node!Descendants, InBackground!Node!Delete, Grow!Absent, Grow!Kept, Grow!Present,
     Grow!IsBelow, Grow!Below, Grow!View, Grow!Writes, Grow!IsLocked, Grow!Put, Grow!Descendants,
     Grow!Delete, InBackground!Node!IsStrictPrefix, Grow!IsStrictPrefix, InBackground!Node!IsPrefix,
     Grow!IsPrefix
<1>5. InBackground!Node!Commit(r) <=> Grow!Commit(r)
  BY DEF InBackground!Node!Absent, InBackground!Node!Present, InBackground!Node!Keys,
     InBackground!Node!Duplicate, InBackground!Node!View, InBackground!Node!Unlocked,
     InBackground!Node!Fail, InBackground!Node!Finished, InBackground!Node!Commit, Grow!Absent,
     Grow!Present, Grow!Keys, Grow!Duplicate, Grow!View, Grow!Unlocked, Grow!Fail, Grow!Finished,
     Grow!Commit, InBackground!Node!Cardinality, Grow!Cardinality
<1>6. InBackground!Node!RefuseAncestor(r, n) <=> Grow!RefuseAncestor(r, n)
  BY DEF InBackground!Node!IsBelow, InBackground!Node!OldKey, InBackground!Node!IsAncestor,
     InBackground!Node!RefuseAncestor, Grow!IsBelow, Grow!OldKey, Grow!IsAncestor,
     Grow!RefuseAncestor, InBackground!Node!IsStrictPrefix, Grow!IsStrictPrefix,
     InBackground!Node!IsPrefix, Grow!IsPrefix
<1>7. InBackground!Node!MoveOne(r, n) <=> Grow!MoveOne(r, n)
  BY SameGrowMoves
<1> QED
  BY <1>1, <1>2, <1>3, <1>4, <1>5, <1>6, <1>7

LEMMA SameGrow ==
    /\ InBackground!Node!Init <=> Grow!Init
    /\ InBackground!Node!Next <=> Grow!Next
    /\ UNCHANGED Grow!vars => UNCHANGED InBackground!Node!vars
    /\ InBackground!Node!TypeOK <=> Grow!TypeOK
    /\ InBackground!Node!CreationsSucceed <=> Grow!CreationsSucceed
<1>1. InBackground!Node!Init <=> Grow!Init
  BY DEF InBackground!Node!Absent, InBackground!Node!New, InBackground!Node!Init, Grow!Absent,
     Grow!New, Grow!Init, InBackground!Node!Cardinality, Grow!Cardinality, InBackground!Node!Front,
     Grow!Front
<1>2. InBackground!Node!Next <=> Grow!Next
  BY SameGrowSteps, Zenon DEF InBackground!Node!Next, Grow!Next
<1>3. UNCHANGED Grow!vars => UNCHANGED InBackground!Node!vars
  BY DEF InBackground!Node!vars, Grow!vars
<1>4. InBackground!Node!TypeOK <=> Grow!TypeOK
  BY DEF InBackground!Node!Absent, InBackground!Node!Rows, InBackground!Node!Kept,
     InBackground!Node!Present, InBackground!Node!Keys, InBackground!Node!Duplicate,
     InBackground!Node!TypeOK, Grow!Absent, Grow!Rows, Grow!Kept, Grow!Present, Grow!Keys,
     Grow!Duplicate, Grow!TypeOK, InBackground!Node!Cardinality, Grow!Cardinality
<1>5. InBackground!Node!CreationsSucceed <=> Grow!CreationsSucceed
  BY SMTT(60) DEF InBackground!Node!CreationsSucceed, Grow!CreationsSucceed
<1> QED
  BY <1>1, <1>2, <1>3, <1>4, <1>5

LEMMA GrowHolds ==
    AllSpec /\ ~(part = "edit")
    => /\ [](~(part = "edit") /\ Grow!TypeOK /\ Grow!CreationsSucceed)
       /\ [][\A r \in {r1, r2, r3} : request[r].state = "open" /\ request'[r].state = "done" =>
             \A n \in Edit!Present(row) \cap Edit!Present(row)' :
               (request[r].op = "move" /\ n \in DOMAIN request[r].objs)
                 \/ Edit!ParentOf(row, n) = Edit!ParentOf(row', n)]_(Edit!vars)
<1>1. AllInit /\ ~(part = "edit") => InBackground!Node!Init
  BY SameGrow DEF AllInit
<1>2. ~(part = "edit") /\ [AllNext]_allvars
      => (~(part = "edit"))' /\ [InBackground!Node!Next]_(InBackground!Node!vars)
  BY SameGrow, ZenonT(60) DEF AllNext, allvars, vars, pvars, bvars, nvars, InMapping, InSmall, Grow!vars
<1>3. InBackground!Node!TreeAssumption
  BY TreesAssumption, ZenonT(60) DEF TreesAssumption, InBackground!Node!TreeAssumption, Grow!TreeAssumption,
     InBackground!Node!IsFiniteSet, Grow!IsFiniteSet, InBackground!Node!Front, Grow!Front
<1>4. InBackground!Node!Spec => []InBackground!Node!TypeOK
  BY InBackground!NodesHaveKeys, <1>3
<1>5. InBackground!Node!Spec => []InBackground!Node!CreationsSucceed
  BY InBackground!LockedCreationsSucceed, <1>3
<1>6. InBackground!Node!Spec => [][\A r \in {r1, r2, r3} : request[r].state = "open"
          /\ request'[r].state = "done" =>
             \A n \in InBackground!Node!Present(row) \cap InBackground!Node!Present(row)' :
               (request[r].op = "move" /\ n \in DOMAIN request[r].objs)
                 \/ InBackground!Node!ParentOf(row, n) = InBackground!Node!ParentOf(row', n)]_(InBackground!Node!vars)
  BY InBackground!LockedCreationsSucceed, <1>3 DEF InBackground!Node!OthersStay
<1>7. [\A r \in {r1, r2, r3} : request[r].state = "open" /\ request'[r].state = "done" =>
             \A n \in InBackground!Node!Present(row) \cap InBackground!Node!Present(row)' :
               (request[r].op = "move" /\ n \in DOMAIN request[r].objs)
                 \/ InBackground!Node!ParentOf(row, n) = InBackground!Node!ParentOf(row', n)]_(InBackground!Node!vars)
      => [\A r \in {r1, r2, r3} : request[r].state = "open" /\ request'[r].state = "done" =>
             \A n \in Edit!Present(row) \cap Edit!Present(row)' :
               (request[r].op = "move" /\ n \in DOMAIN request[r].objs)
                 \/ Edit!ParentOf(row, n) = Edit!ParentOf(row', n)]_(Edit!vars)
  BY DEF InBackground!Node!Absent, Edit!Absent, InBackground!Node!vars, Edit!vars,
     InBackground!Node!Present, Edit!Present, InBackground!Node!ParentOf, Edit!ParentOf,
     InBackground!Node!Front, Edit!Front
<1> QED
  BY SameGrow, <1>1, <1>2, <1>4, <1>5, <1>6, <1>7, PTL DEF AllSpec, InBackground!Node!Spec

-----------------------------------------------------------------------------
(* What the runs check.                                                    *)

\* A part that moves no mapping leaves it as it is.
LEMMA MappingRuns == AllSpec => Spec
<1>1. AllInit => Init
  BY SMTT(60) DEF AllInit
<1>2. [AllNext]_allvars => [Next]_vars
  BY Zenon DEF AllNext, allvars, InMapping, InSmall
<1> QED
  BY <1>1, <1>2, PTL DEF AllSpec, Spec

\* Types hold in each part of MC_Trees.
THEOREM TreesTypesHold == AllSpec => []TypesOK
<1> DEFINE TreeTypes == IF part = "large" THEN Large!TypeOK ELSE Small!TypeOK
           NodeTypes == (part = "edit" => Edit!TypeOK) /\ (part = "grow" => Grow!TypeOK)
<1>1. /\ ~(part = "large") /\ Small!TypeOK => TreeTypes
      /\ part = "large" /\ Large!TypeOK => TreeTypes
  BY SMTT(60)
<1>2. /\ part = "edit" /\ Edit!TypeOK => NodeTypes
      /\ ~(part = "edit") /\ Grow!TypeOK => NodeTypes
  BY SMTT(60)
<1>3. IInv => TypeOK
  BY SMTT(60) DEF IInv
<1>4. ~(part = "build") /\ [AllNext]_allvars => ~(part = "build")'
  BY ZenonT(60) DEF AllNext, allvars, InMapping, InSmall
<1>5. IInv /\ TreeTypes /\ NodeTypes /\ (part = "build" => Build!TypeOK) => TypesOK
  BY <1>3 DEF TypesOK
<1> HIDE DEF TreeTypes, NodeTypes
<1>6. AllSpec => []TreeTypes
  BY <1>1, SmallHolds, LargeHolds, PTL
<1>7. AllSpec => []NodeTypes
  BY <1>2, EditHolds, GrowHolds, PTL
<1>8. AllSpec => [](part = "build" => Build!TypeOK)
  BY <1>4, BuildHolds, PTL DEF AllSpec
<1> QED
  BY <1>5, <1>6, <1>7, <1>8, MappingRuns, Invariant, PTL

\* UserPermTreeRefreshUtil, UserPermTreeBuildUtil, NodeAssetsUtil: in each part the tree of a user
\* lists the nodes of an organisation once and as they are, and a rebuild shows what the user sees
\* and counts it; where he is granted the organisation's root alone, nothing is counted and its row
\* gives the amount it had.
THEOREM UserTreesAreRight == AllSpec => []UserTreeIsRight
<1>1. /\ Large!OnePart => Small!OnePart
      /\ Large!MarkedIsCurrent => Small!MarkedIsCurrent
  BY ZenonT(60) DEF Large!OnePart, Small!OnePart, Large!Shows, Small!Shows, Large!Busy, Small!Busy,
     Large!MarkedIsCurrent, Small!MarkedIsCurrent, Large!Cardinality, Small!Cardinality
<1>2. AllSpec => [](Small!OnePart /\ Small!MarkedIsCurrent)
  BY <1>1, SmallHolds, LargeHolds, PTL
<1>3. ~(part = "build") /\ [AllNext]_allvars => ~(part = "build")'
  BY Zenon DEF AllNext, allvars, InMapping, InSmall
<1>4. AllSpec
      => [](part = "build" => Build!AmountsAreVisible /\ Build!PopIsFinal /\ Build!TreeIsComplete)
  BY <1>3, BuildHolds, PTL DEF AllSpec
<1>5. /\ Small!OnePart /\ Small!MarkedIsCurrent
      /\ part = "build" => Build!AmountsAreVisible /\ Build!PopIsFinal /\ Build!TreeIsComplete
      => UserTreeIsRight
  BY DEF UserTreeIsRight
<1> QED
  BY <1>2, <1>4, <1>5, PTL

\* locks_for_get_mapping_from_cache, UserPermTreeRefreshUtil: neither a process nor a user's tree
\* goes back to what was read before, whatever else runs.
THEOREM NothingGetsOlder == AllSpec => NothingOlder
<1> QED
  BY SmallHolds, LargeHolds, MappingRuns, NothingOlderIsStored, PTL
     DEF NothingOlder, Small!NoOlderTree

\* Node.save, update_child_full_value, create_child: after any requests every parent exists, no
\* creation has failed, and the other nodes are where they were.
THEOREM TreesStayWhole == AllSpec => TreeStaysWhole
<1>1. AllSpec => [](part = "edit" => Edit!NoGap)
  <2>1. /\ part = "edit" /\ Edit!NoGap => (part = "edit" => Edit!NoGap)
        /\ ~(part = "edit") => (part = "edit" => Edit!NoGap)
    OBVIOUS
  <2> QED
    BY <2>1, EditHolds, GrowHolds, PTL
<1>2. AllSpec => [](part = "grow" => Grow!CreationsSucceed)
  <2>1. /\ part = "edit" => (part = "grow" => Grow!CreationsSucceed)
        /\ Grow!CreationsSucceed => (part = "grow" => Grow!CreationsSucceed)
    OBVIOUS
  <2> QED
    BY <2>1, EditHolds, GrowHolds, PTL
<1> QED
  BY <1>1, <1>2, EditHolds, GrowHolds, PTL DEF TreeStaysWhole, Edit!OthersStay
=============================================================================
