---------------------------- MODULE NodeMapping ----------------------------
(***************************************************************************)
(* Which assets lie at or below which node: the mapping that               *)
(* NodeAllAssetsMappingMixin of assets/models/node.py keeps in the memory  *)
(* of every process and, for all of them, in the cache, and the signal     *)
(* handlers of assets/signal_handlers/node_assets_mapping.py that expire   *)
(* it.  One organisation; a mapping is the version of the database it was  *)
(* generated from.                                                         *)
(***************************************************************************)
EXTENDS Naturals, FiniteSets

CONSTANTS
    Thread,
    Process,
    home,           \* home[t]: the process of a thread
    Nobody,
    None,           \* no mapping
    MaxVersion,     \* changes of nodes and of their assets
    MaxFailures     \* messages lost, threads killed

ASSUME MappingAssumption ==
    /\ home \in [Thread -> Process]
    /\ Nobody \notin Thread
    /\ MaxVersion \in Nat /\ MaxFailures \in Nat
    /\ None \notin Nat

VARIABLES
    version,        \* committed nodes and relations
    expiring,       \* a merged call of expire_node_assets_mapping waits to run
    inbox,          \* processes that have a message to read
    memory,         \* memory[p]: orgid_nodekey_assetsid_mapping
    cache,          \* the mapping in redis
    call,           \* call[t]: one call of get_node_all_asset_ids_mapping
    inside,         \* inside[p]: thread that holds the lock of the process
    lock,           \* owner of the distributed lock
    failures,
    raced           \* processes that may have missed an expiry

vars == <<version, expiring, inbox, memory, cache, call, inside, lock, failures, raced>>

Version == 0..MaxVersion
Mapping == Version \cup {None}
Stages == {"idle", "missed", "inside", "waiting", "locked", "generating", "generated", "storing"}

TypeOK ==
    /\ version \in Version
    /\ expiring \in BOOLEAN /\ inbox \subseteq Process /\ raced \subseteq Process
    /\ memory \in [Process -> Mapping] /\ cache \in Mapping
    /\ call \in [Thread -> [pc : Stages, mapping : Mapping, _mapping : Mapping]]
    /\ inside \in [Process -> Thread \cup {Nobody}]
    /\ lock \in Thread \cup {Nobody}
    /\ failures \in 0..MaxFailures

Idle == [pc |-> "idle", mapping |-> None, _mapping |-> None]

Init ==
    /\ version = 0 /\ expiring = FALSE /\ inbox = {}
    /\ memory = [p \in Process |-> None] /\ cache = None
    /\ call = [t \in Thread |-> Idle]
    /\ inside = [p \in Process |-> Nobody] /\ lock = Nobody
    /\ failures = 0 /\ raced = {}

-----------------------------------------------------------------------------
(* Changes *)

\* A process that has read the database and will keep what it read.
Holding(p) == \E t \in Thread : home[t] = p /\ call[t]._mapping # None

\* A node is created or deleted, or assets are put into or taken out of one.  Under
\* merge_delay_run the calls within 30 seconds become one.
Change ==
    /\ version < MaxVersion
    /\ version' = version + 1
    /\ expiring' = TRUE
    /\ raced' = raced \cup {p \in Process : Holding(p)}
    /\ UNCHANGED <<inbox, memory, cache, call, inside, lock, failures>>

\* A node is moved: its key changes in a save without update_fields, which the handler
\* does not take for a change of the key.
Move ==
    /\ version < MaxVersion
    /\ version' = version + 1
    /\ raced' = Process
    /\ UNCHANGED <<expiring, inbox, memory, cache, call, inside, lock, failures>>

\* Faulty: only this process forgets its mapping.
ExpireHere ==
    /\ expiring /\ expiring' = FALSE
    /\ cache' = None
    /\ \E p \in Process : inbox' = inbox \cup {p}
    /\ UNCHANGED <<version, memory, call, inside, lock, failures, raced>>

\* expire_node_assets_mapping: the cache, and a message to every process.
Expire ==
    /\ expiring /\ expiring' = FALSE
    /\ cache' = None
    /\ inbox' = Process
    /\ UNCHANGED <<version, memory, call, inside, lock, failures, raced>>

\* handle_node_relation_change, in the thread of the subscription: it takes no lock.
Forget(p) ==
    /\ p \in inbox
    /\ inbox' = inbox \ {p}
    /\ memory' = [memory EXCEPT ![p] = None]
    /\ UNCHANGED <<version, expiring, cache, call, inside, lock, failures, raced>>

\* The subscription is broken while the message is published.
Lose(p) ==
    /\ p \in inbox /\ failures < MaxFailures
    /\ inbox' = inbox \ {p} /\ failures' = failures + 1
    /\ raced' = raced \cup {p}
    /\ UNCHANGED <<version, expiring, memory, cache, call, inside, lock>>

-----------------------------------------------------------------------------
(* get_node_all_asset_ids_mapping *)

Go(t, stage) == call' = [call EXCEPT ![t].pc = stage]

\* A mapping in memory is the answer.
Get(t) ==
    /\ call[t].pc = "idle" /\ memory[home[t]] = None
    /\ Go(t, "missed")
    /\ UNCHANGED <<version, expiring, inbox, memory, cache, inside, lock, failures, raced>>

\* Faulty: without the lock of the process.
EnterAnyway(t) ==
    /\ call[t].pc = "missed"
    /\ Go(t, "inside")
    /\ UNCHANGED <<version, expiring, inbox, memory, cache, inside, lock, failures, raced>>

\* The memory is not looked at again.
Enter(t) ==
    /\ call[t].pc = "missed" /\ inside[home[t]] = Nobody
    /\ Go(t, "inside")
    /\ inside' = [inside EXCEPT ![home[t]] = t]
    /\ UNCHANGED <<version, expiring, inbox, memory, cache, lock, failures, raced>>

ReadCache(t) ==
    /\ call[t].pc = "inside"
    /\ call' = [call EXCEPT ![t] =
         [pc |-> IF cache # None THEN "storing" ELSE "waiting", mapping |-> cache, _mapping |-> cache]]
    /\ UNCHANGED <<version, expiring, inbox, memory, cache, inside, lock, failures, raced>>

Lock(t) ==
    /\ call[t].pc = "waiting" /\ lock = Nobody
    /\ Go(t, "locked") /\ lock' = t
    /\ UNCHANGED <<version, expiring, inbox, memory, cache, inside, failures, raced>>

\* The cache is read again under the lock.
ReadCacheAgain(t) ==
    /\ call[t].pc = "locked"
    /\ IF cache # None
         THEN /\ call' = [call EXCEPT ![t].pc = "storing", ![t]._mapping = cache]
              /\ lock' = IF lock = t THEN Nobody ELSE lock
         ELSE Go(t, "generating") /\ UNCHANGED lock
    /\ UNCHANGED <<version, expiring, inbox, memory, cache, inside, failures, raced>>

Generate(t) ==
    /\ call[t].pc = "generating"
    /\ call' = [call EXCEPT ![t].pc = "generated", ![t]._mapping = version]
    /\ UNCHANGED <<version, expiring, inbox, memory, cache, inside, lock, failures, raced>>

\* What is put into the cache is the mapping that was found there before.
SetCache(t) ==
    /\ call[t].pc = "generated"
    /\ cache' = call[t].mapping
    /\ lock' = IF lock = t THEN Nobody ELSE lock
    /\ Go(t, "storing")
    /\ UNCHANGED <<version, expiring, inbox, memory, inside, failures, raced>>

SetMemory(t) ==
    /\ call[t].pc = "storing"
    /\ memory' = [memory EXCEPT ![home[t]] = call[t]._mapping]
    /\ inside' = [inside EXCEPT ![home[t]] = Nobody]
    /\ call' = [call EXCEPT ![t] = Idle]
    /\ UNCHANGED <<version, expiring, inbox, cache, lock, failures, raced>>

\* A process is killed and started again: its memory is gone and its lock is not.
Restart(p) ==
    /\ failures < MaxFailures /\ failures' = failures + 1
    /\ memory' = [memory EXCEPT ![p] = None]
    /\ inside' = [inside EXCEPT ![p] = Nobody]
    /\ call' = [t \in Thread |-> IF home[t] = p THEN Idle ELSE call[t]]
    /\ inbox' = inbox \ {p}
    /\ UNCHANGED <<version, expiring, cache, lock, raced>>

\* Faulty: the lock is held for ever.
LockStays == UNCHANGED vars

\* An endless lock is renewed by its owner, and expires without one.
LockExpires ==
    /\ lock # Nobody /\ call[lock].pc \notin {"locked", "generating", "generated"}
    /\ lock' = Nobody
    /\ UNCHANGED <<version, expiring, inbox, memory, cache, call, inside, failures, raced>>

Serve(t) ==
    \/ Enter(t) \/ ReadCache(t) \/ Lock(t) \/ ReadCacheAgain(t)
    \/ Generate(t) \/ SetCache(t) \/ SetMemory(t)

Next ==
    \/ Change \/ Move \/ Expire \/ LockExpires
    \/ \E p \in Process : Forget(p) \/ Lose(p) \/ Restart(p)
    \/ \E t \in Thread : Get(t) \/ Serve(t)

Spec == Init /\ [][Next]_vars

\* Threads go on; locks are given to each that waits for one; keys expire.
Fairness ==
    /\ WF_vars(LockExpires) /\ WF_vars(Expire)
    /\ \A p \in Process : WF_vars(Forget(p))
    /\ \A t \in Thread : WF_vars(Serve(t)) /\ SF_vars(Enter(t)) /\ SF_vars(Lock(t))

FairSpec == Spec /\ Fairness

-----------------------------------------------------------------------------
(* Properties *)

\* A process answers from its memory with the present nodes and assets once the expiry
\* of the last change has reached it, unless a change came while it generated, a node
\* was moved, or a message was lost.
MemoryIsFresh ==
    \A p \in Process :
        memory[p] # None /\ ~expiring /\ p \notin inbox \cup raced => memory[p] = version

\* A process never goes back to an older mapping (locks_for_get_mapping_from_cache: one
\* thread of a process at a time reads the database and stores what it read).
OlderIsGone == \A p \in Process : memory[p] # None /\ memory'[p] # None => memory'[p] >= memory[p]
NoOlderMapping == [][OlderIsGone]_vars

\* The comment on the endless lock: no two threads, of whatever process, load the
\* database with this at once.
Loading(t) == call[t].pc \in {"generating", "generated"}
OneGenerator == \A t, u \in Thread : Loading(t) /\ Loading(u) => t = u

\* Every call returns.
CallsReturn == \A t \in Thread : call[t].pc = "missed" ~> call[t].pc = "idle"

=============================================================================
