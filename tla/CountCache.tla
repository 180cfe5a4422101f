----------------------------- MODULE CountCache -----------------------------
(***************************************************************************)
(* The counts of an organisation's resources that the dashboard shows: one *)
(* redis hash, filled by whoever misses a field and emptied, field by      *)
(* field, when a change has committed or, where the call is a delayed one, *)
(* 30 seconds after the change.  Nothing in it expires by itself, and not  *)
(* every change is heard of: what counts for this week or today changes    *)
(* with the clock, and the receivers know instances by their exact type.   *)
(* The hash of the root organisation is filled and emptied in the same     *)
(* way, so one hash is modelled.  A count is known by the number of        *)
(* changes it has seen.                                                    *)
(***************************************************************************)
EXTENDS Naturals

CONSTANTS Reader,      \* requests that read counts, one after the other
          Field,
          Nobody, None,
          Timed,       \* fields of this week or today: the clock changes them
          Unmapped,    \* fields some changes of which no receiver answers: an asset is
                       \* made as a Host or a Web, a session turns out to have failed
          MaxVersion,  \* bound on the changes of a field
          Losses       \* whether an expiry may go its own way: be lost with its process,
                       \* or be a delayed call that takes no notice of the transaction

CacheAssumption ==
    /\ Nobody \notin Reader /\ None \notin Nat
    /\ Timed \subseteq Field /\ Unmapped \subseteq Field
    /\ MaxVersion \in Nat /\ Losses \in BOOLEAN

VARIABLES db,       \* committed changes of a field
          writing,  \* fields a transaction has changed and not committed
          early,    \* fields that expired before the transaction has ended
          pending,  \* fields that are still to expire
          hash,     \* the cached counts
          lock,     \* who holds ComputeLock
          reader,   \* the requests
          lost,     \* fields whose last expiry was lost or came too early
          suspect,  \* fields some request had counted when they expired last
          unheard   \* fields that have changed since they were counted and nobody heard

vars == <<db, writing, early, pending, hash, lock, reader, lost, suspect, unheard>>

Version == 0..MaxVersion
Counts == [Field -> Version \cup {None}]
NoCounts == [f \in Field |-> None]

TypeOK ==
    /\ db \in [Field -> Version]
    /\ writing \subseteq Field /\ early \subseteq writing /\ pending \subseteq Field
    /\ hash \in Counts
    /\ lock \in Reader \cup {Nobody}
    /\ reader \in [Reader ->
         [pc : {"idle", "load", "wait", "check", "compute", "reload", "answer", "failed"},
          field : Field \cup {None}, data : Counts, todo : SUBSET Field, got : Counts, again : BOOLEAN]]
    /\ lost \subseteq Field /\ suspect \subseteq Field /\ unheard \subseteq Field

Init ==
    /\ db = [f \in Field |-> 0]
    /\ writing = {} /\ early = {} /\ pending = {}
    /\ hash = NoCounts
    /\ lock = Nobody
    /\ reader = [r \in Reader |->
         [pc |-> "idle", field |-> None, data |-> NoCounts, todo |-> {}, got |-> NoCounts,
          again |-> FALSE]]
    /\ lost = {} /\ suspect = {} /\ unheard = {}

-----------------------------------------------------------------------------
(* Changes. *)

Others == <<hash, lock, reader>>

Write(f) ==
    /\ f \notin writing /\ db[f] < MaxVersion
    /\ writing' = writing \cup {f}
    /\ UNCHANGED <<db, early, pending, lost, suspect, unheard, Others>>

\* The transaction ends; a delayed call takes no notice of a rollback.
Ended(f) == writing' = writing \ {f} /\ early' = early \ {f}

Counted(f) == \E r \in Reader : reader[r].got[f] # None

\* The field was counted, and nothing will make it expire.
Unheard(f) == unheard' = IF hash[f] # None \/ Counted(f) THEN unheard \cup {f} ELSE unheard

\* What committed is to expire, unless it did already, or no receiver maps the instance.
Commit(f) ==
    /\ f \in writing
    /\ Ended(f)
    /\ db' = [db EXCEPT ![f] = @ + 1]
    /\ \/ f \in early /\ lost' = lost \cup {f} /\ UNCHANGED <<pending, unheard>>
       \/ f \notin early /\ pending' = pending \cup {f} /\ UNCHANGED <<lost, unheard>>
       \/ f \in Unmapped \ early /\ Unheard(f) /\ UNCHANGED <<pending, lost>>
    /\ UNCHANGED <<suspect, Others>>

\* A new week or a new day begins; no row is written.
Pass(f) ==
    /\ f \in Timed /\ db[f] + (IF f \in writing THEN 1 ELSE 0) < MaxVersion
    /\ db' = [db EXCEPT ![f] = @ + 1]
    /\ Unheard(f)
    /\ UNCHANGED <<writing, early, pending, lost, suspect, Others>>

Rollback(f) ==
    /\ f \in writing
    /\ Ended(f)
    /\ pending' \in {pending, IF Losses THEN pending \cup {f} ELSE pending}
    /\ UNCHANGED <<db, lost, suspect, unheard, Others>>

Filled == hash # NoCounts

\* OrgRelatedCache.expire, outside a transaction.
Drop(f) ==
    /\ hash' = [hash EXCEPT ![f] = None]
    /\ lost' = lost \ {f} /\ unheard' = unheard \ {f}
    /\ suspect' = IF Counted(f) THEN suspect \cup {f} ELSE suspect \ {f}
    /\ UNCHANGED <<db, writing, lock, reader>>

Expire(f) ==
    /\ f \in pending
    /\ pending' = pending \ {f}
    /\ Drop(f)
    /\ UNCHANGED early

\* The delayed call runs 30 seconds after the change, whatever the transaction does.
ExpireEarly(f) ==
    /\ Losses /\ f \in writing \ early
    /\ early' = early \cup {f}
    /\ Drop(f)
    /\ UNCHANGED pending

\* The command expire_caches deletes the hash.
ExpireAll ==
    /\ Filled
    /\ hash' = NoCounts
    /\ lost' = {f \in lost : Counted(f)} /\ unheard' = {f \in unheard : Counted(f)}
    /\ UNCHANGED <<db, writing, early, pending, suspect, lock, reader>>

\* The process dies after its commit.
Lose(f) ==
    /\ Losses /\ f \in pending
    /\ pending' = pending \ {f}
    /\ lost' = lost \cup {f}
    /\ UNCHANGED <<db, writing, early, suspect, unheard, Others>>

-----------------------------------------------------------------------------
(* A request that reads a field of its Cache object, a step for each use   *)
(* of redis or of the database.                                            *)

Changes == <<db, writing, early, pending, lost, suspect, unheard>>

Go(r, pc) == reader' = [reader EXCEPT ![r].pc = pc]

\* A request reads another field with the object it has, or makes a new object.
Ask(r, f) ==
    /\ reader[r].pc \in {"idle", "failed"}
    /\ \E data \in {reader[r].data, NoCounts} :
         reader' = [reader EXCEPT ![r] = [@ EXCEPT !.pc = "load", !.field = f, !.data = data,
                                                   !.again = FALSE]]
    /\ UNCHANGED <<Changes, hash, lock>>

\* Cache.data: what the object has, else what redis has, else the lock is needed.
Load(r) ==
    /\ reader[r].pc = "load"
    /\ IF reader[r].data # NoCounts
         THEN Go(r, "answer")
         ELSE reader' = [reader EXCEPT ![r].data = hash,
                                       ![r].pc = IF Filled THEN "answer" ELSE "wait"]
    /\ UNCHANGED <<Changes, hash, lock>>

TakeLock(r) ==
    /\ reader[r].pc = "wait" /\ lock = Nobody
    /\ lock' = r
    /\ Go(r, "check")
    /\ UNCHANGED <<Changes, hash>>

Compute(r, fields) ==
    reader' = [reader EXCEPT ![r].pc = "compute", ![r].todo = fields]

\* Another request may have filled it while this one waited.
Check(r) ==
    /\ reader[r].pc = "check"
    /\ IF Filled
         THEN /\ reader' = [reader EXCEPT ![r].data = hash, ![r].pc = "answer"]
              /\ lock' = Nobody
         ELSE Compute(r, Field) /\ UNCHANGED lock
    /\ UNCHANGED <<Changes, hash>>

\* compute_values: a query for each field.
Count(r, f) ==
    /\ reader[r].pc = "compute" /\ f \in reader[r].todo
    /\ reader' = [reader EXCEPT ![r].todo = @ \ {f}, ![r].got[f] = db[f]]
    /\ UNCHANGED <<Changes, hash, lock>>

\* Mutant: the counts of the object are stored with the ones just made.
StoreAll(r) ==
    /\ reader[r].pc = "compute" /\ reader[r].todo = {}
    /\ hash' = [f \in Field |-> IF reader[r].got[f] # None THEN reader[r].got[f]
                                ELSE IF reader[r].data[f] # None THEN reader[r].data[f]
                                ELSE hash[f]]
    /\ reader' = [reader EXCEPT ![r].got = NoCounts, ![r].pc = "reload"]
    /\ UNCHANGED <<Changes, lock>>

\* save_data_to_db stores the fields that were computed.
Store(r) ==
    /\ reader[r].pc = "compute" /\ reader[r].todo = {}
    /\ hash' = [f \in Field |-> IF reader[r].got[f] # None THEN reader[r].got[f] ELSE hash[f]]
    /\ reader' = [reader EXCEPT ![r].got = NoCounts, ![r].pc = "reload"]
    /\ UNCHANGED <<Changes, lock>>

\* Mutant: the lock is kept.
ReloadOnly(r) ==
    /\ reader[r].pc = "reload"
    /\ reader' = [reader EXCEPT ![r].data = IF Filled THEN hash ELSE @, ![r].pc = "answer"]
    /\ UNCHANGED <<Changes, hash, lock>>

\* It reads them back; an empty answer leaves the object as it was.
Reload(r) ==
    /\ reader[r].pc = "reload"
    /\ reader' = [reader EXCEPT ![r].data = IF Filled THEN hash ELSE @, ![r].pc = "answer"]
    /\ lock' = IF lock = r THEN Nobody ELSE lock
    /\ UNCHANGED <<Changes, hash>>

\* CacheValueDesc.__get__: a field that is missing is refreshed once, without the lock; an
\* object without any data cannot be asked.
Answer(r) ==
    /\ reader[r].pc = "answer"
    /\ LET me == reader[r] IN
         CASE me.data = NoCounts -> Go(r, "failed")
           [] me.data # NoCounts /\ me.data[me.field] = None /\ ~ me.again ->
                reader' = [reader EXCEPT ![r] = [me EXCEPT !.pc = "compute", !.again = TRUE,
                             !.data = IF Filled THEN hash ELSE me.data,
                             !.todo = IF Filled THEN {me.field} ELSE Field]]
           [] OTHER -> Go(r, "idle")
    /\ UNCHANGED <<Changes, hash, lock>>

Read(r) == Load(r) \/ Check(r) \/ Store(r) \/ Reload(r) \/ Answer(r) \/ \E f \in Field : Count(r, f)

Next ==
    \/ ExpireAll
    \/ \E f \in Field :
         \/ Write(f)
         \/ Commit(f)
         \/ Pass(f)
         \/ Rollback(f)
         \/ Expire(f)
         \/ ExpireEarly(f)
         \/ Lose(f)
         \/ \E r \in Reader : Ask(r, f)
    \/ \E r \in Reader : TakeLock(r) \/ Read(r)

Spec == Init /\ [][Next]_vars

Fairness == \A r \in Reader : WF_vars(Read(r)) /\ SF_vars(TakeLock(r))

-----------------------------------------------------------------------------
\* A count is wrong only for a reason: its expiry is still to come, was lost or came before
\* the commit; or some request had counted the field already when it expired, and stored
\* it afterwards; or it changed since, by the clock or by a change no receiver maps.
StaleNeedsARace ==
    \A f \in Field :
      hash[f] \notin {None, db[f]} => f \in pending \cup lost \cup suspect \cup unheard

\* Every request for a count gets an answer.
AnswersCome == \A r \in Reader : reader[r].pc = "wait" ~> reader[r].pc \in {"idle", "failed"}
=============================================================================
