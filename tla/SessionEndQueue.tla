-------------------------- MODULE SessionEndQueue --------------------------
(***************************************************************************)
(* Change of an account's secret after a session that used it.  The end of *)
(* a session adds a QUEUED key for the account and, unless another did so  *)
(* within the debounce time, a task that is to start some time later.  The *)
(* task turns every QUEUED key into READY and runs a change for all those  *)
(* accounts; other changes are started by hand.  A change takes the lock   *)
(* of an account (SecretRotation says what it does then), sets its key to  *)
(* PROCESSING and clears it.  Keys of the cache: QUEUED lives QueueTTL,    *)
(* the others outlast any behaviour here (an hour, or as long as a lock).  *)
(* A tick is ten seconds; a task may wait for a worker as long as it takes.*)
(***************************************************************************)
EXTENDS Integers, FiniteSets

CONSTANTS
  Accounts, Sessions,
  Delayed,      \* tasks the ends of sessions start
  Manual,       \* tasks administrators start
  None,
  Debounce,     \* debounce_timeout
  Countdown,    \* delayed_task_countdown
  QueueTTL,     \* queue_status_timeout
  Workers,      \* processes of the ansible queue
  MaxTime       \* bound on the clock

Tasks == Delayed \cup Manual
QueueAssumption ==
  /\ {Debounce, Countdown, QueueTTL, Workers, MaxTime} \subseteq Nat \ {0}
  /\ Debounce <= Countdown /\ Countdown < QueueTTL
  /\ Delayed \cap Manual = {} /\ None \notin Accounts \cup Tasks

VARIABLES
  session,    \* the account of a session and the attempts made before it began
  key,        \* queue:change_secret:<account>
  lock,       \* account-change-secret:<account>
  debounced,  \* when debounce:change_secret:task expires
  task,       \* the Celery tasks
  attempts,   \* changes of the secret of an account that reached the host
  refused,    \* ended sessions that met the key of a change already made
  wiped,      \* ended sessions whose key a change has cleared that did not set it
  late,       \* ended sessions whose key expired before a worker came to their task
  now
vars == <<session, key, lock, debounced, task, attempts, refused, wiped, late, now>>

NoKey == [status |-> "none"]
Key(status, owner, until) == [status |-> status, owner |-> owner, until |-> until]
Forever == MaxTime + QueueTTL
New == [state |-> "new"]
Idle == [state |-> "idle", due |-> 0, ids |-> {}, cur |-> None, phase |-> "none"]

(* One type invariant. *)
TypeOK ==
  /\ \A s \in Sessions : session[s] = New \/ session[s] \in
       [state: {"open", "ended"}, account: Accounts, since: Nat]
  /\ \A a \in Accounts : key[a] = NoKey \/ key[a] \in
       [status: {"QUEUED", "READY", "PROCESSING"}, owner: Tasks \cup {None}, until: 0..Forever]
  /\ lock \in [Accounts -> Tasks \cup {None}]
  /\ task \in [Tasks -> [state: {"idle", "waiting", "scan", "run", "done"}, due: 0..(MaxTime + Countdown),
                         ids: SUBSET Accounts, cur: Accounts \cup {None},
                         phase: {"none", "saw", "held", "changed", "failed", "clear_first", "keep_first",
                                 "refused", "clear", "keep"}]]
  /\ refused \cup wiped \cup late \subseteq Sessions /\ now \in 0..MaxTime
  /\ \A a \in Accounts : lock[a] # None => task[lock[a]].state = "run" /\ task[lock[a]].cur = a

Busy == {k \in Tasks : task[k].state \in {"scan", "run"}}
EndedOn(a) == {s \in Sessions : session[s].state = "ended" /\ session[s].account = a}
Followed(s) == session[s].state = "ended" /\ attempts[session[s].account] > session[s].since
Set(k, r) == task' = [task EXCEPT ![k] = r]

----------------------------------------------------------------------------
Open(s, a) ==
  /\ session[s] = New
  /\ session' = [session EXCEPT ![s] = [state |-> "open", account |-> a, since |-> attempts[a]]]
  /\ UNCHANGED <<key, lock, debounced, task, attempts, refused, wiped, late, now>>

(* enqueue_change_secret_task; the expiry of QUEUED and the start of the   *)
(* task count from the present.                                            *)
QueuedAsLongAsDebounced == now + Debounce
QueuedUntil == now + QueueTTL
Enqueue(a) ==
  IF key[a] = NoKey THEN key' = [key EXCEPT ![a] = Key("QUEUED", None, QueuedUntil)]
  ELSE UNCHANGED key
IsDebounced == debounced > now
End(s) ==
  LET a == session[s].account IN
  /\ session[s].state = "open"
  /\ session' = [session EXCEPT ![s].state = "ended"]
  /\ Enqueue(a)
  /\ refused' = refused \cup (IF key[a].status = "PROCESSING" /\ attempts[a] <= session[s].since THEN {s} ELSE {})
  /\ IF IsDebounced THEN UNCHANGED <<debounced, task>>
     ELSE /\ debounced' = now + Debounce
          /\ \E k \in Delayed : task[k].state = "idle" /\
               Set(k, [Idle EXCEPT !.state = "waiting", !.due = now + Countdown])
  /\ UNCHANGED <<lock, attempts, wiped, late, now>>

StartByHand(k, ids) ==
  /\ k \in Manual /\ task[k].state = "idle" /\ Cardinality(Busy) < Workers
  /\ Set(k, [Idle EXCEPT !.state = "run", !.ids = ids])
  /\ UNCHANGED <<session, key, lock, debounced, attempts, refused, wiped, late, now>>

(* change_secret_accounts_to_assets_task(trigger='delay'): each QUEUED key *)
(* it finds becomes READY.                                                 *)
StartDelayed(k) ==
  /\ task[k].state = "waiting" /\ now >= task[k].due /\ Cardinality(Busy) < Workers
  /\ Set(k, [task[k] EXCEPT !.state = "scan"])
  /\ UNCHANGED <<session, key, lock, debounced, attempts, refused, wiped, late, now>>
SeeQueued(k, a) ==
  /\ task[k].state = "scan" /\ task[k].cur = None /\ a \notin task[k].ids
  /\ key[a].status = "QUEUED"
  /\ Set(k, [task[k] EXCEPT !.cur = a, !.phase = "saw"])
  /\ UNCHANGED <<session, key, lock, debounced, attempts, refused, wiped, late, now>>
SetReady(k) ==
  LET a == task[k].cur IN
  /\ task[k].phase = "saw"
  /\ key' = [key EXCEPT ![a] = Key("READY", None, Forever)]
  /\ Set(k, [task[k] EXCEPT !.ids = @ \cup {a}, !.cur = None, !.phase = "none"])
  /\ UNCHANGED <<session, lock, debounced, attempts, refused, wiped, late, now>>
(* iter_keys gives every key that was there when it began. *)
NothingQueued(k) == \A a \in Accounts \ task[k].ids : key[a].status # "QUEUED"
ScanEnds(k) ==
  /\ task[k].state = "scan" /\ task[k].cur = None /\ NothingQueued(k)
  /\ Set(k, [task[k] EXCEPT !.state = "run"])
  /\ UNCHANGED <<session, key, lock, debounced, attempts, refused, wiped, late, now>>

----------------------------------------------------------------------------
(* host_callback: the lock, then the key; a refusal goes on to             *)
(* on_inventory_host_error, which clears the key like every other end.     *)
Take(k, a) ==
  /\ task[k].state = "run" /\ task[k].cur = None /\ a \in task[k].ids
  /\ IF lock[a] = None
     THEN /\ lock' = [lock EXCEPT ![a] = k]
          /\ key' = [key EXCEPT ![a] = Key("PROCESSING", k, Forever)]
          /\ Set(k, [task[k] EXCEPT !.cur = a, !.phase = "held"])
     ELSE /\ Set(k, [task[k] EXCEPT !.cur = a, !.phase = "refused"])
          /\ UNCHANGED <<lock, key>>
  /\ UNCHANGED <<session, debounced, attempts, refused, wiped, late, now>>

(* The preparation fails with the lock taken and the key as it was, or the *)
(* account is gone or not eligible and its lock is not asked for.  The key *)
(* is cleared at once, and once more by on_inventory_host_error or         *)
(* get_runners.                                                            *)
FailToPrepare(k, a) ==
  /\ task[k].state = "run" /\ task[k].cur = None /\ a \in task[k].ids
  /\ lock' \in {lock} \cup (IF lock[a] = None THEN {[lock EXCEPT ![a] = k]} ELSE {})
  /\ Set(k, [task[k] EXCEPT !.cur = a, !.phase = "failed"])
  /\ UNCHANGED <<session, key, debounced, attempts, refused, wiped, late, now>>

Change(k) ==
  /\ task[k].phase = "held"
  /\ attempts' = [attempts EXCEPT ![task[k].cur] = @ + 1]
  /\ Set(k, [task[k] EXCEPT !.phase = "changed"])
  /\ UNCHANGED <<session, key, lock, debounced, refused, wiped, late, now>>

(* clear_account_queue_status looks at the key, then deletes it, then      *)
(* releases the lock.                                                      *)
Release(k) == [a \in Accounts |-> IF lock[a] = k THEN None ELSE lock[a]]
NotOfAnother(k, a) == key[a] = NoKey \/ key[a].owner \in {None, k}
LookAtKey(k) ==
  /\ task[k].phase \in {"changed", "failed", "refused"}
  /\ Set(k, [task[k] EXCEPT !.phase =
       IF task[k].phase = "failed"
       THEN IF NotOfAnother(k, task[k].cur) THEN "clear_first" ELSE "keep_first"
       ELSE IF NotOfAnother(k, task[k].cur) THEN "clear" ELSE "keep"])
  /\ UNCHANGED <<session, key, lock, debounced, attempts, refused, wiped, late, now>>
ClearKey(k) ==
  LET a == task[k].cur IN
  /\ task[k].phase \in {"clear_first", "keep_first", "clear", "keep"}
  /\ IF task[k].phase \in {"keep_first", "keep"} THEN UNCHANGED <<key, wiped>>
     ELSE /\ key' = [key EXCEPT ![a] = NoKey]
          /\ wiped' = wiped \cup
               (IF key[a] # NoKey /\ key[a].owner # k THEN {s \in EndedOn(a) : ~Followed(s)} ELSE {})
  /\ lock' = Release(k)
  /\ Set(k, IF task[k].phase \in {"clear_first", "keep_first"}
            THEN [task[k] EXCEPT !.phase = "refused"]
            ELSE [task[k] EXCEPT !.ids = @ \ {a}, !.cur = None, !.phase = "none"])
  /\ UNCHANGED <<session, debounced, attempts, refused, late, now>>
Finish(k) ==
  /\ task[k].state = "run" /\ task[k].cur = None /\ task[k].ids = {}
  /\ Set(k, [Idle EXCEPT !.state = "done"])
  /\ UNCHANGED <<session, key, lock, debounced, attempts, refused, wiped, late, now>>

(* Keys expire, also while their task is due and waits for a worker that   *)
(* is busy with long executions, or has begun and is not yet at the key.   *)
Expired(a) == key[a] # NoKey /\ key[a].until <= now + 1
Overdue(k) == task[k].state \in {"waiting", "scan"} /\ now + 1 >= task[k].due + (QueueTTL - Countdown)
Tick ==
  /\ now < MaxTime
  /\ now' = now + 1
  /\ key' = [a \in Accounts |-> IF Expired(a) THEN NoKey ELSE key[a]]
  /\ late' = late \cup
       (IF \E k \in Delayed : Overdue(k)
        THEN {s \in Sessions : ~Followed(s) /\ \E a \in Accounts : Expired(a) /\ s \in EndedOn(a)}
        ELSE {})
  /\ UNCHANGED <<session, lock, debounced, task, attempts, refused, wiped>>

Init ==
  /\ session = [s \in Sessions |-> New] /\ key = [a \in Accounts |-> NoKey]
  /\ lock = [a \in Accounts |-> None] /\ debounced = 0
  /\ task = [k \in Tasks |-> Idle] /\ attempts = [a \in Accounts |-> 0]
  /\ refused = {} /\ wiped = {} /\ late = {} /\ now = 0

Work(k) ==
  \/ StartDelayed(k) \/ SetReady(k) \/ ScanEnds(k) \/ Change(k) \/ LookAtKey(k) \/ ClearKey(k) \/ Finish(k)
  \/ \E a \in Accounts : SeeQueued(k, a) \/ Take(k, a) \/ FailToPrepare(k, a)
Next ==
  \/ \E s \in Sessions, a \in Accounts : Open(s, a)
  \/ \E s \in Sessions : End(s)
  \/ \E k \in Manual, ids \in SUBSET Accounts : StartByHand(k, ids)
  \/ \E k \in Tasks : Work(k)
  \/ Tick

Spec == Init /\ [][Next]_vars
(* Workers run and time goes on. *)
Fairness == WF_vars(Tick) /\ \A k \in Tasks : WF_vars(Work(k))
FairSpec == Spec /\ Fairness

----------------------------------------------------------------------------
(* Something will still change the secret a session has known, or try to. *)
Pending(s) ==
  LET a == session[s].account IN
  \/ key[a].status = "QUEUED" /\ \E k \in Delayed : task[k].state \in {"waiting", "scan"}
  \/ \E k \in Tasks :
       \/ task[k].phase = "saw" /\ task[k].cur = a
       \/ a \in task[k].ids /\ (task[k].phase \notin {"changed", "clear", "keep"} \/ lock[a] # k)

(* Every end of a session that asks for a change is followed by one, with  *)
(* the debounce, the delay, the expiry of the key and the changes started  *)
(* by hand in every order, but for three cases: the key of a change that   *)
(* had already reached the host was still there (refused); a change        *)
(* cleared a key it had not set, because it did not get the lock or could  *)
(* not be prepared (wiped); or the key expired while its task was overdue, *)
(* waiting for a worker longer than the key outlives the delay (late).     *)
NoneForgotten ==
  \A s \in Sessions :
    session[s].state = "ended" => Followed(s) \/ Pending(s) \/ s \in refused \cup wiped \cup late

(* And it comes while the workers run. *)
EndIsFollowed ==
  \A s \in Sessions :
    (session[s].state = "ended" /\ now + Countdown <= MaxTime)
      ~> (Followed(s) \/ s \in refused \cup wiped \cup late)
============================================================================
