-------------------------- MODULE DistributedLock --------------------------
(***************************************************************************)
(* The lock that processes share through one redis key, with the three     *)
(* ways it is used: plain, reentrant in one thread, and given back only    *)
(* when the transaction around it commits.  Every "with" makes a new lock  *)
(* object; the key holds the id of the object that acquired it, and a      *)
(* thread-local mark of that object lets the same thread enter again.      *)
(***************************************************************************)
EXTENDS Naturals, Sequences

CONSTANTS Thread,
          Object,     \* lock objects, each made for one "with"
          Nobody,
          Reentrant,  \* reentrant=True
          OnCommit,   \* release_on_transaction_commit=True
          Rollbacks,  \* whether transactions may be rolled back
          Deaths      \* whether processes may be killed

LockAssumption ==
    /\ Nobody \notin Object /\ Nobody \notin Thread
    /\ {Reentrant, OnCommit, Rollbacks, Deaths} \subseteq BOOLEAN

VARIABLES owner,  \* the value of the key
          mark,   \* the object a thread remembers
          by,     \* the thread a lock object was made by
          open,   \* the objects of the contexts a thread is in, innermost first
          txn,    \* the transaction of a thread, and whether it has used the lock
          due     \* releases that wait for the commit, in the order of their call

vars == <<owner, mark, by, open, txn, due>>

Kinds == {"me", "brother", "plain"}

TypeOK ==
    /\ owner \in Object \cup {Nobody}
    /\ mark \in [Thread -> Object \cup {Nobody}]
    /\ by \in [Object -> Thread \cup {Nobody}]
    /\ open \in [Thread -> Seq(Object)]
    /\ txn \in [Thread -> {"none", "open", "used", "ended"}]
    /\ due \in [Thread -> Seq([lock : Object, kind : Kinds])]

InTransaction(t) == txn[t] \in {"open", "used"}

Init ==
    /\ owner = Nobody
    /\ mark = [t \in Thread |-> Nobody]
    /\ by = [o \in Object |-> Nobody]
    /\ open = [t \in Thread |-> <<>>]
    /\ txn = [t \in Thread |-> "none"]
    /\ due = [t \in Thread |-> <<>>]

-----------------------------------------------------------------------------
(* Acquiring. *)

\* locked_by_current_thread.
Mine(t) == owner # Nobody /\ mark[t] = owner

\* A thread may be in another context only if the lock is reentrant: a plain lock is used
\* once in a transaction.
MayAsk(t) == txn[t] # "ended" /\ (Reentrant \/ (open[t] = <<>> /\ due[t] = <<>>))

Entered(t, o) ==
    /\ by[o] = Nobody
    /\ by' = [by EXCEPT ![o] = t]
    /\ open' = [open EXCEPT ![t] = <<o>> \o @]
    /\ txn' = [txn EXCEPT ![t] = IF @ = "open" THEN "used" ELSE @]
    /\ UNCHANGED due

Acquire(t, o) ==
    /\ MayAsk(t) /\ ~ (Reentrant /\ Mine(t))
    /\ owner = Nobody
    /\ Entered(t, o)
    /\ owner' = o
    /\ mark' = IF Reentrant THEN [mark EXCEPT ![t] = o] ELSE mark

ReEnter(t, o) ==
    /\ MayAsk(t) /\ Reentrant /\ Mine(t)
    /\ Entered(t, o)
    /\ UNCHANGED <<owner, mark>>

-----------------------------------------------------------------------------
(* Releasing. *)

\* Which release is chosen, when the context is left.
KindOf(t, o) ==
    IF ~ Reentrant \/ ~ Mine(t) THEN "plain" ELSE IF owner = o THEN "me" ELSE "brother"

\* The script of the library deletes the key only if it holds the id of the object.
Freed(o) == owner' = IF owner = o THEN Nobody ELSE owner

\* A release that finds another mark raises.
Refused(t, o, kind) == kind = "me" /\ mark[t] # o

Release(t, o, kind) ==
    IF kind = "brother" \/ Refused(t, o, kind)
      THEN UNCHANGED <<owner, mark>>
      ELSE /\ Freed(o)
           /\ mark' = IF kind = "me" THEN [mark EXCEPT ![t] = Nobody] ELSE mark

\* Mutant: the lock is given back at once, before the commit.
NeverDeferred(t) == FALSE

\* Outside a transaction on_commit calls at once.
Deferred(t) == OnCommit /\ InTransaction(t)

Leave(t) ==
    /\ open[t] # <<>>
    /\ open' = [open EXCEPT ![t] = Tail(@)]
    /\ LET o == Head(open[t])
           kind == KindOf(t, o)
       IN  IF Deferred(t)
             THEN /\ due' = [due EXCEPT ![t] = Append(@, [lock |-> o, kind |-> kind])]
                  /\ UNCHANGED <<owner, mark>>
             ELSE Release(t, o, kind) /\ UNCHANGED due
    /\ UNCHANGED <<by, txn>>

-----------------------------------------------------------------------------
(* Transactions; a context lies inside one or outside all of them. *)

Begin(t) ==
    /\ txn[t] = "none" /\ open[t] = <<>>
    /\ txn' = [txn EXCEPT ![t] = "open"]
    /\ UNCHANGED <<owner, mark, by, open, due>>

Commit(t) ==
    /\ InTransaction(t) /\ open[t] = <<>>
    /\ txn' = [txn EXCEPT ![t] = IF due[t] = <<>> THEN "none" ELSE "ended"]
    /\ UNCHANGED <<owner, mark, by, open, due>>

\* The calls that wait for the commit run after it; one that raises ends the others.
RunDue(t) ==
    /\ txn[t] = "ended"
    /\ LET call == Head(due[t])
           left == IF Refused(t, call.lock, call.kind) THEN <<>> ELSE Tail(due[t])
       IN  /\ Release(t, call.lock, call.kind)
           /\ due' = [due EXCEPT ![t] = left]
           /\ txn' = [txn EXCEPT ![t] = IF left = <<>> THEN "none" ELSE "ended"]
    /\ UNCHANGED <<by, open>>

\* An exception leaves the contexts and then rolls back, and the calls are forgotten.
Rollback(t) ==
    /\ Rollbacks
    /\ InTransaction(t) /\ open[t] = <<>>
    /\ txn' = [txn EXCEPT ![t] = "none"]
    /\ due' = [due EXCEPT ![t] = <<>>]
    /\ UNCHANGED <<owner, mark, by, open>>

\* The process of the thread is killed; the thread of the next one takes its place.
Die(t) ==
    /\ Deaths
    /\ txn[t] # "none" \/ open[t] # <<>>
    /\ open' = [open EXCEPT ![t] = <<>>]
    /\ due' = [due EXCEPT ![t] = <<>>]
    /\ txn' = [txn EXCEPT ![t] = "none"]
    /\ mark' = [mark EXCEPT ![t] = Nobody]
    /\ UNCHANGED <<owner, by>>

\* An object is renewed as long as somebody refers to it.
Alive(o) ==
    \E t \in Thread :
        \/ \E i \in DOMAIN open[t] : open[t][i] = o
        \/ \E i \in DOMAIN due[t] : due[t][i].lock = o

\* Mutant: nothing expires.
NeverExpires == FALSE /\ UNCHANGED vars

Expire ==
    /\ owner # Nobody /\ ~ Alive(owner)
    /\ owner' = Nobody
    /\ UNCHANGED <<mark, by, open, txn, due>>

Next ==
    \/ Expire
    \/ \E t \in Thread :
         \/ \E o \in Object : Acquire(t, o) \/ ReEnter(t, o)
         \/ Leave(t)
         \/ Begin(t)
         \/ Commit(t)
         \/ RunDue(t)
         \/ Rollback(t)
         \/ Die(t)

Spec == Init /\ [][Next]_vars

\* A thread leaves its contexts and ends its transaction, and the key has a time to live.
Ends(t) == Leave(t) \/ Commit(t) \/ RunDue(t)
Fairness == WF_vars(Expire) /\ \A t \in Thread : WF_vars(Ends(t))
FairSpec == Spec /\ Fairness

-----------------------------------------------------------------------------
\* While a thread is in a context, and after it until its transaction has committed when
\* that is asked for, the key is its own: nobody else gets in, whichever object of the
\* thread is left first and whoever dies.  (Not so for a reentrant lock that waits for a
\* commit, once one was rolled back: the thread still believes in the key it has lost.)
Inside(t) == open[t] # <<>> \/ (OnCommit /\ txn[t] = "used")
HeldWhileInside == \A t \in Thread : Inside(t) => owner # Nobody /\ by[owner] = t

\* The lock is free again and again, although threads die and transactions are rolled back.
LockIsFreed == owner # Nobody ~> owner = Nobody
=============================================================================
