----------------------------- MODULE AuthGuard -----------------------------
(***************************************************************************)
(* authenticate() asks one backend after the other; a backend may create   *)
(* the user it knows with UserModel.objects.get_or_create.  While          *)
(* ONLY_ALLOW_EXIST_USER_AUTH is on, the decorator _authenticate_context   *)
(* replaces that method of the model, which all threads of the process     *)
(* share, and puts the original back when its own call ends.               *)
(***************************************************************************)
EXTENDS Naturals, FiniteSets

CONSTANTS
  Threads,    \* threads of a web worker
  Backends    \* number of backends, asked in the order 1, 2, ...

BackendsAssumption == Backends \in Nat \ {0}

VARIABLES
  patched,     \* whether get_or_create is the custom one
  mark,        \* threads with in_authenticate in their local storage
  at,          \* backend a thread asks; 0 outside authenticate
  disturbed,   \* threads that had another one leave while they were inside
  created      \* threads that have created a user inside authenticate
vars == <<patched, mark, at, disturbed, created>>

Inside == {t \in Threads : at[t] > 0}
Over == Backends + 1

(* One type invariant; the mark follows the thread. *)
TypeOK ==
  /\ patched \in BOOLEAN
  /\ {disturbed, created} \subseteq SUBSET Threads
  /\ at \in [Threads -> 0..Over]
  /\ mark = Inside

----------------------------------------------------------------------------
KeepMethod == UNCHANGED patched
ReplaceMethod == patched' = TRUE
Enter(t) ==
  /\ at[t] = 0
  /\ mark' = mark \cup {t} /\ ReplaceMethod
  /\ at' = [at EXCEPT ![t] = 1] /\ disturbed' = disturbed \ {t}
  /\ UNCHANGED created

(* The custom method looks at the mark of the thread that calls it. *)
RefusesEverybody(t) == patched
Refuses(t) == patched /\ t \in mark

(* The backend does not take these credentials, knows nobody, raises, or   *)
(* knows a user whose source is another backend: the next one is asked.    *)
AskInVain(t) ==
  /\ at[t] \in 1..Backends
  /\ at' = [at EXCEPT ![t] = @ + 1]
  /\ UNCHANGED <<patched, mark, disturbed, created>>

(* The backend wants a user that does not exist: refused, or made anew. *)
AskUnknown(t) ==
  /\ at[t] \in 1..Backends
  /\ IF Refuses(t)
     THEN AskInVain(t)
     ELSE /\ created' = created \cup {t}
          /\ at' = [at EXCEPT ![t] = Over]
          /\ UNCHANGED <<patched, mark, disturbed>>

(* A known user, valid or not, or PermissionDenied ends the search. *)
Answer(t) ==
  /\ at[t] \in 1..Backends
  /\ at' = [at EXCEPT ![t] = Over]
  /\ UNCHANGED <<patched, mark, disturbed, created>>

(* The finally of the decorator. *)
Unmark(t) == mark' = mark \ {t}
Leave(t) ==
  /\ at[t] = Over
  /\ patched' = FALSE /\ Unmark(t)
  /\ at' = [at EXCEPT ![t] = 0]
  /\ disturbed' = disturbed \cup (Inside \ {t})
  /\ UNCHANGED created

Init ==
  /\ patched = FALSE /\ mark = {} /\ disturbed = {} /\ created = {}
  /\ at = [t \in Threads |-> 0]

Next == \E t \in Threads :
  Enter(t) \/ AskUnknown(t) \/ AskInVain(t) \/ Answer(t) \/ Leave(t)

Spec == Init /\ [][Next]_vars

----------------------------------------------------------------------------
(* What holds: a backend creates a user only when another thread has left  *)
(* authenticate since this one entered it.                                 *)
AloneIsGuarded ==
  [][\A t \in Inside : t \in created' \ created => t \in disturbed]_vars

(* The replaced method never leaks: once the last thread has left, the     *)
(* model has its own method, and a thread outside is never refused.        *)
NoLeak == (Inside = {} => ~patched) /\ (\A t \in Threads \ Inside : ~Refuses(t))
============================================================================
