--------------------------- MODULE AppletAccounts ---------------------------
(***************************************************************************)
(* The account of an applet host a user's connection runs with.  A         *)
(* connection takes the user's private account when the concurrency the    *)
(* host and the applet allow permits it, or else a public one nobody uses; *)
(* who uses what is told by keys (account, applet) in the cache.  A key is *)
(* set after the choice, lives for a day, is not renewed, and is deleted   *)
(* by the component when the connection ends.                              *)
(***************************************************************************)
EXTENDS Naturals, FiniteSets

CONSTANTS Conns,     \* connections
          Users,
          UserOf,    \* the user of a connection
          Applets,
          AppletOf,  \* the applet of a connection
          Public,    \* public accounts of the host
          Private,   \* private accounts, one of a user
          PrivateOf, \* the private account of a user, or None
          HostConcurrent,   \* RDS_fSingleSessionPerUser is 0
          AppConcurrent,    \* applets that are concurrent, or of type web
          None

AppletAssumption ==
    /\ UserOf \in [Conns -> Users] /\ AppletOf \in [Conns -> Applets]
    /\ PrivateOf \in [Users -> Private \cup {None}]
    /\ \A u, v \in Users : PrivateOf[u] = PrivateOf[v] /\ u # v => PrivateOf[u] = None
    /\ None \notin Private \cup Public /\ Private \cap Public = {}
    /\ AppConcurrent \subseteq Applets
    /\ HostConcurrent \in BOOLEAN

Accounts == Public \cup Private

VARIABLES keys,   \* pairs <<account, applet>> that have a key
          pc,     \* where each connection is
          chosen, \* the account it chose
          prefer, \* the public account a user is given again
          spoilt  \* accounts in use that a choice could not see to be: history

vars == <<keys, pc, chosen, prefer, spoilt>>

TypeOK ==
    /\ keys \subseteq Accounts \X Applets
    /\ pc \in [Conns -> {"new", "take", "using", "refused", "over"}]
    /\ chosen \in [Conns -> Accounts \cup {None}]
    /\ prefer \in [Users -> Public \cup {None}]
    /\ spoilt \subseteq Accounts

Init ==
    /\ keys = {}
    /\ pc = [c \in Conns |-> "new"]
    /\ chosen = [c \in Conns |-> None]
    /\ prefer = [u \in Users |-> None]
    /\ spoilt = {}

KeyOf(c) == <<chosen[c], AppletOf[c]>>

\* The keys two choices depend on: where the host and the applet are concurrent, nobody
\* looks for the key of a private account.
AllConcurrent(applet) == HostConcurrent /\ applet \in AppConcurrent
NeedsKey(c) == chosen[c] \in Public \/ ~ AllConcurrent(AppletOf[c])

\* The account is chosen and its key is not set: whoever chooses now does not know.
TakenUnseen(account, applet) ==
    \E d \in Conns : /\ pc[d] = "take" /\ chosen[d] = account /\ NeedsKey(d)
                     /\ account \in Public \/ ~ HostConcurrent \/ AppletOf[d] = applet

Choose(c, account) ==
    /\ chosen' = [chosen EXCEPT ![c] = account]
    /\ pc' = [pc EXCEPT ![c] = "take"]
    /\ spoilt' = IF TakenUnseen(account, AppletOf[c]) THEN spoilt \cup {account} ELSE spoilt

-----------------------------------------------------------------------------
(* try_to_use_private_account. *)

Used == {key[1] : key \in keys}

\* Mutant: only the key of the same applet is looked at.
NoKeyOfApplet(account, applet) ==
    AllConcurrent(applet) \/ <<account, applet>> \notin keys

PrivateIsFree(account, applet) ==
    \/ AllConcurrent(applet)
    \/ ~ HostConcurrent /\ account \notin Used
    \/ /\ HostConcurrent /\ applet \notin AppConcurrent
       /\ <<account, applet>> \notin keys

MayUsePrivate(c) ==
    LET account == PrivateOf[UserOf[c]]
    IN  account # None /\ PrivateIsFree(account, AppletOf[c])

ChoosePrivate(c) ==
    /\ pc[c] = "new" /\ MayUsePrivate(c)
    /\ Choose(c, PrivateOf[UserOf[c]])
    /\ UNCHANGED <<keys, prefer>>

-----------------------------------------------------------------------------
(* select_a_public_account and random_select_prefer_account. *)

FreePublic(c) == Public \ Used

\* Mutant: the preferred account is taken without a look at who uses it.
PreferredAnyway(c) == IF prefer[UserOf[c]] # None THEN {prefer[UserOf[c]]}
                                                  ELSE FreePublic(c)

Candidates(c) == IF prefer[UserOf[c]] \in FreePublic(c)
                   THEN {prefer[UserOf[c]]}
                   ELSE FreePublic(c)

ChoosePublic(c) ==
    /\ pc[c] = "new" /\ ~ MayUsePrivate(c)
    /\ \E account \in Candidates(c) :
         /\ Choose(c, account)
         /\ prefer' = [prefer EXCEPT ![UserOf[c]] = account]
    /\ UNCHANGED keys

Refuse(c) ==
    /\ pc[c] = "new" /\ ~ MayUsePrivate(c) /\ Candidates(c) = {}
    /\ pc' = [pc EXCEPT ![c] = "refused"]
    /\ UNCHANGED <<keys, chosen, prefer, spoilt>>

-----------------------------------------------------------------------------
(* Keys. *)

\* The key of the choice is set.
Take(c) ==
    /\ pc[c] = "take"
    /\ keys' = keys \cup {KeyOf(c)}
    /\ pc' = [pc EXCEPT ![c] = "using"]
    /\ UNCHANGED <<chosen, prefer, spoilt>>

\* Mutant: the keys of the account go, of whatever applet.
AllOfAccount(c) == {key \in keys : key[1] = chosen[c]}

Released(c) == {KeyOf(c)}

\* An account nobody uses any more starts afresh.
End(c) ==
    /\ pc[c] = "using"
    /\ pc' = [pc EXCEPT ![c] = "over"]
    /\ spoilt' = {a \in spoilt : \E d \in Conns \ {c} : pc[d] \in {"take", "using"} /\ chosen[d] = a}

\* The connection ends, and the component releases the key ...
Release(c) ==
    /\ End(c)
    /\ keys' = keys \ Released(c)
    /\ UNCHANGED <<chosen, prefer>>

\* ... or is gone itself, and the key stays until it expires.
Vanish(c) ==
    /\ End(c)
    /\ UNCHANGED <<keys, chosen, prefer>>

\* A day after it was set a key is gone, also while its connection goes on.
KeyExpires(key) ==
    /\ keys' = keys \ {key}
    /\ spoilt' = IF \E c \in Conns : pc[c] = "using" /\ KeyOf(c) = key /\ NeedsKey(c)
                   THEN spoilt \cup {key[1]} ELSE spoilt
    /\ UNCHANGED <<pc, chosen, prefer>>

\* The same connection asks again later.
Again(c) ==
    /\ pc[c] \in {"over", "refused"}
    /\ pc' = [pc EXCEPT ![c] = "new"]
    /\ chosen' = [chosen EXCEPT ![c] = None]
    /\ UNCHANGED <<keys, prefer, spoilt>>

Next ==
    \/ \E c \in Conns :
         \/ ChoosePrivate(c)
         \/ ChoosePublic(c)
         \/ Refuse(c)
         \/ Take(c)
         \/ Release(c)
         \/ Vanish(c)
         \/ Again(c)
    \/ \E key \in keys : KeyExpires(key)

Spec == Init /\ [][Next]_vars

-----------------------------------------------------------------------------
Using(account) == {c \in Conns : pc[c] = "using" /\ chosen[c] = account}

(* A public account is used by one connection at a time, whatever applets  *)
(* are started, whatever the users prefer and in whatever order the keys   *)
(* are released, unless two connections chose it at the same moment or a   *)
(* key has expired under its connection since it was last free.            *)
PublicIsExclusive == \A a \in Public \ spoilt : Cardinality(Using(a)) <= 1

(* On a host that allows one session for a user, a private account is used *)
(* by one connection at a time ("if no applet uses the private account,    *)
(* use it"), with the same exceptions.                                     *)
PrivateIsExclusive ==
    ~ HostConcurrent => \A a \in Private \ spoilt : Cardinality(Using(a)) <= 1

(* The key of a connection that uses a public account, or on such a host a *)
(* private one, is there: no other connection's end releases it, with the  *)
(* same exceptions.                                                        *)
UsedHasKey ==
    \A c \in Conns : (pc[c] = "using" /\ chosen[c] \notin spoilt /\ NeedsKey(c))
                     => KeyOf(c) \in keys
=============================================================================
