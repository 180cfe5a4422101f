---------------------------- MODULE SecretCustody ----------------------------
(***************************************************************************)
(* What rotation promises about the secret of a remote account, whatever   *)
(* workers, crashes and recoveries do: a secret is written down before it  *)
(* is applied, nothing written down is lost, and only the holder of an     *)
(* account applies one.  SecretRotation implements this.                   *)
(***************************************************************************)
EXTENDS Naturals, FiniteSets

CONSTANTS
    Account,     \* the accounts
    Holder,      \* who may hold an account
    Secret,      \* values a secret can take
    InitSecret,  \* the secret of every account at the start
    Nobody       \* the holder of a free account

VARIABLES
    known,   \* known[a]: the secrets written down for account a
    remote,  \* remote[a]: the secret the remote system accepts
    holder   \* holder[a]: who holds the account

cvars == <<known, remote, holder>>

CustodyInit ==
    /\ known = [a \in Account |-> {InitSecret}]
    /\ remote = [a \in Account |-> InitSecret]
    /\ holder = [a \in Account |-> Nobody]

Take(a, h) ==
    /\ holder[a] = Nobody
    /\ holder' = [holder EXCEPT ![a] = h]
    /\ UNCHANGED <<known, remote>>

\* Some accounts are given up at once.
Release(A) ==
    /\ holder' = [a \in Account |-> IF a \in A THEN Nobody ELSE holder[a]]
    /\ UNCHANGED <<known, remote>>

\* The holder writes down a candidate, and may give the account up at once.
WriteDown(a, s) ==
    /\ holder[a] # Nobody
    /\ known' = [known EXCEPT ![a] = @ \cup {s}]
    /\ holder' \in {holder, [holder EXCEPT ![a] = Nobody]}
    /\ UNCHANGED remote

Apply(a, s) ==
    /\ holder[a] # Nobody
    /\ s \in known[a]
    /\ remote' = [remote EXCEPT ![a] = s]
    /\ UNCHANGED <<known, holder>>

CustodyNext ==
    \/ \E a \in Account : \/ \E h \in Holder : Take(a, h)
                          \/ \E s \in Secret : WriteDown(a, s) \/ Apply(a, s)
    \/ \E A \in SUBSET Account : Release(A)

CustodySpec == CustodyInit /\ [][CustodyNext]_cvars

-----------------------------------------------------------------------------
\* The secret of the remote account is always one that is written down.
RemoteKnown == \A a \in Account : remote[a] \in known[a]

=============================================================================
