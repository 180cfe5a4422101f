-------------------------- MODULE MC_SecretRotation --------------------------
(* Instances of SecretRotation for TLC.                                     *)
EXTENDS SecretRotation, TLC

\* Executions are interchangeable, and so are the secrets but the first, and
\* the accounts.
Symmetry == Permutations(Execution) \cup Permutations(Secret \ {InitSecret})
               \cup Permutations(Account)

\* The operator asks for no verification.
NoRequests == \A i \in Execution, a \in Account : rec[i][a].verified = "no"

\* Interrupted executions are canceled: where RemoteRecoverable is the question,
\* error and canceled are two names of one status.
NoErrors == \A e \in Execution : "error" \notin {exe[e].status, outcome[e]}

\* The status of an account expires before its lock does.
StatusFirst == \A a \in Account : task[a] \in {None, lock[a]}
=============================================================================
