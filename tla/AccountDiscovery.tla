-------------------------- MODULE AccountDiscovery --------------------------
(***************************************************************************)
(* The discovery of the accounts of one asset: an execution scans the      *)
(* host, compares what it saw with the accounts and the gathered rows, and *)
(* reports what differs as risks; users handle the risks meanwhile, hosts  *)
(* and accounts change, and another execution may do the same.  Risks      *)
(* refer to gathered rows by their key, and go with them.                  *)
(***************************************************************************)
EXTENDS Naturals, FiniteSets

CONSTANTS User,        \* user names on the host
          Run,         \* executions
          Request,     \* requests of users
          None,
          Sync,        \* is_sync_account
          AtOnce,      \* bound on the executions at work at a time
          MaxChanges   \* bound on the changes of the host and of the accounts

VARIABLES remote,    \* users the host has
          accounts,  \* users that have an Account row
          row,       \* GatheredAccount rows
          risk,      \* AccountRisk rows
          run,       \* the executions and what they have read
          request,   \* the requests and what they have read
          calm,      \* the execution nothing has interfered with since it began
          changes

vars == <<remote, accounts, row, risk, run, request, calm, changes>>

\* Risks of a user: nobody manages the account, the host has lost it.
Kind == {"new_found", "account_deleted"}
Status == {"pending", "confirmed", "ignored"}

\* The key of a row is the execution that made it.
Rows == [id : Run, remote : BOOLEAN, present : BOOLEAN, status : Status]
Risks == [id : Run, status : Status, row : Run \cup {None}, account : BOOLEAN]
DiscoveryAssumption == /\ Sync \in BOOLEAN /\ {AtOnce, MaxChanges} \subseteq Nat
                       /\ None \notin Run \cup Rows \cup Risks

RowTable == [User -> Rows \cup {None}]
RiskTable == [Kind -> [User -> Risks \cup {None}]]
Actions == {"ignore", "reopen", "close", "add_account", "delete_account"}
Steps == {"new", "scanned", "read", "loaded", "lost", "added", "known", "seen", "absent",
          "present", "sync", "synced", "flush", "done", "failed"}

TypeOK ==
    /\ remote \subseteq User /\ accounts \subseteq User
    /\ row \in RowTable /\ risk \in RiskTable
    /\ run \in [Run -> [pc : Steps, seen : SUBSET User, accounts : SUBSET User,
                        row : RowTable, risk : RiskTable]]
    /\ request \in [Request ->
         [pc : {"new", "read", "done"}, user : User \cup {None}, kind : Kind, act : Actions,
          copy : Risks \cup {None}]]
    /\ calm \in Run \cup {None}
    /\ changes \in 0..MaxChanges

NoRows == [u \in User |-> None]
NoRisks == [k \in Kind |-> [u \in User |-> None]]

Init ==
    /\ remote \in SUBSET User /\ accounts \in SUBSET User
    /\ row = NoRows /\ risk = NoRisks
    /\ run = [g \in Run |-> [pc |-> "new", seen |-> {}, accounts |-> {},
                             row |-> NoRows, risk |-> NoRisks]]
    /\ request = [h \in Request |->
         [pc |-> "new", user |-> None, kind |-> "new_found", act |-> "close", copy |-> None]]
    /\ calm = None
    /\ changes = 0

-----------------------------------------------------------------------------
(* The host and the accounts change. *)

Lone == calm' = None

\* What goes with a deleted account, and with deleted rows of these users.
Without(table, users, rows) ==
    [k \in Kind |-> [u \in User |->
        IF /\ u \in users /\ table[k][u] # None
           /\ (table[k][u].account \/ (rows /\ table[k][u].row # None))
          THEN None ELSE table[k][u]]]

Change(u) ==
    /\ changes < MaxChanges
    /\ changes' = changes + 1
    /\ \/ /\ remote' = IF u \in remote THEN remote \ {u} ELSE remote \cup {u}
          /\ UNCHANGED <<accounts, risk>>
       \/ /\ accounts' = IF u \in accounts THEN accounts \ {u} ELSE accounts \cup {u}
          /\ risk' = IF u \in accounts THEN Without(risk, {u}, FALSE) ELSE risk
          /\ UNCHANGED remote
    /\ Lone
    /\ UNCHANGED <<row, run, request>>

-----------------------------------------------------------------------------
(* An execution.  Each statement of its database is a step.                *)

Busy == {g \in Run : run[g].pc \notin {"new", "done", "failed"}}

\* It begins, and is alone if nobody else is at work.  (The host has users that are never
\* touched besides; an answer without any is an error of the host.)
Scan(g) ==
    /\ run[g].pc = "new" /\ Cardinality(Busy) < AtOnce
    /\ run' = [run EXCEPT ![g].pc = "scanned", ![g].seen = remote]
    /\ calm' = IF Busy # {} \/ (\E h \in Request : request[h].pc = "read")
                 THEN None ELSE g
    /\ UNCHANGED <<remote, accounts, row, risk, request, changes>>

\* prefetch_origin_account_usernames.
Prefetch(g) ==
    /\ run[g].pc = "scanned"
    /\ run' = [run EXCEPT ![g].pc = "read", ![g].accounts = accounts, ![g].row = row]
    /\ UNCHANGED <<remote, accounts, row, risk, request, calm, changes>>

\* AnalyseAccountRisk.load_risks.
LoadRisks(g) ==
    /\ run[g].pc = "read"
    /\ run' = [run EXCEPT ![g].pc = "loaded", ![g].risk = risk]
    /\ UNCHANGED <<remote, accounts, row, risk, request, calm, changes>>

Known(g) == {u \in User : run[g].row[u] # None}

Go(g, pc) == run' = [run EXCEPT ![g].pc = pc]

\* bulk_create with ignore_conflicts: a row that somebody else has made stays.
CreateRows(g) ==
    /\ run[g].pc = "loaded"
    /\ row' = [u \in User |->
         IF u \in run[g].seen \ Known(g) /\ row[u] = None
           THEN [id |-> g, remote |-> TRUE, present |-> FALSE, status |-> "pending"]
           ELSE row[u]]
    /\ Go(g, "lost")
    /\ UNCHANGED <<remote, accounts, risk, request, calm, changes>>

\* Mutant: an ignored row is changed as any other.
OfAnyStatus(users) == {u \in users : row[u] # None}

\* The queryset of update_gather_accounts_status, and what it updates in the rows of users.
NotIgnored(users) == {u \in users : row[u] # None /\ row[u].status # "ignored"}

Marked(users, status) ==
    [u \in User |-> IF u \in NotIgnored(users) THEN [row[u] EXCEPT !.status = status] ELSE row[u]]
Present(users, flag) ==
    [u \in User |-> IF u \in NotIgnored(users) THEN [row[u] EXCEPT !.present = flag] ELSE row[u]]
Remote(users, flag) ==
    [u \in User |-> IF u \in NotIgnored(users) THEN [row[u] EXCEPT !.remote = flag] ELSE row[u]]

\* Its statements, one after the other.
UpdateStatus(g) ==
    LET me == run[g]
        lost == Known(g) \ me.seen
    IN  /\ \/ /\ me.pc = "lost" /\ Go(g, "added")
              /\ row' = [u \in User |-> IF u \in NotIgnored(lost)
                           THEN [row[u] EXCEPT !.status = "pending", !.remote = FALSE]
                           ELSE row[u]]
           \/ me.pc = "added" /\ Go(g, "known") /\ row' = Marked(Known(g) \ me.accounts, "pending")
           \/ me.pc = "known" /\ Go(g, "seen") /\ row' = Marked(me.accounts, "confirmed")
           \/ me.pc = "seen" /\ Go(g, "absent") /\ row' = Remote(me.seen, TRUE)
           \/ me.pc = "absent" /\ Go(g, "present") /\ row' = Present(User \ me.accounts, FALSE)
           \/ /\ me.pc = "present" /\ Go(g, IF Sync THEN "sync" ELSE "flush")
              /\ row' = Present(me.accounts, TRUE)
        /\ UNCHANGED <<remote, accounts, risk, request, calm, changes>>

\* sync_accounts: every gathered row without an account gets one, the ignored ones too
\* (its statements as one), and the rows of the accounts that were read are present.
SyncAccounts(g) ==
    /\ \/ /\ run[g].pc = "sync" /\ Go(g, "synced")
          /\ LET new == {u \in User : row[u] # None /\ u \notin accounts} IN
               /\ accounts' = accounts \cup new
               /\ row' = [u \in User |-> IF u \in new THEN [row[u] EXCEPT !.status = "confirmed"]
                                                      ELSE row[u]]
       \/ /\ run[g].pc = "synced" /\ Go(g, "flush")
          /\ row' = [u \in User |-> IF u \in run[g].accounts /\ row[u] # None
                                      THEN [row[u] EXCEPT !.present = TRUE] ELSE row[u]]
          /\ UNCHANGED accounts
    /\ UNCHANGED <<remote, risk, request, calm, changes>>

-----------------------------------------------------------------------------
(* The risks an execution reports, all in one transaction at its end.      *)

\* Mutant: what came back to the host stays reported.
OnlyManaged(g) == [k \in Kind |-> IF k = "account_deleted" THEN {}
                                 ELSE IF Sync THEN run[g].seen ELSE run[g].seen \cap run[g].accounts]

\* resolve_risk: what is no risk any more.
Resolved(g) == [k \in Kind |-> IF k = "account_deleted" \/ Sync THEN run[g].seen
                              ELSE run[g].seen \cap run[g].accounts]

\* record_risk: what is one.
Recorded(g) == [k \in Kind |-> IF k = "account_deleted" THEN Known(g) \ run[g].seen
                              ELSE IF Sync THEN {} ELSE run[g].seen \ run[g].accounts]

\* The gathered row a risk is given: the one that was read, else the one that was made.
RefOf(g, k, u) ==
    IF k = "account_deleted" THEN None ELSE IF u \in Known(g) THEN run[g].row[u].id ELSE g

HasRow(u, ref) == ref = None \/ (row[u] # None /\ row[u].id = ref)

\* The risks to create, and the ones to update with what they become.
Missing(g, k) == {u \in Recorded(g)[k] : run[g].risk[k][u] = None}
Updated(g, k, u) ==
    LET old == run[g].risk[k][u]
        ref == RefOf(g, k, u)
    IN  [old EXCEPT !.status = "pending", !.row = IF ref = None THEN @ ELSE ref]
Outdated(g, k) ==
    {u \in Recorded(g)[k] \ Missing(g, k) : Updated(g, k, u) # run[g].risk[k][u]}

\* A statement about a risk that was read finds it only if it has its key still.
SameRisk(g, k, u) ==
    run[g].risk[k][u] # None /\ risk[k][u] # None /\ risk[k][u].id = run[g].risk[k][u].id

\* Creations whose reference does not exist.
Broken(g) ==
    {c \in Kind \X User : LET k == c[1]
                             u == c[2]
                         IN  /\ u \in Missing(g, k) /\ risk[k][u] = None
                             /\ ~ HasRow(u, RefOf(g, k, u))}

Flushed(g) ==
    [k \in Kind |-> [u \in User |->
        CASE u \in Resolved(g)[k] /\ SameRisk(g, k, u) -> None
          [] u \in Missing(g, k) /\ risk[k][u] = None /\ <<k, u>> \notin Broken(g) ->
               [id |-> g, status |-> "pending", row |-> RefOf(g, k, u), account |-> FALSE]
          [] u \in Outdated(g, k) /\ SameRisk(g, k, u) -> Updated(g, k, u)
          [] OTHER -> risk[k][u]]]

UpdateBroken(g) ==
    \E k \in Kind : \E u \in Outdated(g, k) :
        SameRisk(g, k, u) /\ ~ HasRow(u, Updated(g, k, u).row)

\* A creation with a broken reference is left out (INSERT IGNORE of MySQL) or fails the
\* commit and with it the execution (PostgreSQL); an update fails on both.
Flush(g) ==
    /\ run[g].pc = "flush"
    /\ \/ ~ UpdateBroken(g) /\ risk' = Flushed(g) /\ Go(g, "done")
       \/ (UpdateBroken(g) \/ Broken(g) # {}) /\ Go(g, "failed") /\ UNCHANGED risk
    /\ UNCHANGED <<remote, accounts, row, request, calm, changes>>

-----------------------------------------------------------------------------
(* A request that handles a risk: RiskHandler.handle, in one transaction.  *)

\* What the handler of the action does, before the risk is read.
Effect(act, u) ==
    [accounts |-> IF act = "add_account" THEN accounts \cup {u}
                  ELSE IF act = "delete_account" THEN accounts \ {u} ELSE accounts,
     row |-> [row EXCEPT ![u] =
                CASE @ = None \/ act \in {"reopen", "close"} -> @
                  [] @ # None /\ act = "ignore" -> [@ EXCEPT !.status = "ignored"]
                  [] @ # None /\ act = "add_account" -> [@ EXCEPT !.status = "confirmed", !.present = TRUE]
                  [] @ # None /\ act = "delete_account" -> None],
     risk |-> IF act = "delete_account" THEN Without(risk, {u}, TRUE) ELSE risk]

\* get_risk.
Read(h, k, u, act) ==
    /\ request[h].pc = "new"
    /\ risk[k][u] # None
    /\ request' = [request EXCEPT ![h] =
         [pc |-> "read", user |-> u, kind |-> IF act = "add_account" THEN "new_found" ELSE k, act |-> act,
          copy |-> Effect(act, u).risk[IF act = "add_account" THEN "new_found" ELSE k][u]]]
    /\ Lone
    /\ UNCHANGED <<remote, accounts, row, risk, run, changes>>

StatusOf(act) == IF act = "ignore" THEN "ignored" ELSE IF act = "reopen" THEN "pending" ELSE "confirmed"

\* update_risk_if_need saves the whole object: an update by its key or, if it is gone, an
\* insert, which fails when another risk has its place or its row is gone.  Without a risk
\* to save, what the action did stays, also where adding an account then fails.
Finish(h) ==
    LET me == request[h]
        done == Effect(me.act, me.user)
        there == done.risk[me.kind][me.user]
        saved == [me.copy EXCEPT !.status = StatusOf(me.act),
                                 !.account = @ \/ me.act = "add_account"]
        fits == /\ there = None \/ there.id = me.copy.id
                /\ me.copy.row = None \/ (done.row[me.user] # None /\ done.row[me.user].id = me.copy.row)
                /\ saved.account => me.user \in done.accounts
    IN  /\ me.pc = "read"
        /\ request' = [request EXCEPT ![h].pc = "done"]
        /\ IF me.copy # None /\ ~ fits
             THEN UNCHANGED <<accounts, row, risk>>
             ELSE /\ accounts' = done.accounts
                  /\ row' = done.row
                  /\ risk' = IF me.copy = None THEN done.risk
                             ELSE [done.risk EXCEPT ![me.kind][me.user] = saved]
        /\ Lone
        /\ UNCHANGED <<remote, run, changes>>

Gather(g) ==
    \/ Scan(g) \/ Prefetch(g) \/ LoadRisks(g) \/ CreateRows(g) \/ UpdateStatus(g)
    \/ SyncAccounts(g) \/ Flush(g)

Next ==
    \/ \E g \in Run : Gather(g)
    \/ \E u \in User : Change(u)
    \/ \E h \in Request :
         \/ \E k \in Kind, u \in User, act \in Actions : Read(h, k, u, act)
         \/ Finish(h)

Spec == Init /\ [][Next]_vars

-----------------------------------------------------------------------------
Quiet(g) == run[g].pc = "done" /\ calm = g

\* A row that is not ignored, nor was when the execution read it.
Judged(g, u) ==
    row[u].status # "ignored" /\ (run[g].row[u] # None => run[g].row[u].status # "ignored")

\* An execution that nothing interfered with leaves rows and risks as the host and the
\* accounts are: what nobody manages and what is gone is a pending risk, what is managed
\* or came back is none, whatever earlier executions and requests left behind.
QuietRunRepairs ==
    \A g \in Run : Quiet(g) =>
        /\ \A u \in remote :
             /\ row[u] # None /\ risk["account_deleted"][u] = None
             /\ u \in accounts => risk["new_found"][u] = None
             /\ u \notin accounts => risk["new_found"][u] # None
                                    /\ risk["new_found"][u].status = "pending"
             /\ Judged(g, u) =>
                  /\ row[u].remote
                  /\ ~ Sync => (row[u].present <=> u \in accounts)
                               /\ (row[u].status = "confirmed" <=> u \in accounts)
        /\ \A u \in User \ remote : row[u] # None =>
             /\ risk["account_deleted"][u] # None /\ risk["account_deleted"][u].status = "pending"
             /\ Judged(g, u) => ~ row[u].remote

\* Executions leave a row as it is from the moment a user ignores it, also when that
\* happens between two of their statements.  (Synchronising accounts does not care.)
IgnoredKept ==
    ~ Sync => \A u \in User : row[u] # None /\ row[u].status = "ignored" =>
        row'[u] = row[u] \/ \E h \in Request : request[h].pc = "read" /\ request[h].user = u
IgnoredStays == [][IgnoredKept]_vars
=============================================================================
