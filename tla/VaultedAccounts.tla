-------------------------- MODULE VaultedAccounts --------------------------
(***************************************************************************)
(* The secret of one account when an external vault (OpenBao) keeps it:    *)
(* the column _secret of the row, which holds the secret or the mark that  *)
(* says it is in the vault, and the entry of the vault.  Requests save the *)
(* account in a transaction that also writes the vault, updates of a       *)
(* QuerySet send the same signal outside of one, and the transfer task     *)
(* copies the secret to the vault (sync) or back (restore).  The vault is  *)
(* no part of a transaction and may fail before or after it wrote.         *)
(***************************************************************************)
EXTENDS Naturals

CONSTANTS Secrets,    \* secrets a user may give
          NoSecret,   \* an empty secret
          Mark,       \* VAULT_SAVED_SECRET_MARK
          Absent,     \* the vault has no entry for the account
          Keyless,    \* its entry has no key "secret"
          None,       \* no value
          Editors,    \* requests that save the account
          Updaters,   \* QuerySet.update calls outside of a transaction
          Transfer,   \* the transfer task: DistributedLock lets one run
          Clearing,   \* whether a request may clear the secret
          MaxSaves    \* bound on the saves of requests

ValuesAssumption ==
    /\ NoSecret \notin Secrets
    /\ {Mark, Absent, Keyless, None} \cap (Secrets \cup {NoSecret}) = {}
    /\ Mark # None /\ Absent # Keyless
    /\ Transfer \notin Editors \cup Updaters /\ Editors \cap Updaters = {}
    /\ None \notin Editors \cup Updaters \cup {Transfer}
    /\ MaxSaves \in Nat

VARIABLES row,      \* the committed column _secret
          vault,    \* the entry of the vault
          enabled,  \* settings.VAULT_ENABLED of the running processes
          held,     \* who holds the lock of the row
          draft,    \* the column as the holder of the lock left it so far
          copy,     \* the _secret of the instance each one works with
          pc,       \* where each one is
          loose,    \* a secret in the vault whose save is not committed
          saves,    \* number of saves so far
          \* History: the secret the last committed save was given; requests that save the
          \* secret they loaded; requests with a commit since they loaded; whether one of
          \* these has put its old secret back.
          last, carries, stale, undone

history == <<carries, stale, undone>>
vars == <<row, vault, enabled, held, draft, copy, pc, last, loose, saves, history>>

Values == Secrets \cup {NoSecret}
Actors == Editors \cup Updaters \cup {Transfer}
Columns == Values \cup {Mark}

TypeOK ==
    /\ row \in Columns
    /\ vault \in Values \cup {Absent, Keyless}
    /\ enabled \in BOOLEAN
    /\ held \in Actors \cup {None}
    /\ draft \in Columns \cup {None}
    /\ copy \in [Actors -> Columns \cup {None}]
    /\ pc \in [Actors -> {"idle", "loaded", "save", "mark", "commit",
                          "wrote", "sync", "restore"}]
    /\ last \in Values
    /\ loose \in Values \cup {None}
    /\ saves \in 0..MaxSaves
    /\ carries \subseteq Editors /\ stale \subseteq Editors /\ undone \in BOOLEAN

Init ==
    /\ row \in Secrets
    /\ vault = Absent
    /\ enabled \in BOOLEAN
    /\ held = None
    /\ draft = None
    /\ copy = [a \in Actors |-> None]
    /\ pc = [a \in Actors |-> "idle"]
    /\ last = row
    /\ loose = None
    /\ saves = 0
    /\ carries = {} /\ stale = {} /\ undone = FALSE

Goto(a, label) == pc' = [pc EXCEPT ![a] = label]
Lock(a) == held = None /\ held' = a
Free(a) == held' = IF held = a THEN None ELSE held

(***************************************************************************)
(* What the vault's API does.  create posts the entry; patch is a JSON     *)
(* merge patch, which takes a null for "remove this key", and falls back   *)
(* to create when there is no entry.  (PatchedOnce is a mutant: an entry   *)
(* that exists is kept.)                                                   *)
(***************************************************************************)
PatchedOnce(value) == IF vault = Absent THEN value ELSE vault

Patched(value) ==
    CASE vault = Absent -> value
      [] vault # Absent /\ value = NoSecret -> Keyless
      [] OTHER -> value

\* The secret the vault has, as the getter reads it.
Vaulted == IF vault \in {Absent, Keyless} THEN NoSecret ELSE vault

-----------------------------------------------------------------------------
(* A request.  It loads the account, and saves it in its transaction:      *)
(* the UPDATE takes the lock of the row, the signal writes the vault and   *)
(* the mark, an exception rolls the row back but not the vault.            *)

Load(e) ==
    /\ pc[e] = "idle" /\ saves < MaxSaves
    /\ Goto(e, "loaded")
    /\ copy' = [copy EXCEPT ![e] = row]
    /\ saves' = saves + 1
    /\ stale' = stale \ {e}
    /\ UNCHANGED <<row, vault, enabled, held, draft, last, loose, carries, undone>>

\* What a request may be given: a secret, or nothing when it clears the secret.
Given == Secrets \cup (IF Clearing THEN {NoSecret} ELSE {})

\* The save writes what it was given, or, as it writes every column, what it has loaded.
Save(e) ==
    /\ pc[e] = "loaded" /\ Lock(e)
    /\ \/ /\ \E value \in Given : copy' = [copy EXCEPT ![e] = value] /\ draft' = value
          /\ carries' = carries \ {e}
       \/ /\ draft' = copy[e]
          /\ carries' = carries \cup {e}
          /\ UNCHANGED copy
    /\ Goto(e, IF enabled THEN "save" ELSE "commit")
    /\ UNCHANGED <<row, vault, enabled, last, loose, saves, stale, undone>>

\* secret_has_save_to_vault of the instance.
Marked(a) == copy[a] = Mark

\* vault_client.update of a marked instance sends the metadata only.
SkipMarked(a) ==
    /\ pc[a] = "save" /\ Marked(a)
    /\ Goto(a, IF a \in Editors THEN "commit" ELSE "idle")
    /\ UNCHANGED <<row, vault, enabled, held, draft, copy, last, loose, saves, history>>

WriteVault(e) ==
    /\ pc[e] = "save" /\ ~ Marked(e)
    /\ vault' = Patched(copy[e])
    /\ loose' = copy[e]
    /\ draft' = Mark
    /\ copy' = [copy EXCEPT ![e] = Mark]
    /\ Goto(e, "wrote")
    /\ UNCHANGED <<row, enabled, held, last, saves, history>>

\* The call of the vault raises, whether or not the vault took the value,
\* and the transaction is rolled back.
WriteFails(e) ==
    /\ pc[e] = "save" /\ ~ Marked(e)
    /\ \/ vault' = Patched(copy[e]) /\ loose' = copy[e]
       \/ UNCHANGED <<vault, loose>>
    /\ Free(e) /\ draft' = None
    /\ Goto(e, "idle")
    /\ UNCHANGED <<row, enabled, copy, last, saves, history>>

\* What a commit says about the secret of the user, who gave it or did not.
Told(e, value) ==
    /\ stale' = stale \cup (Editors \ {e})
    /\ IF value = Mark THEN UNCHANGED <<last, undone>>
       ELSE IF e \in carries
       THEN undone' = (IF e \in stale THEN value # last ELSE undone) /\ UNCHANGED last
       ELSE last' = value /\ undone' = FALSE

Commit(e) ==
    /\ pc[e] \in {"commit", "wrote"} /\ held = e
    /\ row' = draft
    /\ Told(e, IF pc[e] = "wrote" THEN loose ELSE draft)
    /\ loose' = IF pc[e] = "wrote" THEN None ELSE loose
    /\ Free(e) /\ draft' = None
    /\ Goto(e, "idle")
    /\ UNCHANGED <<vault, enabled, copy, saves, carries>>

\* The request fails later on, or its process dies.
RollBack(e) ==
    /\ pc[e] \in {"save", "commit", "wrote"} /\ held = e
    /\ Free(e) /\ draft' = None
    /\ Goto(e, "idle")
    /\ UNCHANGED <<row, vault, enabled, copy, last, loose, saves, history>>

Request(e) ==
    \/ Load(e)
    \/ Save(e)
    \/ SkipMarked(e)
    \/ WriteVault(e)
    \/ WriteFails(e)
    \/ Commit(e)
    \/ RollBack(e)

-----------------------------------------------------------------------------
(* VaultQuerySetMixin.update in autocommit: the UPDATE of other columns    *)
(* ends its transaction, the account is read again and the signal is sent  *)
(* for what was read; the mark is an UPDATE of its own.                    *)

Update(u) ==
    /\ pc[u] = "idle" /\ held = None
    /\ copy' = [copy EXCEPT ![u] = row]
    /\ Goto(u, IF enabled THEN "save" ELSE "idle")
    /\ UNCHANGED <<row, vault, enabled, held, draft, last, loose, saves, history>>

\* Mutant: an exception of the vault is logged and the row marked anyway.
UpdateAnyway(u) ==
    /\ pc[u] = "save" /\ ~ Marked(u)
    /\ Goto(u, "mark")
    /\ vault' = Patched(copy[u]) \/ UNCHANGED vault
    /\ UNCHANGED <<row, enabled, held, draft, copy, last, loose, saves, history>>

\* The call of the vault may raise, with or without having written.
UpdateVault(u) ==
    /\ pc[u] = "save" /\ ~ Marked(u)
    /\ \/ vault' = Patched(copy[u]) /\ \E then \in {"mark", "idle"} : Goto(u, then)
       \/ UNCHANGED vault /\ Goto(u, "idle")
    /\ UNCHANGED <<row, enabled, held, draft, copy, last, loose, saves, history>>

MarkRow(u) ==
    /\ pc[u] = "mark" /\ held = None
    /\ row' = Mark
    /\ Goto(u, "idle")
    /\ UNCHANGED <<vault, enabled, held, draft, copy, last, loose, saves, history>>

UpdateOthers(u) == Update(u) \/ SkipMarked(u) \/ UpdateVault(u) \/ MarkRow(u)

-----------------------------------------------------------------------------
(* _transfer_instance: the account the iterator read is locked and read    *)
(* again in a transaction, and skipped when there is nothing to do.        *)

Pick(op) ==
    /\ pc[Transfer] = "idle" /\ enabled
    /\ copy' = [copy EXCEPT ![Transfer] = row]
    /\ Goto(Transfer, op)
    /\ UNCHANGED <<row, vault, enabled, held, draft, last, loose, saves, history>>

\* Mutant: the account is worked on as the iterator read it.
AsPicked(read) == copy[Transfer]

\* _get_locked_instance.
ReadAgain(read) == read

LockRow ==
    /\ pc[Transfer] \in {"sync", "restore"} /\ Lock(Transfer)
    /\ copy' = [copy EXCEPT ![Transfer] = ReadAgain(row)]
    /\ draft' = row
    /\ UNCHANGED <<row, vault, enabled, pc, last, loose, saves, history>>

EndTransfer == Free(Transfer) /\ draft' = None /\ Goto(Transfer, "idle")

\* Nothing to do, the vault raises, the commit fails or the worker dies.
SkipOrFail ==
    /\ pc[Transfer] \in {"sync", "restore"} /\ held = Transfer
    /\ EndTransfer
    /\ UNCHANGED <<row, vault, enabled, copy, last, loose, saves, history>>

\* sync: vault_client.create posts the secret, then the mark is saved.
Sync ==
    /\ pc[Transfer] = "sync" /\ held = Transfer /\ ~ Marked(Transfer)
    /\ vault' = copy[Transfer] /\ loose' = None
    /\ row' = Mark \/ row' = row
    /\ EndTransfer
    /\ UNCHANGED <<enabled, copy, last, saves, history>>

\* _get_for_restore raises without an entry or a key.
Restorable == vault \notin {Absent, Keyless}

\* What a save had left in the vault counts from now on.
Restore ==
    /\ pc[Transfer] = "restore" /\ held = Transfer /\ Marked(Transfer)
    /\ Restorable
    /\ row' = vault /\ loose' = None
    /\ last' = IF undone THEN last ELSE vault
    /\ stale' = IF vault = last THEN stale ELSE Editors
    /\ EndTransfer
    /\ UNCHANGED <<vault, enabled, copy, saves, carries, undone>>

TransferRow ==
    \/ \E op \in {"sync", "restore"} : Pick(op)
    \/ LockRow
    \/ SkipOrFail
    \/ Sync
    \/ Restore

\* The services are restarted with the vault switched on or off; it is not
\* switched off while the row has the mark, which would be taken for the secret.
Restart ==
    /\ enabled => row # Mark
    /\ enabled' = ~ enabled
    /\ held' = None /\ draft' = None
    /\ pc' = [a \in Actors |-> "idle"]
    /\ copy' = [a \in Actors |-> None]
    /\ carries' = {}
    /\ UNCHANGED <<row, vault, last, loose, saves, stale, undone>>

Next ==
    \/ \E e \in Editors : Request(e)
    \/ \E u \in Updaters : UpdateOthers(u)
    \/ TransferRow
    \/ Restart

Spec == Init /\ [][Next]_vars

-----------------------------------------------------------------------------
(* An account that is marked has an entry in the vault: the mark is never  *)
(* committed before the vault took a secret, whatever fails or restarts    *)
(* and whatever copy a request saves.                                      *)
MarkedIsInVault == row = Mark => vault # Absent

(* The row and the vault keep the secret a committed save was given last,  *)
(* or one that a save put into the vault before it was rolled back, with   *)
(* one exception: a request that is given no secret writes the one it has  *)
(* loaded, and puts it back over what others have committed since; until   *)
(* the next secret is given (undone).  Transfers, rollbacks and switching  *)
(* the vault off and on never bring an older secret back.                  *)
NoLostSecret ==
    undone \/ (IF row = Mark THEN Vaulted \in {last, loose} ELSE row = last)

(* The secret the row stands for. *)
Stored == IF row = Mark THEN Vaulted ELSE row

(* The transfer task changes where the secret is and never which it is,    *)
(* although requests save the account while it runs ("This keeps the local *)
(* marker and the external secret consistent").                            *)
TransferKeepsSecret == [][TransferRow => Stored' = Stored]_vars
=============================================================================
