----------------------------- MODULE MountMove -----------------------------
(***************************************************************************)
(* A change of the mount point of the OpenBao vault in the settings: the   *)
(* current secrets are copied to the new mount and compared again, and     *)
(* only then is the setting saved and published to the processes, which    *)
(* go on writing secrets meanwhile, each to the mount it knows.            *)
(***************************************************************************)
EXTENDS Naturals, FiniteSets

CONSTANTS Paths,     \* paths of secrets below a mount
          Values,    \* values of a secret
          Absent,    \* no entry at a path
          Clients,   \* processes with a vault_client
          MaxWrites, \* bound on the secrets written
          MaxMoves   \* bound on the requests that change the setting

MountAssumption ==
    /\ Absent \notin Values
    /\ MaxWrites \in Nat /\ MaxMoves \in Nat

VARIABLES mount,   \* the entries: mount["old"][p], mount["new"][p]
          pc,      \* where the request is
          todo,    \* listed paths it has still to visit
          got,     \* the path and the value it read from the old mount
          used,    \* the mount of the saved setting
          client,  \* the mount each process writes to
          written, \* paths of the old mount written since they were compared
          writes,
          moves

vars == <<mount, pc, todo, got, used, client, written, writes, moves>>

Mounts == {"old", "new"}
Nothing == [path |-> Absent, value |-> Absent]

TypeOK ==
    /\ mount \in [Mounts -> [Paths -> Values \cup {Absent}]]
    /\ pc \in {"idle", "copy", "put", "verify"}
    /\ todo \subseteq Paths
    /\ IF pc = "put" THEN got \in [path : Paths, value : Values]
                     ELSE got = Nothing
    /\ used \in Mounts
    /\ client \in [Clients -> Mounts]
    /\ written \subseteq Paths
    /\ writes \in 0..MaxWrites /\ moves \in 0..MaxMoves

Init ==
    /\ mount \in [Mounts -> [Paths -> Values \cup {Absent}]]
    /\ pc = "idle" /\ todo = {} /\ got = Nothing
    /\ used = "old" /\ client = [c \in Clients |-> "old"]
    /\ written = {} /\ writes = 0 /\ moves = 0

\* iter_secret_paths.
Listed(m) == {p \in Paths : mount[m][p] # Absent}

-----------------------------------------------------------------------------
(* prepare_openbao_mount_change and copy_current_secrets_from.             *)

Begin ==
    /\ pc = "idle" /\ used = "old" /\ moves < MaxMoves
    /\ pc' = "copy" /\ todo' = Listed("old") /\ written' = {}
    /\ moves' = moves + 1
    /\ UNCHANGED <<mount, got, used, client, writes>>

\* An entry that is gone by now is passed over.
Gone(p) == mount["old"][p] = Absent

\* The current value of a path of the old mount.
ReadPath(p) ==
    /\ pc = "copy" /\ p \in todo
    /\ todo' = todo \ {p}
    /\ IF Gone(p)
         THEN UNCHANGED <<got, pc>>
         ELSE got' = [path |-> p, value |-> mount["old"][p]] /\ pc' = "put"
    /\ UNCHANGED <<mount, used, client, written, writes, moves>>

Abort == pc' = "idle" /\ todo' = {} /\ got' = Nothing

\* Mutant: what the new mount has is replaced.
Replace(p, value) == TRUE

\* Nothing is written over data of the new mount.
Free(p, value) == mount["new"][p] = Absent

PutPath ==
    LET p == got.path
        value == got.value
    IN  /\ pc = "put"
        /\ IF Free(p, value)
             THEN /\ mount' = [mount EXCEPT !["new"][p] = value]
                  /\ pc' = "copy" /\ got' = Nothing /\ UNCHANGED todo
             ELSE /\ IF mount["new"][p] = value
                       THEN pc' = "copy" /\ got' = Nothing /\ UNCHANGED todo
                       ELSE Abort
                  /\ UNCHANGED mount
        /\ UNCHANGED <<used, client, written, writes, moves>>

\* Mutant: the comparison after the copy visits nothing.
NothingToVerify == {}

ToVerify == Listed("old")

BeginVerify ==
    /\ pc = "copy" /\ todo = {}
    /\ pc' = "verify" /\ todo' = ToVerify /\ written' = {}
    /\ UNCHANGED <<mount, got, used, client, writes, moves>>

Same(p) == mount["new"][p] = mount["old"][p]

VerifyPath(p) ==
    /\ pc = "verify" /\ p \in todo
    /\ IF Gone(p) \/ Same(p)
         THEN todo' = todo \ {p} /\ UNCHANGED <<pc, got>>
         ELSE Abort
    /\ written' = written \ {p}
    /\ UNCHANGED <<mount, used, client, writes, moves>>

\* A request of the vault fails.
CallFails ==
    /\ pc # "idle"
    /\ Abort
    /\ UNCHANGED <<mount, used, client, written, writes, moves>>

\* The setting is saved and published.
Switch ==
    /\ pc = "verify" /\ todo = {}
    /\ used' = "new" /\ pc' = "idle"
    /\ UNCHANGED <<mount, todo, got, client, written, writes, moves>>

Move ==
    \/ Begin
    \/ \E p \in Paths : ReadPath(p) \/ VerifyPath(p)
    \/ PutPath
    \/ BeginVerify
    \/ CallFails
    \/ Switch

-----------------------------------------------------------------------------
(* The processes. *)

\* refresh_vault_client when the publication arrives, or a restart.
Refresh(c) ==
    /\ client[c] # used
    /\ client' = [client EXCEPT ![c] = used]
    /\ UNCHANGED <<mount, pc, todo, got, used, written, writes, moves>>

\* An account is saved, or deleted with its entry.
Write(c, p, value) ==
    /\ writes < MaxWrites
    /\ mount' = [mount EXCEPT ![client[c]][p] = value]
    /\ written' = IF client[c] = "old" THEN written \cup {p} ELSE written
    /\ writes' = writes + 1
    /\ UNCHANGED <<pc, todo, got, used, client, moves>>

Next ==
    \/ Move
    \/ \E c \in Clients : Refresh(c)
    \/ \E c \in Clients, p \in Paths, value \in Values \cup {Absent} :
           Write(c, p, value)

Spec == Init /\ [][Next]_vars

-----------------------------------------------------------------------------
(* A move never replaces a secret the new mount already has, also not the  *)
(* copy an aborted move left there.                                        *)
NothingReplaced ==
    [][Move => \A p \in Paths :
                 mount["new"][p] # Absent => mount'["new"][p] = mount["new"][p]]_vars

(* When the setting is switched, the new mount has every secret of the old *)
(* one that was not written after it was compared, whatever was written    *)
(* during the copy and whatever an aborted move left there.                *)
ComparedIsMoved ==
    [][Switch => \A p \in Listed("old") \ written : Same(p)]_vars
=============================================================================
