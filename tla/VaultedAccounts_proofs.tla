----------------------- MODULE VaultedAccounts_proofs -----------------------
(***************************************************************************)
(* Theorems about the secrets of accounts and who gets them, for any       *)
(* secrets, tokens, requests, workers and periods. VaultedAccounts: a row  *)
(* that says so has its secret in the vault, and the last secret given is  *)
(* lost only to a request that writes back the one it had loaded.          *)
(* MountMove: a move to another mount replaces nothing and switches to     *)
(* what it has compared. SessionEndQueue: the end of a session is followed *)
(* by a change of the secret, or has been given up for a reason.           *)
(* ConnectionToken: what is given out was let through and is not used up,  *)
(* but for the requests that raced. SessionLife: a session in touch is not *)
(* closed. PermTree and PermTreeBuild: the tree a user is shown is that of *)
(* the last permissions, and what a rebuild counts, where it counts, and   *)
(* lists is what he may see. NodeTree: while requests come one after the   *)
(* other every node has its parent, and creations under the lock never     *)
(* fail.                                                                   *)
(***************************************************************************)
EXTENDS VaultedAccounts, Integers, Sequences, FiniteSets, FiniteSetTheorems, SequenceTheorems,
        WellFoundedInduction, TLAPS

\* Where each kind of actor may be.
Labels ==
    /\ \A e \in Editors : pc[e] \in {"idle", "loaded", "save", "commit", "wrote"}
    /\ \A u \in Updaters : pc[u] \in {"idle", "save", "mark"}
    /\ pc[Transfer] \in {"idle", "sync", "restore"}

\* Who has the lock of the row works on a draft it knows; an update in autocommit has none.
Holders ==
    /\ held \in Editors \cup {Transfer, None}
    /\ \A e \in Editors : pc[e] \in {"save", "commit", "wrote"} <=> held = e
    /\ \A e \in Editors : held = e => draft = copy[e] /\ copy[e] \in Columns
    /\ held = Transfer => /\ pc[Transfer] \in {"sync", "restore"}
                          /\ draft = row /\ copy[Transfer] = row

\* What each one read before it works on it.
Copies ==
    /\ \A e \in Editors : pc[e] = "loaded" => copy[e] \in Columns
    /\ \A e \in Editors : pc[e] = "wrote" => copy[e] = Mark /\ loose \in Values
    /\ \A e \in Editors : enabled /\ pc[e] = "commit" => copy[e] = Mark
    /\ \A u \in Updaters : pc[u] = "save" => copy[u] \in Columns

\* Somebody has the mark, or is about to write it.
Marking == \/ row = Mark
           \/ \E a \in Actors : copy[a] = Mark
           \/ \E u \in Updaters : pc[u] = "mark"

\* While the vault is off nobody has the mark or is about to make one; it needs an entry
\* of the vault.
Marks == /\ ~enabled => ~Marking /\ \A a \in Actors : pc[a] \in {"idle", "loaded", "commit"}
         /\ Marking => vault # Absent

\* The mark stands for the secret of the last save, or for one a save left in the vault
\* before it was rolled back; without it the row has the secret of the last save.  A request
\* that loaded since the last commit of another one has no other secret to carry.
Known ==
    /\ Marking => Vaulted \in {last, loose}
    /\ row # Mark => row = last
    /\ \A e \in Editors \ stale :
         (pc[e] = "loaded" \/ (e \in carries /\ pc[e] \in {"save", "commit"})) => copy[e] \in {Mark, last}
    /\ \A e \in carries \ stale : pc[e] = "wrote" => loose = last

Custody ==
    /\ \A e \in Editors : pc[e] = "wrote" => Vaulted = loose
    /\ undone \/ Known

VaultInv ==
    /\ ValuesAssumption
    /\ TypeOK /\ Labels /\ Holders /\ Copies /\ Marks
    /\ Updaters = {} => Custody

-----------------------------------------------------------------------------
LEMMA Different ==
    ASSUME ValuesAssumption
    PROVE  /\ \A v \in Values : v # Mark /\ v # Absent /\ v # Keyless /\ v # None
           /\ Mark # None /\ Absent # Keyless
           /\ \A a \in Actors : a # None
           /\ \A e \in Editors : e # Transfer /\ e \notin Updaters /\ e \in Actors
           /\ \A u \in Updaters : u # Transfer /\ u \notin Editors /\ u \in Actors
           /\ Transfer \in Actors
  BY DEF ValuesAssumption, Values, Actors

\* What the vault has after a patch is what was sent.
LEMMA PatchedIsSent ==
    ASSUME ValuesAssumption, TypeOK, NEW v \in Values, vault' = Patched(v)
    PROVE  /\ vault' \in Values \cup {Absent, Keyless}
           /\ vault' # Absent
           /\ Vaulted' = v
  <1>1. CASE vault = Absent
    BY <1>1, Different DEF Patched, Vaulted
  <1>2. CASE vault # Absent /\ v = NoSecret
    BY <1>2, Different DEF Patched, Vaulted
  <1>3. CASE vault # Absent /\ v # NoSecret
    BY <1>3, Different DEF Patched, Vaulted
  <1> QED
    BY <1>1, <1>2, <1>3

LEMMA VaultInit ==
    ASSUME ValuesAssumption, Init
    PROVE  VaultInv
  <1> USE Different DEF Init
  <1>1. TypeOK
    <2>1. /\ carries \subseteq Editors /\ stale \subseteq Editors
      OBVIOUS
    <2>2. enabled \in BOOLEAN /\ undone \in BOOLEAN
      OBVIOUS
    <2> QED
      BY <2>1, <2>2 DEF ValuesAssumption, TypeOK, Values, Columns
  <1>2. Labels /\ Holders /\ Copies
    BY DEF Labels, Holders, Copies, Actors
  <1>3. ~Marking /\ row = last
    BY DEF Marking, Values, Actors
  <1> QED
    BY <1>1, <1>2, <1>3 DEF VaultInv, Marks, Custody, Known, Actors

\* One actor moves.
LEMMA Moved ==
    ASSUME TypeOK, NEW a \in Actors, NEW l, Goto(a, l)
    PROVE  pc'[a] = l /\ \A b \in Actors : b # a => pc'[b] = pc[b]
  BY DEF TypeOK, Goto

LEMMA MovedType ==
    ASSUME TypeOK, NEW a \in Actors, Goto(a, "idle") \/ Goto(a, "loaded") \/ Goto(a, "save")
             \/ Goto(a, "commit") \/ Goto(a, "wrote") \/ Goto(a, "mark") \/ Goto(a, "sync") \/ Goto(a, "restore")
    PROVE  pc' \in [Actors -> {"idle", "loaded", "save", "mark", "commit", "wrote", "sync", "restore"}]
  BY DEF TypeOK, Goto

\* A new copy of one actor.
LEMMA Copied ==
    ASSUME TypeOK, NEW a \in Actors, NEW v \in Columns, copy' = [copy EXCEPT ![a] = v]
    PROVE  /\ copy' \in [Actors -> Columns \cup {None}]
           /\ copy'[a] = v /\ \A b \in Actors : b # a => copy'[b] = copy[b]
  BY DEF TypeOK

\* Whose copy is the secret of the last save.
Fresh(e) == pc[e] = "loaded" \/ (e \in carries /\ pc[e] \in {"save", "commit"})

\* A step that leaves the secrets where they are.
LEMMA CustodyStays ==
    ASSUME Custody, Marking' => Marking, Vaulted' = Vaulted, UNCHANGED <<row, last, loose, undone>>,
           \A x \in Editors : pc'[x] = "wrote" => pc[x] = "wrote",
           Known => \A x \in Editors \ stale' : Fresh(x)' => copy'[x] \in {Mark, last},
           \A x \in carries' \ stale' : pc'[x] = "wrote" => x \in carries \ stale /\ pc[x] = "wrote"
    PROVE  Custody'
  <1>1. \A x \in Editors : pc'[x] = "wrote" => Vaulted' = loose'
    BY DEF Custody
  <1>2. Known => Known'
    BY DEF Known, Fresh
  <1>3. undone \/ Known
    BY DEF Custody
  <1>4. undone' \/ Known'
    BY <1>2, <1>3, Zenon
  <1> QED
    BY <1>1, <1>4, Zenon DEF Custody

-----------------------------------------------------------------------------
(* Requests.                                                               *)

LEMMA LoadKeeps ==
    ASSUME VaultInv, NEW e \in Editors, Load(e)
    PROVE  VaultInv'
  <1> USE Different DEF VaultInv
  <1>0. /\ e \in Actors /\ pc[e] = "idle" /\ saves' \in 0..MaxSaves /\ row \in Columns
        /\ Goto(e, "loaded") /\ copy' = [copy EXCEPT ![e] = row]
        /\ stale' = stale \ {e}
        /\ UNCHANGED <<row, vault, enabled, held, draft, last, loose, carries, undone>>
    BY DEF Load, ValuesAssumption, TypeOK
  <1>1. pc'[e] = "loaded" /\ \A b \in Actors : b # e => pc'[b] = pc[b]
    BY <1>0, Moved
  <1>2. /\ copy' \in [Actors -> Columns \cup {None}]
        /\ copy'[e] = row /\ \A b \in Actors : b # e => copy'[b] = copy[b]
    BY <1>0, Copied
  <1>3. TypeOK'
    BY <1>0, <1>2, MovedType DEF TypeOK
  <1>4. Labels' /\ Holders' /\ Copies'
    BY <1>0, <1>1, <1>2 DEF Labels, Holders, Copies
  <1>5. Marking' => Marking
    BY <1>0, <1>1, <1>2 DEF Marking
  <1>6. Vaulted' = Vaulted
    BY <1>0 DEF Vaulted
  <1>7. Marks'
    BY <1>0, <1>1, <1>5 DEF Marks
  <1>8. ASSUME Updaters = {} PROVE Custody'
    <2>1. ASSUME Known, NEW x \in Editors \ stale', Fresh(x)' PROVE copy'[x] \in {Mark, last}
      <3>1. CASE x = e
        BY <1>2, <2>1, <3>1 DEF Known
      <3>2. CASE x # e
        BY <1>0, <1>1, <1>2, <2>1, <3>2 DEF Known, Fresh
      <3> QED
        BY <3>1, <3>2
    <2>2. \A x \in Editors : pc'[x] = "wrote" => pc[x] = "wrote" /\ x # e
      BY <1>1
    <2>3. \A x \in carries' \ stale' : pc'[x] = "wrote" => x \in carries \ stale /\ pc[x] = "wrote"
      BY <1>0, <2>2 DEF TypeOK
    <2> QED
      BY <1>0, <1>5, <1>6, <1>8, <2>1, <2>2, <2>3, CustodyStays
  <1> QED
    BY <1>0, <1>3, <1>4, <1>7, <1>8

LEMMA SaveKeeps ==
    ASSUME VaultInv, NEW e \in Editors, Save(e)
    PROVE  VaultInv'
  <1> USE Different DEF VaultInv
  <1>0. /\ e \in Actors /\ pc[e] = "loaded" /\ held = None /\ held' = e
        /\ UNCHANGED <<row, vault, enabled, last, loose, saves, stale, undone>>
    BY DEF Save, Lock
  <1>1. PICK value \in Columns :
          /\ copy' = [copy EXCEPT ![e] = value] /\ draft' = value
          /\ value = Mark => copy[e] = Mark
          /\ \/ carries' = carries \ {e}
             \/ carries' = carries \cup {e} /\ value = copy[e]
    <2>1. CASE \E value \in Given : copy' = [copy EXCEPT ![e] = value] /\ draft' = value /\ carries' = carries \ {e}
      BY <2>1 DEF Given, Columns, Values
    <2>2. CASE draft' = copy[e] /\ carries' = carries \cup {e} /\ UNCHANGED copy
      <3>1. copy' = [copy EXCEPT ![e] = copy[e]]
        BY <1>0, <2>2 DEF TypeOK
      <3> QED
        BY <1>0, <2>2, <3>1 DEF Copies
    <2> QED
      BY <2>1, <2>2 DEF Save
  <1>2. value \in Columns /\ (value = Mark => copy[e] = Mark)
    BY <1>1
  <1>3. /\ copy' \in [Actors -> Columns \cup {None}]
        /\ copy'[e] = value /\ \A b \in Actors : b # e => copy'[b] = copy[b]
    BY <1>0, <1>1, <1>2, Copied
  <1>4. /\ pc'[e] = (IF enabled THEN "save" ELSE "commit")
        /\ \A b \in Actors : b # e => pc'[b] = pc[b]
        /\ pc' \in [Actors -> {"idle", "loaded", "save", "mark", "commit", "wrote", "sync", "restore"}]
    <2>1. CASE enabled
      BY <1>0, <2>1, Moved, MovedType DEF Save
    <2>2. CASE ~enabled
      BY <1>0, <2>2, Moved, MovedType DEF Save
    <2> QED
      BY <2>1, <2>2
  <1>5. TypeOK'
    BY <1>0, <1>1, <1>2, <1>3, <1>4 DEF TypeOK
  <1>6. Labels' /\ Holders' /\ Copies'
    BY <1>0, <1>1, <1>2, <1>3, <1>4 DEF Labels, Holders, Copies
  <1>7. Marking' => Marking
    BY <1>0, <1>2, <1>3, <1>4 DEF Marking
  <1>8. Vaulted' = Vaulted
    BY <1>0 DEF Vaulted
  <1>9. Marks'
    BY <1>0, <1>4, <1>7 DEF Marks
  <1>10. ASSUME Updaters = {} PROVE Custody'
    <2>1. ASSUME Known, NEW x \in Editors \ stale', Fresh(x)' PROVE copy'[x] \in {Mark, last}
      <3>1. CASE x = e
        <4>1. e \in carries' /\ value = copy[e]
          BY <1>1, <1>4, <2>1, <3>1 DEF Fresh
        <4> QED
          BY <1>0, <1>3, <2>1, <3>1, <4>1 DEF Known
      <3>2. CASE x # e
        <4>1. Fresh(x)
          BY <1>1, <1>4, <2>1, <3>2 DEF Fresh
        <4> QED
          BY <1>0, <1>3, <2>1, <3>2, <4>1 DEF Known, Fresh
      <3> QED
        BY <3>1, <3>2
    <2>2. \A x \in Editors : pc'[x] = "wrote" => pc[x] = "wrote" /\ x # e
      BY <1>4
    <2>3. \A x \in carries' \ stale' : pc'[x] = "wrote" /\ x \in Editors => x \in carries \ stale
      BY <1>0, <1>1, <2>2
    <2> QED
      BY <1>0, <1>5, <1>7, <1>8, <1>10, <2>1, <2>2, <2>3, CustodyStays DEF TypeOK
  <1> QED
    BY <1>0, <1>5, <1>6, <1>9, <1>10

\* A marked instance, of a request or of an update, leaves the vault alone.
LEMMA SkipMarkedKeeps ==
    ASSUME VaultInv, NEW a \in Editors \cup Updaters, SkipMarked(a)
    PROVE  VaultInv'
  <1> USE Different DEF VaultInv
  <1>0. /\ a \in Actors /\ pc[a] = "save" /\ copy[a] = Mark
        /\ UNCHANGED <<row, vault, enabled, held, draft, copy, last, loose, saves, carries, stale, undone>>
    BY DEF SkipMarked, Marked, history
  <1>1. /\ pc'[a] = (IF a \in Editors THEN "commit" ELSE "idle")
        /\ \A b \in Actors : b # a => pc'[b] = pc[b]
        /\ pc' \in [Actors -> {"idle", "loaded", "save", "mark", "commit", "wrote", "sync", "restore"}]
    <2>1. CASE a \in Editors
      BY <1>0, <2>1, Moved, MovedType DEF SkipMarked
    <2>2. CASE a \notin Editors
      BY <1>0, <2>2, Moved, MovedType DEF SkipMarked
    <2> QED
      BY <2>1, <2>2
  <1>2. TypeOK'
    BY <1>0, <1>1 DEF TypeOK
  <1>3. Labels' /\ Holders' /\ Copies'
    BY <1>0, <1>1 DEF Labels, Holders, Copies
  <1>4. Marking' => Marking
    BY <1>0, <1>1 DEF Marking
  <1>5. Vaulted' = Vaulted
    BY <1>0 DEF Vaulted
  <1>6. Marks'
    BY <1>0, <1>1, <1>4 DEF Marks
  <1>7. ASSUME Updaters = {} PROVE Custody'
    <2>1. \A x \in Editors \ stale' : Fresh(x)' => Fresh(x)
      BY <1>0, <1>1 DEF Fresh
    <2>2. Known => \A x \in Editors \ stale' : Fresh(x)' => copy'[x] \in {Mark, last}
      BY <1>0, <2>1 DEF Known, Fresh
    <2>3. \A x \in Editors : pc'[x] = "wrote" => pc[x] = "wrote"
      BY <1>1
    <2> QED
      BY <1>0, <1>4, <1>5, <1>7, <2>2, <2>3, CustodyStays DEF TypeOK
  <1> QED
    BY <1>0, <1>2, <1>3, <1>6, <1>7

LEMMA WriteVaultKeeps ==
    ASSUME VaultInv, NEW e \in Editors, WriteVault(e)
    PROVE  VaultInv'
  <1> USE Different DEF VaultInv
  <1>0. /\ e \in Actors /\ pc[e] = "save" /\ held = e /\ draft' = Mark /\ Goto(e, "wrote")
        /\ UNCHANGED <<row, enabled, held, last, saves, carries, stale, undone>>
        /\ copy[e] \in Values /\ vault' = Patched(copy[e]) /\ loose' = copy[e]
        /\ Mark \in Columns /\ copy' = [copy EXCEPT ![e] = Mark]
    BY DEF WriteVault, Marked, Holders, Columns, history
  <1>1. vault' \in Values \cup {Absent, Keyless} /\ vault' # Absent /\ Vaulted' = loose'
    BY <1>0, PatchedIsSent
  <1>2. pc'[e] = "wrote" /\ \A b \in Actors : b # e => pc'[b] = pc[b]
    BY <1>0, Moved
  <1>3. /\ copy' \in [Actors -> Columns \cup {None}]
        /\ copy'[e] = Mark /\ \A b \in Actors : b # e => copy'[b] = copy[b]
    BY <1>0, Copied
  <1>4. TypeOK'
    BY <1>0, <1>1, <1>3, MovedType DEF TypeOK
  <1>5. Labels' /\ Holders' /\ Copies'
    BY <1>0, <1>2, <1>3 DEF Labels, Holders, Copies
  <1>6. enabled
    BY <1>0 DEF Marks
  <1>7. Marks'
    BY <1>0, <1>1, <1>2, <1>6 DEF Marks
  <1>8. ASSUME Updaters = {} PROVE Custody'
    <2>1. \A x \in Editors : pc'[x] = "wrote" => Vaulted' = loose'
      BY <1>1
    <2>2. ASSUME Known PROVE Known'
      <3>1. \A x \in Editors \ stale' : Fresh(x)' => copy'[x] \in {Mark, last}
        BY <1>0, <1>2, <1>3, <2>2 DEF Known, Fresh
      <3>2. \A x \in Editors : pc'[x] = "wrote" => x = e
        BY <1>0, <1>2 DEF Holders
      <3>3. e \in carries \ stale => loose' = last
        BY <1>0, <2>2 DEF Known
      <3> QED
        BY <1>0, <1>1, <2>2, <3>1, <3>2, <3>3 DEF Known, Fresh, TypeOK
    <2>3. undone \/ Known
      BY <1>8 DEF Custody
    <2>4. undone' \/ Known'
      BY <1>0, <2>2, <2>3, Zenon
    <2> QED
      BY <2>1, <2>4, Zenon DEF Custody
  <1> QED
    BY <1>0, <1>4, <1>5, <1>7, <1>8

\* The holder of the lock gives up what it had in its draft.
LEMMA GivenUp ==
    ASSUME VaultInv, NEW e \in Editors, held = e, held' = None, draft' = None, Goto(e, "idle"),
           UNCHANGED <<row, enabled, copy, last, saves, carries, stale, undone>>,
           \/ UNCHANGED <<vault, loose>>
           \/ copy[e] \in Values /\ vault' = Patched(copy[e]) /\ loose' = copy[e]
    PROVE  VaultInv'
  <1> USE Different DEF VaultInv
  <1>1. pc'[e] = "idle" /\ \A b \in Actors : b # e => pc'[b] = pc[b]
    BY Moved
  <1>2. /\ vault' \in Values \cup {Absent, Keyless} /\ (vault # Absent => vault' # Absent)
        /\ Vaulted' = Vaulted \/ Vaulted' = loose'
        /\ loose' \in Values \cup {None}
        /\ loose' = loose \/ Vaulted' = loose'
    <2>1. CASE UNCHANGED <<vault, loose>>
      BY <2>1 DEF TypeOK, Vaulted
    <2>2. CASE copy[e] \in Values /\ vault' = Patched(copy[e]) /\ loose' = copy[e]
      BY <2>2, PatchedIsSent
    <2> QED
      BY <2>1, <2>2
  <1>3. TypeOK'
    BY <1>2, MovedType DEF TypeOK
  <1>4. Labels' /\ Holders' /\ Copies'
    BY <1>1 DEF Labels, Holders, Copies
  <1>5. Marking' => Marking
    BY <1>1 DEF Marking
  <1>6. \A x \in Editors : pc'[x] # "wrote"
    BY <1>1 DEF Holders
  <1>7. Marks'
    BY <1>1, <1>2, <1>5 DEF Marks
  <1>8. ASSUME Updaters = {} PROVE Custody'
    <2>1. ASSUME Known PROVE Known'
      <3>1. \A x \in Editors \ stale' : Fresh(x)' => Fresh(x)
        BY <1>1 DEF Fresh
      <3>2. \A x \in Editors \ stale' : Fresh(x)' => copy'[x] \in {Mark, last}
        BY <2>1, <3>1 DEF Known, Fresh
      <3>3. Marking' => Vaulted' \in {last', loose'}
        BY <1>2, <1>5, <2>1 DEF Known
      <3>4. \A x \in carries' \ stale' : pc'[x] # "wrote"
        BY <1>6 DEF TypeOK
      <3>5. row' # Mark => row' = last'
        BY <2>1 DEF Known
      <3> QED
        BY <3>2, <3>3, <3>4, <3>5 DEF Known, Fresh
    <2>2. undone \/ Known
      BY <1>8 DEF Custody
    <2>3. undone' \/ Known'
      BY <2>1, <2>2, Zenon
    <2> QED
      BY <1>6, <2>3, Zenon DEF Custody
  <1> QED
    BY <1>3, <1>4, <1>7, <1>8

LEMMA WriteFailsKeeps ==
    ASSUME VaultInv, NEW e \in Editors, WriteFails(e)
    PROVE  VaultInv'
  <1>1. pc[e] = "save" /\ copy[e] # Mark
    BY DEF WriteFails, Marked
  <1>2. held = e /\ copy[e] \in Values
    BY <1>1 DEF VaultInv, Holders, Columns
  <1> QED
    BY <1>2, GivenUp DEF WriteFails, Free, history

LEMMA RollBackKeeps ==
    ASSUME VaultInv, NEW e \in Editors, RollBack(e)
    PROVE  VaultInv'
  BY GivenUp DEF RollBack, Free, history

\* What is known when nobody fresh is on the way.
LEMMA KnownThen ==
    ASSUME Marking' => Vaulted' \in {last', loose'}, row' # Mark => row' = last',
           \A x \in Editors \ stale' : ~ Fresh(x)', \A x \in carries' \ stale' : pc'[x] # "wrote"
    PROVE  Known'
<1>1. \A x \in Editors \ stale' :
        ~ (pc'[x] = "loaded" \/ (x \in carries' /\ pc'[x] \in {"save", "commit"}))
  BY DEF Fresh
<1> QED
  BY <1>1 DEF Known

LEMMA CommitKeeps ==
    ASSUME VaultInv, NEW e \in Editors, Commit(e)
    PROVE  VaultInv'
  <1> USE Different DEF VaultInv
  <1> DEFINE value == IF pc[e] = "wrote" THEN loose ELSE draft
  <1>0. /\ e \in Actors /\ held = e /\ held' = None /\ draft' = None /\ Goto(e, "idle")
        /\ draft = copy[e] /\ copy[e] \in Columns /\ row' = copy[e]
        /\ pc[e] \in {"commit", "wrote"} /\ Told(e, value)
        /\ loose' = IF pc[e] = "wrote" THEN None ELSE loose
        /\ UNCHANGED <<vault, enabled, copy, saves, carries>>
    BY DEF Commit, Free, Holders
  <1>1. pc'[e] = "idle" /\ \A b \in Actors : b # e => pc'[b] = pc[b]
    BY <1>0, Moved
  <1>2. \A x \in Editors : pc'[x] \notin {"save", "commit", "wrote"}
    BY <1>0, <1>1 DEF Holders
  <1>3. Labels' /\ Holders' /\ Copies'
    BY <1>0, <1>1 DEF Labels, Holders, Copies
  <1>4. Marking' => Marking
    BY <1>0, <1>1 DEF Marking
  <1>5. Vaulted' = Vaulted
    BY <1>0 DEF Vaulted
  <1>6. stale' = stale \cup (Editors \ {e})
    BY <1>0 DEF Told
  \* Others are stale now, and the request itself is over.
  <1>7. \A x \in Editors \ stale' : pc'[x] = "idle"
    BY <1>1, <1>6
  <1>8. value = Mark => UNCHANGED <<last, undone>>
    BY <1>0 DEF Told
  <1>9. /\ \A x \in Editors : pc'[x] # "wrote"
        /\ \A x \in Editors \ stale' : ~ Fresh(x)'
        /\ \A x \in carries' \ stale' : pc'[x] # "wrote"
    BY <1>0, <1>2, <1>7 DEF Fresh, TypeOK
  <1>10. ASSUME value # Mark
        PROVE  /\ last' = value \/ (last' = last /\ e \in carries)
               /\ last' # value /\ e \in stale => undone'
               /\ last' # value /\ e \notin stale => UNCHANGED undone
               /\ undone' \in BOOLEAN
    BY <1>0, <1>10 DEF Told, TypeOK
  <1>11. CASE pc[e] = "wrote"
    <2>1. row' = Mark /\ value = loose /\ loose' = None
      BY <1>0, <1>11 DEF Copies
    <2>2. enabled /\ vault # Absent
      BY <1>0, <1>11 DEF Marks, Copies, Marking
    <2>3. loose \in Values
      BY <1>11 DEF Copies
    <2>4. TypeOK'
      BY <1>0, <1>6, <1>10, <2>1, <2>3, MovedType DEF TypeOK, Columns
    <2>5. ASSUME Updaters = {} PROVE Custody'
      <3>1. Vaulted = loose
        BY <1>11, <2>5 DEF Custody
      <3>2. ASSUME ~ undone' PROVE last' = loose
        <4>1. CASE last' = value
          BY <2>1, <4>1
        <4>2. CASE last' # value
          <5>1. e \in carries \ stale /\ ~ undone /\ last' = last
            BY <1>10, <2>1, <2>3, <3>2, <4>2
          <5> QED
            BY <1>11, <2>5, <5>1 DEF Custody, Known
        <4> QED
          BY <4>1, <4>2
      <3>3. ASSUME ~ undone' PROVE Known'
        <4>1. Marking' => Vaulted' \in {last', loose'}
          BY <1>5, <2>1, <3>1, <3>2, <3>3
        <4>2. row' # Mark => row' = last'
          BY <2>1
        <4> QED
          BY <1>9, <4>1, <4>2, KnownThen
      <3> QED
        BY <1>9, <3>3, Zenon DEF Custody
    <2> QED
      BY <1>0, <1>1, <1>3, <1>4, <2>2, <2>4, <2>5 DEF Marks
  <1>12. CASE pc[e] = "commit"
    <2>1. value = copy[e] /\ UNCHANGED loose
      BY <1>0, <1>12
    <2>2. copy[e] # Mark => copy[e] \in Values /\ ~enabled /\ ~Marking
      BY <1>0, <1>12 DEF Columns, Copies, Marks
    <2>3. TypeOK'
      BY <1>0, <1>6, <1>8, <1>10, <2>1, <2>2, MovedType DEF TypeOK
    <2>4. ASSUME Updaters = {} PROVE Custody'
      <3>1. CASE copy[e] = Mark
        <4>1. UNCHANGED <<last, undone, loose>> /\ row' = Mark /\ Marking
          BY <1>0, <1>8, <2>1, <3>1 DEF Marking
        <4>2. ASSUME Known PROVE Known'
          <5>1. Marking' => Vaulted' \in {last', loose'}
            BY <1>5, <4>1, <4>2 DEF Known
          <5>2. row' # Mark => row' = last'
            BY <4>1
          <5> QED
            BY <1>9, <5>1, <5>2, KnownThen
        <4>3. undone \/ Known
          BY <2>4 DEF Custody
        <4>4. undone' \/ Known'
          BY <4>1, <4>2, <4>3, Zenon
        <4> QED
          BY <1>9, <4>4, Zenon DEF Custody
      <3>2. CASE copy[e] # Mark
        <4>1. ~ Marking' /\ row' = value
          BY <1>0, <1>4, <2>1, <2>2, <3>2
        <4>2. ASSUME ~ undone' PROVE last' = value
          <5>1. CASE last' # value
            <6>1. e \in carries \ stale /\ ~ undone /\ last' = last
              BY <1>10, <2>1, <3>2, <4>2, <5>1
            <6> QED
              BY <1>12, <2>1, <2>4, <3>2, <5>1, <6>1 DEF Custody, Known
          <5> QED
            BY <5>1
        <4>3. ASSUME ~ undone' PROVE Known'
          <5>1. row' # Mark => row' = last'
            BY <4>1, <4>2, <4>3
          <5> QED
            BY <1>9, <4>1, <5>1, KnownThen
        <4> QED
          BY <1>9, <4>3, Zenon DEF Custody
      <3> QED
        BY <3>1, <3>2
    <2> QED
      BY <1>0, <1>1, <1>3, <1>4, <2>3, <2>4 DEF Marks
  <1> QED
    BY <1>0, <1>11, <1>12

-----------------------------------------------------------------------------
(* Updates outside of a transaction.                                       *)

LEMMA UpdateKeeps ==
    ASSUME VaultInv, NEW u \in Updaters, Update(u)
    PROVE  VaultInv'
  <1> USE Different DEF VaultInv
  <1>0. /\ u \in Actors /\ pc[u] = "idle" /\ row \in Columns /\ copy' = [copy EXCEPT ![u] = row]
        /\ UNCHANGED <<row, vault, enabled, held, draft, last, loose, saves, carries, stale, undone>>
    BY DEF Update, TypeOK, history
  <1>1. /\ pc'[u] = (IF enabled THEN "save" ELSE "idle")
        /\ \A b \in Actors : b # u => pc'[b] = pc[b]
        /\ pc' \in [Actors -> {"idle", "loaded", "save", "mark", "commit", "wrote", "sync", "restore"}]
    <2>1. CASE enabled
      BY <1>0, <2>1, Moved, MovedType DEF Update
    <2>2. CASE ~enabled
      BY <1>0, <2>2, Moved, MovedType DEF Update
    <2> QED
      BY <2>1, <2>2
  <1>2. /\ copy' \in [Actors -> Columns \cup {None}]
        /\ copy'[u] = row /\ \A b \in Actors : b # u => copy'[b] = copy[b]
    BY <1>0, Copied
  <1>3. TypeOK'
    BY <1>0, <1>1, <1>2 DEF TypeOK
  <1>4. Labels' /\ Holders' /\ Copies'
    BY <1>0, <1>1, <1>2 DEF Labels, Holders, Copies
  <1>5. Marking' => Marking
    BY <1>0, <1>1, <1>2 DEF Marking
  <1> QED
    BY <1>0, <1>1, <1>3, <1>4, <1>5 DEF Marks

LEMMA UpdateVaultKeeps ==
    ASSUME VaultInv, NEW u \in Updaters, UpdateVault(u)
    PROVE  VaultInv'
  <1> USE Different DEF VaultInv
  <1>0. /\ u \in Actors /\ pc[u] = "save" /\ copy[u] \in Values
        /\ UNCHANGED <<row, enabled, held, draft, copy, last, loose, saves, carries, stale, undone>>
    BY DEF UpdateVault, Marked, Copies, Columns, history
  <1>1. /\ vault' \in Values \cup {Absent, Keyless} /\ (vault # Absent => vault' # Absent)
        /\ pc'[u] \in {"idle", "mark"} /\ (pc'[u] = "mark" => vault' # Absent)
        /\ \A b \in Actors : b # u => pc'[b] = pc[b]
        /\ pc' \in [Actors -> {"idle", "loaded", "save", "mark", "commit", "wrote", "sync", "restore"}]
    <2>1. CASE vault' = Patched(copy[u]) /\ Goto(u, "mark")
      BY <1>0, <2>1, PatchedIsSent, Moved, MovedType
    <2>2. CASE vault' = Patched(copy[u]) /\ Goto(u, "idle")
      BY <1>0, <2>2, PatchedIsSent, Moved, MovedType
    <2>3. CASE UNCHANGED vault /\ Goto(u, "idle")
      BY <1>0, <2>3, Moved, MovedType DEF TypeOK
    <2> QED
      BY <2>1, <2>2, <2>3 DEF UpdateVault
  <1>2. TypeOK'
    BY <1>0, <1>1 DEF TypeOK
  <1>3. Labels' /\ Holders' /\ Copies'
    BY <1>0, <1>1 DEF Labels, Holders, Copies
  <1>4. Marking' => Marking \/ vault' # Absent
    BY <1>0, <1>1 DEF Marking
  <1>5. enabled
    BY <1>0 DEF Marks
  <1> QED
    BY <1>0, <1>1, <1>2, <1>3, <1>4, <1>5 DEF Marks

LEMMA MarkRowKeeps ==
    ASSUME VaultInv, NEW u \in Updaters, MarkRow(u)
    PROVE  VaultInv'
  <1> USE Different DEF VaultInv
  <1>0. /\ u \in Actors /\ pc[u] = "mark" /\ held = None /\ row' = Mark /\ Goto(u, "idle")
        /\ UNCHANGED <<vault, enabled, held, draft, copy, last, loose, saves, carries, stale, undone>>
    BY DEF MarkRow, history
  <1>1. pc'[u] = "idle" /\ \A b \in Actors : b # u => pc'[b] = pc[b]
    BY <1>0, Moved
  <1>2. TypeOK'
    BY <1>0, MovedType DEF TypeOK, Columns
  <1>3. Labels' /\ Holders' /\ Copies'
    BY <1>0, <1>1 DEF Labels, Holders, Copies
  <1>4. Marking
    BY <1>0 DEF Marking
  <1> QED
    BY <1>0, <1>1, <1>2, <1>3, <1>4 DEF Marks

-----------------------------------------------------------------------------
(* The transfer task.                                                      *)

LEMMA PickKeeps ==
    ASSUME VaultInv, NEW op \in {"sync", "restore"}, Pick(op)
    PROVE  VaultInv'
  <1> USE Different DEF VaultInv
  <1>0. /\ pc[Transfer] = "idle" /\ enabled /\ row \in Columns /\ Goto(Transfer, op)
        /\ copy' = [copy EXCEPT ![Transfer] = row]
        /\ UNCHANGED <<row, vault, enabled, held, draft, last, loose, saves, carries, stale, undone>>
    BY DEF Pick, TypeOK, history
  <1>1. pc'[Transfer] = op /\ \A b \in Actors : b # Transfer => pc'[b] = pc[b]
    BY <1>0, Moved
  <1>2. /\ copy' \in [Actors -> Columns \cup {None}]
        /\ copy'[Transfer] = row /\ \A b \in Actors : b # Transfer => copy'[b] = copy[b]
    BY <1>0, Copied
  <1>3. TypeOK'
    BY <1>0, <1>2, MovedType DEF TypeOK
  <1>4. Labels' /\ Holders' /\ Copies'
    BY <1>0, <1>1, <1>2 DEF Labels, Holders, Copies
  <1>5. Marking' => Marking
    BY <1>0, <1>1, <1>2 DEF Marking
  <1>6. Vaulted' = Vaulted
    BY <1>0 DEF Vaulted
  <1>7. Marks'
    BY <1>0, <1>1, <1>5 DEF Marks
  <1>8. ASSUME Updaters = {} PROVE Custody'
    <2>1. \A x \in Editors : pc'[x] = pc[x] /\ copy'[x] = copy[x]
      BY <1>1, <1>2
    <2>2. Known => \A x \in Editors \ stale' : Fresh(x)' => copy'[x] \in {Mark, last}
      BY <1>0, <2>1 DEF Known, Fresh
    <2>3. carries \subseteq Editors
      BY DEF TypeOK
    <2> QED
      BY <1>0, <1>5, <1>6, <1>8, <2>1, <2>2, <2>3, CustodyStays
  <1> QED
    BY <1>0, <1>3, <1>4, <1>7, <1>8

LEMMA LockRowKeeps ==
    ASSUME VaultInv, LockRow
    PROVE  VaultInv'
  <1> USE Different DEF VaultInv
  <1>0. /\ pc[Transfer] \in {"sync", "restore"} /\ held = None /\ held' = Transfer /\ row \in Columns
        /\ copy' = [copy EXCEPT ![Transfer] = row] /\ draft' = row
        /\ UNCHANGED <<row, vault, enabled, pc, last, loose, saves, carries, stale, undone>>
    BY DEF LockRow, Lock, ReadAgain, TypeOK, history
  <1>1. /\ copy' \in [Actors -> Columns \cup {None}]
        /\ copy'[Transfer] = row /\ \A b \in Actors : b # Transfer => copy'[b] = copy[b]
    BY <1>0, Copied
  <1>2. TypeOK'
    BY <1>0, <1>1 DEF TypeOK
  <1>3. Labels' /\ Holders' /\ Copies'
    BY <1>0, <1>1 DEF Labels, Holders, Copies
  <1>4. Marking' => Marking
    BY <1>0, <1>1 DEF Marking
  <1>5. Vaulted' = Vaulted
    BY <1>0 DEF Vaulted
  <1>6. Marks'
    BY <1>0, <1>4 DEF Marks
  <1>7. ASSUME Updaters = {} PROVE Custody'
    <2>1. \A x \in Editors : pc'[x] = pc[x] /\ copy'[x] = copy[x]
      BY <1>0, <1>1
    <2>2. Known => \A x \in Editors \ stale' : Fresh(x)' => copy'[x] \in {Mark, last}
      BY <1>0, <2>1 DEF Known, Fresh
    <2>3. carries \subseteq Editors
      BY DEF TypeOK
    <2> QED
      BY <1>0, <1>4, <1>5, <1>7, <2>1, <2>2, <2>3, CustodyStays
  <1> QED
    BY <1>0, <1>2, <1>3, <1>6, <1>7

\* The three ways a transfer ends, and what the secret is then.
LEMMA TransferEnds ==
    ASSUME VaultInv, SkipOrFail \/ Sync \/ Restore
    PROVE  VaultInv' /\ Stored' = Stored
  <1> USE Different DEF VaultInv
  <1>0. /\ pc[Transfer] \in {"sync", "restore"} /\ held = Transfer /\ draft = row /\ copy[Transfer] = row
        /\ held' = None /\ draft' = None /\ Goto(Transfer, "idle")
        /\ UNCHANGED <<enabled, copy, saves, carries, undone>> /\ enabled /\ row \in Columns
    BY DEF SkipOrFail, Sync, Restore, EndTransfer, Free, Holders, Marks, TypeOK, history
  <1>1. pc'[Transfer] = "idle" /\ \A b \in Actors : b # Transfer => pc'[b] = pc[b]
    BY <1>0, Moved
  <1>2. Labels' /\ Holders' /\ Copies' /\ \A e \in Editors : pc'[e] \notin {"save", "commit", "wrote"}
    BY <1>0, <1>1 DEF Labels, Holders, Copies
  <1>3. Marking' => Marking \/ row' = Mark
    BY <1>0, <1>1 DEF Marking
  <1>4. CASE SkipOrFail
    <2>1. UNCHANGED <<row, vault, last, loose, stale>>
      BY <1>4 DEF SkipOrFail, history
    <2>2. TypeOK' /\ Stored' = Stored /\ Vaulted' = Vaulted
      BY <1>0, <2>1, MovedType DEF TypeOK, Stored, Vaulted
    <2>3. Marking' => Marking
      BY <1>3, <2>1 DEF Marking
    <2>4. Marks'
      BY <1>0, <1>1, <2>1, <2>3 DEF Marks
    <2>5. ASSUME Updaters = {} PROVE Custody'
      <3>1. \A x \in Editors : pc'[x] = pc[x] /\ copy'[x] = copy[x]
        BY <1>0, <1>1
      <3>2. Known => \A x \in Editors \ stale' : Fresh(x)' => copy'[x] \in {Mark, last}
        BY <1>0, <2>1, <3>1 DEF Known, Fresh
      <3>3. carries \subseteq Editors
        BY DEF TypeOK
      <3> QED
        BY <1>0, <2>1, <2>2, <2>3, <2>5, <3>1, <3>2, <3>3, CustodyStays
    <2> QED
      BY <1>0, <1>2, <2>2, <2>4, <2>5
  <1>5. CASE Sync
    <2>1. /\ row # Mark /\ row \in Values /\ vault' = row /\ loose' = None
          /\ row' \in {row, Mark} /\ UNCHANGED <<last, stale>>
      BY <1>0, <1>5 DEF Sync, Marked, Columns, history
    <2>2. Vaulted' = row /\ vault' # Absent
      BY <2>1 DEF Vaulted
    <2>3. TypeOK' /\ Stored' = Stored
      BY <1>0, <2>1, <2>2, MovedType DEF TypeOK, Stored, Columns
    <2>4. Marks'
      BY <1>0, <1>1, <2>1, <2>2 DEF Marks
    <2>5. ASSUME Updaters = {} PROVE Custody'
      <3>1. \A x \in Editors : pc'[x] = pc[x] /\ copy'[x] = copy[x]
        BY <1>0, <1>1
      <3>2. \A x \in Editors : pc'[x] # "wrote"
        BY <1>2
      <3>3. ASSUME Known PROVE Known'
        <4>1. row = last
          BY <2>1, <3>3 DEF Known
        <4>2. \A x \in Editors \ stale' : Fresh(x)' => copy'[x] \in {Mark, last}
          BY <1>0, <2>1, <3>1, <3>3 DEF Known, Fresh
        <4>3. carries \subseteq Editors
          BY DEF TypeOK
        <4> QED
          BY <1>0, <2>1, <2>2, <3>2, <4>1, <4>2, <4>3 DEF Known, Fresh
      <3>4. undone \/ Known
        BY <2>5 DEF Custody
      <3>5. undone' \/ Known'
        BY <1>0, <3>3, <3>4, Zenon
      <3> QED
        BY <3>2, <3>5, Zenon DEF Custody
    <2> QED
      BY <1>0, <1>2, <2>3, <2>4, <2>5
  <1>6. CASE Restore
    <2>1. /\ row = Mark /\ vault \in Values /\ row' = vault /\ loose' = None
          /\ last' = (IF undone THEN last ELSE vault)
          /\ stale' = (IF vault = last THEN stale ELSE Editors)
          /\ UNCHANGED vault
      BY <1>0, <1>6 DEF Restore, Marked, Restorable, TypeOK
    <2>2. Vaulted' = vault /\ Vaulted = vault /\ vault # Absent /\ row' # Mark
      BY <2>1 DEF Vaulted
    <2>3. TypeOK' /\ Stored' = Stored
      BY <1>0, <2>1, <2>2, MovedType DEF TypeOK, Stored, Columns
    <2>4. Marks'
      BY <1>0, <1>1, <2>1, <2>2 DEF Marks
    <2>5. ASSUME Updaters = {} PROVE Custody'
      <3>1. \A x \in Editors : pc'[x] = pc[x] /\ copy'[x] = copy[x]
        BY <1>0, <1>1
      <3>2. \A x \in Editors : pc'[x] \notin {"save", "commit", "wrote"}
        BY <1>2
      <3>3. ASSUME Known, ~ undone PROVE Known'
        <4>1. last' = vault
          BY <2>1, <3>3, Zenon
        <4>2. \A x \in Editors \ stale' : stale' = stale /\ last' = last
          BY <2>1, <4>1
        <4>3. \A x \in Editors \ stale' : Fresh(x)' => copy'[x] \in {Mark, last'}
          BY <1>0, <3>1, <3>3, <4>2 DEF Known, Fresh
        <4>4. carries \subseteq Editors
          BY DEF TypeOK
        <4> QED
          BY <1>0, <2>1, <2>2, <3>2, <4>1, <4>3, <4>4 DEF Known, Fresh
      <3>4. undone \/ Known
        BY <2>5 DEF Custody
      <3>5. undone' \/ Known'
        BY <1>0, <3>3, <3>4, Zenon
      <3> QED
        BY <3>2, <3>5, Zenon DEF Custody
    <2> QED
      BY <1>0, <1>2, <2>3, <2>4, <2>5
  <1> QED
    BY <1>4, <1>5, <1>6

LEMMA RestartKeeps ==
    ASSUME VaultInv, Restart
    PROVE  VaultInv'
  <1> USE Different DEF VaultInv
  <1>0. /\ row # Mark /\ enabled' = ~enabled /\ held' = None /\ draft' = None
        /\ pc' = [a \in Actors |-> "idle"] /\ copy' = [a \in Actors |-> None]
        /\ carries' = {} /\ UNCHANGED <<row, vault, last, loose, saves, stale, undone>>
    BY DEF Restart, Marks, Marking
  <1>1. TypeOK'
    BY <1>0 DEF TypeOK
  <1>2. Labels' /\ Holders' /\ Copies'
    BY <1>0 DEF Labels, Holders, Copies
  <1>3. ~Marking'
    BY <1>0 DEF Marking
  <1>4. Marks'
    BY <1>0, <1>3 DEF Marks
  <1>5. ASSUME Updaters = {} PROVE Custody'
    <2>1. \A x \in Editors : pc'[x] = "idle"
      BY <1>0
    <2>2. Known => Known'
      BY <1>0, <1>3, <2>1 DEF Known
    <2>3. undone \/ Known
      BY <1>5 DEF Custody
    <2>4. undone' \/ Known'
      BY <1>0, <2>2, <2>3, Zenon
    <2> QED
      BY <2>1, <2>4 DEF Custody
  <1> QED
    BY <1>0, <1>1, <1>2, <1>4, <1>5

-----------------------------------------------------------------------------
(* The theorems.                                                           *)

LEMMA VaultNext ==
    ASSUME VaultInv, [Next]_vars
    PROVE  VaultInv'
  <1>1. CASE UNCHANGED vars
    BY <1>1 DEF VaultInv, vars, history, TypeOK, Labels, Holders, Copies, Marks, Marking, Custody, Known, Vaulted
  <1>2. ASSUME NEW e \in Editors, Request(e) PROVE VaultInv'
    BY <1>2, LoadKeeps, SaveKeeps, SkipMarkedKeeps, WriteVaultKeeps, WriteFailsKeeps, CommitKeeps,
       RollBackKeeps DEF Request
  <1>3. ASSUME NEW u \in Updaters, UpdateOthers(u) PROVE VaultInv'
    BY <1>3, UpdateKeeps, SkipMarkedKeeps, UpdateVaultKeeps, MarkRowKeeps DEF UpdateOthers
  <1>4. CASE TransferRow
    BY <1>4, PickKeeps, LockRowKeeps, TransferEnds DEF TransferRow
  <1>5. CASE Restart
    BY <1>5, RestartKeeps
  <1> QED
    BY <1>1, <1>2, <1>3, <1>4, <1>5 DEF Next

\* The mark is never committed before the vault took a secret: every copy of it, committed
\* or not, was made after that (VaultModelMixin, save_to_vault, sync_secret_to_vault).
THEOREM MarksHaveEntries ==
    ASSUME ValuesAssumption
    PROVE  Spec => []MarkedIsInVault
  <1>1. Init => VaultInv
    BY VaultInit
  <1>2. VaultInv /\ [Next]_vars => VaultInv'
    BY VaultNext
  <1>3. VaultInv => MarkedIsInVault
    BY DEF VaultInv, Marks, Marking, MarkedIsInVault
  <1> QED
    BY <1>1, <1>2, <1>3, PTL DEF Spec

\* VaultModelMixin.save_to_vault, _transfer_instance: without updates outside of a transaction
\* the row and the vault keep the secret a save was given last, or one a save put into the vault
\* before it was rolled back, until a request that is given none puts back the secret it has
\* loaded over one committed since.
THEOREM SecretIsKept ==
    ASSUME ValuesAssumption, Updaters = {}
    PROVE  Spec => []NoLostSecret
  <1>1. Init => VaultInv
    BY VaultInit
  <1>2. VaultInv /\ [Next]_vars => VaultInv'
    BY VaultNext
  <1>3. VaultInv => NoLostSecret
    BY DEF VaultInv, Custody, Known, Marking, NoLostSecret
  <1> QED
    BY <1>1, <1>2, <1>3, PTL DEF Spec

\* _transfer_instance locks the row and reads it again before it copies: a transfer changes
\* where the secret is and never which it is.
THEOREM TransfersKeep ==
    ASSUME ValuesAssumption
    PROVE  Spec => TransferKeepsSecret
  <1>1. Init => VaultInv
    BY VaultInit
  <1>2. VaultInv /\ [Next]_vars => VaultInv'
    BY VaultNext
  <1>3. ASSUME VaultInv PROVE TransferRow => Stored' = Stored
    <2>1. UNCHANGED <<row, vault>> => Stored' = Stored
      BY DEF Stored, Vaulted
    <2> QED
      BY <1>3, <2>1, TransferEnds DEF TransferRow, Pick, LockRow
  <1>4. VaultInv /\ [Next]_vars => [TransferRow => Stored' = Stored]_vars
    BY <1>3
  <1> QED
    BY <1>1, <1>2, <1>4, PTL DEF Spec, TransferKeepsSecret

\* VaultModelMixin: types hold; a request writes to the vault only what an account can have.
THEOREM VaultTypes ==
    ASSUME ValuesAssumption
    PROVE  Spec => []TypeOK
<1>1. Init => VaultInv
  BY VaultInit
<1>2. VaultInv /\ [Next]_vars => VaultInv'
  BY VaultNext
<1>3. VaultInv => TypeOK
  BY DEF VaultInv
<1> QED
  BY <1>1, <1>2, <1>3, PTL DEF Spec

-----------------------------------------------------------------------------
(* MountMove: secrets move to another mount of the vault.                  *)

CONSTANTS Paths, MountValues, Clients, MaxWrites, MaxMoves
VARIABLES mount, move, visit, got, used, client, written, writes, moves
Mount == INSTANCE MountMove WITH Values <- MountValues, pc <- move, todo <- visit

\* Until the setting is switched every process writes to the old mount; while a move
\* compares, a path it has compared is the same in both mounts or was written since.
MountInv ==
    /\ Mount!TypeOK
    /\ used = "old" => \A c \in Clients : client[c] = "old"
    /\ move # "idle" => used = "old"
    /\ move = "verify" => \A p \in Mount!Listed("old") \ (visit \cup written) : Mount!Same(p)

LEMMA MountInit ==
    ASSUME Mount!MountAssumption, Mount!Init
    PROVE  MountInv
BY DEF Mount!MountAssumption, Mount!Init, MountInv, Mount!TypeOK, Mount!Nothing, Mount!Mounts

LEMMA MountStep ==
    ASSUME Mount!MountAssumption,
           MountInv, [Mount!Next]_(Mount!vars)
    PROVE  MountInv'
<1> USE DEF Mount!MountAssumption, MountInv, Mount!TypeOK, Mount!Nothing, Mount!Mounts, Mount!Listed, Mount!Same
<1>1. CASE Mount!Begin
  BY <1>1 DEF Mount!Begin
<1>2. ASSUME NEW p \in Paths, Mount!ReadPath(p) PROVE MountInv'
  BY <1>2 DEF Mount!ReadPath, Mount!Gone
<1>3. ASSUME NEW p \in Paths, Mount!VerifyPath(p) PROVE MountInv'
  BY <1>3 DEF Mount!VerifyPath, Mount!Gone, Mount!Abort
<1>4. CASE Mount!PutPath
  BY <1>4 DEF Mount!PutPath, Mount!Abort, Mount!Free
<1>5. CASE Mount!BeginVerify
  BY <1>5 DEF Mount!BeginVerify, Mount!ToVerify
<1>6. CASE Mount!CallFails
  BY <1>6 DEF Mount!CallFails, Mount!Abort
<1>7. CASE Mount!Switch
  BY <1>7 DEF Mount!Switch
<1>8. ASSUME NEW c \in Clients, Mount!Refresh(c) PROVE MountInv'
  BY <1>8 DEF Mount!Refresh
<1>9. ASSUME NEW c \in Clients, NEW p \in Paths, NEW value \in MountValues \cup {Absent},
             Mount!Write(c, p, value)
      PROVE  MountInv'
  <2>1. /\ mount' = [mount EXCEPT ![client[c]] = [mount[client[c]] EXCEPT ![p] = value]]
        /\ client[c] \in {"old", "new"} /\ UNCHANGED <<move, visit, got, used, client, moves>>
        /\ writes' = writes + 1 /\ writes < MaxWrites
        /\ written' = IF client[c] = "old" THEN written \cup {p} ELSE written
    BY <1>9 DEF Mount!Write
  <2>2. mount' \in [{"old", "new"} -> [Paths -> MountValues \cup {Absent}]]
    BY <2>1
  <2>3. ASSUME move = "verify", NEW q \in Paths, q # p
        PROVE  mount'["old"][q] = mount["old"][q] /\ mount'["new"][q] = mount["new"][q]
    BY <2>1, <2>3
  <2>4. move = "verify" => written' = written \cup {p}
    BY <2>1
  <2> QED
    BY <2>1, <2>2, <2>3, <2>4
<1>10. CASE UNCHANGED Mount!vars
  BY <1>10 DEF Mount!vars
<1> QED
  BY <1>1, <1>2, <1>3, <1>4, <1>5, <1>6, <1>7, <1>8, <1>9, <1>10 DEF Mount!Next, Mount!Move

\* copy_current_secrets_from: types hold, and a move replaces no entry of the new mount,
\* whatever the processes write meanwhile.
THEOREM MovesReplaceNothing ==
    ASSUME Mount!MountAssumption
    PROVE  Mount!Spec => []Mount!TypeOK /\ Mount!NothingReplaced
<1>1. Mount!Init => MountInv
  BY MountInit
<1>2. MountInv /\ [Mount!Next]_(Mount!vars) => MountInv'
  BY MountStep
<1>3. MountInv => Mount!TypeOK
  BY DEF MountInv
<1>4. MountInv
      => [Mount!Move => \A p \in Paths :
            mount["new"][p] # Absent => mount'["new"][p] = mount["new"][p]]_(Mount!vars)
  <2> SUFFICES ASSUME MountInv, Mount!Move, NEW p \in Paths, mount["new"][p] # Absent
               PROVE  mount'["new"][p] = mount["new"][p]
    OBVIOUS
  <2>1. CASE Mount!PutPath
    BY <2>1 DEF MountInv, Mount!TypeOK, Mount!PutPath, Mount!Free, Mount!Mounts
  <2> QED
    BY <2>1 DEF Mount!Move, Mount!Begin, Mount!ReadPath, Mount!VerifyPath, Mount!BeginVerify,
                Mount!CallFails, Mount!Switch
<1> QED
  BY <1>1, <1>2, <1>3, <1>4, PTL DEF Mount!Spec, Mount!NothingReplaced

\* prepare_openbao_mount_change: the setting is switched only when every entry of the old
\* mount is in the new one, but for those that were written after they had been compared.
THEOREM ComparedSecretsAreMoved ==
    ASSUME Mount!MountAssumption
    PROVE  Mount!Spec => Mount!ComparedIsMoved
<1>1. Mount!Init => MountInv
  BY MountInit
<1>2. MountInv /\ [Mount!Next]_(Mount!vars) => MountInv'
  BY MountStep
<1>3. MountInv => [Mount!Switch => \A p \in Mount!Listed("old") \ written : Mount!Same(p)]_(Mount!vars)
  BY DEF MountInv, Mount!Switch
<1> QED
  BY <1>1, <1>2, <1>3, PTL DEF Mount!Spec, Mount!ComparedIsMoved

-----------------------------------------------------------------------------
(* SessionEndQueue: the secret is changed when a session has ended.        *)

CONSTANTS Accounts, Sessions, Delayed, Manual, Debounce, Countdown, QueueTTL,
          Workers, MaxTime
VARIABLES session, key, guard, debounced, job, attempts, refused, wiped, late, now
Queue == INSTANCE SessionEndQueue WITH lock <- guard, task <- job

Phases == {"none", "saw", "held", "changed", "failed", "clear_first", "keep_first", "refused", "clear", "keep"}
JobRec == [state: {"idle", "waiting", "scan", "run", "done"}, due: 0..(MaxTime + Countdown),
           ids: SUBSET Accounts, cur: Accounts \cup {None}, phase: Phases]
KeyRec == [status: {"QUEUED", "READY", "PROCESSING"}, owner: Queue!Tasks \cup {None}, until: 0..Queue!Forever]
SessionRec == [state: {"open", "ended"}, account: Accounts, since: Nat]

Shape ==
    /\ session \in [Sessions -> {Queue!New} \cup SessionRec]
    /\ key \in [Accounts -> {Queue!NoKey} \cup KeyRec]
    /\ guard \in [Accounts -> Queue!Tasks \cup {None}]
    /\ job \in [Queue!Tasks -> JobRec]
    /\ attempts \in [Accounts -> Nat] /\ debounced \in Nat /\ now \in 0..MaxTime
    /\ refused \subseteq Sessions /\ wiped \subseteq Sessions /\ late \subseteq Sessions
    /\ \A a \in Accounts : guard[a] # None => job[guard[a]].state = "run" /\ job[guard[a]].cur = a

\* What a task does with an account, and which accounts it has taken on.
StageInv ==
    \A k \in Queue!Tasks :
      LET t == job[k] IN
      /\ t.state \in {"idle", "waiting", "done"} => t.ids = {} /\ t.cur = None /\ t.phase = "none"
      /\ t.state = "scan" => t.phase \in {"none", "saw"}
      /\ t.phase = "none" <=> t.cur = None
      /\ t.phase = "saw" => t.state = "scan" /\ t.cur \notin t.ids
      /\ t.phase \notin {"none", "saw"} => t.state = "run" /\ t.cur \in t.ids
      /\ t.phase \in {"held", "changed"} => guard[t.cur] = k
      /\ t.phase = "refused" => guard[t.cur] # k

\* While ends of sessions are debounced, a task waits for its time.
DebounceInv ==
    debounced > now =>
      \E k \in Delayed : /\ job[k].state = "waiting"
                         /\ debounced <= job[k].due /\ job[k].due <= now + Countdown

\* A QUEUED key is found, unless its task is overdue when it expires; and a READY key is some
\* task's to take or, when it could not be prepared, to clear.
Finds(k, a) ==
    /\ job[k].state \in {"waiting", "scan"} /\ a \notin job[k].ids
    /\ job[k].due + (QueueTTL - Countdown) <= key[a].until
QueuedInv(a) ==
    key[a].status = "QUEUED" => key[a].owner = None /\ \E k \in Delayed : Finds(k, a)
Takes(k, a) ==
    /\ a \in job[k].ids
    /\ \/ guard[a] # k /\ (job[k].cur = a => job[k].phase \in {"refused", "clear"})
       \/ job[k].cur = a /\ job[k].phase \in {"failed", "clear_first"}
ReadyInv(a) ==
    key[a].status = "READY" => key[a].owner = None /\ \E k \in Queue!Tasks : Takes(k, a)
KeyInv ==
    \A a \in Accounts :
      /\ QueuedInv(a) /\ ReadyInv(a)
      /\ key[a] # Queue!NoKey /\ key[a].status # "QUEUED" => key[a].until = Queue!Forever

\* An end that is neither followed nor excused has a key that a task will find or has
\* found, or a change that has not yet reached the host.
Awaited(s) ==
    LET a == session[s].account IN
    \/ key[a].status \in {"QUEUED", "READY"}
    \/ \E k \in Queue!Tasks : job[k].cur = a /\ job[k].phase \in {"saw", "held"}

EndInv ==
    /\ \A s \in Sessions : session[s].state \in {"open", "ended"} =>
         session[s].since <= attempts[session[s].account]
    /\ \A s \in Sessions :
         session[s].state = "ended" => Queue!Followed(s) \/ s \in refused \cup wiped \cup late \/ Awaited(s)

\* The phase after a look at the key.
Looked(k) ==
    IF job[k].phase = "failed"
    THEN IF Queue!NotOfAnother(k, job[k].cur) THEN "clear_first" ELSE "keep_first"
    ELSE IF Queue!NotOfAnother(k, job[k].cur) THEN "clear" ELSE "keep"

QueueInv == Shape /\ StageInv /\ DebounceInv /\ KeyInv /\ EndInv

LEMMA ShapeIsTyped == ASSUME Shape PROVE Queue!TypeOK
BY DEF Shape, Queue!TypeOK, SessionRec, KeyRec, JobRec, Phases

\* The task k becomes what the fields say, and no other task moves.
Turns(k, state, due, ids, cur, phase) ==
    /\ job' \in [Queue!Tasks -> JobRec]
    /\ \A j \in Queue!Tasks \ {k} : job'[j] = job[j]
    /\ job'[k].state = state /\ job'[k].due = due /\ job'[k].ids = ids
    /\ job'[k].cur = cur /\ job'[k].phase = phase

LEMMA ToRecord ==
    ASSUME Shape, NEW k \in Queue!Tasks, NEW r \in JobRec, Queue!Set(k, r)
    PROVE  Turns(k, r.state, r.due, r.ids, r.cur, r.phase)
BY DEF Shape, Queue!Set, Turns

LEMMA TurnsOf ==
    ASSUME Queue!QueueAssumption, QueueInv, NEW k \in Queue!Tasks
    PROVE  /\ Queue!StartDelayed(k) => Turns(k, "scan", job[k].due, {}, None, "none")
           /\ \A a \in Accounts : Queue!SeeQueued(k, a) =>
                                    Turns(k, "scan", job[k].due, job[k].ids, a, "saw")
           /\ Queue!SetReady(k) =>
                Turns(k, "scan", job[k].due, job[k].ids \cup {job[k].cur}, None, "none")
           /\ Queue!ScanEnds(k) => Turns(k, "run", job[k].due, job[k].ids, None, "none")
           /\ \A a \in Accounts : Queue!Take(k, a) =>
                Turns(k, "run", job[k].due, job[k].ids, a, IF guard[a] = None THEN "held" ELSE "refused")
           /\ Queue!Change(k) => Turns(k, "run", job[k].due, job[k].ids, job[k].cur, "changed")
           /\ Queue!LookAtKey(k) =>
                Turns(k, "run", job[k].due, job[k].ids, job[k].cur, Looked(k))
           /\ \A a \in Accounts : Queue!FailToPrepare(k, a) =>
                Turns(k, "run", job[k].due, job[k].ids, a, "failed")
           /\ Queue!ClearKey(k) =>
                IF job[k].phase \in {"clear_first", "keep_first"}
                THEN Turns(k, "run", job[k].due, job[k].ids, job[k].cur, "refused")
                ELSE Turns(k, "run", job[k].due, job[k].ids \ {job[k].cur}, None, "none")
           /\ Queue!Finish(k) => Turns(k, "done", 0, {}, None, "none")
           /\ \A ids \in SUBSET Accounts : Queue!StartByHand(k, ids) => Turns(k, "run", 0, ids, None, "none")
<1>0. Shape /\ job[k] \in JobRec
  BY DEF QueueInv, Shape
<1>p. \A p \in {"none", "saw", "held", "changed", "failed", "clear_first", "keep_first", "refused", "clear", "keep"} :
        p \in Phases
  BY DEF Phases
<1>s. /\ job[k].state \in {"idle", "waiting", "done"} => job[k].ids = {} /\ job[k].cur = None /\ job[k].phase = "none"
      /\ job[k].phase = "none" <=> job[k].cur = None
      /\ job[k].phase = "saw" => job[k].state = "scan"
      /\ job[k].phase \notin {"none", "saw"} => job[k].state = "run"
  BY DEF QueueInv, StageInv
<1> USE DEF JobRec
<1>1. ASSUME Queue!StartDelayed(k) PROVE Turns(k, "scan", job[k].due, {}, None, "none")
  <2> DEFINE r == [job[k] EXCEPT !.state = "scan"]
  <2>1. Queue!Set(k, r) /\ job[k].state = "waiting"
    BY <1>1 DEF Queue!StartDelayed
  <2>3. /\ r \in JobRec /\ r.state = "scan" /\ r.due = job[k].due /\ r.ids = {}
        /\ r.cur = None /\ r.phase = "none"
    BY <1>0, <1>p, <1>s, <2>1
  <2> HIDE DEF r
  <2> QED
    BY <1>0, <2>1, <2>3, ToRecord DEF Turns
<1>2. ASSUME NEW a \in Accounts, Queue!SeeQueued(k, a)
      PROVE  Turns(k, "scan", job[k].due, job[k].ids, a, "saw")
  <2> DEFINE r == [job[k] EXCEPT !.cur = a, !.phase = "saw"]
  <2>1. Queue!Set(k, r) /\ job[k].state = "scan"
    BY <1>2 DEF Queue!SeeQueued
  <2>3. /\ r \in JobRec /\ r.state = "scan" /\ r.due = job[k].due /\ r.ids = job[k].ids
        /\ r.cur = a /\ r.phase = "saw"
    BY <1>0, <1>p, <1>s, <2>1
  <2> HIDE DEF r
  <2> QED
    BY <1>0, <2>1, <2>3, ToRecord DEF Turns
<1>3. ASSUME Queue!SetReady(k)
      PROVE  Turns(k, "scan", job[k].due, job[k].ids \cup {job[k].cur}, None, "none")
  <2> DEFINE r == [job[k] EXCEPT !.ids = @ \cup {job[k].cur}, !.cur = None, !.phase = "none"]
  <2>1. /\ Queue!Set(k, r)
        /\ job[k].phase = "saw"
    BY <1>3 DEF Queue!SetReady
  <2>2. job[k].state = "scan" /\ job[k].cur \in Accounts
    BY <1>0, <1>p, <1>s, <2>1
  <2>3. /\ r \in JobRec /\ r.state = "scan" /\ r.due = job[k].due /\ r.ids = job[k].ids \cup {job[k].cur}
        /\ r.cur = None /\ r.phase = "none"
    BY <1>0, <1>p, <1>s, <2>1, <2>2
  <2> HIDE DEF r
  <2> QED
    BY <1>0, <2>1, <2>3, ToRecord DEF Turns
<1>4. ASSUME Queue!ScanEnds(k) PROVE Turns(k, "run", job[k].due, job[k].ids, None, "none")
  <2> DEFINE r == [job[k] EXCEPT !.state = "run"]
  <2>1. Queue!Set(k, r) /\ job[k].cur = None
    BY <1>4 DEF Queue!ScanEnds
  <2>3. /\ r \in JobRec /\ r.state = "run" /\ r.due = job[k].due /\ r.ids = job[k].ids
        /\ r.cur = None /\ r.phase = "none"
    BY <1>0, <1>p, <1>s, <2>1
  <2> HIDE DEF r
  <2> QED
    BY <1>0, <2>1, <2>3, ToRecord DEF Turns
<1>5. ASSUME NEW a \in Accounts, Queue!Take(k, a)
      PROVE  Turns(k, "run", job[k].due, job[k].ids, a, IF guard[a] = None THEN "held" ELSE "refused")
  <2> DEFINE r == [job[k] EXCEPT !.cur = a, !.phase = IF guard[a] = None THEN "held" ELSE "refused"]
  <2>1. /\ Queue!Set(k, r)
        /\ job[k].state = "run"
    BY <1>5 DEF Queue!Take
  <2>3. /\ r \in JobRec /\ r.state = "run" /\ r.due = job[k].due /\ r.ids = job[k].ids
        /\ r.cur = a /\ r.phase = IF guard[a] = None THEN "held" ELSE "refused"
    BY <1>0, <1>p, <1>s, <2>1
  <2> HIDE DEF r
  <2> QED
    BY <1>0, <2>1, <2>3, ToRecord DEF Turns
<1>6. ASSUME Queue!Change(k) PROVE Turns(k, "run", job[k].due, job[k].ids, job[k].cur, "changed")
  <2> DEFINE r == [job[k] EXCEPT !.phase = "changed"]
  <2>1. Queue!Set(k, r) /\ job[k].phase = "held"
    BY <1>6 DEF Queue!Change
  <2>3. /\ r \in JobRec /\ r.state = "run" /\ r.due = job[k].due /\ r.ids = job[k].ids
        /\ r.cur = job[k].cur /\ r.phase = "changed"
    BY <1>0, <1>p, <1>s, <2>1
  <2> HIDE DEF r
  <2> QED
    BY <1>0, <2>1, <2>3, ToRecord DEF Turns
<1>7. ASSUME Queue!LookAtKey(k)
      PROVE  Turns(k, "run", job[k].due, job[k].ids, job[k].cur, Looked(k))
  <2> DEFINE r == [job[k] EXCEPT !.phase = Looked(k)]
  <2>1. /\ Queue!Set(k, r)
        /\ job[k].phase \in {"changed", "failed", "refused"}
        /\ Looked(k) \in {"clear_first", "keep_first", "clear", "keep"}
    BY <1>7 DEF Queue!LookAtKey, Looked
  <2>3. /\ r \in JobRec /\ r.state = "run" /\ r.due = job[k].due /\ r.ids = job[k].ids
        /\ r.cur = job[k].cur /\ r.phase = Looked(k)
    BY <1>0, <1>p, <1>s, <2>1
  <2> HIDE DEF r
  <2> QED
    BY <1>0, <2>1, <2>3, ToRecord DEF Turns
<1>8. ASSUME Queue!ClearKey(k)
      PROVE  IF job[k].phase \in {"clear_first", "keep_first"}
             THEN Turns(k, "run", job[k].due, job[k].ids, job[k].cur, "refused")
             ELSE Turns(k, "run", job[k].due, job[k].ids \ {job[k].cur}, None, "none")
  <2>1. CASE job[k].phase \in {"clear_first", "keep_first"}
    <3> DEFINE r == [job[k] EXCEPT !.phase = "refused"]
    <3>1. Queue!Set(k, r)
      BY <1>8, <2>1 DEF Queue!ClearKey
    <3>2. /\ r \in JobRec /\ r.state = "run" /\ r.due = job[k].due /\ r.ids = job[k].ids
          /\ r.cur = job[k].cur /\ r.phase = "refused"
      BY <1>0, <1>p, <1>s, <2>1
    <3> HIDE DEF r
    <3> QED
      BY <1>0, <2>1, <3>1, <3>2, ToRecord DEF Turns
  <2>2. CASE job[k].phase \notin {"clear_first", "keep_first"}
    <3> DEFINE r == [job[k] EXCEPT !.ids = @ \ {job[k].cur}, !.cur = None, !.phase = "none"]
    <3>1. Queue!Set(k, r) /\ job[k].phase \in {"clear", "keep"}
      BY <1>8, <2>2 DEF Queue!ClearKey
    <3>2. /\ r \in JobRec /\ r.state = "run" /\ r.due = job[k].due /\ r.ids = job[k].ids \ {job[k].cur}
          /\ r.cur = None /\ r.phase = "none"
      BY <1>0, <1>p, <1>s, <3>1
    <3> HIDE DEF r
    <3>3. Turns(k, r.state, r.due, r.ids, r.cur, r.phase)
      BY <1>0, <3>1, <3>2, ToRecord
    <3> QED
      BY <2>2, <3>2, <3>3
  <2> QED
    BY <2>1, <2>2
<1>9. 0 \in 0..(MaxTime + Countdown)
  BY DEF Queue!QueueAssumption
<1>10. ASSUME Queue!Finish(k) PROVE Turns(k, "done", 0, {}, None, "none")
  <2> DEFINE r == [Queue!Idle EXCEPT !.state = "done"]
  <2>1. Queue!Set(k, r)
    BY <1>10 DEF Queue!Finish
  <2>3. /\ r \in JobRec /\ r.state = "done" /\ r.due = 0 /\ r.ids = {}
        /\ r.cur = None /\ r.phase = "none"
    BY <1>0, <1>p, <1>s, <1>9, <2>1 DEF Queue!Idle
  <2> HIDE DEF r
  <2> QED
    BY <1>0, <2>1, <2>3, ToRecord DEF Turns
<1>11. ASSUME NEW ids \in SUBSET Accounts, Queue!StartByHand(k, ids)
       PROVE  Turns(k, "run", 0, ids, None, "none")
  <2> DEFINE r == [Queue!Idle EXCEPT !.state = "run", !.ids = ids]
  <2>1. Queue!Set(k, r)
    BY <1>11 DEF Queue!StartByHand
  <2>3. /\ r \in JobRec /\ r.state = "run" /\ r.due = 0 /\ r.ids = ids
        /\ r.cur = None /\ r.phase = "none"
    BY <1>0, <1>p, <1>s, <1>9, <2>1 DEF Queue!Idle
  <2> HIDE DEF r
  <2> QED
    BY <1>0, <2>1, <2>3, ToRecord DEF Turns
<1>12. ASSUME NEW a \in Accounts, Queue!FailToPrepare(k, a)
       PROVE  Turns(k, "run", job[k].due, job[k].ids, a, "failed")
  <2> DEFINE r == [job[k] EXCEPT !.cur = a, !.phase = "failed"]
  <2>1. Queue!Set(k, r) /\ job[k].state = "run"
    BY <1>12 DEF Queue!FailToPrepare
  <2>3. /\ r \in JobRec /\ r.state = "run" /\ r.due = job[k].due /\ r.ids = job[k].ids
        /\ r.cur = a /\ r.phase = "failed"
    BY <1>0, <1>p, <1>s, <2>1
  <2> HIDE DEF r
  <2> QED
    BY <1>0, <2>1, <2>3, ToRecord DEF Turns
<1> QED
  BY <1>1, <1>2, <1>3, <1>4, <1>5, <1>6, <1>7, <1>8, <1>10, <1>11, <1>12

\* Records of keys and sessions.
LEMMA Keys ==
    ASSUME Queue!QueueAssumption
    PROVE  /\ Queue!NoKey.status = "none"
           /\ \A status, owner, until : LET q == Queue!Key(status, owner, until) IN
                q.status = status /\ q.owner = owner /\ q.until = until
           /\ \A q \in KeyRec : q # Queue!NoKey
           /\ Queue!Forever \in Nat /\ \A a \in Accounts, k \in Queue!Tasks : a # None /\ k # None
           /\ Queue!New.state = "new"
BY DEF Queue!NoKey, Queue!Key, KeyRec, Queue!Forever, Queue!QueueAssumption, Queue!New

\* What is found and taken while tasks, locks and the key stay.
LEMMA KeyStays ==
    ASSUME NEW a \in Accounts, UNCHANGED <<guard, job>>, key'[a] = key[a], QueuedInv(a), ReadyInv(a)
    PROVE  QueuedInv(a)' /\ ReadyInv(a)'
<1>1. \A k \in Delayed : Finds(k, a) => Finds(k, a)'
  BY DEF Finds
<1>2. \A k \in Queue!Tasks : Takes(k, a) => Takes(k, a)'
  BY DEF Takes
<1> QED
  BY <1>1, <1>2 DEF QueuedInv, ReadyInv

LEMMA OpenKeeps ==
    ASSUME Queue!QueueAssumption, QueueInv, NEW s \in Sessions, NEW a \in Accounts, Queue!Open(s, a)
    PROVE  QueueInv'
<1> DEFINE r == [state |-> "open", account |-> a, since |-> attempts[a]]
<1>0. Shape /\ StageInv /\ DebounceInv /\ KeyInv /\ EndInv
  BY DEF QueueInv
<1>1. /\ session' = [session EXCEPT ![s] = r] /\ session[s] = Queue!New
      /\ UNCHANGED <<key, guard, debounced, job, attempts, refused, wiped, late, now>>
  BY DEF Queue!Open
<1>2. r \in SessionRec /\ r.state = "open" /\ r.since = attempts[r.account]
  BY <1>0 DEF Shape, SessionRec
<1> HIDE DEF r
<1>3. Shape' /\ StageInv' /\ DebounceInv' /\ KeyInv'
  <2>1. session' \in [Sessions -> {Queue!New} \cup SessionRec]
    BY <1>0, <1>1, <1>2 DEF Shape
  <2>2. Shape'
    BY <1>0, <1>1, <2>1 DEF Shape
  <2>3. StageInv' /\ DebounceInv'
    BY <1>0, <1>1 DEF StageInv, DebounceInv
  <2>4. KeyInv'
    BY <1>0, <1>1, KeyStays DEF KeyInv
  <2> QED
    BY <2>2, <2>3, <2>4
<1>4. \A q \in Sessions : q # s => session'[q] = session[q]
  BY <1>0, <1>1 DEF Shape
<1>5. session'[s] = r
  BY <1>0, <1>1 DEF Shape
<1>6. attempts \in [Accounts -> Nat] /\ r.account \in Accounts
  BY <1>0, <1>2 DEF Shape, SessionRec
<1>7. EndInv'
  BY <1>0, <1>1, <1>2, <1>4, <1>5, <1>6 DEF EndInv, Awaited, Queue!Followed
<1> QED
  BY <1>3, <1>7 DEF QueueInv

LEMMA EndKeeps ==
    ASSUME Queue!QueueAssumption, QueueInv, NEW s \in Sessions, Queue!End(s)
    PROVE  QueueInv'
<1> DEFINE a == session[s].account
           new == Queue!Key("QUEUED", None, Queue!QueuedUntil)
<1>0. Shape /\ StageInv /\ DebounceInv /\ KeyInv /\ EndInv
  BY DEF QueueInv
<1>1. session[s] \in SessionRec /\ a \in Accounts /\ session[s].state = "open"
  <2>1. session[s].state = "open"
    BY DEF Queue!End
  <2>2. session[s] # Queue!New
    BY <2>1, Keys
  <2> QED
    BY <1>0, <2>1, <2>2 DEF Shape, SessionRec
<1>2. /\ session' = [session EXCEPT ![s].state = "ended"]
      /\ key' = IF key[a] = Queue!NoKey THEN [key EXCEPT ![a] = new] ELSE key
      /\ refused' = refused \cup (IF key[a].status = "PROCESSING" /\ attempts[a] <= session[s].since THEN {s} ELSE {})
      /\ UNCHANGED <<guard, attempts, wiped, late, now>>
  BY DEF Queue!End, Queue!Enqueue
<1>3. \/ Queue!IsDebounced /\ UNCHANGED <<debounced, job>>
      \/ /\ ~ Queue!IsDebounced /\ debounced' = now + Debounce
         /\ \E k \in Delayed : /\ job[k].state = "idle" /\ Turns(k, "waiting", now + Countdown, {}, None, "none")
  <2>1. CASE Queue!IsDebounced
    BY <2>1 DEF Queue!End
  <2>2. ASSUME ~ Queue!IsDebounced, NEW k \in Delayed, job[k].state = "idle",
               Queue!Set(k, [Queue!Idle EXCEPT !.state = "waiting", !.due = now + Countdown])
        PROVE  Turns(k, "waiting", now + Countdown, {}, None, "none")
    <3> DEFINE r == [Queue!Idle EXCEPT !.state = "waiting", !.due = now + Countdown]
    <3>1. now + Countdown \in 0..(MaxTime + Countdown)
      BY <1>0 DEF Shape, Queue!QueueAssumption
    <3>2. /\ r \in JobRec /\ r.state = "waiting" /\ r.due = now + Countdown /\ r.ids = {}
          /\ r.cur = None /\ r.phase = "none"
      BY <3>1 DEF JobRec, Phases, Queue!Idle
    <3>3. Queue!Set(k, r) /\ k \in Queue!Tasks
      BY <2>2 DEF Queue!Tasks
    <3> HIDE DEF r
    <3> QED
      BY <1>0, <3>2, <3>3, ToRecord DEF Turns
  <2> QED
    BY <2>1, <2>2 DEF Queue!End
<1>4. new \in KeyRec /\ new.status = "QUEUED" /\ new.owner = None /\ new.until = now + QueueTTL
  BY <1>0, Keys DEF Shape, Queue!QueuedUntil, KeyRec, Queue!Key, Queue!QueueAssumption, Queue!Forever
<1> HIDE DEF new
<1>5. /\ key' \in [Accounts -> {Queue!NoKey} \cup KeyRec]
      /\ \A b \in Accounts : key'[b] = IF b = a /\ key[a] = Queue!NoKey THEN new ELSE key[b]
  BY <1>0, <1>1, <1>2, <1>4 DEF Shape
<1>6. /\ session'[s].state = "ended" /\ session'[s].account = a /\ session'[s].since = session[s].since
      /\ session' \in [Sessions -> {Queue!New} \cup SessionRec]
      /\ \A q \in Sessions : q # s => session'[q] = session[q]
  <2> DEFINE r == [session[s] EXCEPT !.state = "ended"]
  <2>1. r \in SessionRec /\ r.state = "ended" /\ r.account = a /\ r.since = session[s].since
    BY <1>1 DEF SessionRec
  <2>2. session' = [session EXCEPT ![s] = r]
    BY <1>2
  <2> HIDE DEF r
  <2> QED
    BY <1>0, <2>1, <2>2 DEF Shape
<1> HIDE DEF a
\* The task that will find the key.
<1>7. DebounceInv' /\ \E k \in Delayed : job'[k].state = "waiting" /\ job'[k].due <= now + Countdown
  <2>1. CASE Queue!IsDebounced /\ UNCHANGED <<debounced, job>>
    BY <1>0, <1>2, <2>1 DEF DebounceInv, Queue!IsDebounced
  <2>2. ASSUME debounced' = now + Debounce, NEW k \in Delayed, Turns(k, "waiting", now + Countdown, {}, None, "none")
        PROVE  DebounceInv' /\ job'[k].state = "waiting" /\ job'[k].due <= now + Countdown
    BY <1>0, <1>2, <2>2 DEF DebounceInv, Turns, Shape, Queue!QueueAssumption
  <2> QED
    BY <1>3, <2>1, <2>2
<1>8. /\ job' \in [Queue!Tasks -> JobRec] /\ debounced' \in Nat
      /\ \A k \in Queue!Tasks :
           \/ job'[k] = job[k]
           \/ /\ job[k].state = "idle" /\ job'[k].state = "waiting" /\ job'[k].ids = {}
              /\ job'[k].cur = None /\ job'[k].phase = "none"
  <2>1. CASE UNCHANGED <<debounced, job>>
    BY <1>0, <2>1 DEF Shape
  <2>2. CASE /\ debounced' = now + Debounce
             /\ \E k \in Delayed : /\ job[k].state = "idle"
                                   /\ Turns(k, "waiting", now + Countdown, {}, None, "none")
    BY <1>0, <2>2 DEF Turns, Shape, Queue!QueueAssumption, Queue!Tasks
  <2> QED
    BY <1>3, <2>1, <2>2
<1>9. \A b \in Accounts : guard[b] # None => job'[guard[b]] = job[guard[b]]
  BY <1>0, <1>8 DEF Shape
<1>10. Shape'
  <2>1. refused' \subseteq Sessions /\ wiped' \subseteq Sessions /\ late' \subseteq Sessions
    BY <1>0, <1>2 DEF Shape
  <2> QED
    BY <1>0, <1>2, <1>5, <1>6, <1>8, <1>9, <2>1 DEF Shape
<1>11. StageInv'
  BY <1>0, <1>2, <1>8, Keys DEF StageInv
<1>12. \A b \in Accounts : QueuedInv(b)'
  <2> SUFFICES ASSUME NEW b \in Accounts, key'[b].status = "QUEUED"
               PROVE  key'[b].owner = None /\ \E k \in Delayed : Finds(k, b)'
    BY DEF QueuedInv
  <2>1. CASE b = a /\ key[a] = Queue!NoKey
    <3>1. key'[b] = new /\ new.owner = None /\ new.until = now + QueueTTL
      BY <1>4, <1>5, <2>1
    <3>2. PICK k \in Delayed : job'[k].state = "waiting" /\ job'[k].due <= now + Countdown
      BY <1>7
    <3>3. job'[k].due \in Nat /\ now \in Nat
      BY <1>0, <1>8 DEF Shape, JobRec, Queue!Tasks
    <3>4. job'[k].due + (QueueTTL - Countdown) <= now + QueueTTL
      BY <3>2, <3>3 DEF Queue!QueueAssumption
    <3>5. job'[k].ids = {}
      BY <1>11, <3>2 DEF StageInv, Queue!Tasks
    <3> QED
      BY <3>1, <3>2, <3>4, <3>5 DEF Finds
  <2>2. CASE ~ (b = a /\ key[a] = Queue!NoKey)
    <3>1. key'[b] = key[b]
      BY <1>5, <2>2
    <3>2. PICK k \in Delayed : Finds(k, b)
      BY <1>0, <3>1 DEF KeyInv, QueuedInv
    <3>3. job'[k] = job[k]
      BY <1>8, <3>2 DEF Finds, Queue!Tasks
    <3> QED
      BY <1>0, <3>1, <3>2, <3>3 DEF KeyInv, QueuedInv, Finds
  <2> QED
    BY <2>1, <2>2
<1>13. \A b \in Accounts : ReadyInv(b)'
  <2> SUFFICES ASSUME NEW b \in Accounts, key'[b].status = "READY"
               PROVE  key'[b].owner = None /\ \E k \in Queue!Tasks : Takes(k, b)'
    BY DEF ReadyInv
  <2>1. key'[b] = key[b]
    BY <1>4, <1>5
  <2>2. PICK k \in Queue!Tasks : Takes(k, b)
    BY <1>0, <2>1 DEF KeyInv, ReadyInv
  <2>3. job'[k] = job[k]
    BY <1>0, <1>8, <2>2 DEF Takes, StageInv
  <2> QED
    BY <1>0, <1>2, <2>1, <2>2, <2>3 DEF KeyInv, ReadyInv, Takes
<1>14. KeyInv'
  <2>1. \A b \in Accounts : key'[b] # Queue!NoKey /\ key'[b].status # "QUEUED" => key'[b].until = Queue!Forever
    BY <1>0, <1>4, <1>5 DEF KeyInv
  <2> QED
    BY <1>12, <1>13, <2>1 DEF KeyInv
<1>15. EndInv'
  <2>1. \A q \in Sessions : session'[q].state \in {"open", "ended"} =>
           session'[q].since <= attempts'[session'[q].account]
    BY <1>0, <1>1, <1>2, <1>6 DEF EndInv, a
  <2>2. ASSUME NEW q \in Sessions, q # s, session'[q].state = "ended"
        PROVE  (Queue!Followed(q) \/ q \in refused \cup wiped \cup late \/ Awaited(q))'
    <3>1. session'[q] = session[q]
      BY <1>6, <2>2
    <3>2. CASE Queue!Followed(q) \/ q \in refused \cup wiped \cup late
      BY <1>2, <3>1, <3>2 DEF Queue!Followed
    <3>3. CASE Awaited(q)
      <4>1. session[q] \in SessionRec
        BY <1>0, <2>2, <3>1, Keys DEF Shape
      <4> DEFINE c == session[q].account
      <4>2. c \in Accounts
        BY <4>1 DEF SessionRec
      <4>3. key[c].status \in {"QUEUED", "READY"} => key'[c].status \in {"QUEUED", "READY"}
        BY <1>5, <4>2, Keys
      <4>4. \A k \in Queue!Tasks : job[k].cur = c /\ job[k].phase \in {"saw", "held"} => job'[k] = job[k]
        BY <1>0, <1>8 DEF StageInv
      <4> QED
        BY <3>1, <3>3, <4>3, <4>4 DEF Awaited
    <3> QED
      BY <1>0, <2>2, <3>1, <3>2, <3>3 DEF EndInv
  <2>3. (Queue!Followed(s) \/ s \in refused \cup wiped \cup late \/ Awaited(s))'
    <3>1. CASE key[a] = Queue!NoKey
      BY <1>1, <1>4, <1>5, <1>6, <3>1 DEF Awaited, a
    <3>2. CASE key[a].status \in {"QUEUED", "READY"}
      BY <1>1, <1>5, <1>6, <3>2, Keys DEF Awaited, a
    <3>3. CASE key[a].status = "PROCESSING" /\ attempts[a] <= session[s].since
      BY <1>2, <3>3
    <3>4. CASE key[a].status = "PROCESSING" /\ ~ (attempts[a] <= session[s].since)
      <4>1. attempts[a] \in Nat /\ session[s].since \in Nat
        BY <1>0, <1>1 DEF Shape, SessionRec, a
      <4> QED
        BY <1>2, <1>6, <3>4, <4>1 DEF Queue!Followed
    <3>5. key[a] = Queue!NoKey \/ key[a].status \in {"QUEUED", "READY", "PROCESSING"}
      BY <1>0, <1>1 DEF Shape, KeyRec, a
    <3> QED
      BY <3>1, <3>2, <3>3, <3>4, <3>5
  <2> QED
    BY <2>1, <2>2, <2>3 DEF EndInv
<1> QED
  BY <1>7, <1>10, <1>11, <1>14, <1>15 DEF QueueInv

\* An end waits on, if nothing that it waits for moves away.
LEMMA EndsStay ==
    ASSUME Queue!QueueAssumption, QueueInv, session' = session, refused' = refused,
           attempts' = attempts, wiped \subseteq wiped', late \subseteq late',
           \A s \in Sessions : session[s].state = "ended" /\ Awaited(s) /\ ~ Queue!Followed(s)
                                 => Awaited(s)' \/ s \in wiped' \cup late'
    PROVE  EndInv'
BY DEF QueueInv, EndInv, Queue!Followed

\* A step of a task that is in a key's way only when it says so.
LEMMA StartKeeps ==
    ASSUME Queue!QueueAssumption, QueueInv, NEW k \in Queue!Tasks,
           \/ \E ids \in SUBSET Accounts : Queue!StartByHand(k, ids)
           \/ Queue!StartDelayed(k) \/ Queue!ScanEnds(k) \/ Queue!Finish(k)
           \/ \E a \in Accounts : Queue!SeeQueued(k, a)
    PROVE  QueueInv'
<1>0. Shape /\ StageInv /\ DebounceInv /\ KeyInv /\ EndInv
  BY SMTT(60) DEF QueueInv
<1>1. UNCHANGED <<session, key, guard, debounced, attempts, refused, wiped, late, now>>
  BY ZenonT(60) DEF Queue!StartByHand, Queue!StartDelayed, Queue!ScanEnds, Queue!Finish, Queue!SeeQueued
<1>2. \/ /\ job[k].state = "idle" /\ \E ids \in SUBSET Accounts : Turns(k, "run", 0, ids, None, "none")
      \/ job[k].state = "waiting" /\ now >= job[k].due /\ Turns(k, "scan", job[k].due, {}, None, "none")
      \/ /\ job[k].state = "scan" /\ job[k].cur = None /\ Queue!NothingQueued(k)
         /\ Turns(k, "run", job[k].due, job[k].ids, None, "none")
      \/ /\ job[k].state = "run" /\ job[k].cur = None /\ job[k].ids = {}
         /\ Turns(k, "done", 0, {}, None, "none")
      \/ /\ job[k].state = "scan" /\ job[k].cur = None
         /\ \E a \in Accounts : a \notin job[k].ids /\ Turns(k, "scan", job[k].due, job[k].ids, a, "saw")
  BY TurnsOf DEF Queue!StartByHand, Queue!StartDelayed, Queue!ScanEnds, Queue!Finish, Queue!SeeQueued
<1>3. job[k].cur = None /\ job[k].phase = "none" /\ \A a \in Accounts : guard[a] # k
  BY <1>0, <1>2, Keys DEF StageInv, Shape
<1>4. /\ job' \in [Queue!Tasks -> JobRec] /\ \A j \in Queue!Tasks \ {k} : job'[j] = job[j]
      /\ job[k].ids \subseteq job'[k].ids
  BY <1>0, <1>2 DEF Turns, StageInv
<1>5. Shape'
  BY <1>0, <1>1, <1>3, <1>4 DEF Shape
<1>6. StageInv'
  BY <1>0, <1>1, <1>2, <1>4, Keys DEF StageInv, Turns
<1>7. DebounceInv'
  <2> SUFFICES ASSUME debounced > now PROVE DebounceInv'
    BY <1>1 DEF DebounceInv
  <2>1. PICK d \in Delayed : /\ job[d].state = "waiting"
                             /\ debounced <= job[d].due /\ job[d].due <= now + Countdown
    BY <1>0 DEF DebounceInv
  <2>2. d \in Queue!Tasks /\ job[d].due \in Nat /\ now \in Nat /\ debounced \in Nat
    BY <1>0 DEF Queue!Tasks, Shape, JobRec
  <2>3. d # k
    BY <1>2, <2>1, <2>2
  <2> QED
    BY <1>1, <1>4, <2>1, <2>2, <2>3 DEF DebounceInv
<1>8. ASSUME NEW a \in Accounts PROVE QueuedInv(a)'
  <2> SUFFICES ASSUME key[a].status = "QUEUED" PROVE \E d \in Delayed : Finds(d, a)'
    BY <1>0, <1>1 DEF KeyInv, QueuedInv
  <2>1. PICK d \in Delayed : Finds(d, a)
    BY <1>0 DEF KeyInv, QueuedInv
  <2>2. CASE d # k
    BY <1>1, <1>4, <2>1, <2>2 DEF Finds, Queue!Tasks
  <2>3. CASE d = k
    <3>1. ~ (job[k].state = "scan" /\ Queue!NothingQueued(k))
      BY <2>1, <2>3 DEF Finds, Queue!NothingQueued
    <3>2. job'[k].state = "scan" /\ a \notin job'[k].ids /\ job'[k].due = job[k].due
      BY <1>2, <2>1, <2>3, <3>1 DEF Finds, Turns
    <3> QED
      BY <1>1, <2>1, <2>3, <3>2 DEF Finds
  <2> QED
    BY <2>2, <2>3
<1>9. ASSUME NEW a \in Accounts PROVE ReadyInv(a)'
  <2> SUFFICES ASSUME key[a].status = "READY" PROVE \E d \in Queue!Tasks : Takes(d, a)'
    BY <1>0, <1>1 DEF KeyInv, ReadyInv
  <2>1. PICK d \in Queue!Tasks : Takes(d, a)
    BY <1>0 DEF KeyInv, ReadyInv
  <2>2. CASE d # k
    BY <1>1, <1>4, <2>1, <2>2 DEF Takes
  <2>3. CASE d = k
    <3>1. a \in job[k].ids /\ job[k].cur # a /\ guard[a] # k
      BY <1>3, <2>1, <2>3, Keys DEF Takes
    <3>2. a \in job'[k].ids /\ job'[k].cur # a
      BY <1>2, <1>4, <3>1, Keys DEF Turns
    <3> QED
      BY <1>1, <2>3, <3>1, <3>2 DEF Takes
  <2> QED
    BY <2>2, <2>3
<1>10. KeyInv'
  BY <1>0, <1>1, <1>8, <1>9 DEF KeyInv
<1>11. EndInv'
  <2>1. ASSUME NEW s \in Sessions, session[s].state = "ended", Awaited(s) PROVE Awaited(s)'
    <3>1. session[s].account # None
      BY <1>0, <2>1, Keys DEF Shape, SessionRec
    <3> QED
      BY <1>1, <1>3, <1>4, <2>1, <3>1 DEF Awaited
  <2> QED
    BY <1>1, <2>1, EndsStay
<1> QED
  BY <1>5, <1>6, <1>7, <1>10, <1>11 DEF QueueInv

LEMMA ReadyKeeps ==
    ASSUME Queue!QueueAssumption, QueueInv, NEW k \in Queue!Tasks, Queue!SetReady(k)
    PROVE  QueueInv'
<1>0. Shape /\ StageInv /\ DebounceInv /\ KeyInv /\ EndInv
  BY DEF QueueInv
<1>1. PICK a \in Accounts \cup {None} : a = job[k].cur
  BY <1>0 DEF Shape, JobRec
<1> DEFINE new == Queue!Key("READY", None, Queue!Forever)
<1>2. /\ job[k].phase = "saw" /\ key' = [key EXCEPT ![a] = new]
      /\ Turns(k, "scan", job[k].due, job[k].ids \cup {a}, None, "none")
      /\ UNCHANGED <<session, guard, debounced, attempts, refused, wiped, late, now>>
  BY <1>1, TurnsOf DEF Queue!SetReady
<1>3. a \in Accounts /\ job[k].state = "scan" /\ \A b \in Accounts : guard[b] # k
  BY <1>0, <1>1, <1>2, Keys DEF StageInv, Shape
<1>4. new \in KeyRec /\ new.status = "READY" /\ new.owner = None /\ new.until = Queue!Forever
  BY Keys DEF KeyRec, Queue!Key
<1> HIDE DEF new
<1>5. /\ job' \in [Queue!Tasks -> JobRec] /\ \A j \in Queue!Tasks \ {k} : job'[j] = job[j]
      /\ job'[k].state = "scan" /\ job'[k].ids = job[k].ids \cup {a} /\ job'[k].cur = None
      /\ job'[k].phase = "none" /\ job'[k].due = job[k].due
  BY <1>2 DEF Turns
<1>6. /\ key' \in [Accounts -> {Queue!NoKey} \cup KeyRec] /\ key'[a] = new
      /\ \A b \in Accounts \ {a} : key'[b] = key[b]
  BY <1>0, <1>2, <1>3, <1>4 DEF Shape
<1>7. Shape'
  BY <1>0, <1>2, <1>3, <1>5, <1>6 DEF Shape
<1>8. StageInv'
  BY <1>0, <1>2, <1>5, Keys DEF StageInv
<1>9. DebounceInv'
  BY <1>0, <1>2, <1>3, <1>5 DEF DebounceInv, Queue!Tasks
<1>10. ASSUME NEW b \in Accounts PROVE QueuedInv(b)'
  <2> SUFFICES ASSUME b # a, key[b].status = "QUEUED" PROVE \E d \in Delayed : Finds(d, b)'
    BY <1>0, <1>4, <1>6 DEF KeyInv, QueuedInv
  <2>1. PICK d \in Delayed : Finds(d, b)
    BY <1>0 DEF KeyInv, QueuedInv
  <2> QED
    BY <1>3, <1>5, <1>6, <2>1 DEF Finds, Queue!Tasks
<1>11. ASSUME NEW b \in Accounts PROVE ReadyInv(b)'
  <2>1. CASE b = a
    <3>1. Takes(k, a)'
      BY <1>2, <1>3, <1>5, Keys DEF Takes
    <3> QED
      BY <1>4, <1>6, <2>1, <3>1 DEF ReadyInv
  <2>2. CASE b # a
    <3> SUFFICES ASSUME key[b].status = "READY" PROVE \E d \in Queue!Tasks : Takes(d, b)'
      BY <1>0, <1>6, <2>2 DEF KeyInv, ReadyInv
    <3>1. PICK d \in Queue!Tasks : Takes(d, b)
      BY <1>0 DEF KeyInv, ReadyInv
    <3> QED
      BY <1>2, <1>5, <3>1, Keys DEF Takes
  <2> QED
    BY <2>1, <2>2
<1>12. KeyInv'
  BY <1>0, <1>4, <1>6, <1>10, <1>11 DEF KeyInv
<1>13. EndInv'
  <2>1. ASSUME NEW s \in Sessions, session[s].state = "ended", Awaited(s) PROVE Awaited(s)'
    <3>1. session[s].account \in Accounts
      BY <1>0, <2>1, Keys DEF Shape, SessionRec
    <3> QED
      BY <1>1, <1>2, <1>4, <1>5, <1>6, <2>1, <3>1 DEF Awaited
  <2> QED
    BY <1>2, <2>1, EndsStay
<1> QED
  BY <1>7, <1>8, <1>9, <1>12, <1>13 DEF QueueInv

LEMMA TakeKeeps ==
    ASSUME Queue!QueueAssumption, QueueInv, NEW k \in Queue!Tasks, NEW a \in Accounts, Queue!Take(k, a)
    PROVE  QueueInv'
<1>0. Shape /\ StageInv /\ DebounceInv /\ KeyInv /\ EndInv
  BY SMTT(60) DEF QueueInv
<1> DEFINE new == Queue!Key("PROCESSING", k, Queue!Forever)
           phase == IF guard[a] = None THEN "held" ELSE "refused"
<1>1. /\ job[k].state = "run" /\ job[k].cur = None /\ a \in job[k].ids
      /\ IF guard[a] = None THEN guard' = [guard EXCEPT ![a] = k] /\ key' = [key EXCEPT ![a] = new]
                            ELSE UNCHANGED <<guard, key>>
      /\ UNCHANGED <<session, debounced, attempts, refused, wiped, late, now>>
      /\ Turns(k, "run", job[k].due, job[k].ids, a, phase)
  BY TurnsOf, ZenonT(60) DEF Queue!Take
<1>2. \A b \in Accounts : guard[b] # k
  BY <1>0, <1>1, Keys DEF Shape
<1>3. new \in KeyRec /\ new.status = "PROCESSING" /\ new.until = Queue!Forever
  BY Keys DEF KeyRec, Queue!Key
<1>4. phase \in {"held", "refused"} /\ (guard[a] = None <=> phase = "held")
  OBVIOUS
<1> HIDE DEF new, phase
<1>5. /\ job' \in [Queue!Tasks -> JobRec] /\ \A j \in Queue!Tasks \ {k} : job'[j] = job[j]
      /\ job'[k].state = "run" /\ job'[k].ids = job[k].ids /\ job'[k].cur = a
      /\ job'[k].phase = phase
  BY <1>1 DEF Turns
<1>6. /\ key' \in [Accounts -> {Queue!NoKey} \cup KeyRec]
      /\ guard' \in [Accounts -> Queue!Tasks \cup {None}]
      /\ \A b \in Accounts \ {a} : key'[b] = key[b] /\ guard'[b] = guard[b]
      /\ guard[a] = None => key'[a] = new /\ guard'[a] = k
      /\ guard[a] # None => key'[a] = key[a] /\ guard'[a] = guard[a]
  BY <1>0, <1>1, <1>3 DEF Shape
<1>7. Shape'
  BY <1>0, <1>1, <1>2, <1>5, <1>6 DEF Shape
<1>8. StageInv'
  <2> SUFFICES ASSUME NEW j \in Queue!Tasks
               PROVE  LET t == job'[j] IN
                 /\ t.state \in {"idle", "waiting", "done"} => t.ids = {} /\ t.cur = None /\ t.phase = "none"
                 /\ t.state = "scan" => t.phase \in {"none", "saw"}
                 /\ t.phase = "none" <=> t.cur = None
                 /\ t.phase = "saw" => t.state = "scan" /\ t.cur \notin t.ids
                 /\ t.phase \notin {"none", "saw"} => t.state = "run" /\ t.cur \in t.ids
                 /\ t.phase \in {"held", "changed"} => guard'[t.cur] = j
                 /\ t.phase = "refused" => guard'[t.cur] # j
    BY DEF StageInv
  <2>1. CASE j = k
    BY <1>1, <1>2, <1>4, <1>5, <1>6, <2>1, Keys
  <2>2. CASE j # k
    <3>1. job'[j] = job[j]
      BY <1>5, <2>2
    <3>2. job[j].phase \in {"held", "changed", "refused"} => job[j].cur \in Accounts
      BY <1>0 DEF StageInv, Shape, JobRec
    <3>3. job[j].phase \in {"held", "changed"} => guard'[job[j].cur] = j
      BY <1>0, <1>6, <3>2, Keys DEF StageInv
    <3>4. job[j].phase = "refused" => guard'[job[j].cur] # j
      BY <1>0, <1>6, <2>2, <3>2 DEF StageInv
    <3> QED
      BY <1>0, <3>1, <3>3, <3>4 DEF StageInv
  <2> QED
    BY <2>1, <2>2
<1>9. DebounceInv'
  BY <1>0, <1>1, <1>5 DEF DebounceInv, Queue!Tasks
<1>10. ASSUME NEW b \in Accounts PROVE QueuedInv(b)'
  <2> SUFFICES ASSUME key'[b].status = "QUEUED"
               PROVE  key'[b].owner = None /\ \E d \in Delayed : Finds(d, b)'
    BY DEF QueuedInv
  <2>1. key'[b] = key[b]
    BY <1>3, <1>6
  <2>2. PICK d \in Delayed : Finds(d, b)
    BY <1>0, <2>1 DEF KeyInv, QueuedInv
  <2>3. d # k
    BY <1>1, <2>2 DEF Finds
  <2> QED
    BY <1>0, <1>5, <2>1, <2>2, <2>3 DEF KeyInv, QueuedInv, Finds, Queue!Tasks
<1>11. ASSUME NEW b \in Accounts PROVE ReadyInv(b)'
  <2> SUFFICES ASSUME key'[b].status = "READY"
               PROVE  key'[b].owner = None /\ \E d \in Queue!Tasks : Takes(d, b)'
    BY DEF ReadyInv
  <2>1. key'[b] = key[b] /\ guard'[b] = guard[b]
    BY <1>3, <1>6
  <2>2. PICK d \in Queue!Tasks : Takes(d, b)
    BY <1>0, <2>1 DEF KeyInv, ReadyInv
  <2>3. d # k => job'[d] = job[d]
    BY <1>5
  <2>4. ASSUME d = k PROVE Takes(d, b)'
    <3>1. b \in job'[k].ids /\ (job'[k].cur = b => job'[k].phase = "refused")
      BY <1>3, <1>4, <1>5, <1>6, <2>2, <2>4 DEF Takes
    <3>2. guard'[b] # k
      BY <1>2, <2>1
    <3> QED
      BY <2>4, <3>1, <3>2 DEF Takes
  <2>5. d # k => Takes(d, b)'
    BY <2>1, <2>2, <2>3 DEF Takes
  <2>6. key[b].owner = None
    BY <1>0, <2>1 DEF KeyInv, ReadyInv
  <2> QED
    BY <2>1, <2>4, <2>5, <2>6
<1>12. KeyInv'
  BY <1>0, <1>3, <1>6, <1>10, <1>11 DEF KeyInv
<1>13. EndInv'
  <2>1. ASSUME NEW s \in Sessions, session[s].state = "ended", Awaited(s) PROVE Awaited(s)'
    <3>1. session[s].account \in Accounts
      BY <1>0, <2>1, Keys DEF Shape, SessionRec
    <3>2. CASE session[s].account = a /\ guard[a] = None
      BY <1>1, <1>4, <1>5, <3>2 DEF Awaited
    <3>3. CASE ~ (session[s].account = a /\ guard[a] = None)
      <4>1. key'[session[s].account] = key[session[s].account]
        BY <1>6, <3>1, <3>3
      <4> QED
        BY <1>1, <1>5, <2>1, <3>1, <4>1, Keys DEF Awaited
    <3> QED
      BY <3>2, <3>3
  <2> QED
    BY <1>1, <2>1, EndsStay
<1> QED
  BY <1>7, <1>8, <1>9, <1>12, <1>13 DEF QueueInv

LEMMA ChangeKeeps ==
    ASSUME Queue!QueueAssumption, QueueInv, NEW k \in Queue!Tasks, Queue!Change(k)
    PROVE  QueueInv'
<1>0. Shape /\ StageInv /\ DebounceInv /\ KeyInv /\ EndInv
  BY DEF QueueInv
<1>1. PICK a \in Accounts \cup {None} : a = job[k].cur
  BY <1>0 DEF Shape, JobRec
<1>2. /\ job[k].phase = "held" /\ attempts' = [attempts EXCEPT ![a] = @ + 1]
      /\ Turns(k, "run", job[k].due, job[k].ids, a, "changed")
      /\ UNCHANGED <<session, key, guard, debounced, refused, wiped, late, now>>
  BY <1>1, TurnsOf DEF Queue!Change
<1>3. a \in Accounts /\ job[k].state = "run" /\ a \in job[k].ids /\ guard[a] = k
  BY <1>0, <1>1, <1>2, Keys DEF StageInv, Shape
<1>4. /\ job' \in [Queue!Tasks -> JobRec] /\ \A j \in Queue!Tasks \ {k} : job'[j] = job[j]
      /\ job'[k].state = "run" /\ job'[k].ids = job[k].ids /\ job'[k].cur = a
      /\ job'[k].phase = "changed"
  BY <1>2 DEF Turns
<1>5. /\ attempts' \in [Accounts -> Nat] /\ attempts'[a] = attempts[a] + 1 /\ attempts[a] \in Nat
      /\ \A b \in Accounts \ {a} : attempts'[b] = attempts[b]
  BY <1>0, <1>2, <1>3 DEF Shape
<1>6. Shape'
  BY <1>0, <1>1, <1>2, <1>3, <1>4, <1>5 DEF Shape
<1>7. StageInv'
  BY <1>0, <1>1, <1>2, <1>3, <1>4, Keys DEF StageInv
<1>8. DebounceInv'
  BY <1>0, <1>2, <1>3, <1>4 DEF DebounceInv, Queue!Tasks
<1>9. ASSUME NEW b \in Accounts PROVE QueuedInv(b)' /\ ReadyInv(b)'
  <2>1. ASSUME NEW d \in Delayed, Finds(d, b) PROVE Finds(d, b)'
    BY <1>2, <1>3, <1>4, <2>1 DEF Finds, Queue!Tasks
  <2>2. ASSUME NEW d \in Queue!Tasks, Takes(d, b) PROVE Takes(d, b)'
    BY <1>1, <1>2, <1>3, <1>4, <2>2 DEF Takes
  <2> QED
    BY <1>0, <1>2, <2>1, <2>2 DEF KeyInv, QueuedInv, ReadyInv
<1>10. KeyInv'
  BY <1>0, <1>2, <1>9 DEF KeyInv
<1>11. EndInv'
  <2>1. ASSUME NEW s \in Sessions, session[s].state \in {"open", "ended"}
        PROVE  /\ session[s].account \in Accounts /\ session[s].since \in Nat
               /\ session[s].since <= attempts'[session[s].account]
               /\ session[s].account = a => session[s].since < attempts'[a]
    <3>1. session[s] \in SessionRec
      BY <1>0, <2>1, Keys DEF Shape
    <3>2. session[s].since <= attempts[session[s].account]
      BY <1>0, <2>1 DEF EndInv
    <3> QED
      BY <1>5, <3>1, <3>2 DEF SessionRec
  <2>2. ASSUME NEW s \in Sessions, session[s].state = "ended"
        PROVE  (Queue!Followed(s) \/ s \in refused \cup wiped \cup late \/ Awaited(s))'
    <3>1. CASE session[s].account = a
      <4>1. attempts'[a] > session[s].since
        BY <1>5, <2>1, <2>2, <3>1
      <4> QED
        BY <1>2, <2>2, <3>1, <4>1 DEF Queue!Followed
    <3>2. CASE session[s].account # a
      <4>1. attempts'[session[s].account] = attempts[session[s].account]
        BY <1>5, <2>1, <2>2, <3>2
      <4>2. Awaited(s) => Awaited(s)'
        BY <1>1, <1>2, <1>4, <3>2 DEF Awaited
      <4> QED
        BY <1>0, <1>2, <2>2, <4>1, <4>2 DEF EndInv, Queue!Followed
    <3> QED
      BY <3>1, <3>2
  <2> QED
    BY <1>2, <2>1, <2>2 DEF EndInv
<1> QED
  BY <1>6, <1>7, <1>8, <1>10, <1>11 DEF QueueInv

LEMMA LookKeeps ==
    ASSUME Queue!QueueAssumption, QueueInv, NEW k \in Queue!Tasks, Queue!LookAtKey(k)
    PROVE  QueueInv'
<1>0. Shape /\ StageInv /\ DebounceInv /\ KeyInv /\ EndInv
  BY DEF QueueInv
<1>1. PICK a \in Accounts \cup {None} : a = job[k].cur
  BY <1>0 DEF Shape, JobRec
<1> DEFINE phase == Looked(k)
<1>2. /\ job[k].phase \in {"changed", "failed", "refused"}
      /\ Turns(k, "run", job[k].due, job[k].ids, a, phase)
      /\ UNCHANGED <<session, key, guard, debounced, attempts, refused, wiped, late, now>>
  BY <1>1, TurnsOf DEF Queue!LookAtKey
<1>3. a \in Accounts /\ job[k].state = "run" /\ a \in job[k].ids
  BY <1>0, <1>1, <1>2, Keys DEF StageInv, Shape
<1>4. /\ phase \in {"clear_first", "keep_first", "clear", "keep"}
      /\ key[a].owner = None =>
           phase = IF job[k].phase = "failed" THEN "clear_first" ELSE "clear"
  BY <1>1 DEF Queue!NotOfAnother, Looked
<1> HIDE DEF phase
<1>5. /\ job' \in [Queue!Tasks -> JobRec] /\ \A j \in Queue!Tasks \ {k} : job'[j] = job[j]
      /\ job'[k].state = "run" /\ job'[k].ids = job[k].ids /\ job'[k].cur = a
      /\ job'[k].phase = phase
  BY <1>2 DEF Turns
<1>6. Shape'
  BY <1>0, <1>1, <1>2, <1>3, <1>5 DEF Shape
<1>7. StageInv'
  <2>1. a # None
    BY <1>3, Keys
  <2> QED
    BY <1>0, <1>2, <1>3, <1>4, <1>5, <2>1, SMTT(60) DEF StageInv
<1>8. DebounceInv'
  BY <1>0, <1>2, <1>3, <1>5 DEF DebounceInv, Queue!Tasks
<1>9. ASSUME NEW b \in Accounts PROVE QueuedInv(b)' /\ ReadyInv(b)'
  <2>1. ASSUME NEW d \in Delayed, Finds(d, b) PROVE Finds(d, b)'
    BY <1>2, <1>3, <1>5, <2>1 DEF Finds, Queue!Tasks
  <2>2. ASSUME NEW d \in Queue!Tasks, key[b].owner = None, Takes(d, b) PROVE Takes(d, b)'
    BY <1>1, <1>2, <1>3, <1>4, <1>5, <2>2 DEF Takes
  <2> QED
    BY <1>0, <1>2, <2>1, <2>2 DEF KeyInv, QueuedInv, ReadyInv
<1>10. KeyInv'
  BY <1>0, <1>2, <1>9 DEF KeyInv
<1>11. EndInv'
  <2>1. ASSUME NEW s \in Sessions, session[s].state = "ended", Awaited(s) PROVE Awaited(s)'
    BY <1>1, <1>2, <1>5, <2>1, SMTT(60) DEF Awaited
  <2> QED
    BY <1>2, <2>1, EndsStay
<1> QED
  BY <1>6, <1>7, <1>8, <1>10, <1>11 DEF QueueInv

\* The preparation failed, with the lock or without: the key is the task's to clear.
LEMMA FailKeeps ==
    ASSUME Queue!QueueAssumption, QueueInv, NEW k \in Queue!Tasks, NEW a \in Accounts,
           Queue!FailToPrepare(k, a)
    PROVE  QueueInv'
<1>0. Shape /\ StageInv /\ DebounceInv /\ KeyInv /\ EndInv
  BY DEF QueueInv
<1>1. /\ job[k].state = "run" /\ job[k].cur = None /\ a \in job[k].ids
      /\ guard' = guard \/ (guard[a] = None /\ guard' = [guard EXCEPT ![a] = k])
      /\ UNCHANGED <<session, key, debounced, attempts, refused, wiped, late, now>>
      /\ Turns(k, "run", job[k].due, job[k].ids, a, "failed")
  BY TurnsOf DEF Queue!FailToPrepare
<1>2. \A b \in Accounts : guard[b] # k
  BY <1>0, <1>1, Keys DEF Shape
<1>3. /\ job' \in [Queue!Tasks -> JobRec] /\ \A j \in Queue!Tasks \ {k} : job'[j] = job[j]
      /\ job'[k].state = "run" /\ job'[k].ids = job[k].ids /\ job'[k].cur = a
      /\ job'[k].phase = "failed"
  BY <1>1 DEF Turns
<1>4. /\ guard' \in [Accounts -> Queue!Tasks \cup {None}]
      /\ \A b \in Accounts : guard'[b] = guard[b] \/ (b = a /\ guard[a] = None /\ guard'[a] = k)
  BY <1>0, <1>1 DEF Shape
<1>5. Shape'
  BY <1>0, <1>1, <1>2, <1>3, <1>4 DEF Shape
<1>6. StageInv'
  <2>1. ASSUME NEW j \in Queue!Tasks, j # k
        PROVE  /\ job[j].phase \in {"held", "changed"} => guard'[job[j].cur] = j
               /\ job[j].phase = "refused" => guard'[job[j].cur] # j
    <3>1. job[j].phase \in {"held", "changed", "refused"} => job[j].cur \in Accounts
      BY <1>0 DEF StageInv, Shape, JobRec
    <3> QED
      BY <1>0, <1>4, <2>1, <3>1, Keys DEF StageInv
  <2> QED
    BY <1>0, <1>1, <1>3, <2>1, Keys DEF StageInv
<1>7. DebounceInv'
  BY <1>0, <1>1, <1>3 DEF DebounceInv, Queue!Tasks
<1>8. ASSUME NEW b \in Accounts PROVE QueuedInv(b)' /\ ReadyInv(b)'
  <2>1. ASSUME NEW d \in Delayed, Finds(d, b) PROVE Finds(d, b)'
    BY <1>1, <1>3, <2>1 DEF Finds, Queue!Tasks
  <2>2. ASSUME NEW d \in Queue!Tasks, Takes(d, b) PROVE Takes(d, b)'
    <3>1. CASE d = k
      BY <1>1, <1>2, <1>3, <1>4, <2>2, <3>1, Keys DEF Takes
    <3>2. CASE d # k
      <4>1. job'[d] = job[d] /\ (guard[b] # d => guard'[b] # d)
        BY <1>3, <1>4, <3>2
      <4> QED
        BY <2>2, <4>1 DEF Takes
    <3> QED
      BY <3>1, <3>2
  <2> QED
    BY <1>0, <1>1, <2>1, <2>2 DEF KeyInv, QueuedInv, ReadyInv
<1>9. KeyInv'
  BY <1>0, <1>1, <1>8 DEF KeyInv
<1>10. EndInv'
  <2>1. ASSUME NEW s \in Sessions, session[s].state = "ended", Awaited(s) PROVE Awaited(s)'
    <3>1. session[s].account # None
      BY <1>0, <2>1, Keys DEF Shape, SessionRec
    <3> QED
      BY <1>1, <1>3, <2>1, <3>1 DEF Awaited
  <2> QED
    BY <1>1, <2>1, EndsStay
<1> QED
  BY <1>5, <1>6, <1>7, <1>9, <1>10 DEF QueueInv

LEMMA ClearKeeps ==
    ASSUME Queue!QueueAssumption, QueueInv, NEW k \in Queue!Tasks, Queue!ClearKey(k)
    PROVE  QueueInv'
<1>0. Shape /\ StageInv /\ DebounceInv /\ KeyInv /\ EndInv
  BY DEF QueueInv
<1>1. PICK a \in Accounts \cup {None} : a = job[k].cur
  BY <1>0 DEF Shape, JobRec
<1> DEFINE keeps == job[k].phase \in {"keep_first", "keep"}
           first == job[k].phase \in {"clear_first", "keep_first"}
<1>2. /\ job[k].phase \in {"clear_first", "keep_first", "clear", "keep"}
      /\ IF keeps THEN UNCHANGED <<key, wiped>>
         ELSE /\ key' = [key EXCEPT ![a] = Queue!NoKey]
              /\ wiped' = wiped \cup (IF key[a] # Queue!NoKey /\ key[a].owner # k
                                      THEN {s \in Queue!EndedOn(a) : ~ Queue!Followed(s)} ELSE {})
      /\ guard' = [b \in Accounts |-> IF guard[b] = k THEN None ELSE guard[b]]
      /\ IF first THEN Turns(k, "run", job[k].due, job[k].ids, a, "refused")
                  ELSE Turns(k, "run", job[k].due, job[k].ids \ {a}, None, "none")
      /\ UNCHANGED <<session, debounced, attempts, refused, late, now>>
  BY <1>1, TurnsOf, ZenonT(60) DEF Queue!ClearKey, Queue!Release
<1>3. a \in Accounts /\ job[k].state = "run" /\ a \in job[k].ids
  BY <1>0, <1>1, <1>2, Keys DEF StageInv, Shape
<1>4. /\ job' \in [Queue!Tasks -> JobRec] /\ \A j \in Queue!Tasks \ {k} : job'[j] = job[j]
      /\ job'[k].state = "run" /\ job[k].ids \ {a} \subseteq job'[k].ids
      /\ IF first THEN job'[k].ids = job[k].ids /\ job'[k].cur = a /\ job'[k].phase = "refused"
                  ELSE job'[k].cur = None /\ job'[k].phase = "none"
  BY <1>2 DEF Turns
<1>5. /\ key' \in [Accounts -> {Queue!NoKey} \cup KeyRec]
      /\ \A b \in Accounts \ {a} : key'[b] = key[b]
      /\ key'[a] = IF keeps THEN key[a] ELSE Queue!NoKey
  BY <1>0, <1>2, <1>3 DEF Shape
<1>6. wiped \subseteq wiped' /\ wiped' \subseteq Sessions
  BY <1>0, <1>2 DEF Shape, Queue!EndedOn
<1>7. /\ guard' \in [Accounts -> Queue!Tasks \cup {None}]
      /\ \A b \in Accounts : guard'[b] # k /\ (guard[b] # k => guard'[b] = guard[b])
      /\ \A b \in Accounts : guard'[b] \in {guard[b], None}
  BY <1>0, <1>2, Keys DEF Shape
<1>8. Shape'
  <2>1. \A b \in Accounts : guard'[b] # None => job'[guard'[b]].state = "run" /\ job'[guard'[b]].cur = b
    BY <1>0, <1>4, <1>7 DEF Shape
  <2> QED
    BY <1>0, <1>2, <1>4, <1>5, <1>6, <1>7, <2>1 DEF Shape
<1>9. StageInv'
  <2>1. ASSUME NEW j \in Queue!Tasks, j # k
        PROVE  /\ job[j].phase \in {"held", "changed"} => guard'[job[j].cur] = j
               /\ job[j].phase = "refused" => guard'[job[j].cur] # j
    <3>1. job[j].phase \in {"held", "changed", "refused"} => job[j].cur \in Accounts
      BY <1>0 DEF StageInv, Shape, JobRec
    <3> QED
      BY <1>0, <1>7, <2>1, <3>1, Keys DEF StageInv
  <2>2. a # None /\ guard'[a] # k
    BY <1>3, <1>7, Keys
  <2>3. /\ job'[k].phase = "none" <=> job'[k].cur = None
        /\ job'[k].phase \in {"none", "refused"}
        /\ job'[k].phase = "refused" => job'[k].cur = a /\ a \in job'[k].ids
    BY <1>3, <1>4, <2>2
  <2> QED
    BY <1>0, <1>4, <2>1, <2>2, <2>3, SMTT(60) DEF StageInv
<1>10. DebounceInv'
  BY <1>0, <1>2, <1>3, <1>4 DEF DebounceInv, Queue!Tasks
<1>11. ASSUME NEW b \in Accounts PROVE QueuedInv(b)'
  <2> SUFFICES ASSUME key'[b].status = "QUEUED"
               PROVE  key'[b].owner = None /\ \E d \in Delayed : Finds(d, b)'
    BY DEF QueuedInv
  <2>1. key'[b] = key[b]
    BY <1>5, Keys
  <2>2. PICK d \in Delayed : Finds(d, b)
    BY <1>0, <2>1 DEF KeyInv, QueuedInv
  <2> QED
    BY <1>0, <1>3, <1>4, <2>1, <2>2 DEF KeyInv, QueuedInv, Finds, Queue!Tasks
<1>12. ASSUME NEW b \in Accounts PROVE ReadyInv(b)'
  <2> SUFFICES ASSUME key'[b].status = "READY"
               PROVE  key'[b].owner = None /\ \E d \in Queue!Tasks : Takes(d, b)'
    BY DEF ReadyInv
  <2>1. key'[b] = key[b] /\ (b = a => keeps)
    BY <1>5, Keys
  <2>2. PICK d \in Queue!Tasks : Takes(d, b)
    BY <1>0, <2>1 DEF KeyInv, ReadyInv
  <2>3. ASSUME d = k PROVE Takes(d, b)'
    <3>1. b # a
      BY <1>1, <1>2, <2>1, <2>2, <2>3 DEF Takes
    <3>2. b \in job'[k].ids /\ job'[k].cur # b /\ guard'[b] # k
      BY <1>4, <1>7, <2>2, <2>3, <3>1, Keys DEF Takes
    <3> QED
      BY <2>3, <3>2 DEF Takes
  <2>4. ASSUME d # k PROVE Takes(d, b)'
    <3>1. job'[d] = job[d] /\ (guard[b] # d => guard'[b] # d)
      BY <1>4, <1>7, <2>4, Keys
    <3> QED
      BY <2>2, <3>1 DEF Takes
  <2>5. key[b].owner = None
    BY <1>0, <2>1 DEF KeyInv, ReadyInv
  <2> QED
    BY <2>1, <2>3, <2>4, <2>5
<1>13. KeyInv'
  BY <1>0, <1>5, <1>11, <1>12 DEF KeyInv
<1>14. EndInv'
  <2>1. ASSUME NEW s \in Sessions, session[s].state = "ended", Awaited(s), ~ Queue!Followed(s)
        PROVE  Awaited(s)' \/ s \in wiped'
    <3> DEFINE c == session[s].account
    <3>1. c \in Accounts
      BY <1>0, <2>1, Keys DEF Shape, SessionRec
    <3>2. ASSUME NEW j \in Queue!Tasks, job[j].cur = c, job[j].phase \in {"saw", "held"}
          PROVE  Awaited(s)'
      BY <1>2, <1>4, <3>2 DEF Awaited
    <3>3. CASE key[c].status \in {"QUEUED", "READY"}
      <4>1. CASE c # a \/ keeps
        <5>1. key'[c] = key[c]
          BY <1>5, <3>1, <4>1
        <5> QED
          BY <1>2, <3>3, <5>1 DEF Awaited
      <4>2. CASE c = a /\ ~ keeps
        <5>1. key[a].owner = None
          BY <1>0, <1>3, <3>3, <4>2 DEF KeyInv, QueuedInv, ReadyInv
        <5>2. key[a].status # "none" /\ None # k
          <6>1. key[a].status \in {"QUEUED", "READY"}
            BY <3>3, <4>2
          <6> QED
            BY <1>3, <6>1, Keys
        <5>3. key[a] # Queue!NoKey
          BY <5>2, Keys
        <5> QED
          BY <1>2, <2>1, <4>2, <5>1, <5>2, <5>3 DEF Queue!EndedOn
      <4> QED
        BY <1>2, <4>1, <4>2
    <3> QED
      BY <2>1, <3>2, <3>3 DEF Awaited
  <2> QED
    BY <1>2, <1>6, <2>1, EndsStay
<1> QED
  BY <1>8, <1>9, <1>10, <1>13, <1>14 DEF QueueInv

\* Only a QUEUED key expires, and then the task that was to find it is overdue.
LEMMA TickKeeps ==
    ASSUME Queue!QueueAssumption, QueueInv, Queue!Tick
    PROVE  QueueInv'
<1>0. Shape /\ StageInv /\ DebounceInv /\ KeyInv /\ EndInv
  BY DEF QueueInv
<1>1. /\ now < MaxTime /\ now' = now + 1
      /\ key' = [a \in Accounts |-> IF Queue!Expired(a) THEN Queue!NoKey ELSE key[a]]
      /\ late' = late \cup
           (IF \E k \in Delayed : Queue!Overdue(k)
            THEN {s \in Sessions : ~ Queue!Followed(s) /\
                                   \E a \in Accounts : Queue!Expired(a) /\ s \in Queue!EndedOn(a)}
            ELSE {})
      /\ UNCHANGED <<session, guard, debounced, job, attempts, refused, wiped>>
  BY DEF Queue!Tick
<1>2. now \in Nat /\ MaxTime \in Nat /\ QueueTTL \in Nat \ {0} /\ Countdown \in Nat
  BY <1>0 DEF Shape, Queue!QueueAssumption
<1>3. ASSUME NEW a \in Accounts, Queue!Expired(a)
      PROVE  key[a].status = "QUEUED" /\ \E k \in Delayed : Queue!Overdue(k)
  <2>1. key[a] \in KeyRec /\ key[a].until \in Nat /\ key[a].until <= now + 1
    BY <1>0, <1>3 DEF Shape, KeyRec, Queue!Expired
  <2>2. key[a].status = "QUEUED"
    <3>1. key[a].status # "QUEUED" => key[a].until = MaxTime + QueueTTL
      BY <1>0, <1>3 DEF KeyInv, Queue!Forever, Queue!Expired
    <3> QED
      BY <1>1, <1>2, <2>1, <3>1
  <2>3. PICK k \in Delayed : Finds(k, a)
    BY <1>0, <2>2 DEF KeyInv, QueuedInv
  <2>4. k \in Queue!Tasks /\ job[k].due \in Nat
    BY <1>0 DEF Queue!Tasks, Shape, JobRec
  <2>5. Queue!Overdue(k)
    BY <1>2, <2>1, <2>3, <2>4 DEF Finds, Queue!Overdue
  <2> QED
    BY <2>2, <2>5
<1>4. /\ \A a \in Accounts : key'[a] = key[a] \/ key'[a] = Queue!NoKey
      /\ \A a \in Accounts : ~ Queue!Expired(a) => key'[a] = key[a]
      /\ key' \in [Accounts -> {Queue!NoKey} \cup KeyRec]
  BY <1>0, <1>1 DEF Shape
<1>5. late \subseteq late' /\ late' \subseteq Sessions
  BY <1>0, <1>1 DEF Shape
<1>6. Shape'
  BY <1>0, <1>1, <1>2, <1>4, <1>5 DEF Shape
<1>7. StageInv'
  BY <1>0, <1>1 DEF StageInv
<1>8. KeyInv'
  <2>1. ASSUME NEW a \in Accounts, key'[a] = Queue!NoKey
        PROVE  QueuedInv(a)' /\ ReadyInv(a)'
    BY <2>1, Keys DEF QueuedInv, ReadyInv
  <2>2. ASSUME NEW a \in Accounts, key'[a] = key[a]
        PROVE  QueuedInv(a)' /\ ReadyInv(a)'
    BY <1>0, <1>1, <2>2, KeyStays DEF KeyInv
  <2>3. \A a \in Accounts : key'[a] # Queue!NoKey /\ key'[a].status # "QUEUED" => key'[a].until = Queue!Forever
    BY <1>0, <1>4 DEF KeyInv
  <2> QED
    BY <1>4, <2>1, <2>2, <2>3 DEF KeyInv
<1>9. DebounceInv'
  <2> SUFFICES ASSUME debounced > now' PROVE DebounceInv'
    BY <1>1 DEF DebounceInv
  <2>1. debounced > now /\ debounced \in Nat
    BY <1>0, <1>1, <1>2 DEF Shape
  <2>2. PICK d \in Delayed : /\ job[d].state = "waiting"
                             /\ debounced <= job[d].due /\ job[d].due <= now + Countdown
    BY <1>0, <2>1 DEF DebounceInv
  <2>3. job[d].due \in Nat
    BY <1>0 DEF Queue!Tasks, Shape, JobRec
  <2>4. job[d].due <= now' + Countdown
    BY <1>1, <1>2, <2>2, <2>3
  <2> QED
    BY <1>1, <2>2, <2>4 DEF DebounceInv
<1>10. EndInv'
  <2>1. ASSUME NEW s \in Sessions, session[s].state = "ended", Awaited(s), ~ Queue!Followed(s)
        PROVE  Awaited(s)' \/ s \in wiped' \cup late'
    <3> DEFINE a == session[s].account
    <3>1. a \in Accounts
      BY <1>0, <2>1, Keys DEF Shape, SessionRec
    <3>2. CASE ~ Queue!Expired(a)
      <4>1. key'[a] = key[a]
        BY <1>4, <3>1, <3>2
      <4> QED
        BY <1>1, <2>1, <4>1 DEF Awaited
    <3>3. CASE Queue!Expired(a)
      <4>1. s \in Queue!EndedOn(a)
        BY <2>1 DEF Queue!EndedOn
      <4> QED
        BY <1>1, <1>3, <2>1, <3>1, <3>3, <4>1
    <3> QED
      BY <3>2, <3>3
  <2> QED
    BY <1>1, <1>5, <2>1, EndsStay
<1> QED
  BY <1>6, <1>7, <1>8, <1>9, <1>10 DEF QueueInv

LEMMA QueueBegins ==
    ASSUME Queue!QueueAssumption, Queue!Init
    PROVE  QueueInv
<1> USE DEF Queue!Init
<1>1. Queue!Idle \in JobRec /\ 0 \in 0..MaxTime
  BY DEF Queue!Idle, JobRec, Phases, Queue!QueueAssumption
<1>2. Shape
  BY <1>1 DEF Shape
<1>3. StageInv
  BY <1>2, Keys DEF StageInv, Queue!Idle
<1>4. KeyInv
  BY Keys DEF KeyInv, QueuedInv, ReadyInv
<1>5. EndInv
  BY Keys DEF EndInv
<1> QED
  BY <1>2, <1>3, <1>4, <1>5 DEF QueueInv, DebounceInv

LEMMA QueueStep ==
    ASSUME Queue!QueueAssumption, QueueInv, [Queue!Next]_(Queue!vars)
    PROVE  QueueInv'
<1>1. CASE UNCHANGED Queue!vars
  <2>1. UNCHANGED <<session, key, guard, debounced, job, attempts, refused, wiped, late, now>>
    BY <1>1 DEF Queue!vars
  <2>2. Shape' /\ StageInv' /\ DebounceInv'
    BY <2>1 DEF QueueInv, Shape, StageInv, DebounceInv
  <2>3. KeyInv'
    BY <2>1, KeyStays DEF QueueInv, KeyInv
  <2>4. EndInv'
    BY <2>1 DEF QueueInv, EndInv, Awaited, Queue!Followed
  <2> QED
    BY <2>2, <2>3, <2>4 DEF QueueInv
<1>2. \A k \in Manual : k \in Queue!Tasks
  BY DEF Queue!Tasks
<1> QED
  BY <1>1, <1>2, OpenKeeps, EndKeeps, StartKeeps, ReadyKeeps, TakeKeeps, ChangeKeeps, LookKeeps, FailKeeps,
     ClearKeeps, TickKeeps DEF Queue!Next, Queue!Work

\* enqueue_change_secret_task and what it delays, for any accounts, tasks, debounce times, delays
\* and workers, however long a task waits for one: types hold, and the end of a session is
\* followed by a change of the secret of its account, or a task will still see to it, or it met
\* the key of a change already made, had its key cleared by a change that did not set it (not
\* let in, or not prepared), or had its key expire while its task was overdue.
THEOREM EndsAreNotForgotten ==
    ASSUME Queue!QueueAssumption
    PROVE  Queue!Spec => [](Queue!TypeOK /\ Queue!NoneForgotten)
<1>1. Queue!Init => QueueInv
  BY QueueBegins
<1>2. QueueInv /\ [Queue!Next]_(Queue!vars) => QueueInv'
  BY QueueStep
<1>3. QueueInv => Queue!TypeOK /\ Queue!NoneForgotten
  <2> SUFFICES ASSUME QueueInv, NEW s \in Sessions, session[s].state = "ended", Awaited(s)
               PROVE  Queue!Pending(s)
    BY ShapeIsTyped DEF QueueInv, EndInv, Queue!NoneForgotten
  <2> DEFINE a == session[s].account
  <2>1. a \in Accounts
    BY Keys DEF QueueInv, Shape, SessionRec
  <2>2. CASE key[a].status = "QUEUED"
    BY <2>1, <2>2 DEF QueueInv, KeyInv, QueuedInv, Finds, Queue!Pending
  <2>3. CASE key[a].status = "READY"
    BY <2>1, <2>3 DEF QueueInv, KeyInv, ReadyInv, Takes, Queue!Pending
  <2>4. CASE \E k \in Queue!Tasks : job[k].cur = a /\ job[k].phase \in {"saw", "held"}
    BY <2>4 DEF QueueInv, StageInv, Queue!Pending
  <2> QED
    BY <2>2, <2>3, <2>4 DEF Awaited
<1> QED
  BY <1>1, <1>2, <1>3, PTL DEF Queue!Spec

-----------------------------------------------------------------------------
(* ConnectionToken: what is given out was let through.                     *)

\* The rows of tokens, and the requests about them.
CONSTANTS Tokens, Calls, NoToken, OneTime, Reusable, Grace, TokenTime
VARIABLES table, call, passed, revoked, spent, clock
Token == INSTANCE ConnectionToken
           WITH MaxTime <- TokenTime, row <- table, used <- spent, now <- clock

\* A row, whatever requests write it.
RowOK(t) ==
  /\ t \in spent => table[t] # NoToken
  /\ table[t] # NoToken =>
       /\ table[t].active => table[t].gate = "accept" \/ t \in passed
       /\ t \in spent => table[t].expires < clock
       /\ table[t].born <= clock
       /\ ~Token!Permed => table[t].born <= revoked

\* The copy of a request: the columns nobody writes again are those of the row; a request
\* that will write date_expired had read a token that was not used up.
CopyOK(c) ==
  LET t == call[c].token  mine == call[c].row IN
  /\ table[t] # NoToken
  /\ mine.born = table[t].born /\ mine.gate = table[t].gate
  /\ mine.active => mine.gate = "accept" \/ t \in passed
  /\ call[c].op \in {"renewal", "reuse"} => call[c].fresh

TokenInv ==
  /\ Token!TokenAssumption /\ Token!TypeOK
  /\ \A t \in Tokens : RowOK(t)
  /\ \A c \in Calls : call[c] # Token!Idle => CopyOK(c)

LEMMA Periods ==
  ASSUME Token!TokenAssumption
  PROVE  /\ OneTime \in Nat /\ Grace \in Nat /\ TokenTime \in Nat /\ Reusable \in Nat
         /\ 0 < OneTime /\ 0 < Grace /\ 0 < TokenTime
         /\ NoToken \notin Token!Row
  BY DEF Token!TokenAssumption

LEMMA IdleHasNoCopy == Token!Idle \notin Token!Copy /\ Token!Idle.op = "idle"
  BY DEF Token!Idle, Token!Copy, Token!Ops

\* What is known of a row and of a copy.
LEMMA RowFields ==
  ASSUME TokenInv, NEW t \in Tokens, table[t] # NoToken
  PROVE  /\ table[t] \in Token!Row
         /\ table[t].born \in 0..TokenTime /\ table[t].expires \in -1..(TokenTime + OneTime + Reusable)
         /\ table[t].reusable \in BOOLEAN /\ table[t].active \in BOOLEAN /\ table[t].gate \in Token!Rules
  BY DEF TokenInv, Token!TypeOK, Token!Row

LEMMA CopyFields ==
  ASSUME TokenInv, NEW c \in Calls, call[c] # Token!Idle
  PROVE  /\ call[c].token \in Tokens /\ call[c].row \in Token!Row /\ call[c].op \in Token!Ops
         /\ call[c].row.born \in 0..TokenTime /\ call[c].row.reusable \in BOOLEAN
         /\ call[c].row.active \in BOOLEAN /\ call[c].row.gate \in Token!Rules
         /\ CopyOK(c)
  <1>1. call[c] \in Token!Copy
    BY DEF TokenInv, Token!TypeOK
  <1> QED
    BY <1>1 DEF TokenInv, Token!Copy, Token!Row

\* No row outlives what the settings give it.
InLifetime(r) == \/ r.expires <= clock + OneTime
                 \/ r.reusable /\ r.expires <= r.born + Reusable

\* A row may be written by a request, an approval or a new token when it keeps this.
LEMMA PutKeeps ==
  ASSUME TokenInv, NEW t \in Tokens, NEW r \in Token!Row, Token!Put(t, r),
         UNCHANGED <<revoked, clock>>,
         \/ UNCHANGED call
         \/ \E c \in Calls : Token!Finish(c),
         passed \subseteq passed', passed' \subseteq Tokens,
         spent' \subseteq spent \cup {t},
         table[t] # NoToken => r.born = table[t].born /\ r.gate = table[t].gate,
         table[t] = NoToken => Token!Permed /\ r.born = clock,
         InLifetime(r),
         r.active => r.gate = "accept" \/ t \in passed',
         t \in spent' => r.expires < clock
  PROVE  TokenInv'
  <1> USE Periods DEF TokenInv
  <1>1. table'[t] = r /\ r # NoToken /\ \A x \in Tokens : x # t => table'[x] = table[x]
    BY DEF Token!Put, Token!TypeOK
  <1>2. \A c \in Calls : call'[c] # Token!Idle => call'[c] = call[c]
    BY DEF Token!Finish, Token!TypeOK
  <1>3. Token!TypeOK'
    <2>1. table' \in [Tokens -> Token!Row \cup {NoToken}]
      BY DEF Token!Put, Token!TypeOK
    <2>2. call' \in [Calls -> Token!Copy \cup {Token!Idle}]
      BY DEF Token!Finish, Token!TypeOK
    <2>3. \A x \in Tokens : table'[x] # NoToken =>
            \/ table'[x].expires <= clock + OneTime
            \/ table'[x].reusable /\ table'[x].expires <= table'[x].born + Reusable
      <3> SUFFICES ASSUME NEW x \in Tokens, table'[x] # NoToken
                   PROVE  \/ table'[x].expires <= clock + OneTime
                          \/ table'[x].reusable /\ table'[x].expires <= table'[x].born + Reusable
        OBVIOUS
      <3>1. CASE x = t
        BY <1>1, <3>1 DEF InLifetime
      <3>2. CASE x # t
        BY <1>1, <3>2 DEF Token!TypeOK
      <3> QED
        BY <3>1, <3>2
    <2>4. passed' \cup spent' \subseteq Tokens /\ revoked' \in -1..TokenTime /\ clock' \in 0..TokenTime
      BY DEF Token!TypeOK
    <2> QED
      BY <2>1, <2>2, <2>3, <2>4 DEF Token!TypeOK
  <1>4. \A x \in Tokens : RowOK(x)'
    <2> SUFFICES ASSUME NEW x \in Tokens PROVE RowOK(x)'
      OBVIOUS
    <2>1. CASE x = t
      <3>1. r.born <= clock /\ (~Token!Permed => r.born <= revoked)
        BY DEF RowOK, Token!TypeOK
      <3> QED
        BY <1>1, <2>1, <3>1 DEF RowOK, Token!Permed
    <2>2. CASE x # t
      BY <1>1, <2>2 DEF RowOK, Token!Permed
    <2> QED
      BY <2>1, <2>2
  <1>5. \A c \in Calls : call'[c] # Token!Idle => CopyOK(c)'
    <2> SUFFICES ASSUME NEW c \in Calls, call'[c] # Token!Idle PROVE CopyOK(c)'
      OBVIOUS
    <2>1. call'[c] = call[c] /\ CopyOK(c) /\ call[c].token \in Tokens
      BY <1>2, CopyFields
    <2>2. table'[call[c].token] # NoToken /\ table'[call[c].token].born = table[call[c].token].born
          /\ table'[call[c].token].gate = table[call[c].token].gate
      BY <1>1, <2>1 DEF CopyOK
    <2> QED
      BY <2>1, <2>2 DEF CopyOK
  <1> QED
    BY <1>3, <1>4, <1>5

LEMMA TokenInit ==
  ASSUME Token!TokenAssumption, Token!Init
  PROVE  TokenInv
  <1>1. Token!TypeOK
    BY Periods DEF Token!Init, Token!TypeOK
  <1>2. \A t \in Tokens : RowOK(t)
    BY DEF Token!Init, RowOK
  <1>3. \A c \in Calls : call[c] = Token!Idle
    BY DEF Token!Init
  <1> QED
    BY <1>1, <1>2, <1>3 DEF TokenInv

(* New rows: of a user, and copied from another token.                     *)

LEMMA NewRowIsOne ==
  ASSUME TokenInv, NEW rule \in Token!Rules, NEW reusable \in BOOLEAN, NEW was \in BOOLEAN
  PROVE  LET r == Token!NewRow(rule, reusable, was)
         IN  /\ r \in Token!Row /\ r.born = clock /\ InLifetime(r) /\ (r.active => r.gate = "accept")
  <1> DEFINE r == Token!NewRow(rule, reusable, was)
  <1>1. /\ r = [born |-> clock, expires |-> clock + OneTime, reusable |-> reusable,
               active |-> (was /\ rule = "accept"), gate |-> rule]
        /\ (was /\ rule = "accept") \in BOOLEAN
    BY DEF Token!NewRow, Token!ActiveIf
  <1>2. clock \in 0..TokenTime /\ clock + OneTime \in -1..(TokenTime + OneTime + Reusable)
    BY Periods DEF TokenInv, Token!TypeOK
  <1> HIDE DEF r
  <1>3. r \in Token!Row /\ r.born = clock /\ r.expires = clock + OneTime /\ (r.active => r.gate = "accept")
    BY <1>1, <1>2 DEF Token!Row
  <1>4. InLifetime(r)
    BY <1>2, <1>3, Periods DEF TokenInv, InLifetime
  <1> QED
    BY <1>3, <1>4 DEF r

LEMMA CreateKeeps ==
  ASSUME TokenInv, NEW t \in Tokens, Token!Create(t)
  PROVE  TokenInv'
  <1>1. PICK reusable \in BOOLEAN, rule \in Token!Rules : Token!Put(t, Token!NewRow(rule, reusable, TRUE))
    BY DEF Token!Create
  <1> DEFINE r == Token!NewRow(rule, reusable, TRUE)
  <1>2. r \in Token!Row /\ r.born = clock /\ InLifetime(r) /\ (r.active => r.gate = "accept")
    BY NewRowIsOne
  <1>3. table[t] = NoToken /\ Token!Permed /\ UNCHANGED <<call, passed, revoked, spent, clock>>
    BY DEF Token!Create, Token!MayAsk
  <1>4. t \notin spent /\ passed \subseteq Tokens
    BY <1>3 DEF TokenInv, RowOK, Token!TypeOK
  <1> HIDE DEF r
  <1> QED
    BY <1>1, <1>2, <1>3, <1>4, PutKeeps DEF r

LEMMA ExchangeKeeps ==
  ASSUME TokenInv, NEW c \in Calls, NEW t \in Tokens, Token!Exchange(c, t)
  PROVE  TokenInv'
  <1>1. call[c] # Token!Idle
    BY IdleHasNoCopy DEF Token!Exchange
  <1>2. PICK rule \in Token!Rules : Token!Put(t, Token!NewRow(rule, call[c].row.reusable, call[c].row.active))
    BY DEF Token!Exchange
  <1> DEFINE r == Token!NewRow(rule, call[c].row.reusable, call[c].row.active)
  <1>3. r \in Token!Row /\ r.born = clock /\ InLifetime(r) /\ (r.active => r.gate = "accept")
    BY <1>1, CopyFields, NewRowIsOne
  <1>4. table[t] = NoToken /\ Token!Permed /\ Token!Finish(c) /\ UNCHANGED <<passed, revoked, spent, clock>>
    BY DEF Token!Exchange, Token!MayAsk
  <1>5. t \notin spent /\ passed \subseteq Tokens
    BY <1>4 DEF TokenInv, RowOK, Token!TypeOK
  <1> HIDE DEF r
  <1> QED
    BY <1>2, <1>3, <1>4, <1>5, PutKeeps DEF r

(* Requests.                                                               *)

LEMMA ReadKeeps ==
  ASSUME TokenInv, NEW c \in Calls, NEW op \in Token!Ops, NEW t \in Tokens, Token!Read(c, op, t)
  PROVE  TokenInv'
  <1> USE Periods
  <1> DEFINE copied == [table[t] EXCEPT !.expires = Token!Past]
             new == [op |-> op, token |-> t, row |-> copied, fresh |-> t \notin spent]
  <1>1. /\ table[t] # NoToken /\ Token!Accepts(op, table[t]) /\ call' = [call EXCEPT ![c] = new]
        /\ UNCHANGED <<table, passed, revoked, spent, clock>>
    BY DEF Token!Read, Token!Rows
  <1>2. /\ copied \in Token!Row /\ copied.born = table[t].born /\ copied.gate = table[t].gate
        /\ copied.active = table[t].active
    BY <1>1, RowFields DEF Token!Row, Token!Past, TokenInv
  <1> HIDE DEF copied
  <1>3. new \in Token!Copy /\ new.op = op /\ new.token = t /\ new.row = copied /\ new.fresh = (t \notin spent)
    BY <1>2 DEF Token!Copy
  <1>4. op \in {"renewal", "reuse"} => t \notin spent
    <2>1. t \in spent => table[t].expires < clock
      BY <1>1 DEF TokenInv, RowOK
    <2>2. op = "renewal" => table[t].expires >= clock
      BY <1>1 DEF Token!Accepts, Token!Live
    <2>3. op = "reuse" => table[t].expires > clock
      BY <1>1 DEF Token!Accepts
    <2>4. table[t].expires \in Int /\ clock \in Int
      BY <1>1, RowFields DEF TokenInv, Token!TypeOK
    <2> QED
      BY <2>1, <2>2, <2>3, <2>4
  <1> HIDE DEF new
  <1>5. Token!TypeOK'
    BY <1>1, <1>3 DEF TokenInv, Token!TypeOK
  <1>6. \A x \in Tokens : RowOK(x)'
    BY <1>1 DEF TokenInv, RowOK, Token!Permed
  <1>7. \A x \in Calls : call'[x] # Token!Idle => CopyOK(x)'
    <2>1. CASE table[t].active
      BY <1>1, <1>2, <1>3, <1>4, <2>1 DEF TokenInv, Token!TypeOK, CopyOK, RowOK
    <2>2. CASE ~table[t].active
      BY <1>1, <1>2, <1>3, <1>4, <2>2 DEF TokenInv, Token!TypeOK, CopyOK
    <2> QED
      BY <2>1, <2>2
  <1> QED
    BY <1>5, <1>6, <1>7 DEF TokenInv

\* A request that ends and writes no row.
LEMMA FinishKeeps ==
  ASSUME TokenInv, NEW c \in Calls, Token!Finish(c), UNCHANGED <<table, passed, revoked, spent, clock>>
  PROVE  TokenInv'
  <1>1. \A x \in Calls : call'[x] # Token!Idle => call'[x] = call[x]
    BY DEF Token!Finish, TokenInv, Token!TypeOK
  <1>2. Token!TypeOK'
    BY DEF TokenInv, Token!TypeOK, Token!Finish
  <1>3. \A x \in Tokens : RowOK(x)'
    BY DEF TokenInv, RowOK, Token!Permed
  <1>4. \A x \in Calls : call'[x] # Token!Idle => CopyOK(x)'
    BY <1>1 DEF TokenInv, CopyOK
  <1> QED
    BY <1>2, <1>3, <1>4 DEF TokenInv

\* A row whose date_expired becomes the present instant.
LEMMA ExpiredRow ==
  ASSUME TokenInv, NEW t \in Tokens, table[t] # NoToken
  PROVE  LET r == [table[t] EXCEPT !.expires = Token!Past]
         IN  /\ r \in Token!Row /\ r.born = table[t].born /\ r.gate = table[t].gate /\ InLifetime(r)
             /\ r.active => r.gate = "accept" \/ t \in passed
             /\ r.expires < clock
  <1> DEFINE r == [table[t] EXCEPT !.expires = Token!Past]
  <1>1. /\ r \in Token!Row /\ r.born = table[t].born /\ r.gate = table[t].gate /\ r.active = table[t].active
        /\ r.expires = -1
    BY RowFields, Periods DEF TokenInv, Token!Row, Token!Past
  <1> HIDE DEF r
  <1>2. InLifetime(r) /\ r.expires < clock
    BY <1>1, Periods DEF TokenInv, Token!TypeOK, InLifetime
  <1>3. r.active => r.gate = "accept" \/ t \in passed
    BY <1>1 DEF TokenInv, RowOK
  <1> QED
    BY <1>1, <1>2, <1>3 DEF r

LEMMA SecretKeeps ==
  ASSUME TokenInv, NEW c \in Calls, Token!Secret(c)
  PROVE  TokenInv'
  <1>1. call[c] # Token!Idle
    BY IdleHasNoCopy DEF Token!Secret
  <1> DEFINE t == call[c].token
             r == [table[t] EXCEPT !.expires = Token!Past]
  <1>2. t \in Tokens /\ table[t] # NoToken
    BY <1>1, CopyFields DEF CopyOK
  <1>3. /\ Token!Finish(c) /\ UNCHANGED <<passed, revoked, clock>>
        /\ (UNCHANGED <<table, spent>>) \/ (Token!Put(t, r) /\ spent' = spent \cup {t})
    BY DEF Token!Secret, Token!ExpireRow
  <1>4. CASE UNCHANGED <<table, spent>>
    BY <1>3, <1>4, FinishKeeps
  <1>5. CASE Token!Put(t, r) /\ spent' = spent \cup {t}
    <2>1. /\ r \in Token!Row /\ r.born = table[t].born /\ r.gate = table[t].gate /\ InLifetime(r)
          /\ r.active => r.gate = "accept" \/ t \in passed
          /\ r.expires < clock /\ passed \subseteq Tokens
      BY <1>2, ExpiredRow DEF TokenInv, Token!TypeOK
    <2> HIDE DEF r, t
    <2> QED
      BY <1>2, <1>3, <1>5, <2>1, PutKeeps
  <1> QED
    BY <1>3, <1>4, <1>5

LEMMA ExpireKeeps ==
  ASSUME TokenInv, NEW c \in Calls, Token!Expire(c)
  PROVE  TokenInv'
  <1>1. call[c] # Token!Idle
    BY IdleHasNoCopy DEF Token!Expire
  <1> DEFINE t == call[c].token
             r == [table[t] EXCEPT !.expires = Token!Past]
  <1>2. t \in Tokens /\ table[t] # NoToken
    BY <1>1, CopyFields DEF CopyOK
  <1>3. Token!Finish(c) /\ Token!Put(t, r) /\ UNCHANGED <<passed, revoked, spent, clock>>
    BY DEF Token!Expire, Token!ExpireRow
  <1>4. /\ r \in Token!Row /\ r.born = table[t].born /\ r.gate = table[t].gate /\ InLifetime(r)
        /\ r.active => r.gate = "accept" \/ t \in passed
        /\ r.expires < clock /\ passed \subseteq Tokens
    BY <1>2, ExpiredRow DEF TokenInv, Token!TypeOK
  <1> HIDE DEF r, t
  <1> QED
    BY <1>2, <1>3, <1>4, PutKeeps

LEMMA RenewalKeeps ==
  ASSUME TokenInv, NEW c \in Calls, Token!Renewal(c)
  PROVE  TokenInv'
  <1>1. call[c] # Token!Idle
    BY IdleHasNoCopy DEF Token!Renewal
  <1> DEFINE t == call[c].token
             mine == call[c].row
             r == [mine EXCEPT !.expires = clock + OneTime]
  <1>2. t \in Tokens /\ table[t] # NoToken /\ mine \in Token!Row /\ CopyOK(c)
    BY <1>1, CopyFields DEF CopyOK
  <1>3. Token!Finish(c) /\ Token!Put(t, r) /\ spent' = spent \ {t} /\ UNCHANGED <<passed, revoked, clock>>
    BY DEF Token!Renewal
  <1>4. /\ r \in Token!Row /\ r.born = table[t].born /\ r.gate = table[t].gate
        /\ r.active => r.gate = "accept" \/ t \in passed
        /\ r.expires = clock + OneTime /\ clock \in Nat
    <2>1. clock + OneTime \in -1..(TokenTime + OneTime + Reusable) /\ clock \in Nat
      BY Periods DEF TokenInv, Token!TypeOK
    <2>2. /\ r \in Token!Row /\ r.born = mine.born /\ r.gate = mine.gate /\ r.active = mine.active
          /\ r.expires = clock + OneTime
      BY <1>2, <2>1 DEF Token!Row
    <2> HIDE DEF r
    <2> QED
      BY <1>2, <2>1, <2>2 DEF CopyOK
  <1>5. InLifetime(r) /\ passed \subseteq Tokens
    BY <1>4, Periods DEF InLifetime, TokenInv, Token!TypeOK
  <1> HIDE DEF r, t, mine
  <1> QED
    BY <1>2, <1>3, <1>4, <1>5, PutKeeps

LEMMA ReuseKeeps ==
  ASSUME TokenInv, NEW c \in Calls, Token!Reuse(c)
  PROVE  TokenInv'
  <1>1. call[c] # Token!Idle
    BY IdleHasNoCopy DEF Token!Reuse
  <1> DEFINE t == call[c].token
  <1>2. PICK b \in BOOLEAN :
          Token!Put(t, [table[t] EXCEPT !.reusable = b, !.expires = Token!LastsUntil(call[c].row, b)])
    BY DEF Token!Reuse
  <1> DEFINE until == Token!LastsUntil(call[c].row, b)
             r == [table[t] EXCEPT !.reusable = b, !.expires = until]
  <1>3. t \in Tokens /\ table[t] # NoToken /\ table[t] \in Token!Row /\ call[c].row.born = table[t].born
        /\ table[t].born \in 0..TokenTime /\ table[t].born <= clock
    BY <1>1, CopyFields, RowFields DEF CopyOK, TokenInv, RowOK
  <1>4. /\ until \in -1..(TokenTime + OneTime + Reusable) /\ clock \in Nat
        /\ until <= clock + OneTime \/ (b /\ until <= table[t].born + Reusable)
    BY <1>3, Periods DEF Token!LastsUntil, TokenInv, Token!TypeOK
  <1> HIDE DEF until
  <1>5. /\ r \in Token!Row /\ r.born = table[t].born /\ r.gate = table[t].gate /\ r.active = table[t].active
        /\ r.reusable = b /\ r.expires = until
    BY <1>3, <1>4 DEF Token!Row
  <1> HIDE DEF r
  <1>6. InLifetime(r) /\ passed \subseteq Tokens /\ (r.active => r.gate = "accept" \/ t \in passed)
    BY <1>3, <1>4, <1>5 DEF InLifetime, TokenInv, RowOK, Token!TypeOK
  <1>7. Token!Finish(c) /\ spent' = spent \ {t} /\ UNCHANGED <<passed, revoked, clock>>
    BY DEF Token!Reuse
  <1>8. Token!Put(t, r)
    BY <1>2 DEF r, until
  <1> HIDE DEF t
  <1> QED
    BY <1>3, <1>5, <1>6, <1>7, <1>8, PutKeeps

(* Approvals, the permission and time.                                     *)

LEMMA ActivateKeeps ==
  ASSUME TokenInv, NEW t \in Tokens, Token!Approve(t) \/ Token!FaceVerified(t)
  PROVE  TokenInv'
  <1> DEFINE r == [table[t] EXCEPT !.active = TRUE]
  <1>1. /\ table[t] # NoToken /\ passed' = passed \cup {t} /\ Token!Put(t, r)
        /\ UNCHANGED <<call, revoked, spent, clock>>
    BY DEF Token!Approve, Token!FaceVerified, Token!Activate, Token!Rows
  <1>2. /\ r \in Token!Row /\ r.born = table[t].born /\ r.gate = table[t].gate /\ r.expires = table[t].expires
        /\ r.reusable = table[t].reusable
    BY <1>1, RowFields DEF Token!Row
  <1> HIDE DEF r
  <1>3. InLifetime(r) /\ (t \in spent => r.expires < clock) /\ passed' \subseteq Tokens
    BY <1>1, <1>2 DEF InLifetime, TokenInv, Token!TypeOK, RowOK
  <1> QED
    BY <1>1, <1>2, <1>3, PutKeeps

LEMMA RevokeKeeps ==
  ASSUME TokenInv, Token!Revoke
  PROVE  TokenInv'
  <1>1. /\ Token!Permed /\ revoked' = clock /\ clock \in 0..TokenTime
        /\ UNCHANGED <<table, call, passed, spent, clock>>
    BY DEF Token!Revoke, TokenInv, Token!TypeOK
  <1>2. Token!TypeOK'
    BY <1>1, Periods DEF TokenInv, Token!TypeOK
  <1>3. \A t \in Tokens : RowOK(t)'
    BY <1>1 DEF TokenInv, RowOK
  <1>4. \A c \in Calls : call'[c] # Token!Idle => CopyOK(c)'
    BY <1>1 DEF TokenInv, CopyOK
  <1> QED
    BY <1>2, <1>3, <1>4 DEF TokenInv

LEMMA ClockKeeps ==
  ASSUME TokenInv, Token!Tick
  PROVE  TokenInv'
  <1>1. /\ clock' = clock + 1 /\ clock' \in 0..TokenTime /\ clock \in 0..TokenTime
        /\ UNCHANGED <<table, call, passed, revoked, spent>>
    BY Periods DEF Token!Tick, TokenInv, Token!TypeOK
  <1>2. \A t \in Tokens : table[t] # NoToken =>
          table[t].expires \in Int /\ table[t].born \in Int
    BY RowFields, Periods
  <1>3. Token!TypeOK'
    BY <1>1, <1>2, Periods DEF TokenInv, Token!TypeOK
  <1>4. \A t \in Tokens : RowOK(t)'
    BY <1>1, <1>2 DEF TokenInv, RowOK, Token!Permed
  <1>5. \A c \in Calls : call'[c] # Token!Idle => CopyOK(c)'
    BY <1>1 DEF TokenInv, CopyOK
  <1> QED
    BY <1>3, <1>4, <1>5 DEF TokenInv

LEMMA TokenNext ==
  ASSUME TokenInv, [Token!Next]_(Token!vars)
  PROVE  TokenInv'
  <1>1. CASE UNCHANGED Token!vars
    BY <1>1 DEF TokenInv, Token!vars, Token!TypeOK, RowOK, CopyOK, Token!Permed
  <1>2. ASSUME NEW c \in Calls, Token!Refuse(c) PROVE TokenInv'
    BY <1>2, FinishKeeps DEF Token!Refuse
  <1> QED
    BY <1>1, <1>2, CreateKeeps, ActivateKeeps, ReadKeeps, SecretKeeps, RenewalKeeps, ExpireKeeps,
       ReuseKeeps, ExchangeKeeps, RevokeKeeps, ClockKeeps DEF Token!Next

\* A token that may be used was let through by its own rule, ticket or face check, also a
\* copy that exchange makes and a row that renewal writes back (_validate, renewal, exchange).
THEOREM GatesPassed ==
  ASSUME Token!TokenAssumption
  PROVE  Token!Spec => [](Token!GatePassed /\ Token!UsedIsDead)
  <1>1. Token!Init => TokenInv
    BY TokenInit
  <1>2. TokenInv /\ [Token!Next]_(Token!vars) => TokenInv'
    BY TokenNext
  <1>3. TokenInv => Token!GatePassed /\ Token!UsedIsDead
    <2> SUFFICES ASSUME TokenInv PROVE Token!GatePassed /\ Token!UsedIsDead
      OBVIOUS
    <2>1. Token!GatePassed
      BY DEF TokenInv, RowOK, Token!GatePassed, Token!Rows
    <2>2. Token!UsedIsDead
      <3> SUFFICES ASSUME NEW t \in spent PROVE ~Token!Live(table[t])
        BY DEF Token!UsedIsDead
      <3>1. t \in Tokens /\ table[t] # NoToken /\ table[t].expires < clock
        BY DEF TokenInv, Token!TypeOK, RowOK
      <3>2. table[t].expires \in Int /\ clock \in Int
        BY <3>1, RowFields, Periods DEF TokenInv, Token!TypeOK
      <3> QED
        BY <3>1, <3>2 DEF Token!Live
    <2> QED
      BY <2>1, <2>2
  <1> QED
    BY <1>1, <1>2, <1>3, PTL DEF Token!Spec

\* The grace period counts from the creation of a token, and none is made after the
\* permission was withdrawn (get_connect_token_secret, is_valid, exchange).
LEMMA StepGives ==
  ASSUME TokenInv
  PROVE  Token!GivenInTime
  <1> SUFFICES ASSUME NEW c \in Calls, Token!Secret(c), ~Token!Permed PROVE clock < revoked + Grace
    BY DEF Token!GivenInTime
  <1>1. call[c] # Token!Idle
    BY IdleHasNoCopy DEF Token!Secret
  <1>2. call[c].row.born \in 0..TokenTime /\ call[c].row.born <= revoked
    BY <1>1, CopyFields DEF CopyOK, TokenInv, RowOK
  <1>3. clock - call[c].row.born < Grace
    BY DEF Token!Secret
  <1> QED
    BY <1>2, <1>3, Periods DEF TokenInv, Token!TypeOK

\* What a step takes back had been read before it was decided.
LEMMA StepRevives ==
  ASSUME TokenInv, [Token!Next]_(Token!vars)
  PROVE  Token!RevivedByStale
  <1> SUFFICES ASSUME NEW t \in spent, t \notin spent'
               PROVE  \E c \in Calls : call[c] # Token!Idle /\ call[c].token = t /\ call[c].fresh
    BY SMTT(60) DEF Token!RevivedByStale
  <1>1. PICK c \in Calls : call[c].op \in {"renewal", "reuse"} /\ spent' = spent \ {call[c].token}
    BY DEF Token!Next, Token!vars, Token!Create, Token!Approve, Token!FaceVerified, Token!Activate, Token!Read, Token!Secret, Token!Renewal, Token!Expire, Token!Reuse,
           Token!Refuse, Token!Exchange, Token!Revoke, Token!Tick
  <1>2. call[c] # Token!Idle /\ call[c].token = t
    BY <1>1, IdleHasNoCopy
  <1> QED
    BY <1>1, <1>2 DEF TokenInv, CopyOK

LEMMA StepUndoes ==
  ASSUME TokenInv, [Token!Next]_(Token!vars)
  PROVE  Token!UndoneByRenewal
  <1> SUFFICES ASSUME NEW t \in Tokens, table[t] # NoToken, table[t].active, ~table'[t].active
               PROVE  \E c \in Calls : call[c].op = "renewal" /\ call[c].token = t /\ ~call[c].row.active
    BY DEF Token!UndoneByRenewal, Token!Rows
  <1>0. table \in [Tokens -> Token!Row \cup {NoToken}] /\ table[t] \in Token!Row
    BY DEF TokenInv, Token!TypeOK
  <1>1. \A x \in Tokens : \A r : Token!Put(x, r) => x = t /\ ~r.active
    BY <1>0 DEF Token!Put
  <1>2. ~UNCHANGED table
    OBVIOUS
  <1>3. \A v, b : /\ [table[t] EXCEPT !.expires = v].active
                  /\ [table[t] EXCEPT !.reusable = b, !.expires = v].active
                  /\ [table[t] EXCEPT !.active = TRUE].active
    BY <1>0 DEF Token!Row
  <1>4. ASSUME NEW x \in Tokens, Token!Create(x) PROVE FALSE
    BY <1>1, <1>4 DEF Token!Create
  <1>5. ASSUME NEW x \in Tokens, Token!Approve(x) \/ Token!FaceVerified(x) PROVE FALSE
    BY <1>1, <1>3, <1>5 DEF Token!Approve, Token!FaceVerified, Token!Activate
  <1>6. ASSUME NEW c \in Calls, NEW x \in Tokens, Token!Exchange(c, x) PROVE FALSE
    BY <1>1, <1>6 DEF Token!Exchange
  <1>7. ASSUME NEW c \in Calls, Token!Secret(c) \/ Token!Expire(c) \/ Token!Reuse(c) PROVE FALSE
    <2>1. call[c].token \in Tokens
      BY <1>7, IdleHasNoCopy, CopyFields DEF Token!Secret, Token!Expire, Token!Reuse
    <2>2. CASE Token!Secret(c)
      BY <1>1, <1>2, <1>3, <2>1, <2>2 DEF Token!Secret, Token!ExpireRow
    <2>3. CASE Token!Expire(c)
      BY <1>1, <1>3, <2>1, <2>3 DEF Token!Expire, Token!ExpireRow
    <2>4. CASE Token!Reuse(c)
      BY <1>1, <1>3, <2>1, <2>4 DEF Token!Reuse
    <2> QED
      BY <1>7, <2>2, <2>3, <2>4, SMTT(60)
  <1>8. ASSUME NEW c \in Calls, Token!Renewal(c) PROVE call[c].op = "renewal" /\ call[c].token = t /\ ~call[c].row.active
    <2>1. call[c].token \in Tokens /\ call[c].row \in Token!Row
      BY <1>8, IdleHasNoCopy, CopyFields DEF Token!Renewal
    <2>2. [call[c].row EXCEPT !.expires = clock + OneTime].active = call[c].row.active
      BY <2>1 DEF Token!Row
    <2> QED
      BY <1>1, <1>8, <2>1, <2>2 DEF Token!Renewal
  <1>9. PICK c \in Calls : Token!Renewal(c)
    BY <1>2, <1>4, <1>5, <1>6, <1>7 DEF Token!Next, Token!vars, Token!Read, Token!Refuse, Token!Revoke, Token!Tick
  <1> QED
    BY <1>8, <1>9

\* What requests that raced may do, and no more: give a secret within the grace period,
\* revive a token they had read unused, undo an approval they had not seen.
THEOREM RacesAreBounded ==
  ASSUME Token!TokenAssumption
  PROVE  Token!Spec => [][Token!GivenInTime /\ Token!RevivedByStale /\ Token!UndoneByRenewal]_(Token!vars)
  <1>1. Token!Init => TokenInv
    BY TokenInit
  <1>2. TokenInv /\ [Token!Next]_(Token!vars) => TokenInv' /\ [Token!GivenInTime /\ Token!RevivedByStale /\ Token!UndoneByRenewal]_(Token!vars)
    BY TokenNext, StepGives, StepRevives, StepUndoes
  <1> QED
    BY <1>1, <1>2, PTL DEF Token!Spec

\* ConnectionToken: types hold; every copy a request has made is one of a row that was there.
THEOREM TokenTypes ==
    ASSUME Token!TokenAssumption
    PROVE  Token!Spec => []Token!TypeOK
<1>1. Token!Init => TokenInv
  BY TokenInit
<1>2. TokenInv /\ [Token!Next]_(Token!vars) => TokenInv'
  BY TokenNext
<1>3. TokenInv => Token!TypeOK
  BY DEF TokenInv
<1> QED
  BY <1>1, <1>2, <1>3, PTL DEF Token!Spec

-----------------------------------------------------------------------------
(* SessionLife: sessions a component reports stay open.                    *)

CONSTANTS Reported, Ttl, Nobody, MaxDeaths
VARIABLES open, live, left, silent, ever, trusted, kill, contact, told, pass, doomed, deaths
Life == INSTANCE SessionLife WITH Sessions <- Reported, row <- open, task <- kill, todo <- pass

\* The key of a trusted session lasts as long as its component was not silent about it
\* for its whole life, so that no pass finds it inactive.
LifeInv ==
    /\ Life!TypeOK
    /\ \A s \in trusted : open[s] # "none" /\ silent[s] < Ttl /\ left[s] = Ttl - silent[s]
    /\ \A s \in live \cap trusted : open[s] = "open" /\ s # doomed

LEMMA LifeInit ==
    ASSUME Life!SessionAssumption, Life!Init
    PROVE  LifeInv
<1>1. 0 \in 0..Ttl /\ 0 \in 0..MaxDeaths
  BY DEF Life!SessionAssumption
<1>2. contact \in BOOLEAN /\ told \in BOOLEAN /\ trusted = {}
  BY DEF Life!Init
<1> QED
  BY <1>1, <1>2 DEF Life!Init, LifeInv, Life!TypeOK

LEMMA LifeStep ==
    ASSUME Life!SessionAssumption, LifeInv, [Life!Next]_(Life!vars)
    PROVE  LifeInv'
<1> USE DEF LifeInv, Life!TypeOK, Life!SessionAssumption
<1>1. ASSUME NEW s \in Reported, Life!Start(s) PROVE LifeInv'
  BY <1>1 DEF Life!Start
<1>2. ASSUME NEW s \in Reported, Life!Finish(s) PROVE LifeInv'
  BY <1>2 DEF Life!Finish
<1>3. ASSUME NEW s \in Reported, Life!Execute(s) PROVE LifeInv'
  BY <1>3 DEF Life!Execute
<1>4. ASSUME NEW s \in Reported, Life!RequestKill(s) PROVE LifeInv'
  BY <1>4 DEF Life!RequestKill
<1>5. CASE Life!Report
  BY <1>5 DEF Life!Report, Life!SetActive, Life!Open
<1>6. CASE Life!LoseContact
  BY <1>6 DEF Life!LoseContact
<1>7. CASE Life!Return
  BY <1>7 DEF Life!Return
<1>8. CASE Life!Tick
  <2>1. /\ left' = [s \in Reported |-> IF left[s] > 0 THEN left[s] - 1 ELSE 0]
        /\ silent' = [s \in Reported |-> IF silent[s] < Ttl THEN silent[s] + 1 ELSE Ttl]
        /\ trusted' = trusted \ {s \in Reported : silent'[s] = Ttl} /\ told' = FALSE
        /\ UNCHANGED <<open, live, ever, kill, contact, pass, doomed, deaths>>
    BY <1>8 DEF Life!Tick, Life!Aged
  <2>2. left' \in [Reported -> 0..Ttl] /\ silent' \in [Reported -> 0..Ttl]
    BY <2>1
  <2>3. ASSUME NEW s \in trusted' PROVE silent'[s] < Ttl /\ left'[s] = Ttl - silent'[s]
    <3>1. /\ s \in Reported /\ s \in trusted /\ silent'[s] # Ttl
          /\ left[s] \in 0..Ttl /\ silent[s] \in 0..Ttl
      BY <2>1
    <3>2. left'[s] = left[s] - 1 /\ silent'[s] = silent[s] + 1
      BY <2>1, <3>1
    <3> QED
      BY <3>1, <3>2
  <2> QED
    BY <2>1, <2>2, <2>3
<1>9. CASE Life!CleanBegin
  BY <1>9 DEF Life!CleanBegin, Life!Open
<1>10. ASSUME NEW s \in Reported, Life!CleanVisit(s) PROVE LifeInv'
  BY <1>10 DEF Life!CleanVisit, Life!is_active
<1>11. CASE Life!CleanEnd
  BY <1>11 DEF Life!CleanEnd
<1>12. CASE Life!CleanDies
  BY <1>12 DEF Life!CleanDies
<1>13. CASE UNCHANGED Life!vars
  BY <1>13 DEF Life!vars
<1> QED
  BY <1>1, <1>2, <1>3, <1>4, <1>5, <1>6, <1>7, <1>8, <1>9, <1>10, <1>11, <1>12, <1>13
  DEF Life!Next, Life!Clean

\* clean_orphan_session, Session.is_active: types hold, and no session whose
\* component reports it in time is closed by a pass, whatever components and passes do.
THEOREM SessionsInTouchStayOpen ==
    ASSUME Life!SessionAssumption
    PROVE  Life!Spec => [](Life!TypeOK /\ Life!LiveIsOpen)
<1>1. Life!Init => LifeInv
  BY LifeInit
<1>2. LifeInv /\ [Life!Next]_(Life!vars) => LifeInv'
  BY LifeStep
<1>3. LifeInv => Life!TypeOK /\ Life!LiveIsOpen
  BY DEF LifeInv, Life!LiveIsOpen
<1> QED
  BY <1>1, <1>2, <1>3, PTL DEF Life!Spec

-----------------------------------------------------------------------------
(* PermTree: the trees of a user's permissions.                            *)

\* The organisations of a user, and the pages and threads that refresh his tree.
CONSTANTS Org, Page, InPage, MaxVersion, Granting, MaxFailures
VARIABLES perm, tree, built, expiring, page, rewritten, treelock, failures, raced
Tree == INSTANCE PermTree WITH Sync <- InPage, work <- rewritten, lock <- treelock

Held(p) == page[p].pc \in {"building", "marked"}

\* A page that rebuilds has the treelock, and only such a page has read and rewritten parts.
LockInv ==
    \A p \in Page :
      /\ Held(p) => treelock = p
      /\ ~Held(p) => page[p].read = {} /\ rewritten[p] = << >>

\* What a page will replace is all there is: one part at most, not newer than its own.
WorkInv ==
    \A p \in Page : \A o \in DOMAIN rewritten[p] :
      /\ o \in page[p].read
      /\ rewritten[p][o].deleted = tree[o]
      /\ rewritten[p][o].version <= perm[o]
      /\ \A old \in tree[o] : old[2] <= rewritten[p][o].version

PartsInv ==
    \A o \in Org :
      /\ \A x, y \in tree[o] : x = y
      /\ \A x \in tree[o] : x[2] <= perm[o]

\* A part that a page has read and nobody changed meanwhile is rewritten from the last
\* permissions, by the page or in the tree.
ReadInv ==
    \A p \in Page : \A o \in page[p].read \ raced :
      \/ o \in DOMAIN rewritten[p] /\ rewritten[p][o].version = perm[o]
      \/ o \notin DOMAIN rewritten[p] /\ Tree!Shows(o)

\* A marked part is in the tree, or was read by a page that has it.
MarkInv ==
    \A o \in built \ (raced \cup expiring) :
      Tree!Shows(o) \/ \E p \in Page : o \in page[p].read

TreeInv ==
    /\ Tree!TypeOK /\ DOMAIN rewritten = Page
    /\ LockInv /\ WorkInv /\ PartsInv /\ ReadInv /\ MarkInv

LEMMA TreeBegins == ASSUME Tree!TreeAssumption PROVE Tree!Init => TreeInv
  BY DEF Tree!TreeAssumption, Tree!Init, TreeInv, Tree!TypeOK, Tree!Version, Tree!Part, Tree!Idle, LockInv,
         WorkInv, PartsInv, ReadInv, MarkInv, Held

\* A page puts its own parts in the place of the ones it has deleted.
LEMMA PartsAreReplaced ==
    ASSUME TreeInv, NEW p \in Page
    PROVE  Tree!Replaced(p) = [o \in Org |-> IF o \in DOMAIN rewritten[p]
                                              THEN {<<p, rewritten[p][o].version>>} ELSE tree[o]]
<1>1. \A o \in DOMAIN rewritten[p] : tree[o] \ rewritten[p][o].deleted = {}
  BY DEF TreeInv, WorkInv
<1> QED
  BY <1>1 DEF Tree!Replaced

LEMMA TreeStep ==
    ASSUME Tree!TreeAssumption, TreeInv, [Tree!Next]_(Tree!vars)
    PROVE  TreeInv'
<1> USE DEF Tree!TreeAssumption
<1>1. ASSUME NEW o \in Org, Tree!Change(o) PROVE TreeInv'
  <2>1. Tree!TypeOK' /\ (DOMAIN rewritten = Page)'
    BY <1>1 DEF Tree!Change, Tree!Rebuilding, TreeInv, Tree!TypeOK, Tree!Version, Tree!Part
  <2>2. LockInv'
    BY <1>1 DEF Tree!Change, Tree!Rebuilding, TreeInv, Tree!TypeOK, LockInv, Held
  <2>3. WorkInv'
    BY <1>1 DEF Tree!Change, TreeInv, Tree!TypeOK, Tree!Version, Tree!Part, WorkInv
  <2>4. PartsInv'
    BY <1>1 DEF Tree!Change, TreeInv, Tree!TypeOK, Tree!Version, Tree!Part, PartsInv
  <2>5. ReadInv'
    BY <1>1 DEF Tree!Change, Tree!Rebuilding, TreeInv, Tree!TypeOK, ReadInv, Tree!Shows
  <2>6. MarkInv'
    BY <1>1 DEF Tree!Change, Tree!Rebuilding, TreeInv, Tree!TypeOK, MarkInv, Tree!Shows
  <2> QED
    BY <2>1, <2>2, <2>3, <2>4, <2>5, <2>6 DEF TreeInv
<1>2. ASSUME NEW o \in Org, Tree!Expire(o) PROVE TreeInv'
  <2>1. Tree!TypeOK' /\ (DOMAIN rewritten = Page)'
    BY <1>2 DEF Tree!Expire, Tree!expire_perm_tree_for_users_orgs, TreeInv, Tree!TypeOK, Tree!Version, Tree!Part
  <2>2. LockInv'
    BY <1>2 DEF Tree!Expire, Tree!expire_perm_tree_for_users_orgs, TreeInv, Tree!TypeOK, LockInv, Held
  <2>3. WorkInv'
    BY <1>2 DEF Tree!Expire, Tree!expire_perm_tree_for_users_orgs, TreeInv, Tree!TypeOK, LockInv, WorkInv
  <2>4. PartsInv'
    BY <1>2 DEF Tree!Expire, Tree!expire_perm_tree_for_users_orgs, TreeInv, Tree!TypeOK, PartsInv
  <2>5. ReadInv'
    BY <1>2 DEF Tree!Expire, Tree!expire_perm_tree_for_users_orgs, TreeInv, Tree!TypeOK, ReadInv, Tree!Shows
  <2>6. MarkInv'
    BY <1>2 DEF Tree!Expire, Tree!expire_perm_tree_for_users_orgs, TreeInv, Tree!TypeOK, MarkInv, Tree!Shows
  <2> QED
    BY <2>1, <2>2, <2>3, <2>4, <2>5, <2>6 DEF TreeInv
<1>3. ASSUME NEW o \in Org, Tree!ExpireLost(o) PROVE TreeInv'
  <2>1. Tree!TypeOK' /\ (DOMAIN rewritten = Page)'
    BY <1>3 DEF Tree!ExpireLost, TreeInv, Tree!TypeOK, Tree!Version, Tree!Part
  <2>2. LockInv'
    BY <1>3 DEF Tree!ExpireLost, TreeInv, Tree!TypeOK, LockInv, Held
  <2>3. WorkInv'
    BY <1>3 DEF Tree!ExpireLost, TreeInv, Tree!TypeOK, LockInv, WorkInv
  <2>4. PartsInv'
    BY <1>3 DEF Tree!ExpireLost, TreeInv, Tree!TypeOK, PartsInv
  <2>5. ReadInv'
    BY <1>3 DEF Tree!ExpireLost, TreeInv, Tree!TypeOK, ReadInv, Tree!Shows
  <2>6. MarkInv'
    BY <1>3 DEF Tree!ExpireLost, TreeInv, Tree!TypeOK, MarkInv, Tree!Shows
  <2> QED
    BY <2>1, <2>2, <2>3, <2>4, <2>5, <2>6 DEF TreeInv
<1>4. ASSUME Tree!Check PROVE TreeInv'
  <2>1. Tree!TypeOK' /\ (DOMAIN rewritten = Page)'
    BY <1>4 DEF Tree!Check, TreeInv, Tree!TypeOK, Tree!Version, Tree!Part
  <2>2. LockInv'
    BY <1>4 DEF Tree!Check, TreeInv, Tree!TypeOK, LockInv, Held
  <2>3. WorkInv'
    BY <1>4 DEF Tree!Check, TreeInv, Tree!TypeOK, LockInv, WorkInv
  <2>4. PartsInv'
    BY <1>4 DEF Tree!Check, TreeInv, Tree!TypeOK, PartsInv
  <2>5. ReadInv'
    BY <1>4 DEF Tree!Check, TreeInv, Tree!TypeOK, ReadInv, Tree!Shows
  <2>6. MarkInv'
    BY <1>4 DEF Tree!Check, TreeInv, Tree!TypeOK, MarkInv, Tree!Shows
  <2> QED
    BY <2>1, <2>2, <2>3, <2>4, <2>5, <2>6 DEF TreeInv
<1>5. ASSUME NEW p \in Page, NEW force \in BOOLEAN, Tree!Visit(p, force) PROVE TreeInv'
  <2> DEFINE todo == IF force THEN Org ELSE Org \ built
             Pages == [Page -> [pc : {"idle", "visited", "building", "marked"}, todo : SUBSET Org,
                                read : SUBSET Org]]
  <2>1. /\ page' = [page EXCEPT ![p].pc = "visited", ![p].todo = todo] /\ page \in Pages
        /\ ~Held(p) /\ UNCHANGED <<perm, tree, built, expiring, rewritten, treelock, failures, raced>>
    BY <1>5 DEF Tree!Visit, Held, TreeInv, Tree!TypeOK
  <2>2. todo \in SUBSET Org
    OBVIOUS
  <2> HIDE DEF todo
  <2>3. page' \in Pages
    BY <2>1, <2>2, ZenonT(60)
  <2>4. \A q \in Page : page'[q].read = page[q].read /\ (page'[q].pc = page[q].pc \/ q = p)
    BY <2>1
  <2>5. page'[p].pc = "visited"
    BY <2>1
  <2>6. Tree!TypeOK' /\ (DOMAIN rewritten = Page)'
    BY <2>1, <2>3 DEF TreeInv, Tree!TypeOK, Tree!Version, Tree!Part
  <2>7. LockInv' /\ WorkInv' /\ PartsInv'
    BY <2>1, <2>4, <2>5 DEF TreeInv, LockInv, Held, WorkInv, PartsInv
  <2>8. ReadInv' /\ MarkInv'
    BY <2>1, <2>4, SMTT(60) DEF TreeInv, ReadInv, MarkInv, Tree!Shows
  <2> QED
    BY <2>6, <2>7, <2>8 DEF TreeInv
<1>6. ASSUME NEW p \in Page, Tree!Acquire(p) PROVE TreeInv'
  <2>1. ~Held(p) /\ UNCHANGED <<perm, tree, built, expiring, rewritten, failures, raced>>
    BY <1>6 DEF Tree!Acquire, Held
  <2>2. Tree!TypeOK' /\ (DOMAIN rewritten = Page)'
    BY <1>6, SMTT(60) DEF Tree!Acquire, Tree!Idle, TreeInv, Tree!TypeOK, Tree!Version, Tree!Part
  <2>3. \A q \in Page : page'[q].read = page[q].read
    <3>1. CASE treelock = Nobody
      BY <1>6, <3>1 DEF Tree!Acquire, TreeInv, Tree!TypeOK
    <3>2. CASE treelock # Nobody
      <4>1. page[p].read = {}
        BY <2>1 DEF TreeInv, LockInv
      <4>2. page' = [page EXCEPT ![p] = [pc |-> "idle", todo |-> {}, read |-> {}]]
        BY <1>6, <3>2 DEF Tree!Acquire, Tree!Idle
      <4> QED
        BY <4>1, <4>2 DEF TreeInv, Tree!TypeOK
    <3> QED
      BY <3>1, <3>2
  <2>4. LockInv'
    BY <1>6 DEF Tree!Acquire, Tree!Idle, TreeInv, Tree!TypeOK, LockInv, Held
  <2>5. WorkInv' /\ PartsInv' /\ ReadInv' /\ MarkInv'
    BY <2>1, <2>3 DEF TreeInv, WorkInv, PartsInv, ReadInv, MarkInv, Tree!Shows
  <2> QED
    BY <2>2, <2>4, <2>5 DEF TreeInv
<1>7. ASSUME NEW p \in Page, NEW o \in Org, Tree!Rebuild(p, o) PROVE TreeInv'
  <2>1. Tree!TypeOK' /\ (DOMAIN rewritten = Page)'
    <3> DEFINE old == rewritten[p]
               new == [version |-> perm[o], deleted |-> tree[o]]
               both == [q \in DOMAIN old \cup {o} |-> IF q = o THEN new ELSE old[q]]
    <3>1. /\ page' = [page EXCEPT ![p].read = @ \cup {o}]
          /\ rewritten' = [rewritten EXCEPT ![p] = both]
          /\ UNCHANGED <<perm, tree, built, expiring, treelock, failures, raced>>
      BY <1>7 DEF Tree!Rebuild
    <3>2. page' \in [Page -> [pc : {"idle", "visited", "building", "marked"}, todo : SUBSET Org,
                             read : SUBSET Org]]
      BY <1>7, <3>1, SMTT(60) DEF TreeInv, Tree!TypeOK
    <3>3. new \in [version : Tree!Version, deleted : SUBSET Tree!Part]
      BY <1>7 DEF TreeInv, Tree!TypeOK
    <3>4. /\ DOMAIN old \subseteq Org
          /\ \A q \in DOMAIN old : old[q] \in [version : Tree!Version, deleted : SUBSET Tree!Part]
      BY <1>7 DEF TreeInv, Tree!TypeOK
    <3>5. /\ DOMAIN both = DOMAIN old \cup {o} /\ both[o] = new
          /\ \A q \in DOMAIN old \ {o} : both[q] = old[q]
      OBVIOUS
    <3>6. /\ DOMAIN both \subseteq Org
          /\ \A q \in DOMAIN both : both[q] \in [version : Tree!Version, deleted : SUBSET Tree!Part]
      BY <1>7, <3>3, <3>4, <3>5, Zenon
    <3> HIDE DEF both
    <3>7. /\ DOMAIN rewritten' = Page /\ rewritten'[p] = both
          /\ \A q \in Page \ {p} : rewritten'[q] = rewritten[q]
      BY <1>7, <3>1 DEF TreeInv
    <3>8. \A q \in Page : DOMAIN rewritten'[q] \subseteq Org
      BY <3>6, <3>7 DEF TreeInv, Tree!TypeOK
    <3>9. \A q \in Page : \A x \in DOMAIN rewritten'[q] :
            rewritten'[q][x] \in [version : Tree!Version, deleted : SUBSET Tree!Part]
      BY <3>6, <3>7 DEF TreeInv, Tree!TypeOK
    <3> QED
      BY <3>1, <3>2, <3>7, <3>8, <3>9 DEF TreeInv, Tree!TypeOK
  <2>2. LockInv'
    BY <1>7 DEF Tree!Rebuild, TreeInv, Tree!TypeOK, LockInv, Held
  <2>3. WorkInv'
    BY <1>7 DEF Tree!Rebuild, TreeInv, Tree!TypeOK, Tree!Version, Tree!Part, LockInv, Held, WorkInv, PartsInv
  <2>4. PartsInv'
    BY <1>7 DEF Tree!Rebuild, TreeInv, Tree!TypeOK, PartsInv
  <2>5. ReadInv'
    BY <1>7 DEF Tree!Rebuild, TreeInv, Tree!TypeOK, ReadInv, Tree!Shows
  <2>6. MarkInv'
    BY <1>7 DEF Tree!Rebuild, TreeInv, Tree!TypeOK, MarkInv, Tree!Shows
  <2> QED
    BY <2>1, <2>2, <2>3, <2>4, <2>5, <2>6 DEF TreeInv
<1>8. ASSUME NEW p \in Page, Tree!Store(p) PROVE TreeInv'
  <2>1. PICK o \in DOMAIN rewritten[p] : page' = [page EXCEPT ![p].todo = @ \ {o}]
    BY <1>8 DEF Tree!Store
  <2>2. /\ tree' = [w \in Org |-> IF w \in DOMAIN rewritten[p]
                                 THEN {<<p, rewritten[p][w].version>>} ELSE tree[w]]
        /\ rewritten' = [rewritten EXCEPT ![p] = << >>]
        /\ Held(p) /\ UNCHANGED <<perm, built, expiring, treelock, failures, raced>>
    BY <1>8, PartsAreReplaced DEF Tree!Store, Held
  <2>3. \A w \in DOMAIN rewritten[p] : w \in Org /\ rewritten[p][w].version \in Tree!Version
    BY DEF TreeInv, Tree!TypeOK
  <2>4. \A q \in Page : page'[q].read = page[q].read /\ page'[q].pc = page[q].pc
    BY <2>1 DEF TreeInv, Tree!TypeOK
  <2>5. \A q \in Page \ {p} : ~Held(q) /\ page[q].read = {} /\ rewritten[q] = << >>
    BY <2>2 DEF TreeInv, LockInv
  <2>6. \A q \in Page : rewritten'[q] = << >>
    BY <2>2, <2>5 DEF TreeInv
  <2>7. Tree!TypeOK' /\ (DOMAIN rewritten = Page)'
    <3>1. page' \in [Page -> [pc : {"idle", "visited", "building", "marked"}, todo : SUBSET Org,
                             read : SUBSET Org]]
      <4> DEFINE Rec == [pc : {"idle", "visited", "building", "marked"}, todo : SUBSET Org, read : SUBSET Org]
      <4>1. page \in [Page -> Rec]
        BY DEF TreeInv, Tree!TypeOK
      <4>2. [page[p] EXCEPT !.todo = @ \ {o}] \in Rec
        BY <4>1
      <4> HIDE DEF Rec
      <4>3. page' \in [Page -> Rec]
        BY <2>1, <4>1, <4>2
      <4> QED
        BY <4>3 DEF Rec
    <3>2. tree' \in [Org -> SUBSET Tree!Part]
      BY <2>2, <2>3 DEF TreeInv, Tree!TypeOK, Tree!Part
    <3>3. \A q \in Page : DOMAIN rewritten'[q] = {}
      BY <2>6
    <3> QED
      BY <2>2, <2>6, <3>1, <3>2, <3>3, ZenonT(60) DEF TreeInv, Tree!TypeOK
  <2>8. LockInv' /\ WorkInv'
    BY <2>2, <2>4, <2>6 DEF TreeInv, LockInv, WorkInv, Held
  <2>9. PartsInv'
    BY <2>2, <2>3 DEF TreeInv, PartsInv, WorkInv
  <2>10. \A w \in Org : /\ w \in DOMAIN rewritten[p] => tree'[w] = {<<p, rewritten[p][w].version>>}
                        /\ w \notin DOMAIN rewritten[p] => tree'[w] = tree[w]
    BY <2>2
  <2>11. \A w \in Org \ raced : Tree!Shows(w) \/ w \in page[p].read => Tree!Shows(w)'
    BY <2>2, <2>10 DEF TreeInv, ReadInv, WorkInv, Tree!Shows
  <2>12. ReadInv'
    <3>1. \A q \in Page : DOMAIN rewritten'[q] = {}
      BY <2>6
    <3>2. \A q \in Page : \A w \in page[q].read : w \in Org /\ w \in page[p].read
      BY <2>5 DEF TreeInv, Tree!TypeOK
    <3> QED
      BY <2>2, <2>4, <2>11, <3>1, <3>2 DEF ReadInv
  <2>13. MarkInv'
    <3>1. \A w \in built : w \in Org
      BY DEF TreeInv, Tree!TypeOK
    <3> QED
      BY <2>2, <2>4, <2>11, <3>1 DEF TreeInv, MarkInv
  <2> QED
    BY <2>7, <2>8, <2>9, <2>12, <2>13 DEF TreeInv
<1>9. ASSUME NEW p \in Page, Tree!Mark(p) PROVE TreeInv'
  <2>1. Tree!TypeOK' /\ (DOMAIN rewritten = Page)'
    BY <1>9, SMTT(60) DEF Tree!Mark, Tree!_mark_user_orgs_refresh_finished, TreeInv, Tree!TypeOK, Tree!Version, Tree!Part
  <2>2. LockInv'
    BY <1>9 DEF Tree!Mark, Tree!_mark_user_orgs_refresh_finished, TreeInv, Tree!TypeOK, LockInv, Held
  <2>3. WorkInv'
    BY <1>9 DEF Tree!Mark, Tree!_mark_user_orgs_refresh_finished, TreeInv, Tree!TypeOK, LockInv, WorkInv
  <2>4. PartsInv'
    BY <1>9 DEF Tree!Mark, Tree!_mark_user_orgs_refresh_finished, TreeInv, Tree!TypeOK, PartsInv
  <2>5. ReadInv'
    BY <1>9 DEF Tree!Mark, Tree!_mark_user_orgs_refresh_finished, TreeInv, Tree!TypeOK, ReadInv, Tree!Shows
  <2>6. MarkInv'
    BY <1>9 DEF Tree!Mark, Tree!_mark_user_orgs_refresh_finished, TreeInv, Tree!TypeOK, MarkInv, Tree!Shows
  <2> QED
    BY <2>1, <2>2, <2>3, <2>4, <2>5, <2>6 DEF TreeInv
<1>10. ASSUME NEW p \in Page, Tree!Release(p) PROVE TreeInv'
  <2>1. /\ tree' = [w \in Org |-> IF w \in DOMAIN rewritten[p]
                                 THEN {<<p, rewritten[p][w].version>>} ELSE tree[w]]
        /\ rewritten' = [rewritten EXCEPT ![p] = << >>]
        /\ page' = [page EXCEPT ![p] = [pc |-> "idle", todo |-> {}, read |-> {}]]
        /\ Held(p) /\ UNCHANGED <<perm, built, expiring, failures, raced>>
    BY <1>10, PartsAreReplaced DEF Tree!Release, Tree!Idle, Held
  <2>2. \A w \in DOMAIN rewritten[p] : w \in Org /\ rewritten[p][w].version \in Tree!Version
    BY DEF TreeInv, Tree!TypeOK
  <2>3. \A q \in Page \ {p} : ~Held(q) /\ page[q].read = {} /\ rewritten[q] = << >>
    BY <2>1 DEF TreeInv, LockInv
  <2>4. \A q \in Page : rewritten'[q] = << >> /\ page'[q].read = {} /\ ~Held(q)'
    BY <2>1, <2>3 DEF TreeInv, Tree!TypeOK, Held
  <2>5. Tree!TypeOK' /\ (DOMAIN rewritten = Page)'
    <3>1. page' \in [Page -> [pc : {"idle", "visited", "building", "marked"}, todo : SUBSET Org,
                             read : SUBSET Org]]
      BY <2>1 DEF TreeInv, Tree!TypeOK
    <3>2. tree' \in [Org -> SUBSET Tree!Part]
      BY <2>1, <2>2 DEF TreeInv, Tree!TypeOK, Tree!Part
    <3>3. treelock' \in Page \cup {Nobody}
      BY <1>10 DEF Tree!Release, TreeInv, Tree!TypeOK
    <3> QED
      BY <2>1, <2>4, <3>1, <3>2, <3>3 DEF TreeInv, Tree!TypeOK, Tree!Version, Tree!Part
  <2>6. LockInv' /\ WorkInv' /\ ReadInv'
    BY <2>4 DEF LockInv, WorkInv, ReadInv
  <2>7. PartsInv'
    BY <2>1, <2>2 DEF TreeInv, PartsInv, WorkInv
  <2>8. \A w \in Org : /\ w \in DOMAIN rewritten[p] => tree'[w] = {<<p, rewritten[p][w].version>>}
                       /\ w \notin DOMAIN rewritten[p] => tree'[w] = tree[w]
    BY <2>1
  <2>9. \A w \in Org \ raced : (\E q \in Page : w \in page[q].read) => w \in page[p].read
    BY <2>3
  <2>10. \A w \in Org \ raced : Tree!Shows(w) \/ w \in page[p].read => Tree!Shows(w)'
    BY <2>1, <2>8 DEF TreeInv, ReadInv, WorkInv, Tree!Shows
  <2>11. MarkInv'
    BY <2>1, <2>9, <2>10 DEF TreeInv, MarkInv, Tree!TypeOK
  <2> QED
    BY <2>5, <2>6, <2>7, <2>11 DEF TreeInv
<1>11. ASSUME NEW p \in Page, Tree!Fail(p) PROVE TreeInv'
  <2>1. Tree!TypeOK' /\ (DOMAIN rewritten = Page)'
    BY <1>11 DEF Tree!Fail, Tree!Idle, TreeInv, Tree!TypeOK, Tree!Version, Tree!Part
  <2>2. LockInv'
    BY <1>11 DEF Tree!Fail, Tree!Idle, TreeInv, Tree!TypeOK, LockInv, Held
  <2>3. WorkInv'
    BY <1>11 DEF Tree!Fail, Tree!Idle, TreeInv, Tree!TypeOK, LockInv, WorkInv
  <2>4. PartsInv'
    BY <1>11 DEF Tree!Fail, Tree!Idle, TreeInv, Tree!TypeOK, PartsInv
  <2>5. ReadInv'
    BY <1>11 DEF Tree!Fail, Tree!Idle, TreeInv, Tree!TypeOK, ReadInv, Tree!Shows
  <2>6. MarkInv'
    BY <1>11 DEF Tree!Fail, Tree!Idle, TreeInv, Tree!TypeOK, MarkInv, Tree!Shows
  <2> QED
    BY <2>1, <2>2, <2>3, <2>4, <2>5, <2>6 DEF TreeInv
<1>12. ASSUME Tree!LockExpires PROVE TreeInv'
  <2>1. Tree!TypeOK' /\ (DOMAIN rewritten = Page)'
    BY <1>12 DEF Tree!LockExpires, TreeInv, Tree!TypeOK, Tree!Version, Tree!Part
  <2>2. LockInv'
    BY <1>12 DEF Tree!LockExpires, TreeInv, Tree!TypeOK, LockInv, Held
  <2>3. WorkInv'
    BY <1>12 DEF Tree!LockExpires, TreeInv, Tree!TypeOK, LockInv, WorkInv
  <2>4. PartsInv'
    BY <1>12 DEF Tree!LockExpires, TreeInv, Tree!TypeOK, PartsInv
  <2>5. ReadInv'
    BY <1>12 DEF Tree!LockExpires, TreeInv, Tree!TypeOK, ReadInv, Tree!Shows
  <2>6. MarkInv'
    BY <1>12 DEF Tree!LockExpires, TreeInv, Tree!TypeOK, MarkInv, Tree!Shows
  <2> QED
    BY <2>1, <2>2, <2>3, <2>4, <2>5, <2>6 DEF TreeInv
<1>13. ASSUME UNCHANGED Tree!vars PROVE TreeInv'
  <2>1. Tree!TypeOK' /\ (DOMAIN rewritten = Page)'
    BY <1>13 DEF Tree!vars, TreeInv, Tree!TypeOK, Tree!Version, Tree!Part
  <2>2. LockInv'
    BY <1>13 DEF Tree!vars, TreeInv, Tree!TypeOK, LockInv, Held
  <2>3. WorkInv'
    BY <1>13 DEF Tree!vars, TreeInv, Tree!TypeOK, LockInv, WorkInv
  <2>4. PartsInv'
    BY <1>13 DEF Tree!vars, TreeInv, Tree!TypeOK, PartsInv
  <2>5. ReadInv'
    BY <1>13 DEF Tree!vars, TreeInv, Tree!TypeOK, ReadInv, Tree!Shows
  <2>6. MarkInv'
    BY <1>13 DEF Tree!vars, TreeInv, Tree!TypeOK, MarkInv, Tree!Shows
  <2> QED
    BY <2>1, <2>2, <2>3, <2>4, <2>5, <2>6 DEF TreeInv
<1> QED
  BY <1>1, <1>2, <1>3, <1>4, <1>5, <1>6, <1>7, <1>8, <1>9, <1>10, <1>11, <1>12, <1>13
  DEF Tree!Next, Tree!Refresh

\* UserGrantedTreeRebuildLock, _mark_user_orgs_refresh_finished, expire_perm_tree_for_users_orgs:
\* types hold; the part of an organisation is in the tree once, and a part that is marked and at
\* rest shows the last permissions, unless a change met a rebuild or something failed.
THEOREM TreesAreCurrent ==
    ASSUME Tree!TreeAssumption
    PROVE  Tree!Spec => []Tree!TypeOK /\ []Tree!OnePart /\ []Tree!MarkedIsCurrent
<1>1. Tree!Init => TreeInv
  BY TreeBegins
<1>2. TreeInv /\ [Tree!Next]_(Tree!vars) => TreeInv'
  BY TreeStep
<1>3. TreeInv => Tree!TypeOK /\ Tree!OnePart /\ Tree!MarkedIsCurrent
  <2>1. ASSUME TreeInv, NEW o \in Org PROVE Cardinality(tree[o]) <= 1
    <3>1. CASE tree[o] = {}
      BY <3>1, FS_EmptySet
    <3>2. CASE tree[o] # {}
      <4>1. PICK x \in tree[o] : tree[o] = {x}
        BY <2>1, <3>2 DEF TreeInv, PartsInv
      <4> QED
        <5>1. Cardinality({x}) = 1
          BY FS_Singleton
        <5> QED
          BY <4>1, <5>1
    <3> QED
      BY <3>1, <3>2
  <2>2. TreeInv => Tree!MarkedIsCurrent
    <3> SUFFICES ASSUME TreeInv, NEW o \in built \ raced, ~Tree!Busy(o) PROVE Tree!Shows(o)
      BY DEF Tree!MarkedIsCurrent
    <3>1. o \notin expiring /\ \A p \in Page : ~Held(p)
      BY DEF Tree!Busy, Held
    <3>2. \A p \in Page : page[p].read = {}
      BY <3>1 DEF TreeInv, LockInv
    <3> QED
      <4>1. Tree!Shows(o) \/ \E p \in Page : o \in page[p].read
        BY <3>1 DEF TreeInv, MarkInv
      <4> QED
        BY <3>2, <4>1, Zenon
  <2>3. TreeInv => Tree!OnePart
    BY <2>1 DEF Tree!OnePart, Tree!Cardinality, Cardinality
  <2> QED
    BY <2>2, <2>3 DEF TreeInv
<1> QED
  BY <1>1, <1>2, <1>3, PTL DEF Tree!Spec

\* UserPermTreeRefreshUtil: a rebuild does not put older permissions in the place of newer ones.
THEOREM NoTreeGoesBack ==
    ASSUME Tree!TreeAssumption
    PROVE  Tree!Spec => Tree!NoOlderTree
<1>1. Tree!Init => TreeInv
  BY TreeBegins
<1>2. TreeInv /\ [Tree!Next]_(Tree!vars)
      => TreeInv' /\ [\A o \in Org : \A old \in tree[o], new \in tree'[o] : new[2] >= old[2]]_(Tree!vars)
  <2> SUFFICES ASSUME TreeInv, [Tree!Next]_(Tree!vars)
               PROVE  \A o \in Org : \A old \in tree[o], new \in tree'[o] : new[2] >= old[2]
    BY TreeStep
  <2> TAKE o \in Org
  <2> TAKE old \in tree[o], new \in tree'[o]
  <2>1. CASE UNCHANGED tree
    BY <2>1 DEF TreeInv, PartsInv, Tree!TypeOK, Tree!Part, Tree!Version
  <2>2. ASSUME NEW p \in Page, tree' = Tree!Replaced(p) PROVE new[2] >= old[2]
    BY <2>2, PartsAreReplaced, SMTT(60) DEF TreeInv, PartsInv, WorkInv, Tree!TypeOK, Tree!Part, Tree!Version
  <2>3. UNCHANGED tree \/ \E p \in Page : tree' = Tree!Replaced(p)
    BY DEF Tree!Next, Tree!Refresh, Tree!Change, Tree!Expire, Tree!ExpireLost, Tree!Check, Tree!Visit,
           Tree!Acquire, Tree!Rebuild, Tree!Store, Tree!Mark, Tree!Release, Tree!Fail, Tree!LockExpires,
           Tree!vars
  <2> QED
    BY <2>1, <2>2, <2>3
<1> QED
  BY <1>1, <1>2, PTL DEF Tree!Spec, Tree!NoOlderTree

-----------------------------------------------------------------------------
(* PermTreeBuild: what a rebuild counts and shows.                         *)

\* The keys of an organisation's nodes, and its assets.
CONSTANTS Key, Asset
VARIABLES nodes, placed, direct_nodes, direct_assets, ungroup, stored, infos, stack, assets, amount
Build == INSTANCE PermTreeBuild

\* The instance's sizes are sizes.
LEMMA SizesAreSizes ==
    ASSUME NEW S
    PROVE  /\ Build!Cardinality(S) = Cardinality(S)
           /\ Build!IsFiniteSet(S) <=> IsFiniteSet(S)
<1>1. Build!Cardinality(S) = Cardinality(S)
  BY Zenon DEF Build!Cardinality, Cardinality
<1>2. Build!IsFiniteSet(S) <=> IsFiniteSet(S)
  BY Zenon DEF Build!IsFiniteSet, IsFiniteSet
<1> QED
  BY <1>1, <1>2

\* A set of numbers has a least one.
LEMMA LeastNumber ==
    ASSUME NEW T \in SUBSET Nat, T # {}
    PROVE  \E x \in T : \A y \in T : x <= y
<1> DEFINE R == {p \in Nat \X Nat : p[1] < p[2]}
<1>1. IsWellFoundedOn(R, Nat)
  <2>1. OpToRel(<,Nat) = R
    BY DEF OpToRel
  <2> QED
    BY <2>1, NatLessThanWellFounded, Zenon
<1> HIDE DEF R
<1>2. PICK x \in T : \A y \in T : ~ (<<y, x>> \in R)
  BY <1>1, WFMin
<1>3. ASSUME NEW y \in T, y < x PROVE FALSE
  <2>1. <<y, x>> \in Nat \X Nat
    OBVIOUS
  <2>2. <<y, x>>[1] < <<y, x>>[2]
    BY <1>3
  <2>3. <<y, x>> \in R
    BY <2>1, <2>2 DEF R
  <2> QED
    BY <2>3, <1>2
<1> QED
  BY <1>3

-----------------------------------------------------------------------------
(* Keys *)

\* A key is below another one that it begins with.
LEMMA BelowMeans ==
    ASSUME NEW k \in Seq(Nat), NEW a \in Seq(Nat)
    PROVE  Build!IsBelow(k, a) <=> Len(a) < Len(k) /\ \A j \in 1..Len(a) : k[j] = a[j]
<1>1. CASE Len(a) < Len(k)
  <2>1. SubSeq(k, 1, Len(a)) \in Seq(Nat) /\ Len(SubSeq(k, 1, Len(a))) = Len(a)
    BY <1>1
  <2>2. \A j \in 1..Len(a) : SubSeq(k, 1, Len(a))[j] = k[j]
    BY <1>1
  <2>3. SubSeq(k, 1, Len(a)) = a <=> \A j \in 1..Len(a) : SubSeq(k, 1, Len(a))[j] = a[j]
    BY <2>1
  <2> QED
    BY <1>1, <2>2, <2>3 DEF Build!IsBelow
<1>2. CASE ~(Len(a) < Len(k))
  BY <1>2 DEF Build!IsBelow
<1> QED
  BY <1>1, <1>2

\* The three readings a proof needs of it.
LEMMA BelowSays ==
    ASSUME NEW k \in Seq(Nat), NEW a \in Seq(Nat), Build!IsBelow(k, a)
    PROVE  Len(a) < Len(k) /\ \A j \in 1..Len(a) : k[j] = a[j] /\ j \in 1..Len(k)
<1>1. Build!IsBelow(k, a) <=> Len(a) < Len(k) /\ \A j \in 1..Len(a) : k[j] = a[j]
  BY BelowMeans, Zenon
<1>2. Len(a) \in Nat /\ Len(k) \in Nat
  OBVIOUS
<1> QED
  BY <1>1, <1>2

LEMMA BelowIf ==
    ASSUME NEW k \in Seq(Nat), NEW a \in Seq(Nat), Len(a) < Len(k),
           \A j \in 1..Len(a) : k[j] = a[j]
    PROVE  Build!IsBelow(k, a)
<1>1. Build!IsBelow(k, a) <=> Len(a) < Len(k) /\ \A j \in 1..Len(a) : k[j] = a[j]
  BY BelowMeans, Zenon
<1> QED
  BY <1>1

LEMMA BelowIsTransitive ==
    ASSUME NEW x \in Seq(Nat), NEW y \in Seq(Nat), NEW z \in Seq(Nat),
           Build!IsBelow(x, y), Build!IsBelow(y, z)
    PROVE  Build!IsBelow(x, z)
<1>1. Len(y) < Len(x) /\ \A j \in 1..Len(y) : x[j] = y[j] /\ j \in 1..Len(x)
  BY BelowSays, Zenon
<1>2. Len(z) < Len(y) /\ \A j \in 1..Len(z) : y[j] = z[j] /\ j \in 1..Len(y)
  BY BelowSays, Zenon
<1>3. Len(z) < Len(x)
  BY <1>1, <1>2
<1>4. \A j \in 1..Len(z) : x[j] = z[j]
  BY <1>1, <1>2
<1> QED
  BY <1>3, <1>4, BelowIf, Zenon

LEMMA BelowIsOneWay ==
    ASSUME NEW x \in Seq(Nat), NEW y \in Seq(Nat), Build!IsBelow(x, y)
    PROVE  ~Build!IsBelow(y, x) /\ x # y /\ x # << >>
<1>1. Len(y) < Len(x)
  BY BelowSays, Zenon
<1>2. ASSUME Build!IsBelow(y, x) PROVE FALSE
  <2>1. Len(x) < Len(y)
    BY <1>2, BelowSays, Zenon
  <2> QED
    BY <1>1, <2>1
<1> QED
  BY <1>1, <1>2

\* Of two keys above a third one, one is above the other.
LEMMA AboveIsChain ==
    ASSUME NEW x \in Seq(Nat), NEW y \in Seq(Nat), NEW z \in Seq(Nat),
           Build!IsBelow(z, x), Build!IsBelow(z, y)
    PROVE  x = y \/ Build!IsBelow(x, y) \/ Build!IsBelow(y, x)
<1>1. \A j \in 1..Len(x) : z[j] = x[j]
  BY BelowSays, Zenon
<1>2. \A j \in 1..Len(y) : z[j] = y[j]
  BY BelowSays, Zenon
<1>3. CASE Len(x) = Len(y)
  <2>1. \A j \in 1..Len(x) : x[j] = y[j]
    BY <1>1, <1>2, <1>3
  <2> QED
    BY <1>3, <2>1, SeqEqual
<1>4. CASE Len(x) < Len(y)
  <2>1. \A j \in 1..Len(x) : y[j] = x[j]
    BY <1>1, <1>2, <1>4
  <2> QED
    BY <1>4, <2>1, BelowIf, Zenon
<1>5. CASE Len(y) < Len(x)
  <2>1. \A j \in 1..Len(y) : x[j] = y[j]
    BY <1>1, <1>2, <1>5
  <2> QED
    BY <1>5, <2>1, BelowIf, Zenon
<1> QED
  BY <1>3, <1>4, <1>5

\* The keys above a key are its ancestors'.
LEMMA AncestorsAreAbove ==
    ASSUME NEW k \in Seq(Nat)
    PROVE  Build!get_node_ancestor_keys(k) = {a \in Seq(Nat) : a # << >> /\ Build!IsBelow(k, a)}
<1>1. ASSUME NEW i \in 1..(Len(k) - 1)
      PROVE  /\ SubSeq(k, 1, i) \in Seq(Nat) /\ SubSeq(k, 1, i) # << >>
             /\ Build!IsBelow(k, SubSeq(k, 1, i))
  <2>1. SubSeq(k, 1, i) \in Seq(Nat) /\ Len(SubSeq(k, 1, i)) = i
    OBVIOUS
  <2> QED
    BY <2>1 DEF Build!IsBelow
<1>2. ASSUME NEW a \in Seq(Nat), a # << >>, Build!IsBelow(k, a)
      PROVE  Len(a) \in 1..(Len(k) - 1) /\ a = SubSeq(k, 1, Len(a))
  BY <1>2 DEF Build!IsBelow
<1> QED
  BY <1>1, <1>2 DEF Build!get_node_ancestor_keys

-----------------------------------------------------------------------------
(* The order of keys *)

\* x differs from y first at i, and is less there.
Less(x, y, i) ==
    /\ i \in Nat /\ i \in 1..Len(x) /\ i \in 1..Len(y)
    /\ x[i] < y[i]
    /\ \A j \in 1..(i - 1) : x[j] = y[j]

LEMMA BeforeMeans ==
    ASSUME NEW x \in Seq(Nat), NEW y \in Seq(Nat)
    PROVE  Build!KeyBefore(x, y) <=> Build!IsBelow(y, x) \/ \E i : Less(x, y, i)
<1>1. DOMAIN x = 1..Len(x) /\ DOMAIN y = 1..Len(y)
  OBVIOUS
<1>2. ASSUME NEW i \in DOMAIN x \cap DOMAIN y, x[i] < y[i], \A j \in 1..(i - 1) : x[j] = y[j]
      PROVE  Less(x, y, i)
  BY <1>1, <1>2 DEF Less
<1>3. ASSUME NEW i, Less(x, y, i)
      PROVE  i \in DOMAIN x \cap DOMAIN y /\ x[i] < y[i] /\ \A j \in 1..(i - 1) : x[j] = y[j]
  BY <1>1, <1>3 DEF Less
<1> QED
  BY <1>2, <1>3, Zenon DEF Build!KeyBefore

LEMMA LessIsStrict ==
    ASSUME NEW x \in Seq(Nat), NEW y \in Seq(Nat), NEW i, Less(x, y, i)
    PROVE  x # y /\ ~Build!IsBelow(x, y) /\ ~Build!IsBelow(y, x)
<1>1. i \in 1..Len(x) /\ i \in 1..Len(y) /\ x[i] \in Nat /\ y[i] \in Nat /\ x[i] # y[i]
  BY SMTT(60) DEF Less
<1>2. ASSUME Build!IsBelow(x, y) PROVE FALSE
  <2>1. \A j \in 1..Len(y) : x[j] = y[j]
    BY <1>2, BelowSays, Zenon
  <2> QED
    BY <1>1, <2>1
<1>3. ASSUME Build!IsBelow(y, x) PROVE FALSE
  <2>1. \A j \in 1..Len(x) : y[j] = x[j]
    BY <1>3, BelowSays, Zenon
  <2> QED
    BY <1>1, <2>1
<1> QED
  BY <1>1, <1>2, <1>3

LEMMA BeforeIsStrict ==
    ASSUME NEW x \in Seq(Nat), NEW y \in Seq(Nat), Build!KeyBefore(x, y)
    PROVE  x # y /\ ~Build!IsBelow(x, y)
<1>1. Build!IsBelow(y, x) \/ \E i : Less(x, y, i)
  BY BeforeMeans, Zenon
<1>2. CASE Build!IsBelow(y, x)
  BY <1>2, BelowIsOneWay, Zenon
<1>3. ASSUME NEW i, Less(x, y, i) PROVE x # y /\ ~Build!IsBelow(x, y)
  BY <1>3, LessIsStrict, Zenon
<1> QED
  BY <1>1, <1>2, <1>3, Zenon

\* What is below the larger of two keys that differ is larger, too.
LEMMA LessGoesDown ==
    ASSUME NEW x \in Seq(Nat), NEW y \in Seq(Nat), NEW z \in Seq(Nat), NEW i,
           Less(x, y, i), Build!IsBelow(z, y)
    PROVE  Less(x, z, i)
<1>1. \A j \in 1..Len(y) : z[j] = y[j] /\ j \in 1..Len(z)
  BY BelowSays, Zenon
<1> QED
  BY <1>1 DEF Less

LEMMA MoreGoesDown ==
    ASSUME NEW x \in Seq(Nat), NEW y \in Seq(Nat), NEW z \in Seq(Nat), NEW i,
           Less(x, y, i), Build!IsBelow(z, x)
    PROVE  Less(z, y, i)
<1>1. \A j \in 1..Len(x) : z[j] = x[j] /\ j \in 1..Len(z)
  BY BelowSays, Zenon
<1> QED
  BY <1>1, SMTT(60) DEF Less

LEMMA LessIsTransitive ==
    ASSUME NEW x \in Seq(Nat), NEW y \in Seq(Nat), NEW z \in Seq(Nat), NEW i, NEW m,
           Less(x, y, i), Less(y, z, m)
    PROVE  \E n : Less(x, z, n)
<1>1. i \in Nat /\ m \in Nat
  BY DEF Less
<1>2. CASE i <= m
  <2>1. y[i] <= z[i] /\ i \in 1..Len(z)
    <3>1. m \in 1..Len(z) /\ y[m] < z[m] /\ \A j \in 1..(m - 1) : y[j] = z[j]
      BY DEF Less
    <3>2. i \in 1..Len(y)
      BY DEF Less
    <3>3. y[i] \in Nat /\ Len(z) \in Nat
      BY <3>2
    <3>4. i \in 1..Len(z)
      BY <1>1, <1>2, <3>1, <3>2
    <3>5. z[i] \in Nat
      BY <3>4
    <3>6. CASE i = m
      BY <3>1, <3>3, <3>4, <3>5, <3>6, SMTT(60)
    <3>7. CASE i < m
      <4>1. y[i] = z[i]
        BY <1>1, <3>1, <3>2, <3>7
      <4> QED
        BY <3>3, <3>4, <4>1
    <3> QED
      BY <1>1, <1>2, <3>6, <3>7
  <2>2. x[i] < z[i]
    <3>1. x[i] < y[i] /\ i \in 1..Len(x) /\ i \in 1..Len(y)
      BY DEF Less
    <3>2. x[i] \in Nat /\ y[i] \in Nat /\ z[i] \in Nat
      BY <2>1, <3>1, SMTT(60)
    <3> QED
      BY <2>1, <3>1, <3>2, SMTT(60)
  <2>3. \A j \in 1..(i - 1) : x[j] = z[j]
    BY <1>1, <1>2 DEF Less
  <2>4. Less(x, z, i)
    BY <2>1, <2>2, <2>3 DEF Less
  <2> QED
    BY <2>4
<1>3. CASE m < i
  <2>1. Less(x, z, m)
    BY <1>1, <1>3, SMTT(60) DEF Less
  <2> QED
    BY <2>1
<1> QED
  BY <1>1, <1>2, <1>3

\* A key that differs from one above another one differs from that, or is above it.
LEMMA LessGoesUp ==
    ASSUME NEW x \in Seq(Nat), NEW y \in Seq(Nat), NEW z \in Seq(Nat), NEW i,
           Build!IsBelow(y, x), Less(y, z, i)
    PROVE  Less(x, z, i) \/ Build!IsBelow(z, x)
<1>1. \A j \in 1..Len(x) : y[j] = x[j] /\ j \in 1..Len(y)
  BY BelowSays, Zenon
<1>2. i \in Nat /\ i \in 1..Len(y) /\ i \in 1..Len(z) /\ \A j \in 1..(i - 1) : y[j] = z[j]
  BY DEF Less
<1>3. CASE i <= Len(x)
  BY <1>1, <1>3, SMTT(60) DEF Less
<1>4. CASE Len(x) < i
  <2>1. Len(x) < Len(z)
    BY <1>2, <1>4
  <2>2. \A j \in 1..Len(x) : z[j] = x[j]
    BY <1>1, <1>2, <1>4
  <2> QED
    BY <2>1, <2>2, BelowIf, Zenon
<1> QED
  BY <1>2, <1>3, <1>4

LEMMA BeforeIsTransitive ==
    ASSUME NEW x \in Seq(Nat), NEW y \in Seq(Nat), NEW z \in Seq(Nat),
           Build!KeyBefore(x, y), Build!KeyBefore(y, z)
    PROVE  Build!KeyBefore(x, z)
<1>1. Build!IsBelow(y, x) \/ \E i : Less(x, y, i)
  BY BeforeMeans, Zenon
<1>2. Build!IsBelow(z, y) \/ \E i : Less(y, z, i)
  BY BeforeMeans, Zenon
<1> SUFFICES Build!IsBelow(z, x) \/ \E i : Less(x, z, i)
  BY BeforeMeans, Zenon
<1>3. CASE Build!IsBelow(y, x) /\ Build!IsBelow(z, y)
  BY <1>3, BelowIsTransitive, Zenon
<1>4. ASSUME Build!IsBelow(y, x), NEW i, Less(y, z, i)
      PROVE  Build!IsBelow(z, x) \/ \E n : Less(x, z, n)
  BY <1>4, LessGoesUp, Zenon
<1>5. ASSUME Build!IsBelow(z, y), NEW i, Less(x, y, i)
      PROVE  Build!IsBelow(z, x) \/ \E n : Less(x, z, n)
  BY <1>5, LessGoesDown, Zenon
<1>6. ASSUME NEW i, Less(x, y, i), NEW m, Less(y, z, m)
      PROVE  Build!IsBelow(z, x) \/ \E n : Less(x, z, n)
  BY <1>6, LessIsTransitive, Zenon
<1> QED
  BY <1>1, <1>2, <1>3, <1>4, <1>5, <1>6, Zenon

\* Between a key and one below it are only keys below it.
LEMMA BelowIsTogether ==
    ASSUME NEW t \in Seq(Nat), NEW x \in Seq(Nat), NEW y \in Seq(Nat),
           Build!KeyBefore(t, x), Build!KeyBefore(x, y), Build!IsBelow(y, t)
    PROVE  Build!IsBelow(x, t)
<1>1. ASSUME NEW i, Less(t, x, i) PROVE FALSE
  <2>1. Less(y, x, i)
    BY <1>1, MoreGoesDown, Zenon
  <2>2. Build!KeyBefore(y, x)
    BY <2>1, BeforeMeans, Zenon
  <2>3. Build!KeyBefore(y, y)
    BY <2>2, BeforeIsTransitive, Zenon
  <2> QED
    BY <2>3, BeforeIsStrict, Zenon
<1> QED
  BY <1>1, BeforeMeans, Zenon

\* Two keys differ in a first number, or one is below the other.
LEMMA BeforeIsTotal ==
    ASSUME NEW x \in Seq(Nat), NEW y \in Seq(Nat), x # y
    PROVE  Build!KeyBefore(x, y) \/ Build!KeyBefore(y, x)
<1> DEFINE Differ == {i \in Nat : i \in 1..Len(x) /\ i \in 1..Len(y) /\ x[i] # y[i]}
<1>1. CASE Differ = {}
  <2>1. \A i : i \in 1..Len(x) /\ i \in 1..Len(y) => x[i] = y[i]
    BY <1>1, SMTT(60)
  <2>2. Len(x) # Len(y)
    BY <2>1, SMTT(60)
  <2>3. CASE Len(x) < Len(y)
    <3>1. \A j \in 1..Len(x) : y[j] = x[j]
      BY <2>1, <2>3, SMTT(60)
    <3> QED
      BY <2>3, <3>1, BelowIf, BeforeMeans, Zenon
  <2>4. CASE Len(y) < Len(x)
    <3>1. \A j \in 1..Len(y) : x[j] = y[j]
      BY <2>1, <2>4, SMTT(60)
    <3> QED
      BY <2>4, <3>1, BelowIf, BeforeMeans, Zenon
  <2> QED
    BY <2>2, <2>3, <2>4
<1>2. CASE Differ # {}
  <2>1. Differ \in SUBSET Nat
    OBVIOUS
  <2>2. PICK i \in Differ : \A j \in Differ : i <= j
    <3> HIDE DEF Differ
    <3> QED
      BY <1>2, <2>1, LeastNumber, Zenon
  <2>3. ASSUME NEW j \in 1..(i - 1) PROVE x[j] = y[j]
    <3>1. i \in Nat /\ i \in 1..Len(x) /\ i \in 1..Len(y)
      OBVIOUS
    <3>2. j \in Nat /\ j \in 1..Len(x) /\ j \in 1..Len(y) /\ ~(i <= j)
      BY <3>1
    <3> QED
      BY <2>2, <3>2
  <2>4. Less(x, y, i) \/ Less(y, x, i)
    BY <2>2, <2>3, SMTT(60) DEF Less
  <2> QED
    BY <2>4, BeforeMeans, Zenon
<1> QED
  BY <1>1, <1>2

-----------------------------------------------------------------------------
(* Sorting *)

\* The keys of S before a key.
Lower(S, x) == {y \in S : Build!KeyBefore(y, x)}

LEMMA LowerGrows ==
    ASSUME NEW S \in SUBSET Seq(Nat), IsFiniteSet(S), NEW x \in S, NEW y \in S,
           Build!KeyBefore(x, y)
    PROVE  Cardinality(Lower(S, x)) < Cardinality(Lower(S, y))
<1>1. Lower(S, y) \in SUBSET S /\ Lower(S, x) \in SUBSET S
  BY DEF Lower
<1>2. IsFiniteSet(Lower(S, y)) /\ IsFiniteSet(Lower(S, x))
  BY <1>1, FS_Subset
<1>3. ASSUME NEW z \in Lower(S, x) PROVE z \in Lower(S, y)
  <2>1. z \in S /\ Build!KeyBefore(z, x)
    BY DEF Lower
  <2>2. Build!KeyBefore(z, y)
    BY <2>1, BeforeIsTransitive
  <2> QED
    BY <2>1, <2>2 DEF Lower
<1>4. x \in Lower(S, y) /\ x \notin Lower(S, x)
  <2>1. ~Build!KeyBefore(x, x)
    BY BeforeIsStrict
  <2> QED
    BY <2>1 DEF Lower
<1>5. Lower(S, x) \in SUBSET Lower(S, y) /\ Lower(S, x) # Lower(S, y)
  BY <1>3, <1>4
<1>6. /\ Cardinality(Lower(S, x)) <= Cardinality(Lower(S, y))
      /\ Cardinality(Lower(S, y)) # Cardinality(Lower(S, x))
  BY <1>2, <1>5, FS_Subset
<1>7. Cardinality(Lower(S, x)) \in Nat /\ Cardinality(Lower(S, y)) \in Nat
  BY <1>2, FS_CardinalityType
<1> QED
  BY <1>6, <1>7

\* The place of a key is one more than the number of keys before it.
LEMMA KeysCanBeSorted ==
    ASSUME NEW S \in SUBSET Seq(Nat), IsFiniteSet(S)
    PROVE  \E s \in [1..Cardinality(S) -> S] :
             /\ \A i, j \in 1..Cardinality(S) : i < j => Build!KeyBefore(s[i], s[j])
             /\ \A x \in S : \E i \in 1..Cardinality(S) : s[i] = x
<1> DEFINE N == Cardinality(S)
           place == [x \in S |-> Cardinality(Lower(S, x)) + 1]
<1>1. N \in Nat
  BY FS_CardinalityType
<1>2. ASSUME NEW x \in S PROVE place[x] \in 1..N
  <2>1. Lower(S, x) \in SUBSET S /\ x \notin Lower(S, x)
    <3>1. ~Build!KeyBefore(x, x)
      BY BeforeIsStrict
    <3> QED
      BY <3>1 DEF Lower
  <2>2. IsFiniteSet(Lower(S, x))
    BY <2>1, FS_Subset
  <2>3. Cardinality(Lower(S, x)) <= N /\ N # Cardinality(Lower(S, x))
    BY <2>1, FS_Subset
  <2>4. Cardinality(Lower(S, x)) \in Nat
    BY <2>2, FS_CardinalityType
  <2> QED
    BY <1>1, <2>3, <2>4
<1>3. ASSUME NEW x \in S, NEW y \in S, Build!KeyBefore(x, y) PROVE place[x] < place[y]
  <2>1. Cardinality(Lower(S, x)) < Cardinality(Lower(S, y))
    BY <1>3, LowerGrows
  <2>2. /\ place[x] = Cardinality(Lower(S, x)) + 1 /\ place[y] = Cardinality(Lower(S, y)) + 1
        /\ place[x] \in Nat /\ place[y] \in Nat
    BY <1>1, <1>2
  <2>3. Cardinality(Lower(S, x)) \in Nat /\ Cardinality(Lower(S, y)) \in Nat
    <3>1. Lower(S, x) \in SUBSET S /\ Lower(S, y) \in SUBSET S
      BY DEF Lower
    <3> QED
      BY <3>1, FS_Subset, FS_CardinalityType
  <2> QED
    BY <2>1, <2>2, <2>3
<1>4. place \in [S -> 1..N]
  BY <1>2
<1> HIDE DEF place, N
<1>5. ASSUME NEW x \in S, NEW y \in S, x # y PROVE place[x] # place[y]
  <2>1. Build!KeyBefore(x, y) \/ Build!KeyBefore(y, x)
    BY <1>5, BeforeIsTotal
  <2>2. place[x] \in Nat /\ place[y] \in Nat
    BY <1>1, <1>2
  <2> QED
    BY <1>3, <2>1, <2>2
<1>6. place \in Injection(S, 1..N)
  BY <1>4, <1>5 DEF Injection, IsInjective
<1>7. IsFiniteSet(1..N) /\ Cardinality(1..N) = N
  BY <1>1, FS_Interval
<1>8. place \in Surjection(S, 1..N)
  BY <1>6, <1>7, FS_Injection DEF N
<1>9. \A i \in 1..N : \E x \in S : place[x] = i
  BY <1>8 DEF Surjection
<1> DEFINE s == [i \in 1..N |-> CHOOSE x \in S : place[x] = i]
<1>10. ASSUME NEW i \in 1..N PROVE s[i] \in S /\ place[s[i]] = i
  BY <1>9
<1>11. s \in [1..N -> S]
  BY <1>10
<1>12. ASSUME NEW x \in S PROVE \E i \in 1..N : s[i] = x
  <2>1. s[place[x]] \in S /\ place[s[place[x]]] = place[x]
    BY <1>2, <1>10
  <2>2. s[place[x]] = x
    BY <1>5, <2>1
  <2> QED
    BY <1>2, <2>2
<1> HIDE DEF s
<1>13. ASSUME NEW i \in 1..N, NEW j \in 1..N, i < j PROVE Build!KeyBefore(s[i], s[j])
  <2>1. s[i] \in S /\ s[j] \in S /\ place[s[i]] = i /\ place[s[j]] = j
    BY <1>10
  <2>2. s[i] # s[j]
    BY <1>13, <2>1
  <2>3. Build!KeyBefore(s[i], s[j]) \/ Build!KeyBefore(s[j], s[i])
    BY <2>1, <2>2, BeforeIsTotal
  <2>4. ASSUME Build!KeyBefore(s[j], s[i]) PROVE FALSE
    <3>1. place[s[j]] < place[s[i]]
      BY <1>3, <2>1, <2>4
    <3> QED
      BY <1>1, <1>13, <2>1, <3>1
  <2> QED
    BY <2>3, <2>4
<1> QED
  BY <1>11, <1>12, <1>13 DEF N

\* Sorted lists the keys of a set once each, each before those after it.
LEMMA SortedIsSorted ==
    ASSUME NEW S \in SUBSET Seq(Nat), IsFiniteSet(S)
    PROVE  /\ Build!Sorted(S) \in Seq(S)
           /\ \A i, j \in 1..Len(Build!Sorted(S)) :
                i < j => Build!KeyBefore(Build!Sorted(S)[i], Build!Sorted(S)[j])
           /\ \A x \in S : \E i \in 1..Len(Build!Sorted(S)) : Build!Sorted(S)[i] = x
<1> DEFINE N == Cardinality(S)
           IsSort(s) == \A i, j \in DOMAIN s : i < j => Build!KeyBefore(s[i], s[j])
<1>1. N \in Nat
  BY FS_CardinalityType
<1>2. PICK s \in [1..N -> S] :
         /\ \A i, j \in 1..N : i < j => Build!KeyBefore(s[i], s[j])
         /\ \A x \in S : \E i \in 1..N : s[i] = x
  BY KeysCanBeSorted
<1>3. ASSUME NEW i \in 1..N, NEW j \in 1..N, i # j PROVE s[i] # s[j]
  <2>1. i < j \/ j < i
    BY <1>1, <1>3
  <2>2. Build!KeyBefore(s[i], s[j]) \/ Build!KeyBefore(s[j], s[i])
    BY <1>2, <2>1
  <2>3. s[i] \in Seq(Nat) /\ s[j] \in Seq(Nat)
    BY <1>2
  <2> QED
    BY <2>2, <2>3, BeforeIsStrict
<1>4. s \in Build!SetToSeqs(S) /\ IsSort(s)
  <2>1. Build!SetToSeqs(S) = {f \in [1..N -> S] : \A i, j \in 1..N : i # j => f[i] # f[j]}
    <3>1. Build!Cardinality(S) = N
      BY SizesAreSizes
    <3> QED
      BY <3>1 DEF Build!SetToSeqs
  <2>2. DOMAIN s = 1..N
    OBVIOUS
  <2>3. \A i, j \in 1..N : i # j => s[i] # s[j]
    BY <1>3
  <2>4. IsSort(s)
    BY <1>2, <2>2
  <2> QED
    BY <2>1, <2>3, <2>4
<1>5. Build!Sorted(S) = CHOOSE t \in Build!SetToSeqs(S) : IsSort(t)
  BY DEF Build!Sorted
<1>6. Build!Sorted(S) \in Build!SetToSeqs(S) /\ IsSort(Build!Sorted(S))
  <2> HIDE DEF IsSort
  <2> QED
    BY <1>4, <1>5
<1> DEFINE r == Build!Sorted(S)
<1>7. r \in [1..N -> S] /\ \A i, j \in 1..N : i # j => r[i] # r[j]
  <2>1. Build!SetToSeqs(S) = {f \in [1..N -> S] : \A i, j \in 1..N : i # j => f[i] # f[j]}
    <3>1. Build!Cardinality(S) = N
      BY SizesAreSizes
    <3> QED
      BY <3>1 DEF Build!SetToSeqs
  <2> QED
    BY <1>6, <2>1
<1>8. \A i, j \in 1..N : i < j => Build!KeyBefore(r[i], r[j])
  BY <1>6, <1>7
<1> HIDE DEF r, N
<1>9. r \in Seq(S) /\ Len(r) = N
  BY <1>1, <1>7
<1>10. r \in Injection(1..N, S)
  BY <1>7 DEF Injection, IsInjective
<1>11. Cardinality(1..N) = N /\ IsFiniteSet(1..N)
  BY <1>1, FS_Interval
<1>12. r \in Surjection(1..N, S)
  BY <1>10, <1>11, FS_Injection DEF N
<1>13. \A x \in S : \E i \in 1..N : r[i] = x
  BY <1>12 DEF Surjection
<1> QED
  BY <1>8, <1>9, <1>13 DEF r

-----------------------------------------------------------------------------
(* What the tree holds *)

InputOK ==
    /\ Build!KeyAssumption
    /\ nodes \in SUBSET Key
    /\ placed \in [nodes -> SUBSET Asset]
    /\ direct_nodes \in SUBSET nodes
    /\ direct_assets \in SUBSET Asset

\* A node, and those of the tree below it.
Under(k) == {n \in Build!perm_nodes : n = k \/ Build!IsBelow(n, k)}

\* What is collected for them.
Whole(k) == UNION {Build!collected(n) : n \in Under(k)}

LEMMA KeysAreSequences ==
    ASSUME InputOK
    PROVE  /\ \A n \in nodes : n \in Seq(Nat) /\ n # << >> /\ n \in Key
           /\ Build!perm_nodes \in SUBSET nodes
           /\ Build!granted \in SUBSET direct_nodes
           /\ IsFiniteSet(nodes) /\ IsFiniteSet(Build!perm_nodes) /\ IsFiniteSet(Asset)
<1>1. \A n \in nodes : n \in Seq(Nat) /\ n # << >> /\ n \in Key
  BY DEF InputOK, Build!KeyAssumption
<1>2. Build!granted \in SUBSET direct_nodes
  BY DEF Build!granted
<1>3. Build!from_asset \in SUBSET nodes /\ Build!ancestors \in SUBSET nodes
  BY DEF Build!from_asset, Build!ancestors, Build!direct_asset_nodes
<1>4. Build!perm_nodes \in SUBSET nodes
  BY <1>2, <1>3 DEF Build!perm_nodes, InputOK
<1>5. IsFiniteSet(Key) /\ IsFiniteSet(Asset)
  BY SizesAreSizes DEF InputOK, Build!KeyAssumption
<1>6. IsFiniteSet(nodes)
  BY <1>5, FS_Subset DEF InputOK
<1>7. IsFiniteSet(Build!perm_nodes)
  BY <1>4, <1>6, FS_Subset
<1> QED
  BY <1>1, <1>2, <1>4, <1>5, <1>6, <1>7

LEMMA AncestorsOfAncestors ==
    ASSUME NEW x \in Seq(Nat), NEW y \in Build!get_node_ancestor_keys(x)
    PROVE  /\ y \in Seq(Nat) /\ y # << >> /\ Build!IsBelow(x, y)
           /\ Build!get_node_ancestor_keys(y) \subseteq Build!get_node_ancestor_keys(x)
<1>1. y \in Seq(Nat) /\ y # << >> /\ Build!IsBelow(x, y)
  BY AncestorsAreAbove
<1>2. ASSUME NEW z \in Build!get_node_ancestor_keys(y)
      PROVE  z \in Build!get_node_ancestor_keys(x)
  <2>1. z \in Seq(Nat) /\ z # << >> /\ Build!IsBelow(y, z)
    BY <1>1, AncestorsAreAbove
  <2>2. Build!IsBelow(x, z)
    BY <1>1, <2>1, BelowIsTransitive
  <2> QED
    BY <2>1, <2>2, AncestorsAreAbove
<1> QED
  BY <1>1, <1>2

\* Nothing of the tree lies below a granted node.
LEMMA NothingBelowGranted ==
    ASSUME InputOK, NEW k \in Build!perm_nodes
    PROVE  Build!get_node_ancestor_keys(k) \cap direct_nodes = {}
<1>1. ASSUME NEW n \in Build!granted \cup Build!from_asset
      PROVE  Build!get_node_ancestor_keys(n) \cap direct_nodes = {}
  BY DEF Build!granted, Build!from_asset, Build!has_any_ancestor_direct_permed
<1>2. ASSUME NEW n \in Build!granted \cup Build!from_asset,
             k \in Build!get_node_ancestor_keys(n)
      PROVE  Build!get_node_ancestor_keys(k) \cap direct_nodes = {}
  <2>1. n \in Seq(Nat)
    BY KeysAreSequences DEF Build!perm_nodes
  <2>2. Build!get_node_ancestor_keys(k) \subseteq Build!get_node_ancestor_keys(n)
    BY <1>2, <2>1, AncestorsOfAncestors
  <2> QED
    BY <1>1, <2>2
<1> QED
  BY <1>1, <1>2 DEF Build!perm_nodes, Build!ancestors

\* UserPermTreeBuildUtil.compute_perm_nodes: the tree can be opened from its roots.
LEMMA TreeIsCompleteHolds ==
    ASSUME InputOK
    PROVE  Build!TreeIsComplete
<1>1. ASSUME NEW k \in Build!perm_nodes, NEW a \in Build!get_node_ancestor_keys(k) \cap nodes
      PROVE  a \in Build!perm_nodes
  <2>1. CASE k \in Build!granted \cup Build!from_asset
    BY <2>1 DEF Build!perm_nodes, Build!ancestors
  <2>2. CASE k \notin Build!granted \cup Build!from_asset
    <3>1. PICK n \in Build!granted \cup Build!from_asset : k \in Build!get_node_ancestor_keys(n)
      BY <2>2 DEF Build!perm_nodes, Build!ancestors
    <3>2. n \in Seq(Nat)
      BY KeysAreSequences DEF Build!perm_nodes
    <3>3. a \in Build!get_node_ancestor_keys(n)
      BY <3>1, <3>2, AncestorsOfAncestors
    <3> QED
      BY <3>3 DEF Build!perm_nodes, Build!ancestors
  <2> QED
    BY <2>1, <2>2
<1>2. ASSUME NEW k \in Build!perm_nodes
      PROVE  Build!get_node_ancestor_keys(k) \cap Build!granted = {}
  BY NothingBelowGranted, KeysAreSequences
<1>3. ASSUME ~ungroup, NEW n \in nodes, Build!Seen(n) # {}
      PROVE  Build!Listed(n)
  BY <1>3 DEF Build!Seen, Build!Listed, Build!perm_nodes, Build!granted, Build!from_asset,
              Build!direct_asset_nodes
<1> QED
  BY <1>1, <1>2, <1>3 DEF Build!TreeIsComplete

\* A node that is named, or lies below one that is, is at or below a granted one.
LEMMA GrantedAbove ==
    ASSUME InputOK, NEW n \in nodes,
           n \in direct_nodes \/ Build!has_any_ancestor_direct_permed(n)
    PROVE  \E g \in Build!granted : n = g \/ Build!IsBelow(n, g)
<1> DEFINE Named == {g \in direct_nodes : n = g \/ Build!IsBelow(n, g)}
           Sizes == {Len(g) : g \in Named}
<1>1. n \in Seq(Nat) /\ n # << >> /\ \A g \in direct_nodes : g \in Seq(Nat) /\ g # << >>
  BY KeysAreSequences DEF InputOK
<1>2. Named # {}
  <2>1. CASE n \in direct_nodes
    BY <2>1
  <2>2. CASE Build!has_any_ancestor_direct_permed(n)
    <3>1. PICK g \in Build!get_node_ancestor_keys(n) : g \in direct_nodes
      BY <2>2 DEF Build!has_any_ancestor_direct_permed
    <3>2. Build!IsBelow(n, g)
      BY <1>1, <3>1, AncestorsAreAbove
    <3> QED
      BY <3>1, <3>2
  <2> QED
    BY <2>1, <2>2
<1>3. Sizes \in SUBSET Nat /\ Sizes # {}
  <2>1. ASSUME NEW g \in Named PROVE Len(g) \in Nat
    <3>1. g \in Seq(Nat)
      BY <1>1
    <3> QED
      BY <3>1
  <2>2. \A j \in Sizes : j \in Nat
    <3> HIDE DEF Named
    <3> QED
      BY <2>1
  <2>3. \E j : j \in Sizes
    <3> HIDE DEF Named
    <3> QED
      BY <1>2
  <2> QED
    BY <2>2, <2>3
<1>4. PICK m \in Sizes : \A j \in Sizes : m <= j
  <2> HIDE DEF Sizes
  <2> QED
    BY <1>3, LeastNumber
<1>5. PICK g \in Named : Len(g) = m
  OBVIOUS
<1>6. ASSUME NEW h \in Build!get_node_ancestor_keys(g), h \in direct_nodes PROVE FALSE
  <2>1. h \in Seq(Nat) /\ Build!IsBelow(g, h)
    BY <1>1, <1>5, AncestorsAreAbove
  <2>2. Build!IsBelow(n, h)
    BY <1>1, <1>5, <2>1, BelowIsTransitive
  <2>3. Len(h) \in Sizes
    BY <1>6, <2>2
  <2>4. Len(h) < Len(g) /\ Len(h) \in Nat /\ Len(g) \in Nat
    BY <1>1, <1>5, <2>1, BelowSays
  <2> QED
    BY <1>4, <1>5, <2>3, <2>4
<1>7. g \in Build!granted
  BY <1>5, <1>6 DEF Build!granted, Build!has_any_ancestor_direct_permed
<1> QED
  BY <1>5, <1>7

\* NodeAssetsUtil: what is collected at and below a node of the tree is what the user sees.
LEMMA CollectedIsSeen ==
    ASSUME InputOK, NEW k \in Build!perm_nodes
    PROVE  Whole(k) = Build!VisibleBelow(k)
<1>1. /\ k \in nodes /\ Build!perm_nodes \subseteq nodes /\ Build!granted \subseteq direct_nodes
      /\ direct_nodes \subseteq nodes /\ \A n \in nodes : n \in Seq(Nat) /\ n # << >>
  BY KeysAreSequences DEF InputOK
<1>2. ASSUME NEW n \in Under(k), NEW x \in Build!collected(n)
      PROVE  x \in Build!VisibleBelow(k)
  <2>1. n \in Build!perm_nodes /\ n \in nodes /\ (n = k \/ Build!IsBelow(n, k))
    BY <1>1 DEF Under
  <2>2. CASE x \in placed[n] \cap direct_assets
    <3>1. x \in Build!Seen(n) /\ Build!Listed(n)
      BY <2>1, <2>2 DEF Build!Seen, Build!Listed
    <3> QED
      BY <2>1, <3>1 DEF Build!VisibleBelow
  <2>3. CASE x \notin placed[n] \cap direct_assets
    <3>1. n \in Build!granted /\ x \in Build!get_all_asset_ids(n)
      BY <2>3 DEF Build!collected
    <3>2. PICK m \in nodes : (m = n \/ Build!IsBelow(m, n)) /\ x \in placed[m]
      BY <3>1 DEF Build!get_all_asset_ids
    <3>3. m \in direct_nodes \/ Build!has_any_ancestor_direct_permed(m)
      <4>1. CASE m = n
        BY <1>1, <3>1, <4>1
      <4>2. CASE Build!IsBelow(m, n)
        <5>1. n \in Build!get_node_ancestor_keys(m)
          BY <1>1, <2>1, <4>2, AncestorsAreAbove
        <5> QED
          BY <1>1, <3>1, <5>1 DEF Build!has_any_ancestor_direct_permed
      <4> QED
        BY <3>2, <4>1, <4>2
    <3>4. x \in Build!Seen(m)
      BY <3>2, <3>3 DEF Build!Seen
    <3>5. Build!Listed(m)
      BY <2>1, <3>2, <3>3, <1>1, AncestorsAreAbove, <3>1
         DEF Build!Listed, Build!has_any_ancestor_direct_permed
    <3>6. m = k \/ Build!IsBelow(m, k)
      BY <1>1, <2>1, <3>2, BelowIsTransitive
    <3> QED
      BY <3>4, <3>5, <3>6 DEF Build!VisibleBelow
  <2> QED
    BY <2>2, <2>3
<1>3. ASSUME NEW n \in nodes, n = k \/ Build!IsBelow(n, k), Build!Listed(n),
             NEW x \in Build!Seen(n)
      PROVE  \E g \in Under(k) : x \in Build!collected(g)
  <2>1. CASE n \in direct_nodes \/ Build!has_any_ancestor_direct_permed(n)
    <3>1. PICK g \in Build!granted : n = g \/ Build!IsBelow(n, g)
      BY <2>1, GrantedAbove
    <3>2. x \in placed[n]
      BY <2>1 DEF Build!Seen
    <3>3. x \in Build!collected(g)
      BY <3>1, <3>2 DEF Build!collected, Build!get_all_asset_ids
    <3>4. ASSUME Build!IsBelow(k, g) PROVE FALSE
      <4>1. g \in Build!get_node_ancestor_keys(k)
        BY <1>1, <3>4, AncestorsAreAbove
      <4> QED
        BY <1>1, <4>1, NothingBelowGranted
    <3>5. g = k \/ Build!IsBelow(g, k)
      BY <1>1, <1>3, <3>1, <3>4, AboveIsChain
    <3>6. g \in Under(k)
      BY <3>5 DEF Under, Build!perm_nodes
    <3> QED
      BY <3>3, <3>6
  <2>2. CASE ~(n \in direct_nodes \/ Build!has_any_ancestor_direct_permed(n))
    <3>1. n \in Build!perm_nodes /\ x \in placed[n] \cap direct_assets
      BY <1>3, <2>2 DEF Build!Listed, Build!Seen
    <3>2. x \in Build!collected(n)
      BY <3>1 DEF Build!collected
    <3> QED
      BY <1>3, <3>1, <3>2 DEF Under
  <2> QED
    BY <2>1, <2>2
<1>4. ASSUME NEW x PROVE x \in Whole(k) <=> x \in Build!VisibleBelow(k)
  <2>1. x \in Whole(k) <=> \E n \in Under(k) : x \in Build!collected(n)
    BY DEF Whole
  <2>2. x \in Build!VisibleBelow(k) <=>
          \E n \in nodes : /\ n = k \/ Build!IsBelow(n, k)
                           /\ Build!Listed(n) /\ x \in Build!Seen(n)
    BY DEF Build!VisibleBelow
  <2> QED
    BY <1>2, <1>3, <2>1, <2>2
<1> QED
  BY <1>4

-----------------------------------------------------------------------------
(* The loop *)

\* The nodes still to come: infos without the guard, which is last.
Coming == 1..(Len(infos) - 1)

InfosInv ==
    /\ infos \in Seq(Build!perm_nodes \cup {<< >>})
    /\ infos # << >> => infos[Len(infos)] = << >>
    /\ \A i \in Coming : infos[i] \in Build!perm_nodes
    /\ \A i, j \in Coming : i < j => Build!KeyBefore(infos[i], infos[j])

\* The stack is a chain, and nothing on it was popped.
StackInv ==
    /\ stack \in Seq(Build!perm_nodes \cup {<< >>})
    /\ infos = << >> => stack = << << >> >>
    /\ infos # << >> =>
         \A i \in 1..Len(stack) :
           /\ stack[i] \in Build!perm_nodes /\ stack[i] \notin DOMAIN amount
           /\ \A j \in 1..Len(stack) : i < j => Build!IsBelow(stack[j], stack[i])

\* Every node is popped, on the stack or to come, in the order of the keys; what is popped
\* has nothing below it to come.
OrderInv ==
    /\ DOMAIN amount \subseteq Build!perm_nodes
    /\ \A x \in Build!perm_nodes :
         \/ x \in DOMAIN amount
         \/ \E i \in 1..Len(stack) : stack[i] = x
         \/ \E i \in Coming : infos[i] = x
    /\ \A i \in Coming :
         /\ \A k \in DOMAIN amount : Build!KeyBefore(k, infos[i]) /\ ~Build!IsBelow(infos[i], k)
         /\ \A j \in 1..Len(stack) : Build!KeyBefore(stack[j], infos[i])

\* What has flowed into the node at place i of the stack: itself, and what was popped below
\* it, unless it went to the next one on the stack.
SoFar(i) ==
    {stack[i]} \cup {n \in DOMAIN amount :
                       /\ Build!IsBelow(n, stack[i])
                       /\ i < Len(stack) => ~Build!IsBelow(n, stack[i + 1])}

AssetsInv ==
    /\ assets \in [Build!perm_nodes -> SUBSET Asset]
    /\ \A i \in Coming : assets[infos[i]] = Build!collected(infos[i])
    /\ infos # << >> =>
         \A i \in 1..Len(stack) : assets[stack[i]] = UNION {Build!collected(n) : n \in SoFar(i)}
    /\ \A k \in DOMAIN amount : amount[k] = Cardinality(Whole(k))

BuildInv == InputOK /\ InfosInv /\ StackInv /\ OrderInv /\ AssetsInv

LEMMA BuildInit ==
    ASSUME Build!KeyAssumption, Build!Init, ~ Build!only_root
    PROVE  BuildInv
<1> DEFINE P == Build!perm_nodes
           s == Build!Sorted(P)
<1>1. InputOK
  BY DEF Build!Init, InputOK
<1>2. P \in SUBSET nodes /\ P \in SUBSET Seq(Nat) /\ IsFiniteSet(P)
  BY <1>1, KeysAreSequences
<1>3. /\ s \in Seq(P)
      /\ \A i, j \in 1..Len(s) : i < j => Build!KeyBefore(s[i], s[j])
      /\ \A x \in P : \E i \in 1..Len(s) : s[i] = x
  BY <1>2, SortedIsSorted
<1>4. infos = s \o << << >> >> /\ stack = << >> /\ amount = << >>
      /\ assets = [k \in P |-> Build!collected(k)]
  BY DEF Build!Init, Build!Guard
<1> HIDE DEF s
<1>5. /\ infos \in Seq(P \cup {<< >>}) /\ Len(infos) = Len(s) + 1 /\ infos[Len(infos)] = << >>
      /\ Coming = 1..Len(s) /\ \A i \in Coming : infos[i] = s[i]
  <2> HIDE DEF P
  <2>1. Len(infos) = Len(s) + 1 /\ Len(s) \in Nat
    BY <1>3, <1>4
  <2>2. infos \in Seq(P \cup {<< >>})
    BY <1>3, <1>4
  <2>3. infos[Len(infos)] = << >> /\ \A i \in 1..Len(s) : infos[i] = s[i]
    BY <1>3, <1>4
  <2> QED
    BY <2>1, <2>2, <2>3 DEF Coming
<1>6. DOMAIN amount = {} /\ Len(stack) = 0
  BY <1>4
<1>7. InfosInv
  BY <1>3, <1>5, SMTT(60) DEF InfosInv
<1>8. StackInv
  <2>1. infos # << >>
    BY <1>3, <1>5
  <2> QED
    BY <1>4, <1>6, <2>1 DEF StackInv
<1>9. OrderInv
  <2>1. \A x \in P : \E i \in Coming : infos[i] = x
    BY <1>3, <1>5
  <2> QED
    BY <1>6, <2>1 DEF OrderInv
<1>10. AssetsInv
  <2>1. ASSUME NEW k \in P PROVE Build!collected(k) \in SUBSET Asset
    BY <1>1, <1>2 DEF Build!collected, Build!get_all_asset_ids, InputOK
  <2>2. assets \in [P -> SUBSET Asset]
    BY <1>4, <2>1
  <2>3. \A i \in Coming : infos[i] \in P
    BY <1>7 DEF InfosInv
  <2>4. \A i \in Coming : assets[infos[i]] = Build!collected(infos[i])
    BY <1>4, <2>3
  <2>5. 1..Len(stack) = {}
    BY <1>6
  <2> QED
    BY <1>6, <2>2, <2>4, <2>5 DEF AssetsInv
<1> QED
  BY <1>1, <1>7, <1>8, <1>9, <1>10 DEF BuildInv

LEMMA InputStays ==
    ASSUME UNCHANGED Build!input
    PROVE  /\ Build!perm_nodes' = Build!perm_nodes
           /\ InputOK => InputOK'
           /\ Build!only_root' = Build!only_root /\ stored' = stored
           /\ \A k : Build!collected(k)' = Build!collected(k)
           /\ \A k : Under(k)' = Under(k)
           /\ \A k : Whole(k)' = Whole(k)
<1>1. /\ nodes' = nodes /\ placed' = placed /\ direct_nodes' = direct_nodes
      /\ direct_assets' = direct_assets /\ ungroup' = ungroup /\ stored' = stored
  BY DEF Build!input
<1>2. Build!granted' = Build!granted
  BY <1>1 DEF Build!granted, Build!has_any_ancestor_direct_permed
<1>3. Build!from_asset' = Build!from_asset
  BY <1>1, <1>2
     DEF Build!from_asset, Build!direct_asset_nodes, Build!has_any_ancestor_direct_permed
<1>4. Build!perm_nodes' = Build!perm_nodes
  BY <1>1, <1>2, <1>3 DEF Build!perm_nodes, Build!ancestors
<1>5. \A k : Build!collected(k)' = Build!collected(k)
  BY <1>1, <1>2 DEF Build!collected, Build!get_all_asset_ids
<1>6. \A k : Under(k)' = Under(k)
  BY <1>4 DEF Under
<1>7. \A k : Whole(k)' = Whole(k)
  BY <1>5, <1>6 DEF Whole
<1>8. InputOK => InputOK'
  BY <1>1 DEF InputOK
<1>9. Build!only_root' = Build!only_root
  BY <1>2, <1>4 DEF Build!only_root
<1> QED
  BY <1>1, <1>4, <1>5, <1>6, <1>7, <1>8, <1>9

\* A node that is popped has everything below it.
LEMMA PopKeeps ==
    ASSUME BuildInv, Build!Pop
    PROVE  BuildInv'
<1> DEFINE L == Len(stack)
           T == stack[L]
           P == Build!perm_nodes
<1>1. /\ infos # << >> /\ stack # << >> /\ ~Build!IsBelow(Head(infos), T)
      /\ amount' = [k \in DOMAIN amount \cup {T} |->
                      IF k = T THEN Build!Cardinality(assets[T]) ELSE amount[k]]
      /\ stack' = SubSeq(stack, 1, L - 1)
      /\ assets' = IF L = 1 THEN assets ELSE [assets EXCEPT ![stack[L - 1]] = @ \cup assets[T]]
      /\ infos' = infos /\ UNCHANGED Build!input
  BY DEF Build!Pop, Build!Top, Build!Front
<1>2. /\ stack \in Seq(P \cup {<< >>}) /\ infos \in Seq(P \cup {<< >>})
      /\ L \in Nat /\ L >= 1 /\ Len(infos) \in Nat /\ Len(infos) >= 1
  BY <1>1 DEF BuildInv, StackInv, InfosInv
<1>3. /\ P' = P /\ InputOK' /\ \A k : Build!collected(k)' = Build!collected(k)
      /\ \A k : Whole(k)' = Whole(k)
  BY <1>1, InputStays DEF BuildInv
<1>4. P \in SUBSET Seq(Nat)
  BY KeysAreSequences DEF BuildInv
<1>5. \A i \in 1..L : /\ stack[i] \in P /\ stack[i] \in Seq(Nat) /\ stack[i] \notin DOMAIN amount
                      /\ \A j \in 1..L : i < j => Build!IsBelow(stack[j], stack[i])
  BY <1>1, <1>4 DEF BuildInv, StackInv
<1>6. /\ Len(stack') = L - 1 /\ stack' \in Seq(P \cup {<< >>})
      /\ \A i \in 1..(L - 1) : stack'[i] = stack[i] /\ i \in 1..L
  <2> HIDE DEF P
  <2>1. stack' = SubSeq(stack, 1, L - 1) /\ L - 1 \in 0..L /\ L \in Nat
    BY <1>1, <1>2
  <2>2. Len(stack') = L - 1 /\ stack' \in Seq(P \cup {<< >>})
    <3> DEFINE m == L - 1
    <3>1. m \in Nat /\ m <= L /\ stack' = SubSeq(stack, 1, m) /\ m = L - 1
      BY <2>1
    <3> HIDE DEF m
    <3> QED
      BY <1>2, <3>1, SubSeqProperties
  <2>3. \A i \in 1..(L - 1) : stack'[i] = stack[i]
    BY <1>2, <2>1
  <2>4. \A i \in 1..(L - 1) : i \in 1..L
    BY <2>1
  <2> QED
    BY <2>2, <2>3, <2>4
<1>7. Coming' = Coming /\ \A i \in Coming : infos[i] \in P /\ infos[i] \in Seq(Nat)
  BY <1>1, <1>4 DEF Coming, BuildInv, InfosInv
<1>8. /\ T \in P /\ T \in Seq(Nat) /\ T \notin DOMAIN amount
      /\ DOMAIN amount' = DOMAIN amount \cup {T}
  BY <1>1, <1>2, <1>5
<1>9. ASSUME NEW i \in 1..L, NEW j \in 1..L, i # j PROVE stack[i] # stack[j]
  <2>1. i < j \/ j < i
    BY <1>2, <1>9
  <2> QED
    BY <1>5, <2>1, BelowIsOneWay
<1>10. ASSUME NEW i \in Coming PROVE ~Build!IsBelow(infos[i], T)
  <2> SUFFICES ASSUME Build!IsBelow(infos[i], T) PROVE FALSE
    OBVIOUS
  <2>1. Head(infos) = infos[1] /\ i \in Nat /\ 1 \in Coming
    BY <1>2 DEF Coming
  <2>2. i # 1
    BY <1>1, <2>1
  <2>3. Build!KeyBefore(infos[1], infos[i])
    BY <2>1, <2>2 DEF BuildInv, InfosInv, Coming
  <2>4. Build!KeyBefore(T, infos[1])
    BY <1>2, <2>1 DEF BuildInv, OrderInv
  <2>5. Build!IsBelow(infos[1], T)
    BY <1>7, <1>8, <2>1, <2>3, <2>4, BelowIsTogether
  <2> QED
    BY <1>1, <2>1, <2>5
<1>11. InfosInv'
  BY <1>1, <1>3, <1>7 DEF BuildInv, InfosInv
<1>12. StackInv'
  <2>1. infos' # << >>
    BY <1>1
  <2>2. ASSUME NEW i \in 1..(L - 1)
        PROVE  /\ stack'[i] \in P /\ stack'[i] \notin DOMAIN amount'
               /\ \A j \in 1..(L - 1) : i < j => Build!IsBelow(stack'[j], stack'[i])
    <3>1. stack'[i] = stack[i] /\ i \in 1..L /\ L \in 1..L /\ i # L
      BY <1>2, <1>6, SMTT(60)
    <3>2. stack[i] # T
      BY <1>9, <3>1
    <3> QED
      BY <1>5, <1>6, <1>8, <3>1, <3>2
  <2> QED
    BY <1>3, <1>6, <2>1, <2>2 DEF StackInv
<1>13. OrderInv'
  <2>1. DOMAIN amount' \subseteq P
    BY <1>8 DEF BuildInv, OrderInv
  <2>2. ASSUME NEW x \in P
        PROVE  \/ x \in DOMAIN amount'
               \/ \E i \in 1..(L - 1) : stack'[i] = x
               \/ \E i \in Coming : infos[i] = x
    <3>1. \/ x \in DOMAIN amount
          \/ \E i \in 1..L : stack[i] = x
          \/ \E i \in Coming : infos[i] = x
      BY DEF BuildInv, OrderInv
    <3>2. ASSUME NEW i \in 1..L, stack[i] = x, x # T
          PROVE  \E j \in 1..(L - 1) : stack'[j] = x
      <4>1. i \in 1..(L - 1)
        BY <1>2, <3>2
      <4> QED
        BY <1>6, <3>2, <4>1
    <3> QED
      BY <1>8, <3>1, <3>2
  <2>3. ASSUME NEW i \in Coming
        PROVE  /\ \A k \in DOMAIN amount' :
                    Build!KeyBefore(k, infos[i]) /\ ~Build!IsBelow(infos[i], k)
               /\ \A j \in 1..(L - 1) : Build!KeyBefore(stack'[j], infos[i])
    <3>1. /\ \A k \in DOMAIN amount :
               Build!KeyBefore(k, infos[i]) /\ ~Build!IsBelow(infos[i], k)
          /\ \A j \in 1..L : Build!KeyBefore(stack[j], infos[i])
      BY DEF BuildInv, OrderInv
    <3>2. Build!KeyBefore(T, infos[i])
      BY <1>2, <3>1
    <3> QED
      BY <1>6, <1>8, <1>10, <3>1, <3>2
  <2> QED
    BY <1>1, <1>3, <1>6, <1>7, <2>1, <2>2, <2>3 DEF OrderInv
<1>14. SoFar(L) = Under(T)
  <2>1. ASSUME NEW n \in P, Build!IsBelow(n, T) PROVE n \in DOMAIN amount
    <3>1. ASSUME NEW i \in 1..L, stack[i] = n PROVE FALSE
      <4>1. i = L \/ i < L
        BY <1>2
      <4>2. i < L => Build!IsBelow(T, n)
        BY <1>2, <1>5, <3>1
      <4> QED
        BY <1>4, <1>8, <2>1, <3>1, <4>1, <4>2, BelowIsOneWay
    <3>2. ASSUME NEW i \in Coming, infos[i] = n PROVE FALSE
      BY <1>10, <2>1, <3>2
    <3> QED
      BY <3>1, <3>2 DEF BuildInv, OrderInv
  <2>2. DOMAIN amount \subseteq P
    BY DEF BuildInv, OrderInv
  <2>3. SoFar(L) = {T} \cup {n \in DOMAIN amount : Build!IsBelow(n, T)}
    BY <1>2 DEF SoFar
  <2> QED
    BY <1>8, <2>1, <2>2, <2>3 DEF Under
<1>15. assets[T] = Whole(T)
  <2>1. L \in 1..L
    BY <1>2
  <2>2. assets[stack[L]] = UNION {Build!collected(n) : n \in SoFar(L)}
    BY <1>1, <2>1 DEF BuildInv, AssetsInv
  <2> QED
    BY <1>14, <2>2 DEF Whole
<1>16. AssetsInv'
  <2>1. assets \in [P -> SUBSET Asset]
    BY DEF BuildInv, AssetsInv
  <2>2. assets' \in [P -> SUBSET Asset]
    BY <1>1, <1>8, <2>1
  <2>3. ASSUME NEW k \in P, L = 1 \/ k # stack[L - 1] PROVE assets'[k] = assets[k]
    BY <1>1, <2>1, <2>3
  <2>4. ASSUME NEW i \in Coming PROVE assets'[infos[i]] = Build!collected(infos[i])
    <3>1. assets[infos[i]] = Build!collected(infos[i])
      BY DEF BuildInv, AssetsInv
    <3>2. ASSUME L # 1 PROVE infos[i] # stack[L - 1]
      <4>1. L - 1 \in 1..L
        <5>1. L \in Nat /\ L >= 1
          BY <1>2
        <5> HIDE DEF L
        <5> QED
          BY <3>2, <5>1
      <4>2. Build!KeyBefore(stack[L - 1], infos[i])
        BY <4>1 DEF BuildInv, OrderInv
      <4> QED
        BY <1>5, <1>7, <4>1, <4>2, BeforeIsStrict
    <3> QED
      BY <1>7, <2>3, <3>1, <3>2
  <2>5. ASSUME NEW i \in 1..(L - 1)
        PROVE  assets'[stack'[i]] = UNION {Build!collected(n) : n \in SoFar(i)'}
    <3>1. stack'[i] = stack[i] /\ i \in 1..L /\ L - 1 \in 1..L /\ i < L /\ i \in Nat
      BY <1>2, <1>6
    <3>2. assets[stack[i]] = UNION {Build!collected(n) : n \in SoFar(i)}
      BY <1>1, <3>1 DEF BuildInv, AssetsInv
    <3>3. SoFar(i)' = {stack[i]} \cup {n \in DOMAIN amount \cup {T} :
                         /\ Build!IsBelow(n, stack[i])
                         /\ i < L - 1 => ~Build!IsBelow(n, stack'[i + 1])}
      BY <1>6, <1>8, <3>1 DEF SoFar, Build!IsBelow
    <3>4. CASE i = L - 1
      <4>1. SoFar(i)' = {stack[i]} \cup {n \in DOMAIN amount \cup {T} :
                                          Build!IsBelow(n, stack[i])}
        BY <1>2, <3>3, <3>4
      <4>2. SoFar(i) = {stack[i]} \cup {n \in DOMAIN amount :
                         Build!IsBelow(n, stack[i]) /\ ~Build!IsBelow(n, T)}
        BY <1>2, <3>1, <3>4 DEF SoFar
      <4>3. SoFar(L) = {T} \cup {n \in DOMAIN amount : Build!IsBelow(n, T)}
        BY <1>2 DEF SoFar
      <4>4. Build!IsBelow(T, stack[i])
        BY <1>2, <1>5, <3>1
      <4>5. ASSUME NEW n \in DOMAIN amount, Build!IsBelow(n, T)
            PROVE  Build!IsBelow(n, stack[i])
        <5>1. n \in Seq(Nat)
          BY <1>4 DEF BuildInv, OrderInv
        <5> QED
          BY <1>5, <1>8, <3>1, <4>4, <4>5, <5>1, BelowIsTransitive
      <4>6. SoFar(i)' = SoFar(i) \cup SoFar(L)
        BY <4>1, <4>2, <4>3, <4>4, <4>5
      <4>7. assets[T] = UNION {Build!collected(n) : n \in SoFar(L)}
        BY <1>14, <1>15 DEF Whole
      <4>8. assets'[stack[i]] = assets[stack[i]] \cup assets[T]
        BY <1>1, <1>2, <1>5, <2>1, <3>1, <3>4, SMTT(60)
      <4> QED
        BY <3>1, <3>2, <4>6, <4>7, <4>8
    <3>5. CASE i # L - 1
      <4>1. i < L - 1 /\ i + 1 \in 1..(L - 1) /\ i + 1 \in 1..L /\ L \in 1..L /\ i + 1 < L
        BY <1>2, <3>1, <3>5
      <4>2. stack'[i + 1] = stack[i + 1]
        BY <1>6, <4>1
      <4>3. Build!IsBelow(T, stack[i + 1])
        BY <1>5, <4>1
      <4>4. SoFar(i) = {stack[i]} \cup {n \in DOMAIN amount :
                         Build!IsBelow(n, stack[i]) /\ ~Build!IsBelow(n, stack[i + 1])}
        BY <1>2, <3>1 DEF SoFar
      <4>5. SoFar(i)' = SoFar(i)
        BY <3>3, <4>1, <4>2, <4>3, <4>4
      <4>6. stack[i] # stack[L - 1] /\ stack[i] \in P
        BY <1>5, <1>9, <3>1, <3>5
      <4> QED
        BY <2>3, <3>1, <3>2, <4>5, <4>6
    <3> QED
      BY <3>4, <3>5
  <2>6. ASSUME NEW k \in DOMAIN amount' PROVE amount'[k] = Cardinality(Whole(k))
    <3>1. CASE k = T
      BY <1>1, <1>15, <3>1, SizesAreSizes
    <3>2. CASE k # T
      BY <1>1, <1>8, <3>2 DEF BuildInv, AssetsInv
    <3> QED
      BY <3>1, <3>2
  <2>7. \A i \in 1..(L - 1) : (UNION {Build!collected(n) : n \in SoFar(i)})' =
                               UNION {Build!collected(n) : n \in SoFar(i)'}
    BY <1>3
  <2> QED
    BY <1>1, <1>3, <1>6, <1>7, <2>2, <2>4, <2>5, <2>6, <2>7, ZenonT(60) DEF AssetsInv
<1> QED
  BY <1>3, <1>11, <1>12, <1>13, <1>16 DEF BuildInv

\* The guard is pushed when every node was popped.
LEMMA PushGuardKeeps ==
    ASSUME BuildInv, Build!Push, Len(infos) = 1
    PROVE  BuildInv'
<1> DEFINE P == Build!perm_nodes
<1>1. /\ infos # << >> /\ (stack # << >> => Build!IsBelow(Head(infos), Build!Top))
      /\ stack' = Append(stack, Head(infos)) /\ infos' = Tail(infos)
      /\ UNCHANGED Build!input /\ assets' = assets /\ amount' = amount
  BY DEF Build!Push
<1>2. /\ P' = P /\ InputOK' /\ \A k : Build!collected(k)' = Build!collected(k)
      /\ \A k : Whole(k)' = Whole(k)
  BY <1>1, InputStays DEF BuildInv
<1>3. infos \in Seq(P \cup {<< >>}) /\ stack \in Seq(P \cup {<< >>})
  BY DEF BuildInv, InfosInv, StackInv
<1>4. Head(infos) = << >> /\ infos' = << >>
  <2>1. infos[1] = << >>
    BY <1>1 DEF BuildInv, InfosInv
  <2> QED
    BY <1>1, <1>3, <2>1
<1>5. stack = << >>
  <2> SUFFICES ASSUME stack # << >> PROVE FALSE
    OBVIOUS
  <2>1. Len(stack) \in 1..Len(stack)
    BY <1>3
  <2>2. Build!Top \in P
    BY <1>1, <2>1 DEF BuildInv, StackInv, Build!Top
  <2>3. Build!Top \in Seq(Nat)
    BY <2>2, KeysAreSequences DEF BuildInv
  <2>4. Build!IsBelow(<< >>, Build!Top) /\ << >> \in Seq(Nat)
    BY <1>1, <1>4
  <2> QED
    BY <2>3, <2>4, BelowIsOneWay
<1>6. Coming = {} /\ Coming' = {} /\ Len(stack) = 0
  BY <1>4, <1>5 DEF Coming
<1>7. stack' = << << >> >> /\ stack' \in Seq(P \cup {<< >>})
  BY <1>1, <1>4, <1>5
<1>8. InfosInv'
  BY <1>2, <1>4, <1>6 DEF InfosInv
<1>9. StackInv'
  BY <1>2, <1>4, <1>7 DEF StackInv
<1>10. OrderInv'
  BY <1>1, <1>2, <1>6 DEF BuildInv, OrderInv
<1>11. AssetsInv'
  BY <1>1, <1>2, <1>4, <1>6 DEF BuildInv, AssetsInv
<1> QED
  BY <1>2, <1>8, <1>9, <1>10, <1>11 DEF BuildInv

\* A node is pushed on a stack of nodes above it.
LEMMA PushKeeps ==
    ASSUME BuildInv, Build!Push, Len(infos) # 1
    PROVE  BuildInv'
<1> DEFINE P == Build!perm_nodes
           L == Len(stack)
           M == Len(infos)
           y == infos[1]
<1>1. /\ infos # << >> /\ (stack # << >> => Build!IsBelow(Head(infos), stack[L]))
      /\ stack' = Append(stack, Head(infos)) /\ infos' = Tail(infos)
      /\ UNCHANGED Build!input /\ assets' = assets /\ amount' = amount
  BY DEF Build!Push, Build!Top
<1>2. /\ P' = P /\ InputOK' /\ \A k : Build!collected(k)' = Build!collected(k)
      /\ \A k : Whole(k)' = Whole(k)
  BY <1>1, InputStays DEF BuildInv
<1>3. /\ infos \in Seq(P \cup {<< >>}) /\ stack \in Seq(P \cup {<< >>})
      /\ L \in Nat /\ M \in Nat /\ M > 1 /\ Head(infos) = y
  <2>1. infos \in Seq(P \cup {<< >>}) /\ stack \in Seq(P \cup {<< >>})
    BY DEF BuildInv, InfosInv, StackInv
  <2>2. L \in Nat /\ M \in Nat
    BY <2>1, LenProperties
  <2>3. M # 0
    BY <1>1, <2>1
  <2>4. M > 1
    <3>1. M # 1
      OBVIOUS
    <3> HIDE DEF M
    <3> QED
      BY <2>2, <2>3, <3>1
  <2>5. Head(infos) = y
    BY <1>1, <2>1
  <2> QED
    BY <2>1, <2>2, <2>4, <2>5
<1>4. P \in SUBSET Seq(Nat)
  BY KeysAreSequences DEF BuildInv
<1>5. \A i \in 1..L : /\ stack[i] \in P /\ stack[i] \in Seq(Nat) /\ stack[i] \notin DOMAIN amount
                      /\ \A j \in 1..L : i < j => Build!IsBelow(stack[j], stack[i])
  BY <1>1, <1>4 DEF BuildInv, StackInv
<1>6. /\ Len(infos') = M - 1 /\ infos' \in Seq(P \cup {<< >>})
      /\ \A i \in 1..(M - 1) : infos'[i] = infos[i + 1]
  BY <1>1, <1>3, HeadTailProperties
<1>7. /\ Coming = 1..(M - 1) /\ Coming' = 1..(M - 2) /\ 1 \in Coming
      /\ \A i \in 1..(M - 2) : i + 1 \in Coming /\ i < i + 1 /\ 1 < i + 1 /\ i \in 1..(M - 1)
  <2>1. Len(infos') - 1 = M - 2
    BY <1>3, <1>6
  <2>2. Coming' = 1..(M - 2)
    BY <2>1 DEF Coming
  <2> HIDE DEF M
  <2> QED
    BY <1>3, <2>2 DEF Coming, M
<1>8. /\ \A i \in Coming : infos[i] \in P /\ infos[i] \in Seq(Nat)
      /\ \A i, j \in Coming : i < j => Build!KeyBefore(infos[i], infos[j])
  BY <1>4 DEF BuildInv, InfosInv
<1>9. /\ y \in P /\ y \in Seq(Nat)
      /\ \A k \in DOMAIN amount : Build!KeyBefore(k, y) /\ ~Build!IsBelow(y, k)
      /\ \A j \in 1..L : Build!KeyBefore(stack[j], y)
  BY <1>7, <1>8 DEF BuildInv, OrderInv
<1>10. /\ Len(stack') = L + 1 /\ stack' \in Seq(P \cup {<< >>}) /\ stack'[L + 1] = y
       /\ \A i \in 1..L : stack'[i] = stack[i]
  BY <1>1, <1>3, <1>9, AppendProperties
<1>11. \A i \in 1..(L + 1) : i \in 1..L \/ i = L + 1
  BY <1>3
<1>12. infos' # << >>
  BY <1>3, <1>6
<1>13. ASSUME NEW i \in 1..L PROVE Build!IsBelow(y, stack[i])
  <2>1. stack # << >> /\ L \in 1..L
    BY <1>3
  <2>2. Build!IsBelow(y, stack[L])
    BY <1>1, <1>3, <2>1
  <2>3. CASE i = L
    BY <2>2, <2>3
  <2>4. CASE i # L
    <3>1. Build!IsBelow(stack[L], stack[i])
      BY <1>3, <1>5, <2>1, <2>4
    <3> QED
      BY <1>5, <1>9, <2>1, <2>2, <3>1, BelowIsTransitive
  <2> QED
    BY <2>3, <2>4
<1>14. ASSUME NEW n \in DOMAIN amount PROVE n \in Seq(Nat) /\ n # y /\ ~Build!IsBelow(n, y)
  <2>1. n \in Seq(Nat)
    BY <1>4 DEF BuildInv, OrderInv
  <2> QED
    BY <1>9, <2>1, BeforeIsStrict
<1>15. InfosInv'
  <2>1. infos'[Len(infos')] = << >>
    <3>1. M - 1 \in 1..(M - 1) /\ M - 1 + 1 = M
      BY <1>3
    <3>2. infos[M] = << >>
      BY <1>1 DEF BuildInv, InfosInv
    <3> QED
      BY <1>6, <3>1, <3>2
  <2>2. ASSUME NEW i \in 1..(M - 2) PROVE infos'[i] \in P
    BY <1>6, <1>7, <1>8
  <2>3. ASSUME NEW i \in 1..(M - 2), NEW j \in 1..(M - 2), i < j
        PROVE  Build!KeyBefore(infos'[i], infos'[j])
    <3>1. infos'[i] = infos[i + 1] /\ infos'[j] = infos[j + 1]
      BY <1>6, <1>7
    <3>2. i + 1 < j + 1
      BY <2>3
    <3> QED
      BY <1>7, <1>8, <3>1, <3>2
  <2>4. \A i, j \in 1..(M - 2) : i < j => Build!KeyBefore(infos[i], infos[j])'
    BY <2>3 DEF Build!KeyBefore, Build!IsBelow
  <2> QED
    BY <1>2, <1>6, <1>7, <2>1, <2>2, <2>4 DEF InfosInv
<1>16. StackInv'
  <2>1. ASSUME NEW i \in 1..(L + 1)
        PROVE  /\ stack'[i] \in P /\ stack'[i] \notin DOMAIN amount
               /\ \A j \in 1..(L + 1) : i < j => Build!IsBelow(stack'[j], stack'[i])
    <3>1. CASE i \in 1..L
      <4>1. ASSUME NEW j \in 1..(L + 1), i < j PROVE Build!IsBelow(stack'[j], stack'[i])
        BY <1>5, <1>10, <1>11, <1>13, <3>1, <4>1
      <4> QED
        BY <1>5, <1>10, <3>1, <4>1
    <3>2. CASE i = L + 1
      <4>1. ~(\E j \in 1..(L + 1) : i < j)
        BY <1>3, <3>2
      <4> QED
        BY <1>9, <1>10, <1>14, <3>2, <4>1
    <3> QED
      BY <1>11, <3>1, <3>2
  <2> QED
    BY <1>1, <1>2, <1>10, <1>12, <2>1 DEF StackInv
<1>17. OrderInv'
  <2>1. ASSUME NEW x \in P
        PROVE  \/ x \in DOMAIN amount
               \/ \E i \in 1..(L + 1) : stack'[i] = x
               \/ \E i \in 1..(M - 2) : infos'[i] = x
    <3>1. \/ x \in DOMAIN amount
          \/ \E i \in 1..L : stack[i] = x
          \/ \E i \in Coming : infos[i] = x
      BY DEF BuildInv, OrderInv
    <3>2. ASSUME NEW i \in 1..L, stack[i] = x PROVE i \in 1..(L + 1) /\ stack'[i] = x
      BY <1>3, <1>10, <3>2
    <3>3. ASSUME NEW i \in Coming, infos[i] = x, i # 1 
          PROVE  i - 1 \in 1..(M - 2) /\ infos'[i - 1] = x
      <4>1. i - 1 \in 1..(M - 2) /\ i - 1 \in 1..(M - 1) /\ i - 1 + 1 = i
        BY <1>3, <1>7, <3>3
      <4> QED
        BY <1>6, <3>3, <4>1
    <3>4. ASSUME x = y PROVE L + 1 \in 1..(L + 1) /\ stack'[L + 1] = x
      BY <1>3, <1>10, <3>4
    <3> QED
      BY <3>1, <3>2, <3>3, <3>4
  <2>2. ASSUME NEW i \in 1..(M - 2)
        PROVE  /\ \A k \in DOMAIN amount :
                    Build!KeyBefore(k, infos'[i]) /\ ~Build!IsBelow(infos'[i], k)
               /\ \A j \in 1..(L + 1) : Build!KeyBefore(stack'[j], infos'[i])
    <3>1. infos'[i] = infos[i + 1] /\ i + 1 \in Coming /\ 1 < i + 1
      BY <1>6, <1>7
    <3>2. Build!KeyBefore(y, infos[i + 1])
      BY <1>7, <1>8, <3>1
    <3>3. /\ \A k \in DOMAIN amount :
               Build!KeyBefore(k, infos[i + 1]) /\ ~Build!IsBelow(infos[i + 1], k)
          /\ \A j \in 1..L : Build!KeyBefore(stack[j], infos[i + 1])
      BY <3>1 DEF BuildInv, OrderInv
    <3> QED
      BY <1>10, <1>11, <3>1, <3>2, <3>3
  <2>3. DOMAIN amount \subseteq P
    BY DEF BuildInv, OrderInv
  <2> QED
    BY <1>1, <1>2, <1>7, <1>10, <2>1, <2>2, <2>3 DEF OrderInv
<1>18. AssetsInv'
  <2>1. assets \in [P -> SUBSET Asset] /\ \A k \in DOMAIN amount : amount[k] = Cardinality(Whole(k))
    BY DEF BuildInv, AssetsInv
  <2>2. ASSUME NEW i \in 1..(M - 2) PROVE assets[infos'[i]] = Build!collected(infos'[i])
    BY <1>6, <1>7, SMTT(60) DEF BuildInv, AssetsInv
  <2>3. ASSUME NEW i \in 1..(L + 1)
        PROVE  assets[stack'[i]] = UNION {Build!collected(n) : n \in SoFar(i)'}
    <3>1. SoFar(i)' = {stack'[i]} \cup {n \in DOMAIN amount :
                         /\ Build!IsBelow(n, stack'[i])
                         /\ i < L + 1 => ~Build!IsBelow(n, stack'[i + 1])}
      BY <1>1, <1>10 DEF SoFar, Build!IsBelow
    <3>2. CASE i = L + 1
      <4>1. SoFar(i)' = {y}
        BY <1>10, <1>14, <3>1, <3>2
      <4>2. assets[y] = Build!collected(y)
        BY <1>7 DEF BuildInv, AssetsInv
      <4> QED
        BY <1>10, <3>2, <4>1, <4>2
    <3>3. CASE i = L /\ i \in 1..L
      <4>1. SoFar(i)' = {stack[i]} \cup {n \in DOMAIN amount : Build!IsBelow(n, stack[i])}
        BY <1>3, <1>10, <1>14, <3>1, <3>3
      <4>2. SoFar(i) = {stack[i]} \cup {n \in DOMAIN amount : Build!IsBelow(n, stack[i])}
        BY <1>3, <3>3 DEF SoFar
      <4>3. assets[stack[i]] = UNION {Build!collected(n) : n \in SoFar(i)}
        BY <1>1, <3>3 DEF BuildInv, AssetsInv
      <4>4. SoFar(i)' = SoFar(i) /\ stack'[i] = stack[i]
        BY <1>10, <3>3, <4>1, <4>2
      <4> QED
        BY <4>3, <4>4
    <3>4. CASE i # L /\ i \in 1..L
      <4>1. i < L /\ i < L + 1 /\ i + 1 \in 1..L
        BY <1>3, <3>4
      <4>2. stack'[i] = stack[i] /\ stack'[i + 1] = stack[i + 1]
        BY <1>10, <3>4, <4>1
      <4>3. SoFar(i)' = {stack[i]} \cup {n \in DOMAIN amount :
                           Build!IsBelow(n, stack[i]) /\ ~Build!IsBelow(n, stack[i + 1])}
        BY <3>1, <4>1, <4>2
      <4>4. SoFar(i) = {stack[i]} \cup {n \in DOMAIN amount :
                           Build!IsBelow(n, stack[i]) /\ ~Build!IsBelow(n, stack[i + 1])}
        BY <4>1 DEF SoFar
      <4> QED
        BY <1>1, <3>4, <4>2, <4>3, <4>4 DEF BuildInv, AssetsInv
    <3> QED
      BY <1>11, <3>2, <3>3, <3>4
  <2>4. \A i \in 1..(L + 1) : (UNION {Build!collected(n) : n \in SoFar(i)})' =
                               UNION {Build!collected(n) : n \in SoFar(i)'}
    BY <1>2
  <2> QED
    BY <1>1, <1>2, <1>7, <1>10, <2>1, <2>2, <2>3, <2>4, ZenonT(60) DEF AssetsInv
<1> QED
  BY <1>2, <1>15, <1>16, <1>17, <1>18 DEF BuildInv

LEMMA BuildStep ==
    ASSUME BuildInv, [Build!Next]_(Build!vars)
    PROVE  BuildInv'
<1>1. CASE Build!Pop
  BY <1>1, PopKeeps
<1>2. CASE Build!Push
  BY <1>2, PushGuardKeeps, PushKeeps
<1>3. CASE UNCHANGED Build!vars
  <2>1. UNCHANGED Build!input /\ UNCHANGED <<infos, stack, assets, amount>>
    BY <1>3 DEF Build!vars, Build!input
  <2>2. /\ Build!perm_nodes' = Build!perm_nodes /\ InputOK'
        /\ \A k : Build!collected(k)' = Build!collected(k)
        /\ \A k : Whole(k)' = Whole(k)
    BY <2>1, InputStays DEF BuildInv
  <2>3. Coming' = Coming
    BY <2>1 DEF Coming
  <2>4. InfosInv'
    BY <2>1, <2>2, <2>3 DEF BuildInv, InfosInv
  <2>5. StackInv'
    BY <2>1, <2>2 DEF BuildInv, StackInv
  <2>6. OrderInv'
    BY <2>1, <2>2, <2>3 DEF BuildInv, OrderInv
  <2>7. \A i : (UNION {Build!collected(n) : n \in SoFar(i)})' =
                 UNION {Build!collected(n) : n \in SoFar(i)}
    BY <2>1, <2>2 DEF SoFar
  <2>8. AssetsInv'
    BY <2>1, <2>2, <2>3, <2>7 DEF BuildInv, AssetsInv
  <2> QED
    BY <2>2, <2>4, <2>5, <2>6, <2>8 DEF BuildInv
<1> QED
  BY <1>1, <1>2, <1>3 DEF Build!Next

LEMMA BuildHasTypes ==
    ASSUME BuildInv
    PROVE  Build!TypeOK
<1>1. InputOK
  BY DEF BuildInv
<1>2. ASSUME NEW k \in DOMAIN amount PROVE amount[k] \in 0..Build!Cardinality(Asset)
  <2>1. ASSUME NEW n \in Build!perm_nodes PROVE Build!collected(n) \in SUBSET Asset
    BY <1>1, KeysAreSequences DEF Build!collected, Build!get_all_asset_ids, InputOK
  <2>2. Whole(k) \in SUBSET Asset
    BY <2>1 DEF Whole, Under
  <2>3. IsFiniteSet(Asset)
    BY <1>1, KeysAreSequences
  <2>4. IsFiniteSet(Whole(k)) /\ Cardinality(Whole(k)) <= Cardinality(Asset)
    BY <2>2, <2>3, FS_Subset
  <2>5. Cardinality(Whole(k)) \in Nat /\ Cardinality(Asset) \in Nat
    BY <2>3, <2>4, FS_CardinalityType
  <2>6. amount[k] = Cardinality(Whole(k))
    BY DEF BuildInv, AssetsInv
  <2> QED
    BY <2>4, <2>5, <2>6, SizesAreSizes
<1>3. Build!ToSet(stack) \cup Build!ToSet(infos) \subseteq Build!perm_nodes \cup {Build!Guard}
  BY DEF Build!ToSet, Build!Guard, BuildInv, StackInv, InfosInv
<1> QED
  BY <1>2, <1>3 DEF Build!TypeOK, BuildInv, AssetsInv, OrderInv

LEMMA PopsAreFinal ==
    ASSUME BuildInv
    PROVE  Build!PopIsFinal
<1>1. Len(stack) \in Nat /\ infos \in Seq(Build!perm_nodes \cup {<< >>})
  BY DEF BuildInv, StackInv, InfosInv
<1>2. ASSUME NEW i \in 1..(Len(stack) - 1) PROVE Build!IsBelow(stack[i + 1], stack[i])
  <2>1. i \in 1..Len(stack) /\ i + 1 \in 1..Len(stack) /\ i < i + 1
    BY <1>1
  <2>2. infos # << >>
    <3> SUFFICES ASSUME infos = << >> PROVE FALSE
      OBVIOUS
    <3>1. Len(stack) = 1
      BY DEF BuildInv, StackInv
    <3> QED
      BY <2>1, <3>1
  <2> QED
    BY <2>1, <2>2 DEF BuildInv, StackInv
<1>3. ASSUME NEW k \in DOMAIN amount, NEW i \in 1..Len(infos) PROVE ~Build!IsBelow(infos[i], k)
  <2>1. CASE i \in Coming
    BY <2>1 DEF BuildInv, OrderInv
  <2>2. CASE i \notin Coming
    <3>1. i = Len(infos) /\ infos # << >>
      BY <1>1, <2>2 DEF Coming
    <3>2. infos[i] = << >>
      BY <3>1 DEF BuildInv, InfosInv
    <3>3. k \in Seq(Nat) /\ << >> \in Seq(Nat)
      BY KeysAreSequences DEF BuildInv, OrderInv
    <3> QED
      BY <3>2, <3>3, BelowIsOneWay
  <2> QED
    BY <2>1, <2>2
<1>4. ASSUME NEW k \in DOMAIN amount, NEW x \in Build!ToSet(infos) PROVE ~Build!IsBelow(x, k)
  BY <1>1, <1>3 DEF Build!ToSet
<1> QED
  BY <1>2, <1>4 DEF Build!PopIsFinal

LEMMA AmountsAreRight ==
    ASSUME BuildInv, ~ Build!only_root
    PROVE  Build!AmountsAreVisible
<1> SUFFICES ASSUME infos = << >>
             PROVE  /\ DOMAIN amount = Build!perm_nodes
                    /\ \A k \in Build!perm_nodes :
                         amount[k] = Build!Cardinality(Build!VisibleBelow(k))
  BY DEF Build!AmountsAreVisible, Build!Done
<1>1. Coming = {} /\ stack = << << >> >>
  BY DEF Coming, BuildInv, StackInv
<1>2. Len(stack) = 1 /\ stack[1] = << >>
  BY <1>1
<1>3. ASSUME NEW x \in Build!perm_nodes PROVE x \in DOMAIN amount
  <2>1. x # << >>
    BY KeysAreSequences DEF BuildInv
  <2> QED
    BY <1>1, <1>2, <2>1 DEF BuildInv, OrderInv
<1>4. DOMAIN amount = Build!perm_nodes
  BY <1>3 DEF BuildInv, OrderInv
<1>5. ASSUME NEW k \in Build!perm_nodes
      PROVE  amount[k] = Build!Cardinality(Build!VisibleBelow(k))
  <2>1. amount[k] = Cardinality(Whole(k))
    BY <1>4 DEF BuildInv, AssetsInv
  <2>2. Whole(k) = Build!VisibleBelow(k)
    BY CollectedIsSeen DEF BuildInv
  <2> QED
    BY <2>1, <2>2, SizesAreSizes
<1> QED
  BY <1>4, <1>5

\* An org root that is granted and alone is not counted: no turn of the loop, and the amount
\* of its row stays, right or not.
Uncounted ==
    /\ InputOK /\ Build!only_root /\ stored \in 0..Cardinality(Asset)
    /\ infos = << >> /\ stack = << >>
    /\ assets = [k \in Build!perm_nodes |-> Build!collected(k)]
    /\ amount = [k \in Build!perm_nodes |-> stored]

RebuildInv == (BuildInv /\ ~ Build!only_root) \/ Uncounted

LEMMA RebuildBegins ==
    ASSUME Build!KeyAssumption, Build!Init
    PROVE  RebuildInv
<1>1. CASE Build!only_root
  <2>1. InputOK
    BY DEF Build!Init, InputOK
  <2>2. stored \in 0..Cardinality(Asset)
    BY <1>1, SizesAreSizes DEF Build!Init
  <2> QED
    BY <1>1, <2>1, <2>2 DEF Build!Init, Uncounted, RebuildInv
<1>2. CASE ~ Build!only_root
  BY <1>2, BuildInit DEF RebuildInv
<1> QED
  BY <1>1, <1>2

LEMMA RebuildStep ==
    ASSUME RebuildInv, [Build!Next]_(Build!vars)
    PROVE  RebuildInv'
<1>1. UNCHANGED Build!input
  BY DEF Build!Next, Build!Pop, Build!Push, Build!vars, Build!input
<1>2. CASE BuildInv /\ ~ Build!only_root
  BY <1>1, <1>2, BuildStep, InputStays DEF RebuildInv
<1>3. CASE Uncounted
  <2>1. UNCHANGED <<infos, stack, assets, amount>>
    BY <1>3 DEF Uncounted, Build!Next, Build!Pop, Build!Push, Build!vars
  <2>2. /\ Build!perm_nodes' = Build!perm_nodes /\ InputOK' /\ Build!only_root' /\ stored' = stored
        /\ \A k : Build!collected(k)' = Build!collected(k)
    BY <1>1, <1>3, InputStays DEF Uncounted
  <2>3. Uncounted'
    BY <1>3, <2>1, <2>2 DEF Uncounted
  <2> QED
    BY <2>3 DEF RebuildInv
<1> QED
  BY <1>2, <1>3 DEF RebuildInv

\* What holds of an org root that is not counted.
LEMMA UncountedIsRight ==
    ASSUME Uncounted
    PROVE  Build!TypeOK /\ Build!AmountsAreVisible /\ Build!PopIsFinal
<1>1. InputOK /\ IsFiniteSet(Asset)
  BY KeysAreSequences DEF Uncounted
<1>2. \A n \in Build!perm_nodes : Build!collected(n) \in SUBSET Asset
  BY <1>1, KeysAreSequences DEF Build!collected, Build!get_all_asset_ids, InputOK
<1>3. Build!TypeOK
  BY <1>2, SizesAreSizes DEF Uncounted, Build!TypeOK, Build!ToSet
<1>4. Build!AmountsAreVisible
  BY DEF Uncounted, Build!AmountsAreVisible
<1>5. Build!PopIsFinal
  BY DEF Uncounted, Build!PopIsFinal, Build!ToSet
<1> QED
  BY <1>3, <1>4, <1>5

\* UserPermTreeBuildUtil, NodeAssetsUtil.generate: whatever the nodes, the assets and the
\* permissions, a rebuild counts at every node the assets the user sees at and below it,
\* looks at no node twice, and leaves no ancestor out; but where the org root is granted and
\* the tree's only node nothing is counted, and the row keeps the amount it had.
THEOREM RebuildsAreRight ==
    ASSUME Build!KeyAssumption
    PROVE  Build!Spec => []/\ Build!TypeOK /\ Build!AmountsAreVisible
                           /\ Build!PopIsFinal /\ Build!TreeIsComplete
<1>1. Build!Init => RebuildInv
  BY RebuildBegins
<1>2. RebuildInv /\ [Build!Next]_(Build!vars) => RebuildInv'
  BY RebuildStep
<1>3. RebuildInv => /\ Build!TypeOK /\ Build!AmountsAreVisible
                    /\ Build!PopIsFinal /\ Build!TreeIsComplete
  <2>1. InputOK => Build!TreeIsComplete
    BY TreeIsCompleteHolds
  <2> QED
    BY <2>1, BuildHasTypes, AmountsAreRight, PopsAreFinal, UncountedIsRight DEF RebuildInv, BuildInv, Uncounted
<1> QED
  BY <1>1, <1>2, <1>3, PTL DEF Build!Spec

-----------------------------------------------------------------------------
(* NodeTree: every node has its parent while requests are serial.          *)

\* The nodes of an organisation, and the requests that change their tree.
CONSTANTS Root, Nodes, Requests, InitialKey, Ops, MaxSelect, MaxActive, MaxMark
VARIABLES noderow, change, creator
Node == INSTANCE NodeTree WITH row <- noderow, request <- change

-----------------------------------------------------------------------------
(* Keys of nodes. *)

\* The instance's sizes are sizes.
LEMMA NodeSizes ==
    ASSUME NEW S
    PROVE  /\ Node!Cardinality(S) = Cardinality(S)
           /\ Node!IsFiniteSet(S) <=> IsFiniteSet(S)
<1>1. Node!Cardinality(S) = Cardinality(S)
  BY Zenon DEF Node!Cardinality, Cardinality
<1>2. Node!IsFiniteSet(S) <=> IsFiniteSet(S)
  BY Zenon DEF Node!IsFiniteSet, IsFiniteSet
<1> QED
  BY <1>1, <1>2

\* The key of a child, and of a parent.
LEMMA ChildKey ==
    ASSUME NEW k \in Seq(Nat), NEW i \in Nat
    PROVE  /\ Append(k, i) \in Seq(Nat) /\ Len(Append(k, i)) = Len(k) + 1
           /\ Append(k, i) # << >> /\ Node!Front(Append(k, i)) = k /\ Node!Last(Append(k, i)) = i
<1>1. Append(k, i) \in Seq(Nat) /\ Len(Append(k, i)) = Len(k) + 1
  OBVIOUS
<1>2. SubSeq(Append(k, i), 1, Len(k)) = k
  <2>1. SubSeq(Append(k, i), 1, Len(k)) \in Seq(Nat) /\ Len(SubSeq(Append(k, i), 1, Len(k))) = Len(k)
    BY <1>1
  <2>2. \A j \in 1..Len(k) : SubSeq(Append(k, i), 1, Len(k))[j] = k[j]
    BY <1>1
  <2> QED
    BY <2>1, <2>2, SeqEqual
<1>3. Append(k, i)[Len(k) + 1] = i
  OBVIOUS
<1> QED
  BY <1>1, <1>2, <1>3 DEF Node!Front, Node!Last

LEMMA ParentKey ==
    ASSUME NEW k \in Seq(Nat), k # << >>
    PROVE  /\ Node!Front(k) \in Seq(Nat) /\ Len(Node!Front(k)) = Len(k) - 1
           /\ \A j \in 1..(Len(k) - 1) : Node!Front(k)[j] = k[j]
           /\ Len(k) > 1 => Node!Front(k) # << >>
<1>1. Len(k) \in Nat \ {0}
  OBVIOUS
<1>2. /\ SubSeq(k, 1, Len(k) - 1) \in Seq(Nat) /\ Len(SubSeq(k, 1, Len(k) - 1)) = Len(k) - 1
      /\ \A j \in 1..(Len(k) - 1) : SubSeq(k, 1, Len(k) - 1)[j] = k[j]
  BY <1>1, SMTT(60)
<1> DEFINE f == SubSeq(k, 1, Len(k) - 1)
<1> HIDE DEF f
<1>3. Len(k) > 1 => f # << >>
  <2>1. Len(f) = Len(k) - 1
    BY <1>2, Zenon DEF f
  <2> QED
    BY <1>1, <2>1
<1> QED
  BY <1>2, <1>3, Zenon DEF Node!Front, f

\* A key is below those it begins with.
LEMMA IsBelowMeans ==
    ASSUME NEW k \in Seq(Nat), NEW a \in Seq(Nat)
    PROVE  Node!IsBelow(k, a) <=> Len(a) < Len(k) /\ \A j \in 1..Len(a) : k[j] = a[j]
<1>1. CASE Len(a) < Len(k)
  <2>1. SubSeq(k, 1, Len(a)) \in Seq(Nat) /\ Len(SubSeq(k, 1, Len(a))) = Len(a)
    BY <1>1
  <2>2. \A j \in 1..Len(a) : SubSeq(k, 1, Len(a))[j] = k[j]
    BY <1>1
  <2>3. SubSeq(k, 1, Len(a)) = a <=> \A j \in 1..Len(a) : SubSeq(k, 1, Len(a))[j] = a[j]
    BY <2>1, SeqEqual
  <2>4. SubSeq(a, 1, Len(a)) = a /\ k # a
    BY <1>1
  <2> QED
    BY <1>1, <2>2, <2>3, <2>4 DEF Node!IsBelow, Node!IsStrictPrefix, Node!IsPrefix
<1>2. CASE ~(Len(a) < Len(k))
  <2>1. SubSeq(k, 1, Len(k)) = k /\ SubSeq(a, 1, Len(a)) = a
    OBVIOUS
  <2> QED
    BY <1>2, <2>1, SMTT(60) DEF Node!IsBelow, Node!IsStrictPrefix, Node!IsPrefix
<1> QED
  BY <1>1, <1>2

\* What is below a key has its parent there, or is a child.
LEMMA ParentBelow ==
    ASSUME NEW k \in Seq(Nat), NEW a \in Seq(Nat), k # << >>
    PROVE  Node!IsBelow(k, a) <=> Node!Front(k) = a \/ Node!IsBelow(Node!Front(k), a)
<1> DEFINE f == Node!Front(k)
<1>1. f \in Seq(Nat) /\ Len(f) = Len(k) - 1 /\ \A j \in 1..(Len(k) - 1) : f[j] = k[j]
  BY ParentKey
<1> HIDE DEF f
<1>2. Node!IsBelow(k, a) <=> Len(a) < Len(k) /\ \A j \in 1..Len(a) : k[j] = a[j]
  BY IsBelowMeans, Zenon
<1>3. Node!IsBelow(f, a) <=> Len(a) < Len(f) /\ \A j \in 1..Len(a) : f[j] = a[j]
  BY <1>1, IsBelowMeans, Zenon
<1>4. Len(a) \in Nat /\ Len(k) \in Nat \ {0}
  OBVIOUS
<1>5. CASE Len(a) < Len(f)
  <2>1. f # a
    BY <1>5
  <2>2. \A j \in 1..Len(a) : f[j] = k[j]
    BY <1>1, <1>4, <1>5
  <2> QED
    BY <1>1, <1>2, <1>3, <1>4, <1>5, <2>1, <2>2, SMTT(60) DEF f
<1>6. CASE Len(a) = Len(f)
  <2>1. f = a <=> \A j \in 1..Len(a) : f[j] = a[j]
    BY <1>1, <1>6, SeqEqual
  <2>2. (\A j \in 1..Len(a) : k[j] = a[j]) <=> (\A j \in 1..Len(a) : f[j] = a[j])
    BY <1>1, <1>4, <1>6
  <2> QED
    BY <1>1, <1>2, <1>3, <1>4, <1>6, <2>1, <2>2, SMTT(60) DEF f
<1>7. CASE Len(a) > Len(f)
  <2>1. f # a
    BY <1>7
  <2> QED
    BY <1>1, <1>2, <1>3, <1>4, <1>7, <2>1, SMTT(60) DEF f
<1> QED
  BY <1>1, <1>4, <1>5, <1>6, <1>7, SMTT(60)

\* The key of what moves with a node that goes from old to key.
Rebase(k, old, newkey) == newkey \o SubSeq(k, Len(old) + 1, Len(k))

LEMMA RebaseFields ==
    ASSUME NEW k \in Seq(Nat), NEW old \in Seq(Nat), NEW newkey \in Seq(Nat), Len(old) < Len(k)
    PROVE  /\ Rebase(k, old, newkey) \in Seq(Nat)
           /\ Len(Rebase(k, old, newkey)) = Len(newkey) + Len(k) - Len(old)
           /\ \A j \in 1..(Len(newkey) + Len(k) - Len(old)) :
                Rebase(k, old, newkey)[j] = IF j <= Len(newkey) THEN newkey[j] ELSE k[j - Len(newkey) + Len(old)]
<1> DEFINE rest == SubSeq(k, Len(old) + 1, Len(k))
<1>1. Len(k) \in Nat /\ Len(old) \in Nat /\ Len(newkey) \in Nat
  OBVIOUS
<1>2. /\ rest \in Seq(Nat) /\ Len(rest) = Len(k) - Len(old)
      /\ \A j \in 1..(Len(k) - Len(old)) : rest[j] = k[j + Len(old)]
  BY <1>1
<1> HIDE DEF rest
<1>3. /\ newkey \o rest \in Seq(Nat) /\ Len(newkey \o rest) = Len(newkey) + Len(rest)
      /\ \A j \in 1..(Len(newkey) + Len(rest)) :
           (newkey \o rest)[j] = IF j <= Len(newkey) THEN newkey[j] ELSE rest[j - Len(newkey)]
  <2>1. rest \in Seq(Nat)
    BY <1>2
  <2>2. newkey \o rest \in Seq(Nat) /\ Len(newkey \o rest) = Len(newkey) + Len(rest)
    BY <2>1
  <2>3. ASSUME NEW j \in 1..(Len(newkey) + Len(rest))
        PROVE  (newkey \o rest)[j] = IF j <= Len(newkey) THEN newkey[j] ELSE rest[j - Len(newkey)]
    BY <2>1
  <2> QED
    BY <2>2, <2>3
<1>4. ASSUME NEW j \in 1..(Len(newkey) + Len(k) - Len(old)), j > Len(newkey)
      PROVE  rest[j - Len(newkey)] = k[j - Len(newkey) + Len(old)]
  <2>1. j - Len(newkey) \in 1..(Len(k) - Len(old))
    BY <1>1, <1>4
  <2> QED
    BY <1>2, <2>1
<1>5. Rebase(k, old, newkey) = newkey \o rest
  BY DEF Rebase, rest
<1> HIDE DEF Rebase
<1>6. Len(newkey) + Len(rest) = Len(newkey) + Len(k) - Len(old)
  BY <1>1, <1>2
<1>7. ASSUME NEW j \in 1..(Len(newkey) + Len(k) - Len(old))
      PROVE  Rebase(k, old, newkey)[j] = IF j <= Len(newkey) THEN newkey[j] ELSE k[j - Len(newkey) + Len(old)]
  BY <1>1, <1>3, <1>4, <1>5, <1>6, SMTT(60)
<1> QED
  BY <1>3, <1>5, <1>6, <1>7

LEMMA RebasedParent ==
    ASSUME NEW k \in Seq(Nat), NEW old \in Seq(Nat), NEW newkey \in Seq(Nat),
           Node!IsBelow(k, old), newkey # << >>
    PROVE  /\ Rebase(k, old, newkey) \in Seq(Nat) /\ Len(Rebase(k, old, newkey)) > 1
           /\ Node!Front(Rebase(k, old, newkey)) =
                IF Node!Front(k) = old THEN newkey ELSE Rebase(Node!Front(k), old, newkey)
<1>1. Len(old) < Len(k) /\ \A j \in 1..Len(old) : k[j] = old[j]
  BY IsBelowMeans, Zenon
<1>2. Len(k) \in Nat /\ Len(old) \in Nat /\ Len(newkey) \in Nat \ {0} /\ k # << >>
  BY <1>1
<1> DEFINE f == Node!Front(k)
           new == Rebase(k, old, newkey)
<1>3. f \in Seq(Nat) /\ Len(f) = Len(k) - 1 /\ \A j \in 1..(Len(k) - 1) : f[j] = k[j]
  BY <1>2, ParentKey, Zenon
<1>4. /\ new \in Seq(Nat) /\ Len(new) = Len(newkey) + Len(k) - Len(old)
      /\ \A j \in 1..(Len(newkey) + Len(k) - Len(old)) :
           new[j] = IF j <= Len(newkey) THEN newkey[j] ELSE k[j - Len(newkey) + Len(old)]
  BY <1>1, RebaseFields, Zenon
<1> HIDE DEF f, new
<1>5. Len(new) > 1
  BY <1>1, <1>2, <1>4
<1>6. new # << >>
  BY <1>5
<1>7. /\ Node!Front(new) \in Seq(Nat) /\ Len(Node!Front(new)) = Len(new) - 1
      /\ \A j \in 1..(Len(new) - 1) : Node!Front(new)[j] = new[j]
  BY <1>4, <1>6, ParentKey, Zenon
<1> DEFINE g == Node!Front(new)
<1> HIDE DEF g
<1>8. CASE f = old
  <2>1. Len(k) = Len(old) + 1
    BY <1>2, <1>3, <1>8
  <2>2. Len(g) = Len(newkey)
    BY <1>2, <1>4, <1>7, <2>1 DEF g
  <2>3. ASSUME NEW j \in 1..Len(newkey) PROVE g[j] = newkey[j]
    <3>1. j \in 1..(Len(new) - 1) /\ j \in 1..(Len(newkey) + Len(k) - Len(old)) /\ j <= Len(newkey)
      BY <1>2, <1>4, <2>1
    <3> QED
      BY <1>4, <1>7, <3>1 DEF g
  <2>4. g = newkey
    BY <1>7, <2>2, <2>3, SeqEqual DEF g
  <2> QED
    BY <1>4, <1>5, <1>8, <2>4 DEF f, g, new
<1>9. CASE f # old
  <2>1. Node!IsBelow(f, old)
    BY <1>2, <1>9, ParentBelow DEF f
  <2>2. Len(old) < Len(f)
    BY <1>3, <2>1, IsBelowMeans, Zenon
  <2> DEFINE h == Rebase(f, old, newkey)
  <2>3. /\ h \in Seq(Nat) /\ Len(h) = Len(newkey) + Len(f) - Len(old)
        /\ \A j \in 1..(Len(newkey) + Len(f) - Len(old)) :
             h[j] = IF j <= Len(newkey) THEN newkey[j] ELSE f[j - Len(newkey) + Len(old)]
    BY <1>3, <2>2, RebaseFields, ZenonT(60)
  <2> HIDE DEF h
  <2>4. Len(g) = Len(h)
    BY <1>2, <1>3, <1>4, <1>7, <2>3 DEF g
  <2>5. ASSUME NEW j \in 1..Len(h) PROVE g[j] = h[j]
    <3>1. /\ j \in 1..(Len(new) - 1) /\ j \in 1..(Len(newkey) + Len(k) - Len(old))
          /\ j \in 1..(Len(newkey) + Len(f) - Len(old))
      BY <1>2, <1>3, <1>4, <2>3
    <3>2. g[j] = IF j <= Len(newkey) THEN newkey[j] ELSE k[j - Len(newkey) + Len(old)]
      BY <1>4, <1>7, <3>1 DEF g
    <3>3. h[j] = IF j <= Len(newkey) THEN newkey[j] ELSE f[j - Len(newkey) + Len(old)]
      BY <2>3, <3>1
    <3>4. j > Len(newkey) => j - Len(newkey) + Len(old) \in 1..(Len(k) - 1)
      BY <1>2, <1>3, <3>1
    <3>5. CASE j <= Len(newkey)
      BY <3>2, <3>3, <3>5
    <3>6. CASE j > Len(newkey)
      <4>1. f[j - Len(newkey) + Len(old)] = k[j - Len(newkey) + Len(old)]
        BY <1>3, <3>4, <3>6
      <4>2. ~(j <= Len(newkey))
        BY <1>2, <3>6
      <4> QED
        BY <3>2, <3>3, <4>1, <4>2
    <3> QED
      BY <1>2, <3>5, <3>6
  <2>6. g = h
    BY <1>7, <2>3, <2>4, <2>5, SeqEqual DEF g
  <2> QED
    BY <1>4, <1>5, <1>9, <2>6 DEF f, g, h, new
<1> QED
  BY <1>8, <1>9

\* The greatest of some numbers.
LEMMA MaxIsGreatest ==
    ASSUME NEW S \in SUBSET Nat, IsFiniteSet(S), S # {}
    PROVE  Node!Max(S) \in S /\ \A y \in S : Node!Max(S) >= y
<1> DEFINE Above(x) == {y \in S : y > x}
<1>1. \A x \in S : IsFiniteSet(Above(x)) /\ Cardinality(Above(x)) \in Nat
  BY FS_Subset, FS_CardinalityType
<1>2. {Cardinality(Above(x)) : x \in S} \in SUBSET Nat /\ {Cardinality(Above(x)) : x \in S} # {}
  BY <1>1
<1>3. PICK x \in S : \A y \in S : Cardinality(Above(x)) <= Cardinality(Above(y))
  <2>1. PICK c \in {Cardinality(Above(x)) : x \in S} :
          \A e \in {Cardinality(Above(x)) : x \in S} : c <= e
    BY <1>2, LeastNumber, Zenon
  <2> QED
    BY <2>1
<1>4. ASSUME NEW y \in S, y > x PROVE FALSE
  <2>1. x \in Nat /\ y \in Nat /\ \A z \in S : z \in Nat
    OBVIOUS
  <2>2. \A z \in S : z > y => z > x
    BY <1>4, <2>1
  <2>3. ~(y > y)
    BY <2>1
  <2> DEFINE A == Above(x)
             B == Above(y)
  <2>4. B \subseteq A /\ y \in A /\ y \notin B
    BY <1>4, <2>2, <2>3, Zenon
  <2>5. /\ IsFiniteSet(A) /\ Cardinality(A) \in Nat /\ Cardinality(B) \in Nat
        /\ Cardinality(A) <= Cardinality(B)
    BY <1>1, <1>3, Zenon
  <2> HIDE DEF A, B
  <2>6. Cardinality(B) <= Cardinality(A) /\ (Cardinality(A) = Cardinality(B) => A = B)
    BY <2>4, <2>5, FS_Subset
  <2> QED
    BY <2>4, <2>5, <2>6
<1>5. \A y \in S : x >= y
  BY <1>4
<1> QED
  BY <1>5 DEF Node!Max

-----------------------------------------------------------------------------
(* Rows and keys. *)

\* A row, or none.
ValidRow == {x \in Node!Rows : x = Node!Absent <=> x.key = << >>}
\* No two nodes have one key.
NoTwins(view) ==
    \A n, m \in Node!Present(view) : view[n].key = view[m].key => n = m

LEMMA NodeFields ==
    ASSUME NEW x \in ValidRow
    PROVE  x.key \in Seq(Nat) /\ x.mark \in Nat /\ (x # Node!Absent => x.key # << >>)
  BY DEF ValidRow, Node!Rows

LEMMA RowIs ==
    ASSUME NEW k \in Seq(Nat), k # << >>, NEW i \in Nat
    PROVE  [key |-> k, mark |-> i] \in ValidRow /\ [key |-> k, mark |-> i] # Node!Absent
<1> DEFINE x == [key |-> k, mark |-> i]
<1>1. x.key = k /\ x \in Node!Rows /\ Node!Absent.key = << >>
  BY DEF Node!Rows, Node!Absent
<1> HIDE DEF x
<1>2. x # Node!Absent
  BY <1>1
<1> QED
  BY <1>1, <1>2 DEF ValidRow, x

LEMMA AbsentIsRow == Node!Absent \in ValidRow
<1>1. << >> \in Seq(Nat) /\ Node!Absent.key = << >>
  BY DEF Node!Absent
<1> QED
  BY <1>1 DEF ValidRow, Node!Rows, Node!Absent

LEMMA FiniteImage ==
    ASSUME NEW S, IsFiniteSet(S), NEW f, f = [x \in S |-> f[x]]
    PROVE  IsFiniteSet({f[x] : x \in S})
<1> DEFINE T == {f[x] : x \in S}
<1>1. f \in [S -> T] /\ \A y \in T : \E x \in S : f[x] = y
  OBVIOUS
<1> HIDE DEF T
<1>2. f \in Surjection(S, T)
  BY <1>1, Zenon DEF Surjection
<1>3. IsFiniteSet(T)
  BY <1>2, FS_Surjection, Zenon
<1> QED
  BY <1>3 DEF T

\* The keys in use are those of as many nodes, unless two share one.
LEMMA DuplicateMeans ==
    ASSUME IsFiniteSet(Nodes), NEW view
    PROVE  Node!Duplicate(view) <=> ~NoTwins(view)
<1> DEFINE P == Node!Present(view)
           K == Node!Keys(view)
           f == [n \in P |-> view[n].key]
<1>1. IsFiniteSet(P)
  BY FS_Subset DEF Node!Present
<1>2. K = {view[n].key : n \in P}
  BY DEF Node!Keys
<1> HIDE DEF P, K
<1>3. f \in Surjection(P, K)
  <2>1. f \in [P -> K]
    BY <1>2
  <2>2. \A k \in K : \E n \in P : f[n] = k
    BY <1>2
  <2> QED
    BY <2>1, <2>2 DEF Surjection
<1>4. /\ IsFiniteSet(K) /\ Cardinality(K) <= Cardinality(P)
      /\ Cardinality(K) = Cardinality(P) <=> f \in Injection(P, K)
  BY <1>1, <1>3, FS_Surjection, Zenon
<1>5. Cardinality(K) \in Nat /\ Cardinality(P) \in Nat
  BY <1>1, <1>4, FS_CardinalityType
<1>6. f \in Injection(P, K) <=> NoTwins(view)
  <2>1. f \in [P -> K]
    BY <1>2
  <2>2. NoTwins(view) <=> \A n, m \in P : f[n] = f[m] => n = m
    BY DEF NoTwins, P
  <2> HIDE DEF f
  <2>3. f \in Injection(P, K) <=> \A n, m \in P : f[n] = f[m] => n = m
    BY <2>1, Zenon DEF Injection, IsInjective
  <2> QED
    BY <2>2, <2>3
<1>7. Node!Duplicate(view) <=> Cardinality(K) < Cardinality(P)
  BY NodeSizes DEF Node!Duplicate, P, K
<1> QED
  BY <1>4, <1>5, <1>6, <1>7

\* The next key of a node is nobody's.
LEMMA NextKeyIsFree ==
    ASSUME IsFiniteSet(Nodes), NEW view \in [Nodes -> ValidRow], NEW obj \in ValidRow
    PROVE  /\ Node!ValidMark(view, obj) \in Nat
           /\ Append(obj.key, Node!ValidMark(view, obj)) \notin Node!Keys(view)
<1> DEFINE K == Node!Keys(view)
           mine == {k \in K : Node!Front(k) = obj.key}
           S == {Node!Last(k) : k \in mine}
<1>1. obj.key \in Seq(Nat) /\ obj.mark \in Nat
  BY NodeFields
<1>2. CASE Append(obj.key, obj.mark) \notin K
  BY <1>1, <1>2 DEF Node!ValidMark
<1>3. CASE Append(obj.key, obj.mark) \in K
  <2>1. IsFiniteSet(S)
    <3>1. IsFiniteSet(Node!Present(view))
      BY FS_Subset DEF Node!Present
    <3> DEFINE f == [n \in Node!Present(view) |-> view[n].key]
               g == [k \in mine |-> Node!Last(k)]
    <3>2. IsFiniteSet({f[n] : n \in Node!Present(view)})
      BY <3>1, FiniteImage
    <3>3. IsFiniteSet(K)
      BY <3>2 DEF Node!Keys
    <3>4. IsFiniteSet(mine)
      BY <3>3, FS_Subset
    <3> HIDE DEF mine
    <3>5. IsFiniteSet({g[k] : k \in mine})
      BY <3>4, FiniteImage
    <3>6. {g[k] : k \in mine} = S
      OBVIOUS
    <3> QED
      BY <3>5, <3>6, Zenon
  <2>2. \A k \in K : k \in Seq(Nat) /\ k # << >>
    BY NodeFields DEF Node!Keys, Node!Present
  <2>3. S \subseteq Nat
    <3> SUFFICES ASSUME NEW k \in K PROVE Node!Last(k) \in Nat
      OBVIOUS
    <3>1. k \in Seq(Nat) /\ k # << >>
      BY <2>2
    <3> QED
      BY <3>1 DEF Node!Last
  <2>4. obj.mark \in S
    BY <1>1, <1>3, ChildKey
  <2>5. Node!Max(S) \in S /\ \A y \in S : Node!Max(S) >= y
    BY <2>1, <2>3, <2>4, MaxIsGreatest
  <2>6. Node!ValidMark(view, obj) = Node!Max(S) + 1
    BY <1>3 DEF Node!ValidMark
  <2> DEFINE i == Node!Max(S) + 1
  <2>7. i \in Nat /\ i \notin S
    <3> DEFINE top == Node!Max(S)
    <3>1. top \in Nat /\ \A y \in S : top >= y
      BY <2>3, <2>5, Zenon
    <3> HIDE DEF top, S
    <3>2. top + 1 \in Nat /\ ~(top >= top + 1)
      BY <3>1
    <3> QED
      BY <3>1, <3>2 DEF top
  <2>8. ASSUME Append(obj.key, i) \in K PROVE FALSE
    <3>1. Append(obj.key, i) \in mine /\ Node!Last(Append(obj.key, i)) = i
      BY <1>1, <2>7, <2>8, ChildKey
    <3> QED
      BY <2>7, <3>1
  <2> QED
    BY <2>6, <2>7, <2>8
<1> QED
  BY <1>2, <1>3

-----------------------------------------------------------------------------
(* Types. *)

Partial(S) == UNION {[D -> S] : D \in SUBSET Nodes}
Creations == {"create", "create_top"}
OpenRequest ==
    [state : {"open"}, op : Creations \cup {"move", "delete"}, at : Nodes,
     obj : ValidRow \ {Node!Absent}, left : SUBSET Nodes, objs : Partial(ValidRow \ {Node!Absent}),
     new : Nodes \cup {None}, written : Partial(ValidRow)]

IsOpen(r) == change[r].state = "open"

NodeTypes ==
    /\ noderow \in [Nodes -> ValidRow] /\ NoTwins(noderow)
    /\ DOMAIN change = Requests
    /\ \A r \in Requests : IsOpen(r) =>
         /\ change[r] \in OpenRequest /\ change[r].left \subseteq DOMAIN change[r].objs
         /\ change[r].new \in Nodes <=> change[r].op \in Creations
    /\ creator \in Requests \cup {None}
    /\ creator # None => IsOpen(creator) /\ change[creator].op = "create"

LEMMA OpenFields ==
    ASSUME NodeTypes, NEW r \in Requests, IsOpen(r)
    PROVE  /\ change[r].op \in Creations \cup {"move", "delete"} /\ change[r].at \in Nodes
           /\ change[r].obj \in ValidRow /\ change[r].obj # Node!Absent
           /\ change[r].left \subseteq DOMAIN change[r].objs /\ DOMAIN change[r].objs \subseteq Nodes
           /\ \A n \in DOMAIN change[r].objs :
                change[r].objs[n] \in ValidRow /\ change[r].objs[n] # Node!Absent
           /\ change[r].new \in Nodes \cup {None}
           /\ change[r].new \in Nodes <=> change[r].op \in Creations
           /\ DOMAIN change[r].written \subseteq Nodes
           /\ \A n \in DOMAIN change[r].written : change[r].written[n] \in ValidRow
<1>1. change[r] \in OpenRequest /\ change[r].left \subseteq DOMAIN change[r].objs
  BY DEF NodeTypes
<1>2. change[r].objs \in Partial(ValidRow \ {Node!Absent}) /\ change[r].written \in Partial(ValidRow)
  BY <1>1 DEF OpenRequest
<1>3. /\ DOMAIN change[r].objs \subseteq Nodes
      /\ \A n \in DOMAIN change[r].objs :
           change[r].objs[n] \in ValidRow /\ change[r].objs[n] # Node!Absent
  BY <1>2 DEF Partial
<1>4. /\ DOMAIN change[r].written \subseteq Nodes
      /\ \A n \in DOMAIN change[r].written : change[r].written[n] \in ValidRow
  BY <1>2 DEF Partial
<1>5. /\ change[r].op \in Creations \cup {"move", "delete"} /\ change[r].at \in Nodes
      /\ change[r].obj \in ValidRow /\ change[r].obj # Node!Absent
      /\ change[r].new \in Nodes \cup {None}
  BY <1>1 DEF OpenRequest
<1> QED
  BY <1>1, <1>3, <1>4, <1>5 DEF NodeTypes

\* What a request sees are rows.
LEMMA ViewIsRows ==
    ASSUME NodeTypes, NEW r \in Requests, IsOpen(r)
    PROVE  Node!View(r) \in [Nodes -> ValidRow]
<1>1. \A n \in DOMAIN change[r].written : change[r].written[n] \in ValidRow
  BY OpenFields
<1> QED
  BY <1>1 DEF Node!View, NodeTypes

\* What the steps have in common: a request that has begun, has saved something or has failed.
LEMMA BeginMeans ==
    ASSUME NodeTypes, NEW r \in Requests, NEW op \in Creations \cup {"move", "delete"}, NEW at \in Nodes,
           NEW ns \in SUBSET Node!Present(noderow), NEW new \in Nodes \cup {None},
           new \in Nodes <=> op \in Creations, Node!Begin(r, op, at, ns, new)
    PROVE  /\ NodeTypes' /\ UNCHANGED <<noderow, creator>> /\ ~IsOpen(r) /\ noderow[at] # Node!Absent
           /\ change'[r] = [state |-> "open", op |-> op, at |-> at, obj |-> noderow[at], left |-> ns,
                            objs |-> [n \in ns |-> noderow[n]], new |-> new,
                            written |-> [n \in {} |-> Node!Absent]]
           /\ \A q \in Requests \ {r} : change'[q] = change[q]
<1> DEFINE q0 == [state |-> "open", op |-> op, at |-> at, obj |-> noderow[at], left |-> ns,
                  objs |-> [n \in ns |-> noderow[n]], new |-> new,
                  written |-> [n \in {} |-> Node!Absent]]
<1>1. /\ change' = [change EXCEPT ![r] = q0] /\ UNCHANGED <<noderow, creator>>
      /\ noderow[at] # Node!Absent /\ change[r] = Node!New
  BY DEF Node!Begin
<1>2. ~IsOpen(r)
  BY <1>1 DEF IsOpen, Node!New
<1>3. q0.written \in Partial(ValidRow)
  <2>1. q0.written \in [{} -> ValidRow]
    OBVIOUS
  <2> QED
    BY <2>1 DEF Partial
<1>4. q0.objs \in Partial(ValidRow \ {Node!Absent})
  <2>1. q0.objs \in [ns -> ValidRow \ {Node!Absent}] /\ ns \in SUBSET Nodes
    BY DEF NodeTypes, Node!Present
  <2> QED
    BY <2>1, Zenon DEF Partial
<1>5. q0 \in OpenRequest /\ q0.left \subseteq DOMAIN q0.objs
  <2>1. noderow[at] \in ValidRow \ {Node!Absent} /\ ns \in SUBSET Nodes
    BY <1>1 DEF NodeTypes, Node!Present
  <2> QED
    BY <1>3, <1>4, <2>1 DEF OpenRequest
<1>6. q0.state = "open" /\ q0.op = op /\ q0.new = new
  OBVIOUS
<1> HIDE DEF q0
<1>7. change'[r] = q0 /\ DOMAIN change' = Requests /\ \A q \in Requests \ {r} : change'[q] = change[q]
  BY <1>1 DEF NodeTypes
<1>8. NodeTypes'
  <2>1. creator # None => creator # r
    BY <1>2 DEF NodeTypes
  <2> QED
    BY <1>1, <1>5, <1>6, <1>7, <2>1 DEF NodeTypes, IsOpen, NoTwins, Node!Present
<1> QED
  BY <1>1, <1>2, <1>7, <1>8 DEF q0

LEMMA PutMeans ==
    ASSUME NodeTypes, NEW r \in Requests, IsOpen(r), NEW rows \in Partial(ValidRow),
           NEW obj \in ValidRow \ {Node!Absent}, NEW rest \in SUBSET change[r].left,
           Node!Put(r, rows, obj, rest), UNCHANGED <<noderow, creator>>
    PROVE  /\ NodeTypes'
           /\ IsOpen(r)' /\ change'[r].op = change[r].op /\ change'[r].at = change[r].at
           /\ change'[r].new = change[r].new /\ change'[r].objs = change[r].objs
           /\ change'[r].obj = obj /\ change'[r].left = rest
           /\ change'[r].written = Node!Writes(r, rows)
           /\ \A q \in Requests \ {r} : change'[q] = change[q]
<1> DEFINE w == Node!Writes(r, rows)
           q0 == [change[r] EXCEPT !.written = w, !.obj = obj, !.left = rest]
<1>1. change[r] \in OpenRequest /\ DOMAIN change = Requests
  BY DEF NodeTypes
<1>2. change' = [change EXCEPT ![r].written = w, ![r].obj = obj, ![r].left = rest]
  BY DEF Node!Put
<1>3. w \in Partial(ValidRow)
  <2>1. DOMAIN rows \subseteq Nodes /\ \A n \in DOMAIN rows : rows[n] \in ValidRow
    BY DEF Partial
  <2>2. w \in [DOMAIN change[r].written \cup DOMAIN rows -> ValidRow]
    BY <2>1, OpenFields DEF Node!Writes
  <2>3. DOMAIN change[r].written \cup DOMAIN rows \in SUBSET Nodes
    BY <2>1, OpenFields
  <2> HIDE DEF w
  <2> QED
    BY <2>2, <2>3, Zenon DEF Partial
<1> HIDE DEF w
<1>4. rest \in SUBSET Nodes
  BY OpenFields
<1>5. q0 \in OpenRequest
  BY <1>1, <1>3, <1>4 DEF OpenRequest
<1>6. /\ q0.state = "open" /\ q0.op = change[r].op /\ q0.at = change[r].at /\ q0.new = change[r].new
      /\ q0.objs = change[r].objs /\ q0.obj = obj /\ q0.left = rest /\ q0.written = w
  BY <1>1 DEF OpenRequest
<1>7. change'[r] = q0 /\ DOMAIN change' = Requests /\ \A q \in Requests \ {r} : change'[q] = change[q]
  BY <1>1, <1>2
<1> HIDE DEF q0
<1>8. NodeTypes' /\ IsOpen(r)'
  BY <1>5, <1>6, <1>7 DEF NodeTypes, IsOpen, NoTwins, Node!Present
<1> QED
  BY <1>6, <1>7, <1>8 DEF w

LEMMA FailMeans ==
    ASSUME NodeTypes, NEW r \in Requests, IsOpen(r), None \notin Requests, Node!Fail(r)
    PROVE  /\ NodeTypes' /\ UNCHANGED noderow /\ change'[r].state = "failed"
           /\ \A q \in Requests \ {r} : change'[q] = change[q]
<1>1. /\ change'[r].state = "failed" /\ DOMAIN change' = Requests
      /\ \A q \in Requests \ {r} : change'[q] = change[q]
  BY DEF Node!Fail, NodeTypes
<1>2. UNCHANGED noderow /\ creator' = IF creator = r THEN None ELSE creator
  BY DEF Node!Fail, Node!Unlocked
<1> QED
  BY <1>1, <1>2 DEF NodeTypes, IsOpen, NoTwins, Node!Present

LEMMA CommitMeans ==
    ASSUME IsFiniteSet(Nodes), NodeTypes, NEW r \in Requests, None \notin Requests, Node!Commit(r)
    PROVE  /\ NodeTypes' /\ IsOpen(r) /\ ~IsOpen(r)'
           /\ \A q \in Requests \ {r} : change'[q] = change[q]
           /\ \/ ~NoTwins(Node!View(r)) /\ change'[r].state = "failed" /\ UNCHANGED noderow
              \/ NoTwins(Node!View(r)) /\ change'[r].state = "done" /\ noderow' = Node!View(r)
<1>1. IsOpen(r)
  BY DEF Node!Commit, Node!Finished, IsOpen
<1>2. CASE Node!Duplicate(Node!View(r))
  <2>1. Node!Fail(r)
    BY <1>2 DEF Node!Commit
  <2> QED
    BY <1>1, <1>2, <2>1, DuplicateMeans, FailMeans DEF IsOpen
<1>3. CASE ~Node!Duplicate(Node!View(r))
  <2>1. /\ noderow' = Node!View(r) /\ creator' = IF creator = r THEN None ELSE creator
        /\ change' = [change EXCEPT ![r] = [state |-> "done", op |-> @.op, at |-> @.at]]
    BY <1>3 DEF Node!Commit, Node!Unlocked
  <2>2. /\ change'[r].state = "done" /\ DOMAIN change' = Requests
        /\ \A q \in Requests \ {r} : change'[q] = change[q]
    BY <2>1 DEF NodeTypes
  <2>3. NoTwins(Node!View(r)) /\ Node!View(r) \in [Nodes -> ValidRow]
    BY <1>1, <1>3, DuplicateMeans, ViewIsRows
  <2>4. noderow' \in [Nodes -> ValidRow] /\ NoTwins(noderow')
    BY <2>1, <2>3
  <2>5. NoTwins(noderow)'
    BY <2>4 DEF NoTwins, Node!Present
  <2> QED
    BY <1>1, <2>1, <2>2, <2>3, <2>4, <2>5 DEF NodeTypes, IsOpen
<1> QED
  BY <1>2, <1>3

\* What a request sees after a save.
LEMMA ViewAfterPut ==
    ASSUME NEW r, NEW rows, DOMAIN rows \subseteq Nodes, UNCHANGED noderow,
           change'[r].written = Node!Writes(r, rows)
    PROVE  /\ \A n \in Nodes :
                Node!View(r)'[n] = IF n \in DOMAIN rows THEN rows[n] ELSE Node!View(r)[n]
           /\ DOMAIN change'[r].written = DOMAIN change[r].written \cup DOMAIN rows
<1>1. Node!View(r)' = [n \in Nodes |-> IF n \in DOMAIN change'[r].written THEN change'[r].written[n]
                                                                    ELSE noderow[n]]
  BY DEF Node!View
<1>2. /\ DOMAIN change'[r].written = DOMAIN change[r].written \cup DOMAIN rows
      /\ \A n \in DOMAIN change[r].written \cup DOMAIN rows :
           change'[r].written[n] = IF n \in DOMAIN rows THEN rows[n] ELSE change[r].written[n]
  BY DEF Node!Writes
<1> QED
  BY <1>1, <1>2 DEF Node!View

\* The view of request r after it has created its child, moved n or deleted its node.
Created(r, mark) ==
    [Node!View(r) EXCEPT ![change[r].at] = [change[r].obj EXCEPT !.mark = mark + 1],
                         ![change[r].new] = [key |-> Append(change[r].obj.key, mark), mark |-> 0]]
Saved(r, mark) == [Node!View(r) EXCEPT ![change[r].at] = [change[r].obj EXCEPT !.mark = mark + 1]]
MovedKey(r, mark) == Append(change[r].obj.key, mark)
DraggedNode(r, n, mark) ==
    [Saved(r, mark) EXCEPT ![n] = [key |-> MovedKey(r, mark), mark |-> change[r].objs[n].mark]]
MovedBelow(r, n, mark) == Node!Below(DraggedNode(r, n, mark), change[r].objs[n].key)
MovedAll(r, n, mark) ==
    [m \in Nodes |->
       IF m \in MovedBelow(r, n, mark)
       THEN [key |-> Rebase(DraggedNode(r, n, mark)[m].key, change[r].objs[n].key, MovedKey(r, mark)),
             mark |-> DraggedNode(r, n, mark)[m].mark]
       ELSE DraggedNode(r, n, mark)[m]]
Gone(r) == Node!Below(Node!View(r), change[r].obj.key) \cup {change[r].at}

\* A request that has saved stays what it was.
SameRequest(r) ==
    /\ IsOpen(r) /\ IsOpen(r)'
    /\ change'[r].op = change[r].op /\ change'[r].at = change[r].at /\ change'[r].new = change[r].new
    /\ change'[r].objs = change[r].objs /\ change'[r].obj.key = change[r].obj.key
OthersSame(r) == \A q \in Requests \ {r} : change'[q] = change[q]

LEMMA NextMark ==
    ASSUME NEW obj \in ValidRow, obj # Node!Absent, NEW i \in Nat
    PROVE  /\ [obj EXCEPT !.mark = i] = [key |-> obj.key, mark |-> i]
           /\ [obj EXCEPT !.mark = i] \in ValidRow \ {Node!Absent}
<1>1. obj \in Node!Rows /\ obj.key \in Seq(Nat) /\ obj.key # << >>
  BY NodeFields DEF ValidRow
<1>2. [obj EXCEPT !.mark = i] = [key |-> obj.key, mark |-> i]
  BY <1>1 DEF Node!Rows
<1> QED
  BY <1>1, <1>2, RowIs

LEMMA CreateMeans ==
    ASSUME IsFiniteSet(Nodes), None \notin Requests, None \notin Nodes, NodeTypes,
           NEW r \in Requests, Node!CreateChild(r)
    PROVE  /\ NodeTypes' /\ UNCHANGED noderow /\ OthersSame(r)
           /\ IsOpen(r) /\ change[r].op \in Creations /\ change[r].new \notin DOMAIN change[r].written
           /\ change[r].op = "create" => creator = r
           /\ \E mark \in Nat :
                /\ MovedKey(r, mark) \notin Node!Keys(Node!View(r))
                /\ Created(r, mark) \in [Nodes -> ValidRow]
                /\ \/ /\ Node!HasParent(Created(r, mark), change[r].at)
                      /\ UNCHANGED creator /\ SameRequest(r)
                      /\ change'[r].left = {} /\ Node!View(r)' = Created(r, mark)
                      /\ DOMAIN change'[r].written =
                           DOMAIN change[r].written \cup {change[r].at, change[r].new}
                   \/ /\ ~Node!HasParent(Created(r, mark), change[r].at)
                      /\ change'[r].state = "failed"
<1> DEFINE q == change[r]
           mark == Node!ValidMark(Node!View(r), q.obj)
           obj == [q.obj EXCEPT !.mark = mark + 1]
           child == [key |-> Append(obj.key, mark), mark |-> 0]
           after == [Node!View(r) EXCEPT ![q.at] = obj, ![q.new] = child]
           rows == [n \in {q.at, q.new} |-> after[n]]
<1>1. /\ IsOpen(r) /\ q.op \in Creations /\ q.new \notin DOMAIN q.written
      /\ q.op = "create" => creator = r
  BY DEF Node!CreateChild, IsOpen, Creations
<1>2. /\ q.at \in Nodes /\ q.new \in Nodes /\ q.obj \in ValidRow /\ q.obj # Node!Absent
      /\ Node!View(r) \in [Nodes -> ValidRow]
  BY <1>1, OpenFields, ViewIsRows
<1>3. mark \in Nat /\ Append(q.obj.key, mark) \notin Node!Keys(Node!View(r))
  BY <1>2, NextKeyIsFree
<1>4. /\ obj.key = q.obj.key /\ obj \in ValidRow \ {Node!Absent}
      /\ after = Created(r, mark)
  <2>1. mark + 1 \in Nat
    BY <1>3
  <2>2. obj = [key |-> q.obj.key, mark |-> mark + 1] /\ obj \in ValidRow \ {Node!Absent}
    BY <1>2, <2>1, NextMark, SMTT(60)
  <2> QED
    BY <2>2 DEF Created
<1>5. child \in ValidRow
  BY <1>2, <1>3, <1>4, NodeFields, ChildKey, RowIs
<1>6. /\ \/ Node!HasParent(after, q.at) /\ Node!Put(r, rows, obj, {}) /\ UNCHANGED <<noderow, creator>>
         \/ ~Node!HasParent(after, q.at) /\ Node!Fail(r)
  BY DEF Node!CreateChild
<1> HIDE DEF mark, obj, child
<1>7. after \in [Nodes -> ValidRow]
  BY <1>2, <1>4, <1>5
<1>8. rows \in Partial(ValidRow) /\ DOMAIN rows = {q.at, q.new} /\ {q.at, q.new} \subseteq Nodes
  <2>1. rows \in [{q.at, q.new} -> ValidRow] /\ {q.at, q.new} \in SUBSET Nodes
    BY <1>2, <1>7
  <2> QED
    BY <2>1 DEF Partial
<1>9. \A n \in Nodes \ {q.at, q.new} : after[n] = Node!View(r)[n]
  BY <1>2
<1> HIDE DEF after
<1>10. CASE Node!HasParent(after, q.at) /\ Node!Put(r, rows, obj, {}) /\ UNCHANGED <<noderow, creator>>
  <2> HIDE DEF rows
  <2>1. PICK rows0 \in Partial(ValidRow), obj0 \in ValidRow \ {Node!Absent} : rows0 = rows /\ obj0 = obj
    BY <1>4, <1>8, Zenon
  <2>2. {} \in SUBSET change[r].left /\ Node!Put(r, rows0, obj0, {})
    BY <1>10, <2>1
  <2>3. /\ NodeTypes' /\ OthersSame(r) /\ SameRequest(r)
        /\ change'[r].left = {} /\ change'[r].written = Node!Writes(r, rows)
    <3>1. /\ NodeTypes' /\ \A u \in Requests \ {r} : change'[u] = change[u]
          /\ IsOpen(r)' /\ change'[r].op = change[r].op /\ change'[r].at = change[r].at
          /\ change'[r].new = change[r].new /\ change'[r].objs = change[r].objs
          /\ change'[r].obj = obj0 /\ change'[r].left = {}
          /\ change'[r].written = Node!Writes(r, rows0)
      BY <1>1, <1>10, <2>2, PutMeans
    <3> QED
      BY <1>1, <1>4, <2>1, <3>1 DEF OthersSame, SameRequest
  <2>4. /\ \A n \in Nodes : Node!View(r)'[n] = IF n \in DOMAIN rows THEN rows[n] ELSE Node!View(r)[n]
        /\ DOMAIN change'[r].written = DOMAIN q.written \cup DOMAIN rows
    BY <1>8, <1>10, <2>3, ViewAfterPut
  <2>5. Node!View(r)' = after
    <3>1. \A n \in Nodes : Node!View(r)'[n] = after[n]
      BY <1>8, <1>9, <2>4 DEF rows
    <3>2. Node!View(r)' = [n \in Nodes |-> Node!View(r)'[n]]
      BY DEF Node!View
    <3> QED
      BY <1>7, <3>1, <3>2
  <2> QED
    BY <1>1, <1>3, <1>4, <1>7, <1>8, <1>10, <2>3, <2>4, <2>5 DEF MovedKey
<1>11. CASE ~Node!HasParent(after, q.at) /\ Node!Fail(r)
  <2>1. /\ NodeTypes' /\ UNCHANGED noderow /\ change'[r].state = "failed" /\ OthersSame(r)
    BY <1>1, <1>11, FailMeans DEF OthersSame
  <2> QED
    BY <1>1, <1>3, <1>4, <1>7, <1>11, <2>1 DEF MovedKey
<1> QED
  BY <1>6, <1>10, <1>11

LEMMA RowWithKey ==
    ASSUME NEW x \in ValidRow, NEW k
    PROVE  [x EXCEPT !.key = k] = [key |-> k, mark |-> x.mark]
  BY DEF ValidRow, Node!Rows

LEMMA MoveMeans ==
    ASSUME IsFiniteSet(Nodes), None \notin Requests, NodeTypes,
           NEW r \in Requests, NEW n \in Nodes, Node!MoveOne(r, n)
    PROVE  /\ NodeTypes' /\ UNCHANGED noderow /\ OthersSame(r)
           /\ IsOpen(r) /\ change[r].op = "move" /\ n \in change[r].left
           /\ ~Node!IsBelow(change[r].obj.key, change[r].objs[n].key)
           /\ \E mark \in Nat :
                /\ MovedKey(r, mark) \notin Node!Keys(Node!View(r))
                /\ \/ /\ Node!HasParent(DraggedNode(r, n, mark), n)
                      /\ NoTwins(MovedAll(r, n, mark))
                      /\ \A m \in MovedBelow(r, n, mark) : Node!HasParent(MovedAll(r, n, mark), m)
                      /\ MovedAll(r, n, mark) \in [Nodes -> ValidRow]
                      /\ UNCHANGED creator /\ SameRequest(r)
                      /\ change'[r].left = change[r].left \ {n}
                      /\ Node!View(r)' = MovedAll(r, n, mark)
                   \/ change'[r].state = "failed"
<1> DEFINE q == change[r]
           old == Node!OldKey(r, n)
           mark == Node!ValidMark(Node!View(r), q.obj)
           obj == [q.obj EXCEPT !.mark = mark + 1]
           saved == [Node!View(r) EXCEPT ![q.at] = obj]
           newkey == Append(obj.key, mark)
           moved == [saved EXCEPT ![n] = [key |-> newkey, mark |-> q.objs[n].mark]]
           below == Node!Descendants(moved, old)
           after == [m \in Nodes |-> IF m \in below
                      THEN [moved[m] EXCEPT !.key = newkey \o SubSeq(@, Len(old) + 1, Len(@))] ELSE moved[m]]
           rows == [m \in {q.at, n} \cup below |-> after[m]]
<1>1. /\ IsOpen(r) /\ q.op = "move" /\ n \in q.left /\ ~Node!IsBelow(q.obj.key, old)
  BY ZenonT(60) DEF Node!MoveOne, IsOpen, Node!IsAncestor
<1>2. /\ q.at \in Nodes /\ q.obj \in ValidRow /\ q.obj # Node!Absent /\ n \in DOMAIN q.objs
      /\ q.objs[n] \in ValidRow /\ q.objs[n] # Node!Absent
      /\ Node!View(r) \in [Nodes -> ValidRow]
  BY <1>1, OpenFields, ViewIsRows
<1>3. mark \in Nat /\ Append(q.obj.key, mark) \notin Node!Keys(Node!View(r))
  BY <1>2, NextKeyIsFree
<1>4. /\ obj.key = q.obj.key /\ obj \in ValidRow \ {Node!Absent} /\ saved = Saved(r, mark)
      /\ newkey = MovedKey(r, mark)
  <2>1. mark + 1 \in Nat
    BY <1>3
  <2>2. obj = [key |-> q.obj.key, mark |-> mark + 1] /\ obj \in ValidRow \ {Node!Absent}
    BY <1>2, <2>1, NextMark
  <2> QED
    BY <2>2 DEF Saved, MovedKey
<1>5. newkey \in Seq(Nat) /\ newkey # << >> /\ q.objs[n].mark \in Nat /\ old \in Seq(Nat)
  BY <1>2, <1>3, <1>4, NodeFields, ChildKey DEF Node!OldKey
<1>6. moved = DraggedNode(r, n, mark) /\ below = MovedBelow(r, n, mark) /\ old = change[r].objs[n].key
  BY <1>4, ZenonT(60) DEF DraggedNode, MovedBelow, Node!OldKey, Node!Descendants
<1>7. \/ /\ Node!HasParent(moved, n) /\ ~Node!Duplicate(after)
         /\ \A m \in below : Node!HasParent(after, m)
         /\ Node!Put(r, rows, obj, q.left \ {n}) /\ UNCHANGED <<noderow, creator>>
      \/ Node!Fail(r)
  BY ZenonT(60) DEF Node!MoveOne
<1> HIDE DEF mark, obj, newkey
<1>8. saved \in [Nodes -> ValidRow]
  BY <1>2, <1>4
<1>9. [key |-> newkey, mark |-> q.objs[n].mark] \in ValidRow
  BY <1>5, RowIs
<1> HIDE DEF saved
<1>10. moved \in [Nodes -> ValidRow]
  BY <1>8, <1>9
<1> HIDE DEF moved
<1>11. below \subseteq Nodes /\ \A m \in below : Node!IsBelow(moved[m].key, old)
  BY DEF Node!Descendants, Node!Below, Node!Present
<1> HIDE DEF below, old
<1>12. ASSUME NEW m \in below
       PROVE  /\ [moved[m] EXCEPT !.key = newkey \o SubSeq(@, Len(old) + 1, Len(@))]
                   = [key |-> Rebase(moved[m].key, old, newkey), mark |-> moved[m].mark]
              /\ [key |-> Rebase(moved[m].key, old, newkey), mark |-> moved[m].mark] \in ValidRow
  <2>1. moved[m] \in ValidRow /\ moved[m].key \in Seq(Nat) /\ moved[m].mark \in Nat
    BY <1>10, <1>11, NodeFields
  <2>2. [moved[m] EXCEPT !.key = newkey \o SubSeq(@, Len(old) + 1, Len(@))]
          = [key |-> Rebase(moved[m].key, old, newkey), mark |-> moved[m].mark]
    BY <2>1, RowWithKey DEF Rebase
  <2>3. /\ Rebase(moved[m].key, old, newkey) \in Seq(Nat) /\ Len(Rebase(moved[m].key, old, newkey)) > 1
    BY <1>5, <1>11, <2>1, RebasedParent
  <2>4. Rebase(moved[m].key, old, newkey) # << >>
    BY <2>3, SMTT(60)
  <2> QED
    BY <2>1, <2>2, <2>3, <2>4, RowIs
<1>13. after = MovedAll(r, n, mark)
  BY <1>4, <1>6, <1>12 DEF MovedAll
<1>14. after \in [Nodes -> ValidRow]
  BY <1>10, <1>12
<1>15. rows \in Partial(ValidRow) /\ DOMAIN rows = {q.at, n} \cup below /\ DOMAIN rows \subseteq Nodes
  <2>1. rows \in [{q.at, n} \cup below -> ValidRow] /\ {q.at, n} \cup below \in SUBSET Nodes
    BY <1>2, <1>11, <1>14
  <2> QED
    BY <2>1 DEF Partial
<1>16. \A m \in Nodes : m \notin {q.at, n} \cup below => after[m] = Node!View(r)[m]
  <2>1. \A m \in Nodes : m \notin {q.at, n} => moved[m] = Node!View(r)[m]
    BY <1>2 DEF moved, saved
  <2> QED
    BY <2>1
<1> HIDE DEF after
<1>17. CASE /\ Node!HasParent(moved, n) /\ ~Node!Duplicate(after)
            /\ \A m \in below : Node!HasParent(after, m)
            /\ Node!Put(r, rows, obj, q.left \ {n}) /\ UNCHANGED <<noderow, creator>>
  <2> HIDE DEF rows
  <2>1. PICK rows0 \in Partial(ValidRow), obj0 \in ValidRow \ {Node!Absent}, rest0 \in SUBSET change[r].left :
          rows0 = rows /\ obj0 = obj /\ rest0 = q.left \ {n}
    BY <1>4, <1>15
  <2>2. Node!Put(r, rows0, obj0, rest0)
    BY <1>17, <2>1
  <2>3. /\ NodeTypes' /\ OthersSame(r) /\ SameRequest(r)
        /\ change'[r].left = q.left \ {n} /\ change'[r].written = Node!Writes(r, rows)
    <3>1. /\ NodeTypes' /\ \A u \in Requests \ {r} : change'[u] = change[u]
          /\ IsOpen(r)' /\ change'[r].op = change[r].op /\ change'[r].at = change[r].at
          /\ change'[r].new = change[r].new /\ change'[r].objs = change[r].objs
          /\ change'[r].obj = obj0 /\ change'[r].left = rest0
          /\ change'[r].written = Node!Writes(r, rows0)
      BY <1>1, <1>17, <2>2, PutMeans
    <3> QED
      BY <1>1, <1>4, <2>1, <3>1 DEF OthersSame, SameRequest
  <2>4. \A m \in Nodes : Node!View(r)'[m] = IF m \in DOMAIN rows THEN rows[m] ELSE Node!View(r)[m]
    BY <1>15, <1>17, <2>3, ViewAfterPut
  <2>5. Node!View(r)' = after
    <3>1. \A m \in Nodes : Node!View(r)'[m] = after[m]
      BY <1>15, <1>16, <2>4 DEF rows
    <3>2. Node!View(r)' = [m \in Nodes |-> Node!View(r)'[m]]
      BY DEF Node!View
    <3> QED
      BY <1>14, <3>1, <3>2
  <2>6. NoTwins(after)
    BY <1>17, DuplicateMeans
  <2>7. MovedKey(r, mark) \notin Node!Keys(Node!View(r))
    BY <1>3 DEF MovedKey
  <2>8. /\ Node!HasParent(DraggedNode(r, n, mark), n) /\ NoTwins(MovedAll(r, n, mark))
        /\ \A m \in MovedBelow(r, n, mark) : Node!HasParent(MovedAll(r, n, mark), m)
        /\ MovedAll(r, n, mark) \in [Nodes -> ValidRow] /\ Node!View(r)' = MovedAll(r, n, mark)
    BY <1>6, <1>13, <1>14, <1>17, <2>5, <2>6
  <2> QED
    BY <1>1, <1>3, <1>6, <1>17, <2>3, <2>7, <2>8
<1>18. CASE Node!Fail(r)
  <2>1. /\ NodeTypes' /\ UNCHANGED noderow /\ change'[r].state = "failed" /\ OthersSame(r)
    BY <1>1, <1>18, FailMeans DEF OthersSame
  <2>2. MovedKey(r, mark) \notin Node!Keys(Node!View(r))
    BY <1>3 DEF MovedKey
  <2> QED
    BY <1>1, <1>3, <1>6, <2>1, <2>2
<1> QED
  BY <1>7, <1>17, <1>18, SMTT(60)

LEMMA DeleteMeans ==
    ASSUME IsFiniteSet(Nodes), NodeTypes, NEW r \in Requests, Node!Delete(r)
    PROVE  /\ NodeTypes' /\ UNCHANGED <<noderow, creator>> /\ OthersSame(r) /\ SameRequest(r)
           /\ change[r].op = "delete" /\ change[r].left # {} /\ change'[r].left = {}
           /\ \A m \in Nodes :
                Node!View(r)'[m] = IF m \in Gone(r) THEN Node!Absent ELSE Node!View(r)[m]
<1> DEFINE q == change[r]
           rows == [n \in Gone(r) |-> Node!Absent]
<1>1. /\ IsOpen(r) /\ q.op = "delete" /\ q.left # {} /\ UNCHANGED <<noderow, creator>>
      /\ Node!Put(r, rows, q.obj, {})
  BY DEF Node!Delete, IsOpen, Gone, Node!Descendants
<1>2. q.at \in Nodes /\ q.obj \in ValidRow \ {Node!Absent}
  BY <1>1, OpenFields
<1>3. Gone(r) \subseteq Nodes
  BY <1>2 DEF Gone, Node!Below, Node!Present
<1>4. rows \in Partial(ValidRow) /\ DOMAIN rows = Gone(r) /\ \A m \in Gone(r) : rows[m] = Node!Absent
  <2>1. rows \in [Gone(r) -> ValidRow] /\ Gone(r) \in SUBSET Nodes
    BY <1>3, AbsentIsRow
  <2> QED
    BY <2>1 DEF Partial
<1> HIDE DEF rows
<1>5. PICK rows0 \in Partial(ValidRow), obj0 \in ValidRow \ {Node!Absent} : rows0 = rows /\ obj0 = q.obj
  BY <1>2, <1>4, Zenon
<1>6. {} \in SUBSET change[r].left /\ Node!Put(r, rows0, obj0, {})
  BY <1>1, <1>5
<1>7. /\ NodeTypes' /\ OthersSame(r) /\ SameRequest(r)
      /\ change'[r].left = {} /\ change'[r].written = Node!Writes(r, rows)
  <2>1. /\ NodeTypes' /\ \A u \in Requests \ {r} : change'[u] = change[u]
        /\ IsOpen(r)' /\ change'[r].op = change[r].op /\ change'[r].at = change[r].at
        /\ change'[r].new = change[r].new /\ change'[r].objs = change[r].objs
        /\ change'[r].obj = obj0 /\ change'[r].left = {}
        /\ change'[r].written = Node!Writes(r, rows0)
    BY <1>1, <1>6, PutMeans
  <2> QED
    BY <1>1, <1>5, <2>1 DEF OthersSame, SameRequest
<1>8. \A m \in Nodes : Node!View(r)'[m] = IF m \in DOMAIN rows THEN rows[m] ELSE Node!View(r)[m]
  BY <1>1, <1>3, <1>4, <1>7, ViewAfterPut
<1> QED
  BY <1>1, <1>4, <1>7, <1>8

LEMMA LockMeans ==
    ASSUME NodeTypes, NEW r \in Requests, Node!Lock(r)
    PROVE  /\ NodeTypes' /\ UNCHANGED <<noderow, change>> /\ creator = None /\ creator' = r
           /\ IsOpen(r) /\ change[r].op = "create"
  BY DEF Node!Lock, NodeTypes, IsOpen, NoTwins, Node!Present

LEMMA RefuseMeans ==
    ASSUME NodeTypes, NEW r \in Requests, NEW n \in Nodes, Node!RefuseAncestor(r, n)
    PROVE  /\ NodeTypes' /\ UNCHANGED <<noderow, creator>> /\ OthersSame(r) /\ SameRequest(r)
           /\ change[r].op = "move" /\ change'[r].left = {}
           /\ change'[r].written = change[r].written /\ Node!View(r)' = Node!View(r)
<1> DEFINE q0 == [change[r] EXCEPT !.left = {}]
<1>1. /\ IsOpen(r) /\ change[r].op = "move" /\ UNCHANGED <<noderow, creator>>
      /\ change' = [change EXCEPT ![r].left = {}]
  BY DEF Node!RefuseAncestor, IsOpen
<1>2. change[r] \in OpenRequest
  BY <1>1 DEF NodeTypes
<1>3. /\ q0 \in OpenRequest /\ q0.state = "open" /\ q0.op = change[r].op /\ q0.at = change[r].at
      /\ q0.new = change[r].new /\ q0.objs = change[r].objs /\ q0.obj = change[r].obj
      /\ q0.left = {} /\ q0.written = change[r].written
  BY <1>2 DEF OpenRequest
<1>4. change'[r] = q0 /\ DOMAIN change' = Requests /\ \A q \in Requests \ {r} : change'[q] = change[q]
  BY <1>1 DEF NodeTypes
<1> HIDE DEF q0
<1>5. NodeTypes'
  BY <1>1, <1>3, <1>4, ZenonT(60) DEF NodeTypes, IsOpen, NoTwins, Node!Present
<1>6. OthersSame(r) /\ SameRequest(r)
  BY <1>1, <1>3, <1>4 DEF OthersSame, SameRequest, IsOpen
<1>7. Node!View(r)' = Node!View(r)
  BY <1>1, <1>3, <1>4 DEF Node!View
<1> QED
  BY <1>1, <1>3, <1>4, <1>5, <1>6, <1>7

\* A request that has just begun.
Begun(r) ==
    /\ IsOpen(r)' /\ change'[r].op \in Ops /\ change'[r].at \in Nodes
    /\ noderow[change'[r].at] # Node!Absent /\ change'[r].obj = noderow[change'[r].at]
    /\ DOMAIN change'[r].objs = change'[r].left /\ DOMAIN change'[r].written = {}
    /\ \A n \in change'[r].left : n \in Node!Present(noderow) /\ change'[r].objs[n] = noderow[n]
    /\ change'[r].op \in Creations =>
         /\ change'[r].left = {} /\ noderow[change'[r].new] = Node!Absent
         /\ \A q \in Requests : IsOpen(q) => change[q].new # change'[r].new
    /\ change'[r].op \notin Creations => change'[r].left # {}
    /\ change'[r].op = "move" => Cardinality(change'[r].left) <= MaxSelect
    /\ change'[r].op = "delete" => change'[r].left = {change'[r].at}

LEMMA ArriveMeans ==
    ASSUME None \notin Nodes, NodeTypes, NEW r \in Requests, Node!Arrive(r)
    PROVE  /\ NodeTypes' /\ UNCHANGED <<noderow, creator>> /\ OthersSame(r) /\ ~IsOpen(r) /\ Begun(r)
           /\ Cardinality({q \in Requests : IsOpen(q)}) < MaxActive
<1>1. {q \in Requests : IsOpen(q)} = Node!Kept
  BY DEF IsOpen, Node!Kept
<1>2. ASSUME NEW op \in Creations, op \in Ops, NEW at \in Nodes, NEW new \in Nodes,
             Node!BeginCreate(r, op, at, new)
      PROVE  /\ NodeTypes' /\ UNCHANGED <<noderow, creator>> /\ OthersSame(r) /\ ~IsOpen(r) /\ Begun(r)
             /\ Node!Cardinality(Node!Kept) < MaxActive
  <2>1. /\ Node!Begin(r, op, at, {}, new) /\ noderow[new] = Node!Absent
        /\ \A q \in Node!Kept : change[q].new # new
    BY <1>2 DEF Node!BeginCreate
  <2>2. {} \in SUBSET Node!Present(noderow) /\ op \in Creations \cup {"move", "delete"}
        /\ new \in Nodes \cup {None} /\ (new \in Nodes <=> op \in Creations)
        /\ op # "move" /\ op # "delete"
    BY <1>2 DEF Creations
  <2>3. /\ NodeTypes' /\ UNCHANGED <<noderow, creator>> /\ ~IsOpen(r) /\ noderow[at] # Node!Absent
        /\ change'[r] = [state |-> "open", op |-> op, at |-> at, obj |-> noderow[at], left |-> {},
                         objs |-> [n \in {} |-> noderow[n]], new |-> new,
                         written |-> [n \in {} |-> Node!Absent]]
        /\ \A q \in Requests \ {r} : change'[q] = change[q]
    BY <2>1, <2>2, BeginMeans
  <2>4. Node!Cardinality(Node!Kept) < MaxActive
    BY <2>1 DEF Node!Begin
  <2> QED
    BY <1>1, <1>2, <2>1, <2>2, <2>3, <2>4 DEF Begun, OthersSame, IsOpen
<1>3. ASSUME "move" \in Ops, NEW at \in Nodes, NEW ns \in SUBSET (Node!Present(noderow) \ {Root}),
             ns # {}, Node!Cardinality(ns) <= MaxSelect, Node!Begin(r, "move", at, ns, None)
      PROVE  /\ NodeTypes' /\ UNCHANGED <<noderow, creator>> /\ OthersSame(r) /\ ~IsOpen(r) /\ Begun(r)
             /\ Node!Cardinality(Node!Kept) < MaxActive
  <2>1. ns \in SUBSET Node!Present(noderow) /\ "move" \in Creations \cup {"move", "delete"}
        /\ None \in Nodes \cup {None} /\ (None \in Nodes <=> "move" \in Creations)
    BY DEF Creations
  <2>2. /\ NodeTypes' /\ UNCHANGED <<noderow, creator>> /\ ~IsOpen(r) /\ noderow[at] # Node!Absent
        /\ change'[r] = [state |-> "open", op |-> "move", at |-> at, obj |-> noderow[at], left |-> ns,
                         objs |-> [n \in ns |-> noderow[n]], new |-> None,
                         written |-> [n \in {} |-> Node!Absent]]
        /\ \A q \in Requests \ {r} : change'[q] = change[q]
    BY <1>3, <2>1, BeginMeans
  <2>3. Node!Cardinality(Node!Kept) < MaxActive /\ "move" \notin Creations
    BY <1>3 DEF Node!Begin, Creations
  <2>4. Cardinality(ns) <= MaxSelect
    BY <1>3, NodeSizes
  <2> QED
    BY <1>3, <2>2, <2>3, <2>4 DEF Begun, OthersSame, IsOpen
<1>4. ASSUME "delete" \in Ops, NEW at \in Nodes, Node!Begin(r, "delete", at, {at}, None)
      PROVE  /\ NodeTypes' /\ UNCHANGED <<noderow, creator>> /\ OthersSame(r) /\ ~IsOpen(r) /\ Begun(r)
             /\ Node!Cardinality(Node!Kept) < MaxActive
  <2>1. Node!Cardinality(Node!Kept) < MaxActive /\ "delete" \notin Creations /\ noderow[at] # Node!Absent
    BY <1>4 DEF Node!Begin, Creations
  <2>2. {at} \in SUBSET Node!Present(noderow) /\ "delete" \in Creations \cup {"move", "delete"}
        /\ None \in Nodes \cup {None} /\ (None \in Nodes <=> "delete" \in Creations)
    BY <2>1 DEF Node!Present
  <2>3. /\ NodeTypes' /\ UNCHANGED <<noderow, creator>> /\ ~IsOpen(r) /\ noderow[at] # Node!Absent
        /\ change'[r] = [state |-> "open", op |-> "delete", at |-> at, obj |-> noderow[at], left |-> {at},
                         objs |-> [n \in {at} |-> noderow[n]], new |-> None,
                         written |-> [n \in {} |-> Node!Absent]]
        /\ \A q \in Requests \ {r} : change'[q] = change[q]
    BY <1>4, <2>2, BeginMeans
  <2> QED
    BY <1>4, <2>1, <2>2, <2>3 DEF Begun, OthersSame, IsOpen
<1>5. Node!Cardinality(Node!Kept) = Cardinality({q \in Requests : IsOpen(q)})
  BY <1>1, NodeSizes
<1> QED
  BY <1>2, <1>3, <1>4, <1>5 DEF Node!Arrive, Creations

LEMMA NodeTypesBegin ==
    ASSUME Node!TreeAssumption
    PROVE  Node!Init => NodeTypes
<1> SUFFICES ASSUME Node!Init PROVE NodeTypes
  OBVIOUS
<1> DEFINE D == DOMAIN InitialKey
           count(n) == Node!Cardinality({m \in D : Len(InitialKey[m]) > 1
                                                   /\ Node!Front(InitialKey[m]) = InitialKey[n]})
<1>1. /\ IsFiniteSet(Nodes) /\ D \subseteq Nodes /\ None \notin Requests
      /\ InitialKey \in [D -> Seq(Nat) \ {<< >>}]
      /\ \A n, m \in D : InitialKey[n] = InitialKey[m] => n = m
  BY NodeSizes DEF Node!TreeAssumption
<1>2. \A n \in D : count(n) + 1 \in Nat
  <2> TAKE n \in D
  <2> DEFINE S == {m \in D : Len(InitialKey[m]) > 1 /\ Node!Front(InitialKey[m]) = InitialKey[n]}
  <2>1. IsFiniteSet(S)
    BY <1>1, FS_Subset
  <2>2. Cardinality(S) \in Nat
    BY <2>1, FS_CardinalityType
  <2>3. count(n) = Cardinality(S)
    BY NodeSizes
  <2> HIDE DEF count, S
  <2> QED
    BY <2>2, <2>3
<1>3. noderow = [n \in Nodes |-> IF n \in D THEN [key |-> InitialKey[n], mark |-> count(n) + 1]
                                           ELSE Node!Absent]
  BY DEF Node!Init
<1> HIDE DEF count
<1>4. \A n \in D : /\ [key |-> InitialKey[n], mark |-> count(n) + 1] \in ValidRow
                   /\ [key |-> InitialKey[n], mark |-> count(n) + 1] # Node!Absent
  BY <1>1, <1>2, RowIs
<1>5. noderow \in [Nodes -> ValidRow]
  BY <1>3, <1>4, AbsentIsRow
<1>6. \A n \in Node!Present(noderow) : n \in D /\ noderow[n].key = InitialKey[n]
  BY <1>3 DEF Node!Present
<1>7. NoTwins(noderow)
  BY <1>1, <1>6 DEF NoTwins
<1>8. DOMAIN change = Requests /\ creator = None /\ \A r \in Requests : ~IsOpen(r)
  BY DEF Node!Init, Node!New, IsOpen
<1> QED
  BY <1>5, <1>7, <1>8 DEF NodeTypes

LEMMA NodeTypesStep ==
    ASSUME Node!TreeAssumption, NodeTypes, [Node!Next]_(Node!vars)
    PROVE  NodeTypes'
<1>1. IsFiniteSet(Nodes) /\ None \notin Requests /\ None \notin Nodes
  BY NodeSizes DEF Node!TreeAssumption
<1>2. CASE UNCHANGED Node!vars
  BY <1>2 DEF Node!vars, NodeTypes, IsOpen, NoTwins, Node!Present
<1>3. ASSUME NEW r \in Requests,
             \/ Node!Arrive(r) \/ Node!Lock(r) \/ Node!CreateChild(r) \/ Node!Delete(r) \/ Node!Commit(r)
             \/ \E n \in Nodes : Node!MoveOne(r, n) \/ Node!RefuseAncestor(r, n)
      PROVE  NodeTypes'
  BY <1>1, <1>3, ArriveMeans, LockMeans, CreateMeans, DeleteMeans, CommitMeans, MoveMeans, RefuseMeans,
     Zenon
<1> QED
  BY <1>2, <1>3 DEF Node!Next

\* Keys are paths, no two nodes have one, and the lock is of a creation that is under way, for
\* any nodes, requests and operations (Node.save, NodeAddChildrenApi, NodeChildrenApi).
THEOREM NodesHaveKeys ==
    ASSUME Node!TreeAssumption
    PROVE  Node!Spec => []Node!TypeOK
<1>1. NodeTypes => Node!TypeOK
  <2> SUFFICES ASSUME NodeTypes PROVE Node!TypeOK
    OBVIOUS
  <2>1. \A n \in Nodes : /\ noderow[n] \in Node!Rows
                         /\ (noderow[n] = Node!Absent) = (noderow[n].key = << >>)
    BY DEF NodeTypes, ValidRow
  <2>2. ~Node!Duplicate(noderow)
    BY DuplicateMeans, NodeSizes DEF NodeTypes, Node!TreeAssumption
  <2> QED
    BY <2>1, <2>2 DEF NodeTypes, Node!TypeOK, Node!Kept, IsOpen
<1> QED
  BY <1>1, NodeTypesBegin, NodeTypesStep, PTL DEF Node!Spec

-----------------------------------------------------------------------------
(* Trees: what a creation, a deletion and a move make of a whole one. *)

Rooted(view) == \A n \in Node!Present(view) : Node!HasParent(view, n)

LEMMA PresentMeans ==
    ASSUME NEW view \in [Nodes -> ValidRow], NEW n \in Nodes
    PROVE  /\ n \in Node!Present(view) <=> view[n].key # << >>
           /\ view[n].key \in Seq(Nat)
  BY DEF Node!Present, ValidRow, Node!Absent, Node!Rows

\* A node below another has its parent, and no other node is that parent.
LEMMA HasParentMeans ==
    ASSUME NEW view, NEW n
    PROVE  Node!HasParent(view, n) <=>
             Len(view[n].key) = 1 \/ \E p \in Node!Present(view) : view[p].key = Node!Front(view[n].key)
  BY DEF Node!HasParent, Node!Keys

LEMMA ParentIs ==
    ASSUME NEW view, NoTwins(view), NEW n, NEW p \in Node!Present(view), Len(view[n].key) > 1,
           view[p].key = Node!Front(view[n].key)
    PROVE  Node!ParentOf(view, n) = {p}
  BY DEF NoTwins, Node!ParentOf

LEMMA NoParent ==
    ASSUME NEW view, NEW n, ~(Len(view[n].key) > 1)
    PROVE  Node!ParentOf(view, n) = {}
  BY DEF Node!ParentOf

LEMMA KeySizes ==
    ASSUME NEW k \in Seq(Nat), k # << >>
    PROVE  Len(k) \in Nat \ {0} /\ (Len(k) > 1 <=> Len(k) # 1)
<1> DEFINE l == Len(k)
<1>1. l \in Nat /\ l # 0
  OBVIOUS
<1> HIDE DEF l
<1>2. l \in Nat \ {0} /\ (l > 1 <=> l # 1)
  BY <1>1
<1> QED
  BY <1>2 DEF l

LEMMA GrownTree ==
    ASSUME NEW view \in [Nodes -> ValidRow], NoTwins(view), Rooted(view),
           NEW at \in Node!Present(view), NEW new \in Nodes, view[new] = Node!Absent, NEW mark \in Nat,
           Append(view[at].key, mark) \notin Node!Keys(view),
           NEW grown \in [Nodes -> ValidRow], grown[new].key = Append(view[at].key, mark),
           \A n \in Nodes \ {new} : grown[n].key = view[n].key
    PROVE  /\ NoTwins(grown) /\ Rooted(grown)
           /\ \A n \in Node!Present(view) : Node!ParentOf(grown, n) = Node!ParentOf(view, n)
<1>1. at \in Nodes /\ view[at].key \in Seq(Nat) /\ view[at].key # << >> /\ at # new
  BY PresentMeans DEF Node!Present
<1> DEFINE k == Append(view[at].key, mark)
<1>2. k \in Seq(Nat) /\ k # << >> /\ Node!Front(k) = view[at].key
  BY <1>1, ChildKey
<1> HIDE DEF k
<1>3. new \notin Node!Present(view) /\ grown[new].key = k
  BY DEF Node!Present, k
<1>4. Node!Present(grown) = Node!Present(view) \cup {new}
  <2> SUFFICES ASSUME NEW n \in Nodes PROVE n \in Node!Present(grown) <=> n \in Node!Present(view) \cup {new}
    BY DEF Node!Present
  <2> QED
    BY <1>2, <1>3, PresentMeans
<1>5. \A n \in Node!Present(view) : /\ n \in Nodes /\ n # new /\ grown[n].key = view[n].key
                                    /\ view[n].key # k /\ n \in Node!Present(grown)
  BY <1>3, <1>4 DEF Node!Present, Node!Keys, k
<1>6. NoTwins(grown)
  BY <1>3, <1>4, <1>5 DEF NoTwins
<1>7. Rooted(grown)
  <2> SUFFICES ASSUME NEW n \in Node!Present(grown) PROVE Node!HasParent(grown, n)
    BY DEF Rooted
  <2>1. CASE n = new
    BY <1>2, <1>3, <1>5, <2>1, HasParentMeans
  <2>2. CASE n # new
    <3>1. n \in Node!Present(view) /\ Node!HasParent(view, n)
      BY <1>4, <2>2 DEF Rooted
    <3> QED
      BY <1>5, <3>1, HasParentMeans
  <2> QED
    BY <2>1, <2>2
<1>8. ASSUME NEW n \in Node!Present(view) PROVE Node!ParentOf(grown, n) = Node!ParentOf(view, n)
  <2>1. grown[n].key = view[n].key
    BY <1>5
  <2>2. CASE Len(view[n].key) > 1
    <3>1. PICK p \in Node!Present(view) : view[p].key = Node!Front(view[n].key)
      <4>1. Len(view[n].key) # 1
        BY <2>2, PresentMeans, KeySizes DEF Node!Present
      <4> QED
        BY <4>1, HasParentMeans DEF Rooted
    <3>2. p \in Node!Present(grown) /\ grown[p].key = view[p].key
      BY <1>5
    <3>3. Node!ParentOf(view, n) = {p}
      BY <2>2, <3>1, ParentIs
    <3>4. Node!ParentOf(grown, n) = {p}
      BY <1>6, <2>1, <2>2, <3>1, <3>2, ParentIs
    <3> QED
      BY <3>3, <3>4
  <2>3. CASE ~(Len(view[n].key) > 1)
    BY <2>1, <2>3, NoParent
  <2> QED
    BY <2>2, <2>3
<1> QED
  BY <1>6, <1>7, <1>8

LEMMA CutTree ==
    ASSUME NEW view \in [Nodes -> ValidRow], NoTwins(view), Rooted(view), NEW at \in Node!Present(view),
           NEW cut \in [Nodes -> ValidRow],
           \A n \in Nodes : cut[n] = IF n \in Node!Below(view, view[at].key) \cup {at}
                                     THEN Node!Absent ELSE view[n]
    PROVE  /\ Rooted(cut)
           /\ \A n \in Node!Present(cut) : Node!ParentOf(cut, n) = Node!ParentOf(view, n)
<1> DEFINE a == view[at].key
<1>1. at \in Nodes /\ a \in Seq(Nat) /\ a # << >>
  BY PresentMeans DEF Node!Present
<1>2. \A n \in Nodes : n \in Node!Present(cut) <=>
        n \in Node!Present(view) /\ n # at /\ ~Node!IsBelow(view[n].key, a)
  BY DEF Node!Present, Node!Below
<1>3. Node!Present(cut) \subseteq Nodes /\ Node!Present(view) \subseteq Nodes
  BY DEF Node!Present
<1>4. \A n \in Node!Present(cut) : cut[n] = view[n] /\ n \in Node!Present(view)
  BY <1>2, <1>3 DEF Node!Present
<1>5. NoTwins(cut)
  BY <1>4 DEF NoTwins
<1> HIDE DEF a
<1>6. ASSUME NEW n \in Node!Present(cut), Len(view[n].key) # 1
      PROVE  \E p \in Node!Present(cut) : p \in Node!Present(view) /\ view[p].key = Node!Front(view[n].key)
  <2>1. PICK p \in Node!Present(view) : view[p].key = Node!Front(view[n].key)
    BY <1>4, <1>6, HasParentMeans DEF Rooted
  <2>2. view[n].key \in Seq(Nat) /\ view[n].key # << >>
    BY <1>3, <1>4, PresentMeans
  <2>3. ~Node!IsBelow(view[n].key, a)
    BY <1>2, <1>3
  <2>4. view[p].key # a /\ ~Node!IsBelow(view[p].key, a)
    BY <1>1, <2>1, <2>2, <2>3, ParentBelow
  <2>5. p # at
    BY <2>4 DEF a
  <2> QED
    BY <1>2, <1>3, <2>1, <2>4, <2>5
<1>7. Rooted(cut)
  BY <1>4, <1>6, HasParentMeans DEF Rooted
<1>8. ASSUME NEW n \in Node!Present(cut) PROVE Node!ParentOf(cut, n) = Node!ParentOf(view, n)
  <2>1. cut[n] = view[n]
    BY <1>4
  <2>2. CASE Len(view[n].key) > 1
    <3>1. PICK p \in Node!Present(cut) : p \in Node!Present(view) /\ view[p].key = Node!Front(view[n].key)
      <4>1. Len(view[n].key) # 1
        BY <1>4, <2>2, PresentMeans, KeySizes DEF Node!Present
      <4> QED
        BY <1>6, <4>1
    <3>2. cut[p].key = view[p].key
      BY <1>4
    <3>3. Node!ParentOf(view, n) = {p}
      BY <2>2, <3>1, ParentIs
    <3>4. Node!ParentOf(cut, n) = {p}
      BY <1>5, <2>1, <2>2, <3>1, <3>2, ParentIs
    <3> QED
      BY <3>3, <3>4
  <2>3. CASE ~(Len(view[n].key) > 1)
    BY <2>1, <2>3, NoParent
  <2> QED
    BY <2>2, <2>3
<1> QED
  BY <1>7, <1>8

\* In a view n has moved to the next key below at: one when n is saved, all when those below it are.
IsMove(view, at, n, mark, newkey, one, all) ==
    /\ view \in [Nodes -> ValidRow] /\ NoTwins(view) /\ Rooted(view)
    /\ at \in Node!Present(view) /\ n \in Node!Present(view)
    /\ ~Node!IsBelow(view[at].key, view[n].key)
    /\ mark \in Nat /\ newkey = Append(view[at].key, mark) /\ newkey \notin Node!Keys(view)
    /\ one \in [Nodes -> ValidRow] /\ all \in [Nodes -> ValidRow]
    /\ \A m \in Nodes : one[m].key = IF m = n THEN newkey ELSE view[m].key
    /\ Node!HasParent(one, n) /\ NoTwins(all)
    /\ \A m \in Nodes : all[m].key = IF m \in Node!Below(one, view[n].key)
                                     THEN Rebase(one[m].key, view[n].key, newkey) ELSE one[m].key
    /\ \A m \in Node!Below(one, view[n].key) : Node!HasParent(all, m)

LEMMA MovedTree ==
    ASSUME NEW view, NEW at, NEW n, NEW mark, NEW newkey, NEW one, NEW all,
           IsMove(view, at, n, mark, newkey, one, all)
    PROVE  /\ Rooted(all)
           /\ \A m \in Node!Present(view) \ {n} : Node!ParentOf(all, m) = Node!ParentOf(view, m)
<1> SUFFICES ASSUME view \in [Nodes -> ValidRow], NoTwins(view), Rooted(view),
                    at \in Node!Present(view), n \in Node!Present(view),
                    ~Node!IsBelow(view[at].key, view[n].key),
                    mark \in Nat, newkey = Append(view[at].key, mark), newkey \notin Node!Keys(view),
                    one \in [Nodes -> ValidRow], all \in [Nodes -> ValidRow],
                    \A m \in Nodes : one[m].key = IF m = n THEN newkey ELSE view[m].key,
                    Node!HasParent(one, n), NoTwins(all),
                    \A m \in Nodes : all[m].key = IF m \in Node!Below(one, view[n].key)
                                                  THEN Rebase(one[m].key, view[n].key, newkey)
                                                  ELSE one[m].key,
                    \A m \in Node!Below(one, view[n].key) : Node!HasParent(all, m)
             PROVE  /\ Rooted(all)
                    /\ \A m \in Node!Present(view) \ {n} : Node!ParentOf(all, m) = Node!ParentOf(view, m)
  BY Zenon DEF IsMove
<1> DEFINE a == view[at].key
           old == view[n].key
           below == Node!Below(one, old)
<1>1. /\ at \in Nodes /\ a \in Seq(Nat) /\ a # << >> /\ n \in Nodes /\ old \in Seq(Nat) /\ old # << >>
      /\ ~Node!IsBelow(a, old)
  BY PresentMeans DEF Node!Present
<1>2. /\ newkey \in Seq(Nat) /\ newkey # << >> /\ Node!Front(newkey) = a /\ Len(newkey) = Len(a) + 1 /\ newkey # a
      /\ Len(newkey) # 1
  <2>1. /\ newkey \in Seq(Nat) /\ newkey # << >> /\ Node!Front(newkey) = a /\ Len(newkey) = Len(a) + 1
    BY <1>1, ChildKey
  <2>2. Len(a) \in Nat \ {0}
    BY <1>1, KeySizes
  <2> QED
    BY <2>1, <2>2
<1>3. Node!Present(one) = Node!Present(view)
  <2> SUFFICES ASSUME NEW m \in Nodes PROVE m \in Node!Present(one) <=> m \in Node!Present(view)
    BY DEF Node!Present
  <2> QED
    BY <1>2, PresentMeans, ZenonT(60)
<1>4. \A m \in Node!Present(view) : m \in Nodes /\ view[m].key \in Seq(Nat) /\ view[m].key # << >>
  BY PresentMeans DEF Node!Present
<1>5. at # n
  <2> SUFFICES ASSUME at = n PROVE FALSE
    OBVIOUS
  <2>1. PICK p \in Node!Present(one) : one[p].key = a
    BY <1>1, <1>2, HasParentMeans
  <2>2. p \in Node!Present(view) /\ p # n /\ view[p].key = a
    BY <1>2, <1>3, <1>4, <2>1
  <2> QED
    BY <2>2 DEF NoTwins
<1>6. a # old
  BY <1>5 DEF NoTwins
<1>7. ~Node!IsBelow(newkey, old)
  BY <1>1, <1>2, <1>6, ParentBelow, ZenonT(60)
<1>8. /\ below \subseteq Node!Present(view) /\ n \notin below /\ at \notin below
      /\ \A m \in Node!Present(view) \ {n} : m \in below <=> Node!IsBelow(view[m].key, old)
  <2>1. \A m \in Node!Present(view) : m \in below <=> Node!IsBelow(one[m].key, old)
    BY <1>3 DEF Node!Below
  <2>2. below \subseteq Node!Present(view)
    BY <1>3 DEF Node!Below
  <2>3. \A m \in Node!Present(view) \ {n} : one[m].key = view[m].key
    BY <1>4
  <2>4. one[n].key = newkey
    BY <1>1
  <2> HIDE DEF below
  <2> QED
    BY <1>1, <1>5, <1>7, <2>1, <2>2, <2>3, <2>4
<1>9. /\ all[n].key = newkey
      /\ \A m \in below : all[m].key = Rebase(view[m].key, old, newkey)
      /\ \A m \in Node!Present(view) \ {n} : m \notin below => all[m].key = view[m].key
  BY <1>1, <1>4, <1>8
<1>10. ASSUME NEW m \in below
       PROVE  /\ Len(all[m].key) > 1 /\ all[m].key # << >>
              /\ Node!Front(all[m].key) = IF Node!Front(view[m].key) = old THEN newkey
                                          ELSE Rebase(Node!Front(view[m].key), old, newkey)
  <2>1. m \in Node!Present(view) \ {n} /\ Node!IsBelow(view[m].key, old) /\ view[m].key \in Seq(Nat)
    BY <1>4, <1>8
  <2>2. /\ Rebase(view[m].key, old, newkey) \in Seq(Nat) /\ Len(Rebase(view[m].key, old, newkey)) > 1
        /\ Node!Front(Rebase(view[m].key, old, newkey)) =
             IF Node!Front(view[m].key) = old THEN newkey ELSE Rebase(Node!Front(view[m].key), old, newkey)
    <3>1. PICK k \in Seq(Nat), o \in Seq(Nat), new \in Seq(Nat) :
            k = view[m].key /\ o = old /\ new = newkey
      BY <1>1, <1>2, <2>1, Zenon
    <3>2. Node!IsBelow(k, o) /\ new # << >>
      BY <1>2, <2>1, <3>1, Zenon
    <3>3. /\ Rebase(k, o, new) \in Seq(Nat) /\ Len(Rebase(k, o, new)) > 1
          /\ Node!Front(Rebase(k, o, new)) =
               IF Node!Front(k) = o THEN new ELSE Rebase(Node!Front(k), o, new)
      BY <3>2, RebasedParent
    <3> QED
      BY <3>1, <3>3
  <2>3. all[m].key = Rebase(view[m].key, old, newkey)
    BY <1>9
  <2>4. all[m].key # << >>
    BY <2>2, <2>3
  <2> QED
    BY <2>2, <2>3, <2>4
<1> HIDE DEF below, a, old
<1>11. Node!Present(all) = Node!Present(view)
  <2> SUFFICES ASSUME NEW m \in Nodes PROVE m \in Node!Present(all) <=> m \in Node!Present(view)
    BY DEF Node!Present
  <2>1. CASE m \in below
    BY <1>8, <1>10, <2>1, PresentMeans
  <2>2. CASE m = n
    BY <1>2, <1>9, <2>2, PresentMeans
  <2>3. CASE m # n /\ m \notin below
    <3>1. all[m].key = view[m].key
      BY <2>3 DEF below, old
    <3> QED
      BY <3>1, PresentMeans
  <2> QED
    BY <2>1, <2>2, <2>3
\* A node that stays where it is has a parent that does.
<1>12. ASSUME NEW m \in Node!Present(view) \ {n}, m \notin below, NEW p \in Node!Present(view),
              view[p].key = Node!Front(view[m].key)
       PROVE  p # n /\ p \notin below /\ all[p].key = view[p].key
  <2>1. ~Node!IsBelow(view[m].key, old)
    BY <1>8, <1>12
  <2>2. view[p].key # old /\ ~Node!IsBelow(view[p].key, old)
    BY <1>1, <1>4, <1>12, <2>1, ParentBelow
  <2>3. p # n
    BY <2>2 DEF old
  <2> QED
    BY <1>8, <1>9, <2>2, <2>3
<1>13. ASSUME NEW m \in Node!Present(view), Len(view[m].key) # 1
       PROVE  \E p \in Node!Present(view) : view[p].key = Node!Front(view[m].key)
  BY <1>13, HasParentMeans DEF Rooted
<1>14. Rooted(all)
  <2> SUFFICES ASSUME NEW m \in Node!Present(view) PROVE Node!HasParent(all, m)
    BY <1>11 DEF Rooted
  <2>1. CASE m = n
    <3>1. all[at].key = a /\ at \in Node!Present(all)
      BY <1>5, <1>8, <1>9, <1>11 DEF a
    <3> QED
      BY <1>2, <1>9, <2>1, <3>1, HasParentMeans
  <2>2. CASE m \in below
    BY <2>2 DEF below, old
  <2>3. CASE m # n /\ m \notin below
    <3>1. all[m].key = view[m].key
      BY <1>9, <2>3
    <3>2. CASE Len(view[m].key) = 1
      BY <3>1, <3>2, HasParentMeans
    <3>3. CASE Len(view[m].key) # 1
      BY <1>11, <1>12, <1>13, <2>3, <3>1, <3>3, HasParentMeans
    <3> QED
      BY <3>2, <3>3
  <2> QED
    BY <2>1, <2>2, <2>3
<1>15. ASSUME NEW m \in Node!Present(view) \ {n} PROVE Node!ParentOf(all, m) = Node!ParentOf(view, m)
  <2>1. CASE m \in below
    <3>1. Node!IsBelow(view[m].key, old)
      BY <1>8, <2>1
    <3>2. Len(view[m].key) > 1 /\ Len(view[m].key) # 1
      <4>1. Len(old) < Len(view[m].key) /\ Len(old) \in Nat \ {0} /\ Len(view[m].key) \in Nat
        <5>1. view[m].key \in Seq(Nat) /\ old \in Seq(Nat)
          BY <1>1, <1>4
        <5>2. Len(old) < Len(view[m].key)
          BY <3>1, <5>1, IsBelowMeans, Zenon
        <5> QED
          BY <1>1, <5>1, <5>2, KeySizes
      <4> DEFINE l == Len(view[m].key)
                 o == Len(old)
      <4>2. o < l /\ o \in Nat \ {0} /\ l \in Nat
        BY <4>1
      <4> HIDE DEF l, o
      <4>3. l > 1 /\ l # 1
        BY <4>2
      <4> QED
        BY <4>3 DEF l
    <3>3. PICK p \in Node!Present(view) : view[p].key = Node!Front(view[m].key)
      BY <1>13, <3>2
    <3>4. Node!ParentOf(view, m) = {p}
      BY <3>2, <3>3, ParentIs
    <3>5. all[p].key = Node!Front(all[m].key)
      <4>1. CASE view[p].key = old
        <5>1. p = n
          BY <4>1 DEF NoTwins, old
        <5> QED
          BY <1>9, <1>10, <2>1, <3>3, <4>1, <5>1
      <4>2. CASE view[p].key # old
        <5>1. Node!IsBelow(view[p].key, old)
          BY <1>1, <1>4, <3>1, <3>3, <4>2, ParentBelow
        <5>2. p # n
          BY <4>2 DEF old
        <5>3. p \in below
          BY <1>8, <5>1, <5>2
        <5> QED
          BY <1>9, <1>10, <2>1, <3>3, <4>2, <5>3
      <4> QED
        BY <4>1, <4>2
    <3>6. Node!ParentOf(all, m) = {p}
      BY <1>10, <1>11, <2>1, <3>5, ParentIs, ZenonT(60)
    <3> QED
      BY <3>4, <3>6
  <2>2. CASE m \notin below
    <3>1. all[m].key = view[m].key
      BY <1>9, <2>2
    <3>2. CASE Len(view[m].key) > 1
      <4>1. Len(view[m].key) # 1
        BY <1>4, <3>2, KeySizes
      <4>2. PICK p \in Node!Present(view) : view[p].key = Node!Front(view[m].key)
        BY <1>13, <4>1
      <4>3. all[p].key = view[p].key /\ p \in Node!Present(all)
        BY <1>11, <1>12, <2>2, <4>2
      <4>4. Node!ParentOf(view, m) = {p}
        BY <3>2, <4>2, ParentIs
      <4>5. Node!ParentOf(all, m) = {p}
        BY <3>1, <3>2, <4>2, <4>3, ParentIs
      <4> QED
        BY <4>4, <4>5
    <3>3. CASE ~(Len(view[m].key) > 1)
      BY <3>1, <3>3, NoParent
    <3> QED
      BY <3>2, <3>3
  <2> QED
    BY <2>1, <2>2
<1> QED
  BY <1>14, <1>15

-----------------------------------------------------------------------------
(* One request at a time. *)

Solo == \A q, r \in Requests : IsOpen(q) /\ IsOpen(r) => q = r

\* A request that has written nothing, and one that has nothing left to write.
Untouched(r) ==
    /\ DOMAIN change[r].written = {}
    /\ change[r].at \in Node!Present(noderow) /\ change[r].obj = noderow[change[r].at]
    /\ DOMAIN change[r].objs = change[r].left
    /\ \A n \in change[r].left : n \in Node!Present(noderow) /\ change[r].objs[n] = noderow[n]
    /\ change[r].op \in Creations => noderow[change[r].new] = Node!Absent
    /\ change[r].op = "move" => \A n, m \in change[r].left : n = m
Ended(r) ==
    /\ change[r].left = {}
    /\ change[r].op \in Creations => change[r].new \in DOMAIN change[r].written

\* What a request sees is whole, and has the other nodes where they were.
Sound(r) ==
    /\ Rooted(Node!View(r))
    /\ \A n \in Node!Present(noderow) \cap Node!Present(Node!View(r)) :
         \/ change[r].op = "move" /\ n \in DOMAIN change[r].objs
         \/ Node!ParentOf(noderow, n) = Node!ParentOf(Node!View(r), n)

NodeInv ==
    /\ NodeTypes /\ Rooted(noderow) /\ Solo
    /\ \A r \in Requests : IsOpen(r) => (Untouched(r) \/ Ended(r)) /\ Sound(r)

LEMMA UntouchedView ==
    ASSUME NodeTypes, NEW r \in Requests, DOMAIN change[r].written = {}
    PROVE  Node!View(r) = noderow
  BY DEF Node!View, NodeTypes

LEMMA AtMostOne ==
    ASSUME NEW S, IsFiniteSet(S), Cardinality(S) <= 1, NEW x \in S, NEW y \in S
    PROVE  x = y
<1>1. Cardinality(S) \in Nat
  BY FS_CardinalityType
<1>2. Cardinality(S) # 0
  BY FS_EmptySet
<1>3. Cardinality(S) = 1
  BY <1>1, <1>2
<1>4. PICK z : S = {z}
  BY <1>3, FS_Singleton
<1> QED
  BY <1>4

\* A step of the one request that is open leaves the invariant, if it does for that request.
LEMMA NodeInvAfter ==
    ASSUME NodeInv, NodeTypes', UNCHANGED noderow, NEW r \in Requests, IsOpen(r), OthersSame(r),
           IsOpen(r)' => Ended(r)' /\ Sound(r)'
    PROVE  NodeInv'
<1>1. \A q \in Requests : IsOpen(q)' => q = r
  BY DEF NodeInv, Solo, OthersSame, IsOpen
<1>2. Rooted(noderow)'
  BY DEF NodeInv, Rooted, Node!Present, Node!HasParent, Node!Keys
<1>3. Solo'
  BY <1>1 DEF Solo
<1> QED
  BY <1>1, <1>2, <1>3 DEF NodeInv

LEMMA SoundAfter ==
    ASSUME UNCHANGED noderow, NEW r \in Requests, change'[r].op = change[r].op,
           change'[r].objs = change[r].objs, NEW view, Node!View(r)' = view, Rooted(view),
           \A n \in Node!Present(noderow) \cap Node!Present(view) :
             \/ change[r].op = "move" /\ n \in DOMAIN change[r].objs
             \/ Node!ParentOf(noderow, n) = Node!ParentOf(view, n)
    PROVE  Sound(r)'
<1>1. Rooted(Node!View(r))'
  BY DEF Rooted, Node!Present, Node!HasParent, Node!Keys
<1>2. /\ Node!Present(noderow)' = Node!Present(noderow) /\ Node!Present(Node!View(r))' = Node!Present(view)
  BY DEF Node!Present
<1>3. \A n : /\ Node!ParentOf(noderow, n)' = Node!ParentOf(noderow, n)
             /\ Node!ParentOf(Node!View(r), n)' = Node!ParentOf(view, n)
  BY DEF Node!ParentOf, Node!Present
<1> QED
  BY <1>1, <1>2, <1>3 DEF Sound

LEMMA NodeInvBegins ==
    ASSUME Node!TreeAssumption
    PROVE  Node!Init => NodeInv
<1> SUFFICES ASSUME Node!Init PROVE NodeInv
  OBVIOUS
<1> DEFINE D == DOMAIN InitialKey
<1>1. NodeTypes
  BY NodeTypesBegin
<1>2. /\ D \subseteq Nodes /\ InitialKey \in [D -> Seq(Nat) \ {<< >>}]
      /\ \A n \in D : Len(InitialKey[n]) = 1 \/ \E m \in D : InitialKey[m] = Node!Front(InitialKey[n])
  BY DEF Node!TreeAssumption
<1>3. /\ \A n \in D : noderow[n].key = InitialKey[n]
      /\ \A n \in Nodes \ D : noderow[n] = Node!Absent
  BY <1>2 DEF Node!Init
<1>4. \A n \in Nodes : n \in Node!Present(noderow) <=> n \in D
  BY <1>1, <1>2, <1>3, PresentMeans DEF NodeTypes, Node!Absent
<1>5. Rooted(noderow)
  <2> SUFFICES ASSUME NEW n \in Node!Present(noderow) PROVE Node!HasParent(noderow, n)
    BY DEF Rooted
  <2>1. n \in D
    BY <1>4 DEF Node!Present
  <2> QED
    BY <1>2, <1>3, <1>4, <2>1, HasParentMeans
<1>6. \A r \in Requests : ~IsOpen(r)
  BY DEF Node!Init, Node!New, IsOpen
<1> QED
  BY <1>1, <1>5, <1>6 DEF NodeInv, Solo

LEMMA ArriveKeeps ==
    ASSUME Node!TreeAssumption, MaxActive <= 1, MaxSelect <= 1, NodeInv, NEW r \in Requests,
           Node!Arrive(r)
    PROVE  NodeInv'
<1>1. /\ IsFiniteSet(Nodes) /\ IsFiniteSet(Requests) /\ None \notin Nodes
      /\ MaxActive \in Nat /\ MaxSelect \in Nat
  BY NodeSizes DEF Node!TreeAssumption
<1>2. /\ NodeTypes' /\ UNCHANGED noderow /\ OthersSame(r) /\ Begun(r)
      /\ Cardinality({q \in Requests : IsOpen(q)}) < MaxActive
  BY <1>1, ArriveMeans DEF NodeInv
<1>3. \A q \in Requests : ~IsOpen(q)
  <2> DEFINE S == {q \in Requests : IsOpen(q)}
  <2>1. IsFiniteSet(S)
    BY <1>1, FS_Subset
  <2>2. Cardinality(S) \in Nat
    BY <2>1, FS_CardinalityType
  <2>3. Cardinality(S) < MaxActive
    BY <1>2
  <2>4. S = {}
    <3> HIDE DEF S
    <3>1. Cardinality(S) = 0
      BY <1>1, <2>2, <2>3
    <3> QED
      BY <2>1, <3>1, FS_EmptySet
  <2> QED
    BY <2>4
<1>4. \A q \in Requests : IsOpen(q)' => q = r
  BY <1>2, <1>3 DEF OthersSame, IsOpen
<1>5. Node!View(r)' = noderow
  BY <1>2 DEF Begun, Node!View, NodeInv, NodeTypes
<1>6. Sound(r)'
  <2>1. Rooted(Node!View(r))'
    BY <1>5 DEF NodeInv, Rooted, Node!Present, Node!HasParent, Node!Keys
  <2>2. \A n : Node!ParentOf(noderow, n)' = Node!ParentOf(Node!View(r), n)'
    BY <1>2, <1>5 DEF Node!ParentOf, Node!Present
  <2> QED
    BY <2>1, <2>2 DEF Sound
<1>7. Untouched(r)'
  <2>1. \A n \in Nodes : n \in Node!Present(noderow)' <=> n \in Node!Present(noderow)
    BY <1>2 DEF Node!Present
  <2>2. ASSUME change'[r].op = "move", NEW n \in change'[r].left, NEW m \in change'[r].left PROVE n = m
    <3> DEFINE S == change'[r].left
    <3>1. S \subseteq Nodes
      BY <1>2 DEF Begun, Node!Present
    <3>2. IsFiniteSet(S) /\ Cardinality(S) \in Nat
      BY <1>1, <3>1, FS_Subset, FS_CardinalityType
    <3>3. Cardinality(S) <= MaxSelect
      BY <1>2, <2>2 DEF Begun
    <3> HIDE DEF S
    <3>4. Cardinality(S) <= 1
      BY <1>1, <3>2, <3>3
    <3> QED
      BY <2>2, <3>2, <3>4, AtMostOne DEF S
  <2>3. \A n \in Node!Present(noderow) : n \in Nodes
    BY DEF Node!Present
  <2>4. change'[r].at \in Node!Present(noderow)
    BY <1>2 DEF Begun, Node!Present
  <2> QED
    BY <1>2, <2>1, <2>2, <2>3, <2>4 DEF Untouched, Begun
<1>8. Rooted(noderow)'
  BY <1>2 DEF NodeInv, Rooted, Node!Present, Node!HasParent, Node!Keys
<1>9. Solo'
  BY <1>4 DEF Solo
<1> QED
  BY <1>2, <1>4, <1>6, <1>7, <1>8, <1>9 DEF NodeInv

LEMMA CreateKeepsTree ==
    ASSUME Node!TreeAssumption, NodeInv, NEW r \in Requests, Node!CreateChild(r)
    PROVE  NodeInv'
<1>1. IsFiniteSet(Nodes) /\ None \notin Requests /\ None \notin Nodes /\ NodeTypes
  BY NodeSizes DEF Node!TreeAssumption, NodeInv
<1>2. /\ NodeTypes' /\ UNCHANGED noderow /\ OthersSame(r)
      /\ IsOpen(r) /\ change[r].op \in Creations /\ change[r].new \notin DOMAIN change[r].written
  BY <1>1, CreateMeans
<1>3. PICK mark \in Nat :
        /\ MovedKey(r, mark) \notin Node!Keys(Node!View(r))
        /\ Created(r, mark) \in [Nodes -> ValidRow]
        /\ \/ /\ Node!HasParent(Created(r, mark), change[r].at)
              /\ UNCHANGED creator /\ SameRequest(r)
              /\ change'[r].left = {} /\ Node!View(r)' = Created(r, mark)
              /\ DOMAIN change'[r].written =
                   DOMAIN change[r].written \cup {change[r].at, change[r].new}
           \/ /\ ~Node!HasParent(Created(r, mark), change[r].at)
              /\ change'[r].state = "failed"
  BY <1>1, CreateMeans
<1>4. Untouched(r) /\ Node!View(r) = noderow
  BY <1>1, <1>2, UntouchedView DEF NodeInv, Ended, Untouched
<1>5. /\ change[r].at \in Node!Present(noderow) /\ change[r].obj = noderow[change[r].at]
      /\ change[r].new \in Nodes /\ noderow[change[r].new] = Node!Absent
      /\ change[r].obj \in ValidRow /\ change[r].obj # Node!Absent
  BY <1>1, <1>2, <1>4, OpenFields, SMTT(60) DEF Untouched
<1> DEFINE grown == Created(r, mark)
<1>6. /\ grown[change[r].new].key = Append(noderow[change[r].at].key, mark)
      /\ \A n \in Nodes \ {change[r].new} : grown[n].key = noderow[n].key
  <2>1. [change[r].obj EXCEPT !.mark = mark + 1].key = change[r].obj.key
    BY <1>5, NextMark
  <2>2. noderow \in [Nodes -> ValidRow]
    BY <1>1 DEF NodeTypes
  <2> QED
    BY <1>4, <1>5, <2>1, <2>2 DEF Created, Node!Present
<1>7. CASE /\ SameRequest(r) /\ change'[r].left = {} /\ Node!View(r)' = grown
           /\ DOMAIN change'[r].written = DOMAIN change[r].written \cup {change[r].at, change[r].new}
  <2>1. PICK g \in [Nodes -> ValidRow] : g = grown
    BY <1>3
  <2>2. /\ noderow \in [Nodes -> ValidRow] /\ NoTwins(noderow) /\ Rooted(noderow)
        /\ Append(noderow[change[r].at].key, mark) \notin Node!Keys(noderow)
    BY <1>1, <1>3, <1>4, <1>5, SMTT(60) DEF NodeInv, NodeTypes, MovedKey
  <2>3. Rooted(g) /\ \A n \in Node!Present(noderow) : Node!ParentOf(g, n) = Node!ParentOf(noderow, n)
    <3>1. g[change[r].new].key = Append(noderow[change[r].at].key, mark)
      BY <1>6, <2>1
    <3>2. \A n \in Nodes \ {change[r].new} : g[n].key = noderow[n].key
      BY <1>6, <2>1
    <3> HIDE DEF grown
    <3> QED
      BY <1>5, <2>2, <3>1, <3>2, GrownTree, ZenonT(60)
  <2>4. Sound(r)'
    BY <1>2, <1>7, <2>1, <2>3, SoundAfter DEF SameRequest
  <2>5. Ended(r)'
    BY <1>2, <1>7 DEF Ended, SameRequest
  <2> QED
    BY <1>2, <2>4, <2>5, NodeInvAfter
<1>8. CASE change'[r].state = "failed"
  BY <1>2, <1>8, NodeInvAfter DEF IsOpen
<1> QED
  BY <1>3, <1>7, <1>8

LEMMA DeleteKeeps ==
    ASSUME Node!TreeAssumption, NodeInv, NEW r \in Requests, Node!Delete(r)
    PROVE  NodeInv'
<1>1. IsFiniteSet(Nodes) /\ NodeTypes
  BY NodeSizes DEF Node!TreeAssumption, NodeInv
<1>2. /\ NodeTypes' /\ UNCHANGED noderow /\ OthersSame(r) /\ SameRequest(r)
      /\ change[r].op = "delete" /\ change[r].left # {} /\ change'[r].left = {}
      /\ \A m \in Nodes : Node!View(r)'[m] = IF m \in Gone(r) THEN Node!Absent ELSE Node!View(r)[m]
  BY <1>1, DeleteMeans
<1>3. IsOpen(r)
  BY <1>2 DEF SameRequest
<1>4. Untouched(r) /\ Node!View(r) = noderow
  BY <1>1, <1>2, <1>3, UntouchedView DEF NodeInv, Ended, Untouched
<1>5. /\ change[r].at \in Node!Present(noderow) /\ change[r].obj = noderow[change[r].at]
      /\ noderow \in [Nodes -> ValidRow] /\ NoTwins(noderow) /\ Rooted(noderow)
  BY <1>1, <1>4 DEF Untouched, NodeInv, NodeTypes
<1>6. Node!View(r)' \in [Nodes -> ValidRow]
  <2>1. Node!View(r)' = [m \in Nodes |-> Node!View(r)'[m]]
    BY DEF Node!View
  <2>2. \A m \in Nodes : Node!View(r)'[m] \in ValidRow
    BY <1>2, <1>4, <1>5, AbsentIsRow
  <2> QED
    BY <2>1, <2>2
<1>7. PICK cut \in [Nodes -> ValidRow] : cut = Node!View(r)'
  BY <1>6
<1>8. /\ Rooted(cut) /\ \A n \in Node!Present(cut) : Node!ParentOf(cut, n) = Node!ParentOf(noderow, n)
  <2>1. \A n \in Nodes : cut[n] = IF n \in Node!Below(noderow, noderow[change[r].at].key) \cup {change[r].at}
                                  THEN Node!Absent ELSE noderow[n]
    BY <1>2, <1>4, <1>5, <1>7 DEF Gone
  <2> QED
    BY <1>5, <2>1, CutTree
<1>9. Sound(r)'
  BY <1>2, <1>7, <1>8, SoundAfter DEF SameRequest
<1>10. Ended(r)'
  BY <1>2 DEF Ended, SameRequest, Creations
<1> QED
  BY <1>2, <1>3, <1>9, <1>10, NodeInvAfter

LEMMA MoveKeeps ==
    ASSUME Node!TreeAssumption, NodeInv, NEW r \in Requests, NEW n \in Nodes, Node!MoveOne(r, n)
    PROVE  NodeInv'
<1>1. IsFiniteSet(Nodes) /\ None \notin Requests /\ NodeTypes
  BY NodeSizes DEF Node!TreeAssumption, NodeInv
<1>2. /\ NodeTypes' /\ UNCHANGED noderow /\ OthersSame(r)
      /\ IsOpen(r) /\ change[r].op = "move" /\ n \in change[r].left
      /\ ~Node!IsBelow(change[r].obj.key, change[r].objs[n].key)
  BY <1>1, MoveMeans
<1>3. PICK mark \in Nat :
        /\ MovedKey(r, mark) \notin Node!Keys(Node!View(r))
        /\ \/ /\ Node!HasParent(DraggedNode(r, n, mark), n)
              /\ NoTwins(MovedAll(r, n, mark))
              /\ \A m \in MovedBelow(r, n, mark) : Node!HasParent(MovedAll(r, n, mark), m)
              /\ MovedAll(r, n, mark) \in [Nodes -> ValidRow]
              /\ UNCHANGED creator /\ SameRequest(r)
              /\ change'[r].left = change[r].left \ {n}
              /\ Node!View(r)' = MovedAll(r, n, mark)
           \/ change'[r].state = "failed"
  BY <1>1, MoveMeans
<1>4. Untouched(r) /\ Node!View(r) = noderow
  BY <1>1, <1>2, UntouchedView DEF NodeInv, Ended, Untouched
<1>5. /\ change[r].at \in Node!Present(noderow) /\ change[r].obj = noderow[change[r].at]
      /\ n \in Node!Present(noderow) /\ change[r].objs[n] = noderow[n] /\ n \in DOMAIN change[r].objs
      /\ noderow \in [Nodes -> ValidRow] /\ NoTwins(noderow) /\ Rooted(noderow)
      /\ noderow[n] \in ValidRow /\ noderow[n] # Node!Absent
      /\ change[r].obj \in ValidRow /\ change[r].obj # Node!Absent
  BY <1>1, <1>2, <1>4 DEF Untouched, NodeInv, NodeTypes, Node!Present
<1>6. CASE change'[r].state = "failed"
  BY <1>2, <1>6, NodeInvAfter DEF IsOpen
<1>7. CASE /\ Node!HasParent(DraggedNode(r, n, mark), n) /\ NoTwins(MovedAll(r, n, mark))
           /\ \A m \in MovedBelow(r, n, mark) : Node!HasParent(MovedAll(r, n, mark), m)
           /\ MovedAll(r, n, mark) \in [Nodes -> ValidRow] /\ SameRequest(r)
           /\ change'[r].left = change[r].left \ {n} /\ Node!View(r)' = MovedAll(r, n, mark)
  <2>1. Append(noderow[change[r].at].key, mark) \notin Node!Keys(noderow)
    BY <1>3, <1>4, <1>5 DEF MovedKey
  <2> DEFINE k == Append(noderow[change[r].at].key, mark)
  <2>2. k \in Seq(Nat) /\ k # << >> /\ k = MovedKey(r, mark)
    BY <1>5, NodeFields, ChildKey DEF MovedKey
  <2>3. DraggedNode(r, n, mark) \in [Nodes -> ValidRow]
    <3>1. Saved(r, mark) \in [Nodes -> ValidRow]
      <4>1. mark + 1 \in Nat
        OBVIOUS
      <4>2. [change[r].obj EXCEPT !.mark = mark + 1] \in ValidRow
        BY <1>5, <4>1, NextMark
      <4> QED
        BY <1>4, <1>5, <4>2 DEF Saved
    <3>2. noderow[n].mark \in Nat
      BY <1>5, NodeFields
    <3>3. [key |-> MovedKey(r, mark), mark |-> change[r].objs[n].mark] \in ValidRow
      BY <1>5, <2>2, <3>2, RowIs
    <3> QED
      BY <3>1, <3>3 DEF DraggedNode
  <2>4. \A m \in Nodes : DraggedNode(r, n, mark)[m].key = IF m = n THEN k ELSE noderow[m].key
    <3>1. [change[r].obj EXCEPT !.mark = mark + 1].key = change[r].obj.key
      BY <1>5, NextMark
    <3>2. \A m \in Nodes : Saved(r, mark)[m].key = noderow[m].key
      BY <1>4, <1>5, <3>1 DEF Saved
    <3>3. DOMAIN Saved(r, mark) = Nodes
      BY <1>4, <1>5 DEF Saved
    <3> QED
      BY <2>2, <3>2, <3>3 DEF DraggedNode
  <2>5. PICK newkey \in Seq(Nat), one \in [Nodes -> ValidRow], all \in [Nodes -> ValidRow] :
          newkey = k /\ one = DraggedNode(r, n, mark) /\ all = MovedAll(r, n, mark)
    BY <1>7, <2>2, <2>3, SMTT(60)
  <2>6. /\ \A m \in Nodes : all[m].key = IF m \in Node!Below(one, noderow[n].key)
                                         THEN Rebase(one[m].key, noderow[n].key, newkey) ELSE one[m].key
        /\ \A m \in Node!Below(one, noderow[n].key) : Node!HasParent(all, m)
    BY <1>5, <1>7, <2>2, <2>5, SMTT(60) DEF MovedAll, MovedBelow
  <2>7. /\ newkey = Append(noderow[change[r].at].key, mark) /\ newkey \notin Node!Keys(noderow)
        /\ \A m \in Nodes : one[m].key = IF m = n THEN newkey ELSE noderow[m].key
        /\ Node!HasParent(one, n) /\ NoTwins(all)
        /\ ~Node!IsBelow(noderow[change[r].at].key, noderow[n].key)
    BY <1>2, <1>5, <1>7, <2>1, <2>4, <2>5
  <2>8. /\ Rooted(all)
        /\ \A m \in Node!Present(noderow) \ {n} : Node!ParentOf(all, m) = Node!ParentOf(noderow, m)
    <3>1. IsMove(noderow, change[r].at, n, mark, newkey, one, all)
      BY <1>5, <2>6, <2>7, Zenon DEF IsMove
    <3> QED
      BY <3>1, MovedTree
  <2>9. Sound(r)'
    BY <1>2, <1>5, <1>7, <2>5, <2>8, SoundAfter, SMTT(60) DEF SameRequest
  <2>10. Ended(r)'
    BY <1>2, <1>4, <1>7 DEF Ended, Untouched, SameRequest, Creations
  <2> QED
    BY <1>2, <2>9, <2>10, NodeInvAfter
<1> QED
  BY <1>3, <1>6, <1>7

LEMMA NodeInvStep ==
    ASSUME Node!TreeAssumption, MaxActive <= 1, MaxSelect <= 1, NodeInv, [Node!Next]_(Node!vars)
    PROVE  NodeInv'
<1>1. IsFiniteSet(Nodes) /\ None \notin Requests /\ NodeTypes
  BY NodeSizes DEF Node!TreeAssumption, NodeInv
<1>2. ASSUME UNCHANGED <<noderow, change>>, NodeTypes' PROVE NodeInv'
  <2>1. \A r \in Requests : Node!View(r)' = Node!View(r)
    BY <1>2 DEF Node!View
  <2>2. /\ \A r \in Requests : IsOpen(r)' = IsOpen(r) /\ Ended(r)' = Ended(r) /\ Untouched(r)' = Untouched(r)
        /\ Solo' = Solo /\ Rooted(noderow)' = Rooted(noderow)
    BY <1>2 DEF IsOpen, Ended, Untouched, Node!Present, Solo, Rooted, Node!HasParent, Node!Keys
  <2>3. \A r \in Requests : Sound(r) => Sound(r)'
    BY <1>2, <2>1, SoundAfter DEF Sound
  <2> QED
    BY <1>2, <2>2, <2>3 DEF NodeInv
<1>3. CASE UNCHANGED Node!vars
  <2>1. NodeTypes'
    BY <1>1, <1>3, NodeTypesStep
  <2> QED
    BY <1>2, <1>3, <2>1 DEF Node!vars
<1>4. ASSUME NEW r \in Requests, Node!Lock(r) PROVE NodeInv'
  BY <1>1, <1>2, <1>4, LockMeans
<1>5. ASSUME NEW r \in Requests, Node!Commit(r) PROVE NodeInv'
  <2>1. /\ NodeTypes' /\ IsOpen(r) /\ ~IsOpen(r)' /\ OthersSame(r)
        /\ UNCHANGED noderow \/ noderow' = Node!View(r)
    BY <1>1, <1>5, CommitMeans DEF OthersSame
  <2>2. CASE UNCHANGED noderow
    BY <2>1, <2>2, NodeInvAfter
  <2>3. CASE noderow' = Node!View(r)
    <3>1. \A q \in Requests : ~IsOpen(q)'
      BY <2>1 DEF NodeInv, Solo, OthersSame, IsOpen
    <3>2. Rooted(noderow)'
      BY <2>1, <2>3 DEF NodeInv, Sound, Rooted, Node!Present, Node!HasParent, Node!Keys
    <3> QED
      BY <2>1, <3>1, <3>2 DEF NodeInv, Solo
  <2> QED
    BY <2>1, <2>2, <2>3
<1>6. ASSUME NEW r \in Requests, NEW n \in Nodes, Node!RefuseAncestor(r, n) PROVE NodeInv'
  <2>1. /\ NodeTypes' /\ UNCHANGED noderow /\ OthersSame(r) /\ SameRequest(r)
        /\ change[r].op = "move" /\ change'[r].left = {} /\ Node!View(r)' = Node!View(r)
    BY <1>1, <1>6, RefuseMeans
  <2>2. Sound(r)'
    BY <2>1, SoundAfter DEF SameRequest, NodeInv, Sound
  <2>3. Ended(r)'
    BY <2>1 DEF Ended, SameRequest, Creations
  <2> QED
    BY <2>1, <2>2, <2>3, NodeInvAfter DEF SameRequest
<1> QED
  BY <1>3, <1>4, <1>5, <1>6, ArriveKeeps, CreateKeepsTree, DeleteKeeps, MoveKeeps DEF Node!Next

\* Only a commit ends a request well.
LEMMA OnlyCommitsEnd ==
    ASSUME Node!TreeAssumption, NodeTypes, Node!Next,
           NEW r \in Requests, change[r].state = "open", change'[r].state = "done"
    PROVE  Node!Commit(r) /\ noderow' = Node!View(r)
<1>1. IsFiniteSet(Nodes) /\ None \notin Requests /\ None \notin Nodes /\ NodeTypes
  BY NodeSizes DEF Node!TreeAssumption
<1>2. ASSUME NEW q \in Requests, OthersSame(q), ~IsOpen(q) \/ change'[q].state # "done" PROVE FALSE
  BY <1>2 DEF OthersSame, IsOpen
<1>3. ASSUME NEW q \in Requests, OthersSame(q), SameRequest(q) PROVE FALSE
  BY <1>2, <1>3 DEF SameRequest, IsOpen
<1>4. PICK q \in Requests :
        \/ Node!Arrive(q) \/ Node!Lock(q) \/ Node!CreateChild(q) \/ Node!Delete(q) \/ Node!Commit(q)
        \/ \E n \in Nodes : Node!MoveOne(q, n) \/ Node!RefuseAncestor(q, n)
  BY DEF Node!Next
<1>5. CASE Node!Arrive(q)
  BY <1>1, <1>2, <1>5, ArriveMeans
<1>6. CASE Node!Lock(q)
  BY <1>1, <1>6, LockMeans
<1>7. CASE Node!CreateChild(q)
  <2>1. OthersSame(q) /\ (SameRequest(q) \/ change'[q].state = "failed")
    BY <1>1, <1>7, CreateMeans
  <2> QED
    BY <1>2, <1>3, <2>1
<1>8. CASE Node!Delete(q)
  BY <1>1, <1>3, <1>8, DeleteMeans
<1>9. ASSUME NEW n \in Nodes, Node!MoveOne(q, n) PROVE FALSE
  <2>1. OthersSame(q) /\ (SameRequest(q) \/ change'[q].state = "failed")
    BY <1>1, <1>9, MoveMeans
  <2> QED
    BY <1>2, <1>3, <2>1
<1>10. ASSUME NEW n \in Nodes, Node!RefuseAncestor(q, n) PROVE FALSE
  BY <1>1, <1>3, <1>10, RefuseMeans
<1>11. CASE Node!Commit(q)
  <2>1. /\ IsOpen(q) /\ OthersSame(q)
        /\ change'[q].state = "failed" \/ noderow' = Node!View(q)
    BY <1>1, <1>11, CommitMeans DEF OthersSame
  <2>2. q = r /\ noderow' = Node!View(r)
    BY <2>1 DEF OthersSame, IsOpen
  <2> QED
    BY <1>11, <2>2
<1> QED
  BY <1>4, <1>5, <1>6, <1>7, <1>8, <1>9, <1>10, <1>11

\* While the requests come one after the other, and a move takes one node, the parent of every
\* node exists, and the other nodes keep theirs, for any tree and whatever the requests are
\* (update_child_full_value, Node.save, Node.delete).
THEOREM SerialTreesStayWhole ==
    ASSUME Node!TreeAssumption, MaxActive <= 1, MaxSelect <= 1
    PROVE  Node!Spec => []Node!NoGap /\ Node!OthersStay
<1>1. Node!Init => NodeInv
  BY NodeInvBegins
<1>2. NodeInv /\ [Node!Next]_(Node!vars) => NodeInv'
  BY NodeInvStep
<1>3. NodeInv => Node!NoGap
  BY DEF NodeInv, Rooted, Node!NoGap
<1>4. NodeInv /\ [Node!Next]_(Node!vars)
      => [\A r \in Requests : change[r].state = "open" /\ change'[r].state = "done" =>
            \A n \in Node!Present(noderow) \cap Node!Present(noderow)' :
              (change[r].op = "move" /\ n \in DOMAIN change[r].objs)
                \/ Node!ParentOf(noderow, n) = Node!ParentOf(noderow', n)]_(Node!vars)
  <2> SUFFICES ASSUME NodeInv, Node!Next, NEW r \in Requests,
                      change[r].state = "open", change'[r].state = "done"
               PROVE  \A n \in Node!Present(noderow) \cap Node!Present(noderow)' :
                        (change[r].op = "move" /\ n \in DOMAIN change[r].objs)
                          \/ Node!ParentOf(noderow, n) = Node!ParentOf(noderow', n)
    OBVIOUS
  <2>1. noderow' = Node!View(r) /\ Sound(r)
    BY OnlyCommitsEnd DEF NodeInv, IsOpen
  <2>2. Node!Present(noderow)' = Node!Present(Node!View(r))
    BY <2>1 DEF Node!Present
  <2> QED
    BY <2>1, <2>2 DEF Sound
<1> QED
  BY <1>1, <1>2, <1>3, <1>4, PTL DEF Node!Spec, Node!OthersStay

-----------------------------------------------------------------------------
(* Only creations, all under the lock. *)

\* A request that creates a node: where it is, and what it sees once it has written.
Creating(r) ==
    /\ change[r].op = "create" /\ change[r].at \in Node!Present(noderow)
    /\ change[r].obj.key = noderow[change[r].at].key /\ noderow[change[r].new] = Node!Absent
    /\ \/ DOMAIN change[r].written = {}
       \/ /\ DOMAIN change[r].written = {change[r].at, change[r].new} /\ creator = r
          /\ NoTwins(Node!View(r)) /\ Rooted(Node!View(r))
          /\ \A n \in Node!Present(noderow) : Node!View(r)[n].key = noderow[n].key

GrowInv ==
    /\ NodeTypes /\ Rooted(noderow)
    /\ \A r \in Requests : change[r].state # "failed"
    /\ \A r \in Requests : IsOpen(r) => Creating(r)
    /\ \A q, r \in Requests : q # r /\ IsOpen(q) /\ IsOpen(r) => change[q].new # change[r].new

\* A request no step touches, while the rows stay and it keeps the lock if it has written.
LEMMA CreatingStays ==
    ASSUME NEW r \in Requests, Creating(r), UNCHANGED noderow, change'[r] = change[r],
           creator = r => creator' = r
    PROVE  Creating(r)'
<1>1. Node!View(r)' = Node!View(r)
  BY DEF Node!View
<1> QED
  BY <1>1 DEF Creating, NoTwins, Rooted, Node!Present, Node!HasParent, Node!Keys

LEMMA GrowArrive ==
    ASSUME Node!TreeAssumption, Ops = {"create"}, GrowInv, NEW r \in Requests, Node!Arrive(r)
    PROVE  GrowInv'
<1>1. /\ NodeTypes' /\ UNCHANGED <<noderow, creator>> /\ OthersSame(r) /\ ~IsOpen(r) /\ Begun(r)
  BY ArriveMeans DEF GrowInv, Node!TreeAssumption
<1>2. /\ change'[r].op = "create" /\ change'[r].at \in Node!Present(noderow)
      /\ change'[r].obj = noderow[change'[r].at] /\ DOMAIN change'[r].written = {}
      /\ noderow[change'[r].new] = Node!Absent /\ IsOpen(r)'
      /\ \A q \in Requests : IsOpen(q) => change[q].new # change'[r].new
  BY <1>1 DEF Begun, Creations, Node!Present
<1>3. Creating(r)'
  BY <1>1, <1>2 DEF Creating, Node!Present
<1>4. \A q \in Requests \ {r} : change'[q] = change[q] /\ IsOpen(q)' = IsOpen(q)
  BY <1>1 DEF OthersSame, IsOpen
<1>5. \A q \in Requests \ {r} : IsOpen(q) => Creating(q)'
  BY <1>1, <1>4, CreatingStays DEF GrowInv
<1>6. Rooted(noderow)'
  BY <1>1 DEF GrowInv, Rooted, Node!Present, Node!HasParent, Node!Keys
<1>7. \A q \in Requests : change'[q].state # "failed"
  BY <1>2, <1>4 DEF GrowInv, IsOpen
<1> QED
  BY <1>1, <1>2, <1>3, <1>4, <1>5, <1>6, <1>7 DEF GrowInv

LEMMA GrowCreate ==
    ASSUME Node!TreeAssumption, GrowInv, NEW r \in Requests, Node!CreateChild(r)
    PROVE  GrowInv'
<1>1. IsFiniteSet(Nodes) /\ None \notin Requests /\ None \notin Nodes /\ NodeTypes
  BY NodeSizes DEF Node!TreeAssumption, GrowInv
<1>2. /\ NodeTypes' /\ UNCHANGED noderow /\ OthersSame(r)
      /\ IsOpen(r) /\ change[r].new \notin DOMAIN change[r].written
      /\ change[r].op = "create" => creator = r
      /\ change[r].op \in Creations
  BY <1>1, CreateMeans
<1>3. PICK mark \in Nat :
        /\ MovedKey(r, mark) \notin Node!Keys(Node!View(r))
        /\ Created(r, mark) \in [Nodes -> ValidRow]
        /\ \/ /\ Node!HasParent(Created(r, mark), change[r].at)
              /\ UNCHANGED creator /\ SameRequest(r)
              /\ change'[r].left = {} /\ Node!View(r)' = Created(r, mark)
              /\ DOMAIN change'[r].written =
                   DOMAIN change[r].written \cup {change[r].at, change[r].new}
           \/ /\ ~Node!HasParent(Created(r, mark), change[r].at)
              /\ change'[r].state = "failed"
  BY <1>1, CreateMeans
<1>4. Creating(r) /\ creator = r
  BY <1>2 DEF GrowInv, Creating
<1>5. DOMAIN change[r].written = {} /\ Node!View(r) = noderow
  BY <1>1, <1>2, <1>4, UntouchedView DEF Creating
<1>6. /\ change[r].at \in Node!Present(noderow) /\ change[r].obj.key = noderow[change[r].at].key
      /\ change[r].new \in Nodes /\ noderow[change[r].new] = Node!Absent
      /\ change[r].obj \in ValidRow /\ change[r].obj # Node!Absent
  BY <1>1, <1>2, <1>4, OpenFields DEF Creating
<1>7. PICK g \in [Nodes -> ValidRow] : g = Created(r, mark)
  BY <1>3, SMTT(60)
<1>8. /\ g[change[r].new].key = Append(noderow[change[r].at].key, mark)
      /\ \A n \in Nodes \ {change[r].new} : g[n].key = noderow[n].key
  <2>1. [change[r].obj EXCEPT !.mark = mark + 1].key = change[r].obj.key
    BY <1>6, NextMark
  <2>2. noderow \in [Nodes -> ValidRow]
    BY <1>1 DEF NodeTypes
  <2> QED
    BY <1>5, <1>6, <1>7, <2>1, <2>2 DEF Created, Node!Present
<1>9. NoTwins(g) /\ Rooted(g)
  <2>1. /\ noderow \in [Nodes -> ValidRow] /\ NoTwins(noderow) /\ Rooted(noderow)
        /\ Append(noderow[change[r].at].key, mark) \notin Node!Keys(noderow)
    BY <1>1, <1>3, <1>5, <1>6 DEF GrowInv, NodeTypes, MovedKey
  <2>2. PICK at, new : at = change[r].at /\ new = change[r].new
    BY SMTT(60)
  <2>3. /\ at \in Node!Present(noderow) /\ new \in Nodes /\ noderow[new] = Node!Absent
        /\ Append(noderow[at].key, mark) \notin Node!Keys(noderow)
        /\ g[new].key = Append(noderow[at].key, mark)
        /\ \A n \in Nodes \ {new} : g[n].key = noderow[n].key
    BY <1>6, <1>8, <2>1, <2>2
  <2>4. mark \in Nat /\ g \in [Nodes -> ValidRow]
    BY SMTT(60)
  <2> QED
    BY <2>1, <2>3, <2>4, GrownTree
<1>10. \A n \in Node!Present(noderow) : n \in Nodes /\ g[n].key = noderow[n].key
  BY <1>6, <1>8 DEF Node!Present
<1>11. change[r].at \in Node!Present(g)
  <2>1. change[r].at \in Nodes /\ g[change[r].at].key # << >>
    BY <1>1, <1>6, <1>10, PresentMeans DEF NodeTypes
  <2> QED
    BY <2>1, PresentMeans
<1>12. /\ UNCHANGED creator /\ SameRequest(r) /\ Node!View(r)' = g
       /\ DOMAIN change'[r].written = {change[r].at, change[r].new}
  BY <1>3, <1>5, <1>7, <1>9, <1>11 DEF Rooted
<1>13. Creating(r)'
  <2>1. NoTwins(Node!View(r))' /\ Rooted(Node!View(r))'
    BY <1>9, <1>12 DEF NoTwins, Rooted, Node!Present, Node!HasParent, Node!Keys
  <2>2. Node!Present(noderow)' = Node!Present(noderow)
    BY <1>2 DEF Node!Present
  <2> QED
    BY <1>2, <1>4, <1>10, <1>12, <2>1, <2>2 DEF Creating, SameRequest
<1>14. \A q \in Requests \ {r} : change'[q] = change[q] /\ IsOpen(q)' = IsOpen(q)
  BY <1>2 DEF OthersSame, IsOpen
<1>15. \A q \in Requests \ {r} : IsOpen(q) => Creating(q)'
  BY <1>2, <1>12, <1>14, CreatingStays DEF GrowInv
<1>16. Rooted(noderow)'
  BY <1>2 DEF GrowInv, Rooted, Node!Present, Node!HasParent, Node!Keys
<1>17. /\ \A q \in Requests : change'[q].state # "failed"
       /\ \A q \in Requests : IsOpen(q)' = IsOpen(q) /\ change'[q].new = change[q].new
  BY <1>12, <1>14 DEF GrowInv, IsOpen, SameRequest
<1> QED
  BY <1>2, <1>13, <1>14, <1>15, <1>16, <1>17 DEF GrowInv

\* What a commit finds and leaves.
LEMMA GrownMeans ==
    ASSUME Node!TreeAssumption, GrowInv, NEW r \in Requests, Node!Commit(r)
    PROVE  /\ NodeTypes' /\ IsOpen(r) /\ ~IsOpen(r)' /\ OthersSame(r) /\ Creating(r)
           /\ DOMAIN change[r].written = {change[r].at, change[r].new} /\ creator = r
           /\ NoTwins(noderow') /\ Rooted(noderow')
           /\ \A n \in Node!Present(noderow) : noderow'[n].key = noderow[n].key
           /\ change'[r].state = "done" /\ noderow' = Node!View(r)
<1>1. IsFiniteSet(Nodes) /\ None \notin Requests /\ None \notin Nodes /\ NodeTypes
  BY NodeSizes DEF Node!TreeAssumption, GrowInv
<1>2. /\ NodeTypes' /\ IsOpen(r) /\ ~IsOpen(r)' /\ OthersSame(r)
      /\ \/ ~NoTwins(Node!View(r))
         \/ change'[r].state = "done" /\ noderow' = Node!View(r)
  BY <1>1, CommitMeans DEF OthersSame
<1>3. Creating(r)
  BY <1>2 DEF GrowInv
<1>4. change[r].new \in DOMAIN change[r].written
  <2>1. change[r].new # None
    BY <1>1, <1>2, <1>3, OpenFields DEF Creating, Creations
  <2> QED
    BY <2>1 DEF Node!Commit, Node!Finished
<1>5. /\ DOMAIN change[r].written = {change[r].at, change[r].new} /\ creator = r
      /\ NoTwins(Node!View(r)) /\ Rooted(Node!View(r))
      /\ \A n \in Node!Present(noderow) : Node!View(r)[n].key = noderow[n].key
  BY <1>3, <1>4 DEF Creating
<1>6. change'[r].state = "done" /\ noderow' = Node!View(r)
  BY <1>2, <1>5
<1> QED
  BY <1>2, <1>3, <1>5, <1>6

LEMMA GrowCommit ==
    ASSUME Node!TreeAssumption, GrowInv, NEW r \in Requests, Node!Commit(r)
    PROVE  GrowInv'
<1>1. IsFiniteSet(Nodes) /\ None \notin Requests /\ None \notin Nodes /\ NodeTypes
  BY NodeSizes DEF Node!TreeAssumption, GrowInv
<1>2. NodeTypes' /\ IsOpen(r) /\ ~IsOpen(r)' /\ OthersSame(r)
  BY GrownMeans
<1>3. Creating(r)
  BY GrownMeans
<1>5. /\ DOMAIN change[r].written = {change[r].at, change[r].new} /\ creator = r
      /\ Rooted(noderow')
      /\ \A n \in Node!Present(noderow) : Node!View(r)[n].key = noderow[n].key
  BY GrownMeans
<1>6. change'[r].state = "done" /\ noderow' = Node!View(r)
  BY GrownMeans
<1>7. Rooted(noderow)'
  BY <1>5 DEF Rooted, Node!Present, Node!HasParent, Node!Keys
<1>8. \A q \in Requests \ {r} : change'[q] = change[q] /\ IsOpen(q)' = IsOpen(q)
  BY <1>2 DEF OthersSame, IsOpen
<1>9. ASSUME NEW q \in Requests \ {r}, IsOpen(q) PROVE Creating(q)'
  <2>1. Creating(q) /\ DOMAIN change[q].written = {}
    BY <1>5, <1>9 DEF GrowInv, Creating
  <2>2. /\ change[q].at \in Node!Present(noderow) /\ change[q].obj.key = noderow[change[q].at].key
        /\ noderow[change[q].new] = Node!Absent /\ change[q].op = "create"
    BY <2>1 DEF Creating
  <2>3. change[q].at \in Node!Present(noderow)' /\ noderow'[change[q].at].key = noderow[change[q].at].key
    <3>1. change[q].at \in Nodes /\ noderow[change[q].at].key # << >>
      BY <1>1, <2>2, PresentMeans DEF NodeTypes, Node!Present
    <3>2. noderow'[change[q].at].key = noderow[change[q].at].key
      BY <1>5, <1>6, <2>2
    <3>3. Node!View(r) \in [Nodes -> ValidRow]
      BY <1>1, <1>2, ViewIsRows
    <3>4. change[q].at \in Node!Present(Node!View(r))
      BY <1>6, <3>1, <3>2, <3>3, PresentMeans
    <3> QED
      BY <1>6, <3>2, <3>4 DEF Node!Present
  <2>4. noderow'[change[q].new] = Node!Absent
    <3>1. change[q].new \in Nodes
      BY <1>1, <1>9, <2>2, OpenFields DEF Creations
    <3>2. change[q].new # change[r].new
      BY <1>2, <1>9 DEF GrowInv
    <3>3. change[q].new # change[r].at
      BY <1>3, <2>2 DEF Creating, Node!Present
    <3> QED
      BY <1>5, <1>6, <2>2, <3>1, <3>2, <3>3 DEF Node!View
  <2> QED
    BY <1>8, <2>1, <2>2, <2>3, <2>4 DEF Creating
<1>10. \A q \in Requests : change'[q].state # "failed"
  BY <1>6, <1>8 DEF GrowInv
<1> QED
  BY <1>2, <1>7, <1>8, <1>9, <1>10 DEF GrowInv

LEMMA GrowStep ==
    ASSUME Node!TreeAssumption, Ops = {"create"}, GrowInv, [Node!Next]_(Node!vars)
    PROVE  GrowInv'
<1>1. IsFiniteSet(Nodes) /\ None \notin Requests /\ NodeTypes
  BY NodeSizes DEF Node!TreeAssumption, GrowInv
<1>2. ASSUME UNCHANGED <<noderow, change>>, NodeTypes',
             \A r \in Requests : creator = r => creator' = r
      PROVE  GrowInv'
  <2>1. \A r \in Requests : Creating(r) => Creating(r)'
    BY <1>2, CreatingStays
  <2>2. Rooted(noderow)' /\ \A r \in Requests : IsOpen(r)' = IsOpen(r)
    BY <1>2 DEF GrowInv, Rooted, Node!Present, Node!HasParent, Node!Keys, IsOpen
  <2> QED
    BY <1>2, <2>1, <2>2 DEF GrowInv
<1>3. CASE UNCHANGED Node!vars
  <2>1. NodeTypes' /\ UNCHANGED <<noderow, change>> /\ creator' = creator
    BY <1>1, <1>3, NodeTypesStep DEF Node!vars
  <2> QED
    BY <1>2, <2>1
<1>4. ASSUME NEW r \in Requests, Node!Lock(r) PROVE GrowInv'
  <2>1. NodeTypes' /\ UNCHANGED <<noderow, change>> /\ creator = None /\ creator' = r
    BY <1>1, <1>4, LockMeans
  <2> QED
    BY <1>1, <1>2, <2>1
<1>5. ASSUME NEW r \in Requests, Node!Delete(r) PROVE FALSE
  BY <1>1, <1>5, DeleteMeans DEF GrowInv, Creating, SameRequest
<1>6. ASSUME NEW r \in Requests, NEW n \in Nodes, Node!MoveOne(r, n) PROVE FALSE
  BY <1>1, <1>6, MoveMeans DEF GrowInv, Creating
<1>7. ASSUME NEW r \in Requests, NEW n \in Nodes, Node!RefuseAncestor(r, n) PROVE FALSE
  BY <1>1, <1>7, RefuseMeans DEF GrowInv, Creating, SameRequest
<1> QED
  BY <1>3, <1>4, <1>5, <1>6, <1>7, GrowArrive, GrowCreate, GrowCommit DEF Node!Next

\* A creation leaves the parents of the nodes there were.
LEMMA GrowOthers ==
    ASSUME Node!TreeAssumption, GrowInv, NEW r \in Requests, Node!Commit(r),
           NEW n \in Node!Present(noderow)
    PROVE  Node!ParentOf(noderow, n) = Node!ParentOf(noderow', n)
<1>1. /\ \A m \in Node!Present(noderow) : noderow'[m].key = noderow[m].key
      /\ NoTwins(noderow')
      /\ noderow \in [Nodes -> ValidRow] /\ noderow' \in [Nodes -> ValidRow]
  BY GrownMeans DEF GrowInv, NodeTypes
<1>2. Node!Present(noderow) \subseteq Node!Present(noderow')
  <2>1. \A m \in Node!Present(noderow) : m \in Nodes
    BY DEF Node!Present
  <2> QED
    BY <1>1, <2>1, PresentMeans
<1>3. ASSUME NEW m \in Node!ParentOf(noderow', n) PROVE m \in Node!ParentOf(noderow, n)
  <2>1. /\ m \in Node!Present(noderow') /\ Len(noderow'[n].key) > 1
        /\ noderow'[m].key = Node!Front(noderow'[n].key)
    BY <1>3 DEF Node!ParentOf
  <2>2. Len(noderow[n].key) > 1 /\ noderow'[m].key = Node!Front(noderow[n].key)
    BY <1>1, <2>1
  <2>3. PICK k \in Node!Present(noderow) : noderow[k].key = Node!Front(noderow[n].key)
    <3>1. noderow[n].key \in Seq(Nat)
      BY <1>1, PresentMeans DEF Node!Present
    <3>2. Len(noderow[n].key) # 1
      <4>1. \A i \in Nat : i > 1 => i # 1
        OBVIOUS
      <4>2. Len(noderow[n].key) \in Nat /\ Len(noderow[n].key) > 1
        BY <2>2, <3>1
      <4> QED
        BY <4>1, <4>2, Zenon
    <3>3. Node!HasParent(noderow, n)
      BY DEF GrowInv, Rooted
    <3> QED
      BY <3>2, <3>3 DEF Node!HasParent, Node!Keys
  <2>4. k = m
    BY <1>1, <1>2, <2>1, <2>2, <2>3 DEF NoTwins
  <2> QED
    BY <2>2, <2>3, <2>4 DEF Node!ParentOf
<1>4. ASSUME NEW m \in Node!ParentOf(noderow, n) PROVE m \in Node!ParentOf(noderow', n)
  BY <1>1, <1>2, <1>4 DEF Node!ParentOf
<1> QED
  BY <1>3, <1>4

\* Creations that all take the lock of the organisation do not fail, however many there are and
\* although each reads its parent before it has the lock, and the tree stays whole
\* (NodeChildrenApi, get_valid_child_mark).
THEOREM LockedCreationsSucceed ==
    ASSUME Node!TreeAssumption, Ops = {"create"}
    PROVE  Node!Spec => []Node!CreationsSucceed /\ []Node!NoGap /\ Node!OthersStay
<1>1. Node!Init => GrowInv
  <2>1. Node!Init => NodeInv /\ \A r \in Requests : ~IsOpen(r) /\ change[r].state # "failed"
    BY NodeInvBegins DEF Node!Init, Node!New, IsOpen
  <2> QED
    BY <2>1 DEF NodeInv, GrowInv
<1>2. GrowInv /\ [Node!Next]_(Node!vars) => GrowInv'
  BY GrowStep
<1>3. GrowInv => Node!CreationsSucceed /\ Node!NoGap
  BY DEF GrowInv, Rooted, Node!CreationsSucceed, Node!NoGap
<1>4. GrowInv /\ [Node!Next]_(Node!vars)
      => [\A r \in Requests : change[r].state = "open" /\ change'[r].state = "done" =>
            \A n \in Node!Present(noderow) \cap Node!Present(noderow)' :
              (change[r].op = "move" /\ n \in DOMAIN change[r].objs)
                \/ Node!ParentOf(noderow, n) = Node!ParentOf(noderow', n)]_(Node!vars)
  BY OnlyCommitsEnd, GrowOthers DEF GrowInv
<1> QED
  BY <1>1, <1>2, <1>3, <1>4, PTL DEF Node!Spec, Node!OthersStay
=============================================================================
