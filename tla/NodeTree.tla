------------------------------ MODULE NodeTree ------------------------------
(***************************************************************************)
(* The tree of the nodes.  A node is a row with a key, the path from the   *)
(* root, and the mark from which the key of its next child is made.  Every *)
(* request of the API is one transaction: it reads the node it is about    *)
(* (and those it moves) into objects, and later saves these objects, whole *)
(* rows, with what it computed from them.  A save writes the row whatever  *)
(* others made of it (a deleted one is inserted again), then looks for the *)
(* parent's row and fails without one.  Only the creation of a child under *)
(* a given node takes the lock of the organisation.                        *)
(* A transaction that waits for a row of another one for ever stands for   *)
(* the one the database ends: nobody sees what it wrote.                   *)
(***************************************************************************)
EXTENDS Integers, FiniteSets, Sequences, FiniteSetsExt, SequencesExt

CONSTANTS
  Root, Nodes,      \* Root is the node of the organisation
  Requests, None,
  InitialKey,       \* a key for some nodes
  Ops,              \* of "create", "create_top", "move", "delete"
  MaxSelect,        \* nodes of one move
  MaxActive,        \* requests at once
  MaxMark           \* bound on the marks

Absent == [key |-> <<>>, mark |-> 0]
TreeAssumption ==
  /\ IsFiniteSet(Nodes) /\ IsFiniteSet(Requests)
  /\ Root \in DOMAIN InitialKey /\ DOMAIN InitialKey \subseteq Nodes
  /\ InitialKey \in [DOMAIN InitialKey -> Seq(Nat) \ {<<>>}]
  /\ \A n, m \in DOMAIN InitialKey : InitialKey[n] = InitialKey[m] => n = m
  /\ \A n \in DOMAIN InitialKey : Len(InitialKey[n]) = 1
       \/ \E m \in DOMAIN InitialKey : InitialKey[m] = Front(InitialKey[n])
  /\ None \notin Requests \cup Nodes /\ {MaxSelect, MaxActive, MaxMark} \subseteq Nat

VARIABLES
  row,      \* the committed rows
  request,
  creator   \* assets.node.add_children.<org>
vars == <<row, request, creator>>

New == [state |-> "new"]
Rows == [key: Seq(Nat), mark: Nat]
Kept == {r \in Requests : request[r].state = "open"}

----------------------------------------------------------------------------
Present(view) == {n \in Nodes : view[n] # Absent}
Keys(view) == {view[n].key : n \in Present(view)}
IsBelow(key, other) == IsStrictPrefix(other, key)
Below(view, key) == {n \in Present(view) : IsBelow(view[n].key, key)}
HasParent(view, n) == Len(view[n].key) = 1 \/ Front(view[n].key) \in Keys(view)
Duplicate(view) == Cardinality(Keys(view)) < Cardinality(Present(view))

(* What request r sees: its own writes over the committed rows. *)
View(r) == [n \in Nodes |-> IF n \in DOMAIN request[r].written THEN request[r].written[n] ELSE row[n]]
Writes(r, rows) == [n \in DOMAIN request[r].written \cup DOMAIN rows |->
                      IF n \in DOMAIN rows THEN rows[n] ELSE request[r].written[n]]
IsLocked(r, ns) == \E q \in Kept \ {r} : DOMAIN request[q].written \cap ns # {}

(* get_valid_child_mark: the mark of the object, unless that key is taken. *)
MarkAsRead(view, obj) == obj.mark
ValidMark(view, obj) ==
  IF Append(obj.key, obj.mark) \notin Keys(view) THEN obj.mark
  ELSE Max({Last(k) : k \in {k \in Keys(view) : Front(k) = obj.key}}) + 1

Begin(r, op, at, nodes, new) ==
  /\ request[r] = New /\ Cardinality(Kept) < MaxActive
  /\ row[at] # Absent
  /\ request' = [request EXCEPT ![r] =
       [state |-> "open", op |-> op, at |-> at, obj |-> row[at], left |-> nodes,
        objs |-> [n \in nodes |-> row[n]], new |-> new, written |-> [n \in {} |-> Absent]]]
  /\ UNCHANGED <<row, creator>>

Put(r, rows, obj, left) ==
  request' = [request EXCEPT ![r].written = Writes(r, rows), ![r].obj = obj, ![r].left = left]
(* A failed request leaves its lock to expire; here it is free at once. *)
StillLocked(r) == creator
Unlocked(r) == IF creator = r THEN None ELSE creator
Fail(r) ==
  /\ request' = [request EXCEPT ![r] = [state |-> "failed", op |-> @.op, at |-> @.at]]
  /\ creator' = Unlocked(r)
  /\ UNCHANGED row

----------------------------------------------------------------------------
(* A child under a node, NodeChildrenApi, or under the root, NodeViewSet.  *)
BeginCreate(r, op, at, new) ==
  /\ op = "create_top" => at = Root
  /\ row[new] = Absent /\ \A q \in Kept : request[q].new # new
  /\ Begin(r, op, at, {}, new)
Lock(r) ==
  /\ request[r].state = "open" /\ request[r].op = "create"
  /\ creator = None /\ creator' = r
  /\ UNCHANGED <<row, request>>
CreateChild(r) ==
  LET q == request[r] mark == ValidMark(View(r), q.obj)
      obj == [q.obj EXCEPT !.mark = mark + 1]
      child == [key |-> Append(obj.key, mark), mark |-> 0]
      after == [View(r) EXCEPT ![q.at] = obj, ![q.new] = child] IN
  /\ q.state = "open" /\ q.op \in {"create", "create_top"} /\ q.new \notin DOMAIN q.written
  /\ q.op = "create" => creator = r
  /\ mark < MaxMark /\ ~IsLocked(r, {q.at})
  /\ IF HasParent(after, q.at)
     THEN /\ Put(r, [n \in {q.at, q.new} |-> after[n]], obj, {})
          /\ UNCHANGED <<row, creator>>
     ELSE Fail(r)

(* NodeAddChildrenApi: for each node in turn, the next key below the       *)
(* instance, and the old key replaced in the keys of all nodes below.      *)
(* (parent.setter.)                                                        *)
OldKey(r, n) == request[r].objs[n].key
Children(view, old) == {n \in Below(view, old) : Len(view[n].key) = Len(old) + 1}
Descendants(view, old) == Below(view, old)
IsAncestor(old, key) == IsBelow(key, old)
MoveOne(r, n) ==
  LET q == request[r] old == OldKey(r, n)
      mark == ValidMark(View(r), q.obj)
      obj == [q.obj EXCEPT !.mark = mark + 1]
      saved == [View(r) EXCEPT ![q.at] = obj]
      key == Append(obj.key, mark)
      moved == [saved EXCEPT ![n] = [key |-> key, mark |-> q.objs[n].mark]]
      below == Descendants(moved, old)
      after == [m \in Nodes |-> IF m \in below
                 THEN [moved[m] EXCEPT !.key = key \o SubSeq(@, Len(old) + 1, Len(@))] ELSE moved[m]] IN
  /\ q.state = "open" /\ q.op = "move" /\ n \in q.left
  /\ \A m \in q.left : ~IsBelow(old, OldKey(r, m))
  /\ ~IsAncestor(old, q.obj.key)
  /\ mark < MaxMark /\ ~IsLocked(r, {q.at, n} \cup below)
  /\ IF /\ HasParent(saved, q.at) /\ ~Duplicate(moved) /\ HasParent(moved, n)
        /\ ~Duplicate(after) /\ \A m \in below : HasParent(after, m)
     THEN /\ Put(r, [m \in {q.at, n} \cup below |-> after[m]], obj, q.left \ {n})
          /\ UNCHANGED <<row, creator>>
     ELSE Fail(r)
(* An ancestor ends the request; what was moved before stays moved. *)
RefuseAncestor(r, n) ==
  LET q == request[r] IN
  /\ q.state = "open" /\ q.op = "move" /\ n \in q.left
  /\ \A m \in q.left : ~IsBelow(OldKey(r, n), OldKey(r, m))
  /\ IsAncestor(OldKey(r, n), q.obj.key)
  /\ request' = [request EXCEPT ![r].left = {}]
  /\ UNCHANGED <<row, creator>>

(* Node.delete of a node without assets: the nodes below by its old key,   *)
(* then the node itself.                                                   *)
Delete(r) ==
  LET q == request[r] gone == Descendants(View(r), q.obj.key) \cup {q.at} IN
  /\ q.state = "open" /\ q.op = "delete" /\ q.left # {}
  /\ ~IsLocked(r, gone)
  /\ Put(r, [n \in gone |-> Absent], q.obj, {})
  /\ UNCHANGED <<row, creator>>

Finished(r) ==
  LET q == request[r] IN
  q.state = "open" /\ q.left = {} /\ (q.new = None \/ q.new \in DOMAIN q.written)
Commit(r) ==
  /\ Finished(r)
  /\ IF Duplicate(View(r)) THEN Fail(r)
     ELSE /\ row' = View(r)
          /\ request' = [request EXCEPT ![r] = [state |-> "done", op |-> @.op, at |-> @.at]]
          /\ creator' = Unlocked(r)

Init ==
  /\ row = [n \in Nodes |-> IF n \in DOMAIN InitialKey
              THEN [key |-> InitialKey[n],
                    mark |-> Cardinality({m \in DOMAIN InitialKey :
                               Len(InitialKey[m]) > 1 /\ Front(InitialKey[m]) = InitialKey[n]}) + 1]
              ELSE Absent]
  /\ request = [r \in Requests |-> New] /\ creator = None

Arrive(r) ==
  \/ \E op \in Ops \cap {"create", "create_top"}, at, new \in Nodes : BeginCreate(r, op, at, new)
  \/ /\ "move" \in Ops
     /\ \E at \in Nodes, ns \in SUBSET (Present(row) \ {Root}) :
          ns # {} /\ Cardinality(ns) <= MaxSelect /\ Begin(r, "move", at, ns, None)
  \/ "delete" \in Ops /\ \E at \in Nodes \ {Root} : Begin(r, "delete", at, {at}, None)
Next ==
  \E r \in Requests :
    \/ Arrive(r) \/ Lock(r) \/ CreateChild(r) \/ Delete(r) \/ Commit(r)
    \/ \E n \in Nodes : MoveOne(r, n) \/ RefuseAncestor(r, n)

Spec == Init /\ [][Next]_vars
Fairness == \A r \in Requests :
  WF_vars(Lock(r) \/ CreateChild(r) \/ Delete(r) \/ Commit(r) \/ \E n \in Nodes : MoveOne(r, n) \/ RefuseAncestor(r, n))
FairSpec == Spec /\ Fairness

----------------------------------------------------------------------------
(* One type invariant. *)
TypeOK ==
  /\ \A n \in Nodes : row[n] \in Rows /\ (row[n] = Absent) = (row[n].key = <<>>)
  /\ ~Duplicate(row)
  /\ creator \in Requests \cup {None} /\ (creator # None => creator \in Kept /\ request[creator].op = "create")

(* Moves leave no gap: the parent of every node exists. *)
NoGap == \A n \in Present(row) : HasParent(row, n)

(* A node keeps the parent it has, but for the nodes a move takes and for  *)
(* those that are deleted; no request turns the tree elsewhere.            *)
ParentOf(view, n) == {m \in Present(view) : Len(view[n].key) > 1 /\ view[m].key = Front(view[n].key)}
OthersStay ==
  [][\A r \in Requests : request[r].state = "open" /\ request'[r].state = "done" =>
       \A n \in Present(row) \cap Present(row)' :
         (request[r].op = "move" /\ n \in DOMAIN request[r].objs) \/ ParentOf(row, n) = ParentOf(row', n)]_vars

(* Two children never get one key while all creations take the lock: none  *)
(* fails, although the mark is read before the lock.                       *)
CreationsSucceed == \A r \in Requests : request[r].state # "failed"

(* And the lock comes to each. *)
CreationsEnd == \A r \in Requests : request[r].state = "open" ~> request[r].state = "done"
============================================================================
