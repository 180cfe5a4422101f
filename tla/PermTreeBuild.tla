--------------------------- MODULE PermTreeBuild ---------------------------
(***************************************************************************)
(* What one rebuild of a user's tree computes: UserPermTreeBuildUtil of    *)
(* perms/utils/user_perm_tree.py and NodeAssetsUtil of                     *)
(* assets/utils/node.py, which counts the assets below every node in one   *)
(* pass with a stack.  A key "1:2:3" is the sequence <<1, 2, 3>>.  Every   *)
(* initial state is one input; the steps are the turns of the loop.        *)
(***************************************************************************)
EXTENDS Naturals, Sequences, FiniteSets, SequencesExt

CONSTANTS
    Key,            \* keys a node may have
    Asset

KeyAssumption ==
    /\ Key \subseteq Seq(Nat) /\ << >> \notin Key
    /\ IsFiniteSet(Key) /\ IsFiniteSet(Asset)

VARIABLES
    nodes,          \* keys of the nodes of the organisation
    placed,         \* placed[k]: the assets of a node itself
    direct_nodes, direct_assets,     \* what the permissions of the user name
    ungroup,        \* PERM_SINGLE_ASSET_TO_UNGROUP_NODE
    stored,         \* the amount in the row of the org root, right or not
    infos,          \* nodes still to be pushed, in order, and the guard
    stack,          \* keys on the stack, the top last
    assets,         \* assets[k]: collected for a node so far
    amount          \* amount[k]: counted when a node is popped

vars == <<nodes, placed, direct_nodes, direct_assets, ungroup, stored, infos, stack, assets, amount>>
input == <<nodes, placed, direct_nodes, direct_assets, ungroup, stored>>

-----------------------------------------------------------------------------
(* Keys *)

IsBelow(k, a) == Len(a) < Len(k) /\ SubSeq(k, 1, Len(a)) = a

get_node_ancestor_keys(k) == {SubSeq(k, 1, i) : i \in 1..(Len(k) - 1)}

\* Faulty: orders the keys by their level first.
KeyBeforeByLevel(k, l) == Len(k) < Len(l) \/ (Len(k) = Len(l) /\ k # l /\
    \E i \in DOMAIN k : k[i] < l[i] /\ \A j \in 1..(i - 1) : k[j] = l[j])

\* The numbers of two keys, compared one after the other.
KeyBefore(k, l) ==
    \/ IsBelow(l, k)
    \/ \E i \in DOMAIN k \cap DOMAIN l : k[i] < l[i] /\ \A j \in 1..(i - 1) : k[j] = l[j]

Sorted(S) == CHOOSE s \in SetToSeqs(S) : \A i, j \in DOMAIN s : i < j => KeyBefore(s[i], s[j])

-----------------------------------------------------------------------------
(* Nodes of the tree *)

has_any_ancestor_direct_permed(k) == get_node_ancestor_keys(k) \cap direct_nodes # {}

granted == {k \in direct_nodes : ~has_any_ancestor_direct_permed(k)}

direct_asset_nodes == {k \in nodes : placed[k] \cap direct_assets # {}}

from_asset ==
    IF ungroup THEN {}
    ELSE {k \in direct_asset_nodes : ~has_any_ancestor_direct_permed(k)} \ granted

\* Faulty: the parents only.
ancestors_near ==
    {a \in nodes : \E k \in granted \cup from_asset : IsBelow(k, a) /\ Len(k) = Len(a) + 1}
      \ (granted \cup from_asset)

\* Ancestors that do not exist are not added.
ancestors ==
    {a \in nodes : \E k \in granted \cup from_asset : a \in get_node_ancestor_keys(k)}
      \ (granted \cup from_asset)

perm_nodes == granted \cup from_asset \cup ancestors

get_all_asset_ids(k) == UNION {placed[n] : n \in {n \in nodes : n = k \/ IsBelow(n, k)}}

\* Faulty: a node keeps what it has by itself only.
collected_self(k) == placed[k] \cap direct_assets

\* A granted node has all assets below it; others the directly granted ones of theirs.
collected(k) ==
    (placed[k] \cap direct_assets) \cup (IF k \in granted THEN get_all_asset_ids(k) ELSE {})

-----------------------------------------------------------------------------
(* Counting *)

Guard == << >>

\* _only_compute_root_node_assets_amount_if_need: a granted org root that is the only node
\* is not counted.  What is computed for it goes into granted_assets_amount, which nobody
\* stores; create_mapping_nodes writes the amount that was read with its row.
only_root == \E k \in granted : perm_nodes = {k} /\ Len(k) = 1

Init ==
    /\ nodes \in SUBSET Key /\ nodes # {}
    /\ placed \in [nodes -> SUBSET Asset]
    /\ direct_nodes \in SUBSET nodes
    /\ direct_assets \in SUBSET Asset
    /\ ungroup \in BOOLEAN
    /\ stored \in IF only_root THEN 0..Cardinality(Asset) ELSE {0}
    /\ infos = IF only_root THEN << >> ELSE Sorted(perm_nodes) \o <<Guard>>
    /\ stack = << >>
    /\ assets = [k \in perm_nodes |-> collected(k)]
    /\ amount = IF only_root THEN [k \in perm_nodes |-> stored] ELSE << >>

Top == stack[Len(stack)]

\* Faulty: what a node has itself is added to what came from below.
PopSum ==
    /\ infos # << >> /\ stack # << >> /\ ~IsBelow(Head(infos), Top)
    /\ amount' = [k \in DOMAIN amount \cup {Top} |->
                    IF k = Top THEN Cardinality(collected(Top)) + Cardinality(assets[Top])
                    ELSE amount[k]]
    /\ stack' = Front(stack)
    /\ assets' = IF Len(stack) = 1 THEN assets
                 ELSE [assets EXCEPT ![stack[Len(stack) - 1]] = @ \cup assets[Top]]
    /\ UNCHANGED <<input, infos>>

\* The top of the stack is not above the next node: nothing more will come below it.
Pop ==
    /\ infos # << >> /\ stack # << >> /\ ~IsBelow(Head(infos), Top)
    /\ amount' = [k \in DOMAIN amount \cup {Top} |->
                    IF k = Top THEN Cardinality(assets[Top]) ELSE amount[k]]
    /\ stack' = Front(stack)
    /\ assets' = IF Len(stack) = 1 THEN assets
                 ELSE [assets EXCEPT ![stack[Len(stack) - 1]] = @ \cup assets[Top]]
    /\ UNCHANGED <<input, infos>>

\* The guard is pushed too and never popped.
Push ==
    /\ infos # << >> /\ (stack # << >> => IsBelow(Head(infos), Top))
    /\ stack' = Append(stack, Head(infos))
    /\ infos' = Tail(infos)
    /\ UNCHANGED <<input, assets, amount>>

Next == Pop \/ Push

Spec == Init /\ [][Next]_vars

-----------------------------------------------------------------------------
(* Properties *)

Done == infos = << >>

TypeOK ==
    /\ assets \in [perm_nodes -> SUBSET Asset]
    /\ DOMAIN amount \subseteq perm_nodes
    /\ \A k \in DOMAIN amount : amount[k] \in 0..Cardinality(Asset)
    /\ ToSet(stack) \cup ToSet(infos) \subseteq perm_nodes \cup {Guard}

\* What the user may see at a node: all of it at or below a granted node, elsewhere the
\* assets granted by name.
Seen(n) ==
    IF n \in direct_nodes \/ has_any_ancestor_direct_permed(n) THEN placed[n]
    ELSE placed[n] \cap direct_assets

Listed(n) == n \in perm_nodes \/ has_any_ancestor_direct_permed(n)

VisibleBelow(k) == UNION {Seen(n) : n \in {n \in nodes : (n = k \/ IsBelow(n, k)) /\ Listed(n)}}

\* When the loop has ended every node that was counted shows the number of different
\* assets the user sees at and below it, also when an asset lies in several nodes or a node
\* in between is missing (the stack relies on the order of the keys and on the guard).  An
\* org root that is granted and alone shows what its row says, whether that is right or not.
AmountsAreVisible ==
    Done => /\ DOMAIN amount = perm_nodes
            /\ \A k \in perm_nodes :
                 amount[k] = IF only_root THEN stored ELSE Cardinality(VisibleBelow(k))

\* The stack is a chain of nodes, each below the one under it, and nothing that is still
\* to come lies below a node that was popped: what was counted needs no second look.
PopIsFinal ==
    /\ \A i \in 1..(Len(stack) - 1) : stack[i + 1] # Guard => IsBelow(stack[i + 1], stack[i])
    /\ \A k \in DOMAIN amount : \A i \in ToSet(infos) : ~IsBelow(i, k)

\* The tree can be opened from its roots: every existing ancestor of a node is in it, and
\* no node is listed below a granted one, whose children are shown in full anyway.
TreeIsComplete ==
    /\ \A k \in perm_nodes : get_node_ancestor_keys(k) \cap nodes \subseteq perm_nodes
    /\ \A k \in perm_nodes : get_node_ancestor_keys(k) \cap granted = {}
    /\ ~ungroup => \A n \in nodes : Seen(n) # {} => Listed(n)

=============================================================================
