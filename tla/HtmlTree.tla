------------------------------ MODULE HtmlTree ------------------------------
(***************************************************************************)
(* The tree of ruma-html/src/html.rs: nodes that know their parent and     *)
(* their children, and the operations that move them.                      *)
(*                                                                         *)
(* A tree is a record of three functions on nodes: parent, children (a     *)
(* sequence) and data.  Root is the html element; a node out of the tree   *)
(* has parent NoParent.                                                    *)
(***************************************************************************)
EXTENDS Integers, SequencesExt

CONSTANTS
    MaxNodes,   \* bound: nodes the parser creates
    MaxPasses   \* bound: times a document is sanitized

ASSUME TreeAssumption == MaxNodes \in Nat /\ MaxPasses \in Nat

\* A node is the parser's n-th and the k-th that was put in its place: each
\* pass may replace a node by a new one.
Nodes == (0..MaxNodes) \X (0..MaxPasses)

Root == <<0, 0>>

NoParent == <<>>

Replacement(n) == <<n[1], n[2] + 1>>

Element(name, attrs) == [kind |-> "Element", name |-> name, attrs |-> attrs]

Text == [kind |-> "Text", name |-> "", attrs |-> {}]

\* Comments and processing instructions.
Other == [kind |-> "Other", name |-> "", attrs |-> {}]

EmptyTree ==
    [parent |-> [n \in Nodes |-> NoParent],
     children |-> [n \in Nodes |-> <<>>],
     data |-> [n \in Nodes |-> IF n = Root THEN Element("html", {}) ELSE Other]]

-----------------------------------------------------------------------------

IndexIn(t, n) == CHOOSE i \in DOMAIN t.children[t.parent[n]] : t.children[t.parent[n]][i] = n

detach(t, n) ==
    IF t.parent[n] = NoParent THEN t
    ELSE [t EXCEPT !.children[t.parent[n]] = RemoveAt(@, IndexIn(t, n)), !.parent[n] = NoParent]

append_child(t, p, n) ==
    LET detached == detach(t, n)
    IN  [detached EXCEPT !.children[p] = Append(@, n), !.parent[n] = p]

\* The expect on the sibling's parent.
InsertPanics(t, sibling) == t.parent[sibling] = NoParent

\* The index is looked up after the node has left its place.
insert_before_sibling(t, n, sibling) ==
    LET detached == detach(t, n)
        p == detached.parent[sibling]
    IN  [detached EXCEPT !.children[p] = InsertAt(@, IndexIn(detached, sibling), n), !.parent[n] = p]

\* Options are sets of at most one element.
first_child(t, n) == {t.children[n][i] : i \in DOMAIN t.children[n] \cap {1}}

last_child(t, n) == {t.children[n][i] : i \in DOMAIN t.children[n] \cap {Len(t.children[n])}}

SiblingAt(t, n, offset) ==
    IF t.parent[n] = NoParent THEN {}
    ELSE LET siblings == t.children[t.parent[n]]
         IN  {siblings[i] : i \in DOMAIN siblings \cap {IndexIn(t, n) + offset}}

next_sibling(t, n) == SiblingAt(t, n, 1)

prev_sibling(t, n) == SiblingAt(t, n, -1)

\* The children of n, appended to p one after the other.
reparent_children(t, n, p) ==
    [t EXCEPT !.children = [[t.children EXCEPT ![n] = <<>>] EXCEPT ![p] = @ \o t.children[n]],
              !.parent = [m \in Nodes |-> IF m \in ToSet(t.children[n]) THEN p ELSE t.parent[m]]]

\* The new element gets the children of the old one, then its place.
replace_with_element_name(t, n, name) ==
    LET made == [t EXCEPT !.data[Replacement(n)] = [t.data[n] EXCEPT !.name = name]]
        moved == reparent_children(made, n, Replacement(n))
    IN  detach(insert_before_sibling(moved, Replacement(n), n), n)

-----------------------------------------------------------------------------

\* The nodes under n, n first, in document order.
Preorder(t, n) ==
    LET walk[todo \in Seq(Nodes)] ==
            IF todo = <<>> THEN <<>> ELSE <<Head(todo)>> \o walk[t.children[Head(todo)] \o Tail(todo)]
    IN  walk[<<n>>]

InTree(t) == ToSet(Preorder(t, Root))

\* Number of elements around each node of the tree, the root not counted.
DepthOf(t, n) ==
    LET above[m \in Nodes] == IF t.parent[m] = Root THEN 0 ELSE 1 + above[t.parent[m]]
    IN  above[n]

=============================================================================
