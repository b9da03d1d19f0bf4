------------------------------ MODULE Sanitizer ------------------------------
(***************************************************************************)
(* Parsing a document and cleaning it in place: ruma-html/src/html.rs and  *)
(* sanitizer_config/clean.rs.                                              *)
(*                                                                         *)
(* The parser (html5ever, external) builds the tree through the TreeSink   *)
(* functions.  clean_node then walks it recursively while it moves, drops  *)
(* and replaces the nodes it walks on: the call stack is explicit here,    *)
(* and every frame holds the node its iterator will yield next.            *)
(*                                                                         *)
(* A configuration is a record.  A list of the user is a set of at most    *)
(* one [override, content]; content is a set of tuples that begin with the *)
(* element they are about.  An attribute's value is what the sanitizer     *)
(* looks at, its URI scheme and its classes.                               *)
(***************************************************************************)
EXTENDS HtmlTree, Lists, FiniteSetsExt

CONSTANTS
    Configs,    \* configurations a document is cleaned with
    Tags,       \* per configuration, the data of the nodes the parser creates
    Efforts,    \* bound: pairs of the nodes created and the moves made while parsing
    AttrOrder,  \* attribute names, in the order of the BTreeSet
    WildMatch   \* pairs of a class pattern and a class that it matches (wildmatch, external)

\* An attribute; the words of a class attribute are its classes.
IsAttr(a) ==
    /\ a = [name |-> a.name, scheme |-> a.scheme, classes |-> a.classes]
    /\ a.classes \in Seq(ToSet(a.classes))

ASSUME HtmlAssumption ==
    /\ \A e \in Efforts : e[1] \in 0..MaxNodes /\ e[2] \in Nat
    /\ \A c \in Configs : c.max_depth \subseteq Nat
    /\ \A c \in Configs : \A d \in Tags[c] : \A a \in d.attrs : IsAttr(a)
    /\ \A c \in Configs : \A d \in Tags[c] : d \in {Text, Other} \/ d = Element(d.name, d.attrs)

VARIABLES
    phase,      \* "parse", "clean", "done" or "panicked"
    config,
    effort,     \* what is left of the parser's bound
    tree,
    stack,      \* frames of clean_node, the outermost first
    passes,
    visited,    \* ghost: the nodes the pass has entered, in order
    before,     \* ghost: the tree the pass began with
    first       \* ghost: the tree the first pass left

vars == <<phase, config, effort, tree, stack, passes, visited, before, first>>

-----------------------------------------------------------------------------

ALLOWED_ELEMENTS_STRICT ==
    {"del", "h1", "h2", "h3", "h4", "h5", "h6", "blockquote", "p", "a", "ul", "ol", "sup", "sub",
     "li", "b", "i", "u", "strong", "em", "s", "code", "hr", "br", "div", "table", "thead", "tbody",
     "tr", "th", "td", "caption", "pre", "span", "img", "details", "summary", "mx-reply"}

DEPRECATED_ELEMENTS == {<<"font", "span">>, <<"strike", "s">>}

ALLOWED_ATTRIBUTES_STRICT ==
    ({"span"} \X {"data-mx-bg-color", "data-mx-color", "data-mx-spoiler", "data-mx-maths"})
    \cup ({"a"} \X {"target", "href"})
    \cup ({"img"} \X {"width", "height", "alt", "title", "src"})
    \cup {<<"ol", "start">>, <<"code", "class">>, <<"div", "data-mx-maths">>}

DEPRECATED_ATTRS == {<<"font", "color", "data-mx-color">>}

ALLOWED_SCHEMES_STRICT ==
    {<<"a", "href", {"http", "https", "ftp", "mailto", "magnet"}>>, <<"img", "src", {"mxc"}>>}

ALLOWED_SCHEMES_COMPAT == {<<"a", "href", {"matrix"}>>}

ALLOWED_CLASSES_STRICT == {<<"code", "language-*">>}

MAX_DEPTH_STRICT == 100

use_strict(cfg) == cfg.mode # "none"

use_compat(cfg) == cfg.mode = "compat"

max_depth_value(cfg) ==
    IF cfg.max_depth # {} THEN cfg.max_depth ELSE IF use_strict(cfg) THEN {MAX_DEPTH_STRICT} ELSE {}

Content(list) == UNION {l.content : l \in list}

IsOverride(list) == \E l \in list : l.override

\* The tables of a mode add to a list that does not override them.
ModeContent(cfg, list, table) == IF use_strict(cfg) /\ ~IsOverride(list) THEN table ELSE {}

Whitelists(cfg, list) == list # {} \/ use_strict(cfg)

OrElse(option, other) == IF option # {} THEN option ELSE other

-----------------------------------------------------------------------------

\* Both replacements go by the name the element was parsed with.
ReplacedAttrs(cfg, data) ==
    LET renamed(table, a) == {r[3] : r \in {x \in table : x[1] = data.name /\ x[2] = a.name}}
        names(a) == OrElse(renamed(Content(cfg.replace_attrs), a),
                        renamed(ModeContent(cfg, cfg.replace_attrs, DEPRECATED_ATTRS), a))
    IN  {IF names(a) = {} THEN a ELSE [a EXCEPT !.name = CHOOSE x \in names(a) : TRUE] : a \in data.attrs}

ElementReplacement(cfg, data) ==
    LET renamed(table) == {r[2] : r \in {x \in table : x[1] = data.name}}
    IN  IF data.kind # "Element" THEN {}
        ELSE OrElse(renamed(Content(cfg.replace_elements)),
                        renamed(ModeContent(cfg, cfg.replace_elements, DEPRECATED_ELEMENTS)))

Position(a) == CHOOSE i \in DOMAIN AttrOrder : AttrOrder[i] = a.name

\* The schemes listed for an attribute, one set for each table that has it.
SchemeLists(cfg, name, a) ==
    {s[3] : s \in {x \in Content(cfg.allow_schemes)
                         \cup ModeContent(cfg, cfg.allow_schemes, ALLOWED_SCHEMES_STRICT)
                         \cup (IF use_compat(cfg)
                               THEN ModeContent(cfg, cfg.allow_schemes, ALLOWED_SCHEMES_COMPAT)
                               ELSE {}) : x[1] = name /\ x[2] = a.name}}

DeniedScheme(cfg, data) ==
    \E a \in data.attrs : \E d \in cfg.deny_schemes : d[1] = data.name /\ d[2] = a.name /\ a.scheme \in d[3]

\* The loop ends at the first attribute that has no scheme list.
ForbiddenScheme(cfg, data) ==
    /\ Whitelists(cfg, cfg.allow_schemes)
    /\ \E a \in data.attrs :
           /\ SchemeLists(cfg, data.name, a) # {}
           /\ a.scheme \notin UNION SchemeLists(cfg, data.name, a)
           /\ \A b \in data.attrs : Position(b) < Position(a) => SchemeLists(cfg, data.name, b) # {}

AllowedName(cfg, name) ==
    Whitelists(cfg, cfg.allow_elements) =>
        name \in Content(cfg.allow_elements) \cup ModeContent(cfg, cfg.allow_elements, ALLOWED_ELEMENTS_STRICT)

TooDeep(cfg, depth) == \E max \in max_depth_value(cfg) : depth >= max

node_action(cfg, data, depth) ==
    IF data.kind = "Text" THEN "None"
    ELSE IF \/ data.kind = "Other"
            \/ data.name \in cfg.remove_elements
            \/ cfg.remove_reply_fallback /\ data.name = "mx-reply"
            \/ TooDeep(cfg, depth)
         THEN "Remove"
    ELSE IF \/ data.name \in cfg.ignore_elements
            \/ ~AllowedName(cfg, data.name)
            \/ DeniedScheme(cfg, data)
            \/ ForbiddenScheme(cfg, data)
         THEN "Ignore"
    ELSE "None"

AllowedAttr(cfg, name, a) ==
    /\ <<name, a.name>> \notin cfg.remove_attrs
    /\ Whitelists(cfg, cfg.allow_attrs) =>
           <<name, a.name>> \in Content(cfg.allow_attrs)
                                \cup ModeContent(cfg, cfg.allow_attrs, ALLOWED_ATTRIBUTES_STRICT)

Matched(table, name, class) == \E x \in table : x[1] = name /\ <<x[2], class>> \in WildMatch

AllowedClass(cfg, name, class) ==
    /\ ~Matched(cfg.remove_classes, name, class)
    /\ Whitelists(cfg, cfg.allow_classes) =>
           Matched(Content(cfg.allow_classes) \cup ModeContent(cfg, cfg.allow_classes, ALLOWED_CLASSES_STRICT),
                   name, class)

\* A class attribute goes when its last class does, an empty one stays.
CleanClasses(cfg, name, a) ==
    [a EXCEPT !.classes = retain(@, {c \in ToSet(@) : AllowedClass(cfg, name, c)})]

clean_element_attributes(cfg, data) ==
    LET allowed == {a \in data.attrs : AllowedAttr(cfg, data.name, a)}
        emptied(a) == a.classes # <<>> /\ CleanClasses(cfg, data.name, a).classes = <<>>
    IN  [data EXCEPT !.attrs =
            {a \in allowed : a.name # "class"}
            \cup {CleanClasses(cfg, data.name, a) : a \in {b \in allowed : b.name = "class" /\ ~emptied(b)}}]

-----------------------------------------------------------------------------

\* The new tree, and the node that clean_node goes on with.
apply_replacements(cfg, t, n) ==
    LET u == IF t.data[n].kind = "Element"
             THEN [t EXCEPT !.data[n].attrs = ReplacedAttrs(cfg, t.data[n])]
             ELSE t
        names == ElementReplacement(cfg, t.data[n])
    IN  IF names = {} THEN [tree |-> u, node |-> n]
        ELSE [tree |-> replace_with_element_name(u, n, CHOOSE x \in names : TRUE), node |-> Replacement(n)]

Top == Last(stack)

Child == CHOOSE n \in Top.next : TRUE

\* A child of an ignored node moves before that node.
Moved == IF Top.action = "Ignore" THEN insert_before_sibling(tree, Child, Top.node) ELSE tree

Advanced_Skip == [stack EXCEPT ![Len(stack)].next = UNION {next_sibling(tree, n) : n \in next_sibling(tree, Child)}]

Advanced_Late == [stack EXCEPT ![Len(stack)].next = next_sibling(Moved, Child)]

\* The iterator takes the child's next sibling before it yields the child.
Advanced == [stack EXCEPT ![Len(stack)].next = next_sibling(tree, Child)]

\* clean_node up to the loop over the children.
Enter ==
    LET depth == Top.depth + 1
        replaced == apply_replacements(config, Moved, Child)
        action == node_action(config, replaced.tree.data[replaced.node], depth)
        children == IF action = "Remove" THEN {} ELSE first_child(replaced.tree, replaced.node)
    IN  /\ tree' = replaced.tree
        /\ stack' = Append(Advanced, [node |-> replaced.node, action |-> action, depth |-> depth, next |-> children])

-----------------------------------------------------------------------------

Created == (1..effort.created) \X {0}

\* The elements the parser has open: those its last node is under.
Open == {n \in (Created \cup {Root}) \cap InTree(tree) :
            /\ tree.data[n].kind = "Element"
            /\ Last(Preorder(tree, Root)) \in ToSet(Preorder(tree, n))}

Fresh == <<effort.created + 1, 0>>

With(data) == [tree EXCEPT !.data[Fresh] = data]

Parsing(created, moves) ==
    /\ phase = "parse"
    /\ created <= effort.nodes - effort.created
    /\ moves <= effort.moves
    /\ effort' = [effort EXCEPT !.created = @ + created, !.moves = @ - moves]
    /\ UNCHANGED <<phase, config, stack, passes, visited, before, first>>

IsText(option) == \E n \in option : tree.data[n].kind = "Text"

\* append with a node that create_element or create_comment made.
AppendNode(p, data) == Parsing(1, 0) /\ tree' = append_child(With(data), p, Fresh)

\* append with text: text at the end of the parent takes it in.
AppendText(p) ==
    /\ Text \in Tags[config]
    /\ IF IsText(last_child(tree, p))
       THEN Parsing(0, 1) /\ tree' = tree
       ELSE Parsing(1, 0) /\ tree' = append_child(With(Text), p, Fresh)

\* append_based_on_parent_node, the only caller of append_before_sibling.
AppendBasedOnParent(element, prev, data) ==
    /\ Parsing(1, 1)
    /\ IF tree.parent[element] = NoParent
       THEN tree' = append_child(With(data), prev, Fresh)
       ELSE tree' = insert_before_sibling(With(data), Fresh, element)

TextBasedOnParent(element, prev) ==
    /\ Text \in Tags[config]
    /\ IF tree.parent[element] = NoParent
       THEN IF IsText(last_child(tree, prev))
            THEN Parsing(0, 1) /\ tree' = tree
            ELSE Parsing(1, 1) /\ tree' = append_child(With(Text), prev, Fresh)
       ELSE IF IsText(prev_sibling(tree, element))
            THEN Parsing(0, 1) /\ tree' = tree
            ELSE Parsing(1, 1) /\ tree' = insert_before_sibling(With(Text), Fresh, element)

RemoveFromParent(n) == Parsing(0, 1) /\ tree' = detach(tree, n)

\* The parser never moves nodes under themselves.
ReparentChildren(n, p) ==
    /\ p \notin ToSet(Preorder(tree, n))
    /\ tree' = reparent_children(tree, n, p)
    /\ Parsing(0, 1)

MoveNode(n, p) ==
    /\ p \notin ToSet(Preorder(tree, n))
    /\ tree' = append_child(tree, p, n)
    /\ Parsing(0, 1)

Elements == {n \in Created : tree.data[n].kind = "Element"}

Parse ==
    \/ \E p \in Open, data \in Tags[config] \ {Text} : AppendNode(p, data)
    \/ \E p \in Open : AppendText(p)
    \/ \E e \in Elements, p \in Open, data \in Tags[config] \ {Text} : AppendBasedOnParent(e, p, data)
    \/ \E e \in Elements, p \in Open : TextBasedOnParent(e, p)
    \/ \E n \in Created : RemoveFromParent(n)
    \/ \E n \in Elements, p \in Elements : ReparentChildren(n, p)
    \/ \E n \in Created, p \in Elements \cup {Root} : MoveNode(n, p)

-----------------------------------------------------------------------------

\* sanitize_with: the loop over the children of the root.
SanitizeWith ==
    /\ phase \in {"parse", "done"}
    /\ passes < MaxPasses
    /\ phase' = "clean"
    /\ passes' = passes + 1
    /\ stack' = <<[node |-> Root, action |-> "None", depth |-> -1, next |-> first_child(tree, Root)]>>
    /\ visited' = <<>>
    /\ before' = tree
    /\ effort' = [nodes |-> 0, moves |-> 0, created |-> 0]
    /\ UNCHANGED <<config, tree, first>>

\* One turn of the loop over a node's children.
Visit ==
    /\ phase = "clean"
    /\ Top.next # {}
    /\ IF Top.action = "Ignore" /\ InsertPanics(tree, Top.node)
       THEN phase' = "panicked" /\ UNCHANGED <<tree, stack, visited>>
       ELSE phase' = phase /\ visited' = Append(visited, Child) /\ Enter
    /\ UNCHANGED <<config, effort, passes, before, first>>

\* Bug: an ignored node stays where it was.
Left_Attached ==
    IF Top.action = "Remove" THEN detach(tree, Top.node)
    ELSE IF tree.data[Top.node].kind = "Element"
    THEN [tree EXCEPT !.data[Top.node] = clean_element_attributes(config, @)]
    ELSE tree

Left ==
    IF Top.action # "None" THEN detach(tree, Top.node)
    ELSE IF tree.data[Top.node].kind = "Element"
    THEN [tree EXCEPT !.data[Top.node] = clean_element_attributes(config, @)]
    ELSE tree

\* The end of clean_node.
Leave ==
    /\ phase = "clean"
    /\ Top.next = {}
    /\ Len(stack) > 1
    /\ stack' = Front(stack)
    /\ tree' = Left
    /\ UNCHANGED <<phase, config, effort, passes, visited, before, first>>

\* clean has no child of the root left.
Finish ==
    /\ phase = "clean"
    /\ Top.next = {}
    /\ Len(stack) = 1
    /\ phase' = "done"
    /\ stack' = <<>>
    /\ first' = IF passes = 1 THEN tree ELSE first
    /\ UNCHANGED <<config, effort, tree, passes, visited, before>>

Init ==
    /\ phase = "parse"
    /\ config \in Configs
    /\ effort \in {[nodes |-> e[1], moves |-> e[2], created |-> 0] : e \in Efforts}
    /\ tree = EmptyTree
    /\ stack = <<>>
    /\ passes = 0
    /\ visited = <<>>
    /\ before = EmptyTree
    /\ first = EmptyTree

Next == Parse \/ SanitizeWith \/ Visit \/ Leave \/ Finish

Spec == Init /\ [][Next]_vars

-----------------------------------------------------------------------------

Frames == [node : Nodes, action : {"None", "Ignore", "Remove"}, depth : Nat \cup {-1}, next : SUBSET Nodes]

TreeTypeOK(t) ==
    /\ t.parent \in [Nodes -> Nodes \cup {NoParent}]
    /\ \A n \in Nodes : t.children[n] \in Seq(Nodes)
    /\ \A n \in Nodes : t.data[n].kind \in {"Element", "Text", "Other"}

\* Type correctness; at most one node is pending in every frame.
HtmlTypeOK ==
    /\ phase \in {"parse", "clean", "done", "panicked"}
    /\ config \in Configs
    /\ passes \in 0..MaxPasses
    /\ TreeTypeOK(tree) /\ TreeTypeOK(before) /\ TreeTypeOK(first)
    /\ stack \in Seq(Frames)
    /\ \A i \in DOMAIN stack : Cardinality(stack[i].next) <= 1

\* Parents and children agree at every step of the parser and of the walk:
\* a node is once among the children of its parent and of no other, so the
\* expects of parent_and_index and insert_before_sibling never fail, and the
\* sibling an iterator has put aside is still a child of the node it walks.
\* No pass enters a node twice, although it moves and replaces the nodes it
\* walks on, so the recursion ends.
TreeConsistent ==
    /\ HtmlTypeOK
    /\ phase # "panicked"
    /\ \A p \in Nodes : IsInjective(tree.children[p])
    /\ \A p, n \in Nodes : tree.parent[n] = p <=> n \in ToSet(tree.children[p])
    /\ \A i \in DOMAIN stack : stack[i].next \subseteq ToSet(tree.children[stack[i].node])
    /\ IsInjective(visited)

\* What clean_node should make of the tree it is given, as a function of that
\* tree: nothing of a removed node, the children of an ignored one in its
\* place, and any other node with the replacements applied.
Replaced(n) ==
    LET data == before.data[n]
        names == ElementReplacement(config, data)
        renamed == IF names = {} THEN data ELSE [data EXCEPT !.name = CHOOSE x \in names : TRUE]
    IN  IF data.kind = "Element" THEN [renamed EXCEPT !.attrs = ReplacedAttrs(config, data)] ELSE data

Handle(n) == IF ElementReplacement(config, before.data[n]) = {} THEN n ELSE Replacement(n)

ExpectedChildren(p) ==
    LET verdict(n) == node_action(config, Replaced(n), DepthOf(before, n))
        survivors[todo \in Seq(Nodes)] ==
            IF todo = <<>> THEN <<>>
            ELSE CASE verdict(Head(todo)) = "Remove" -> survivors[Tail(todo)]
                   [] verdict(Head(todo)) = "Ignore" -> survivors[before.children[Head(todo)] \o Tail(todo)]
                   [] verdict(Head(todo)) = "None" -> <<Handle(Head(todo))>> \o survivors[Tail(todo)]
    IN  survivors[before.children[p]]

ExpectedData(n) ==
    IF n # Root /\ before.data[n].kind = "Element"
    THEN clean_element_attributes(config, Replaced(n))
    ELSE before.data[n]

\* Cleaning in place while walking gives what the recursive definition on the
\* tree before the walk gives: no node is skipped, reordered or judged at
\* another depth because its siblings or its parents moved.  The walk enters
\* the nodes in the order of the document it was given.  The verdict on a single
\* node is node_action's in both; OnlyAllowedSchemesLeft judges it.
ResultAsSpecified ==
    phase = "done" =>
        /\ \A m \in InTree(tree) :
              LET n == IF m \in InTree(before) THEN m ELSE <<m[1], m[2] - 1>>
              IN  /\ tree.children[m] = ExpectedChildren(n)
                  /\ tree.data[m] = ExpectedData(n)
        /\ LET place(n) == CHOOSE i \in DOMAIN Preorder(before, Root) : Preorder(before, Root)[i] = n
           IN  \A i \in 2..Len(visited) : place(visited[i - 1]) < place(visited[i])

\* The documentation of allow_schemes: "If a scheme is not allowed, it is denied.
\* If a scheme is denied, its element is ignored".  An element that is left has,
\* in attributes with a list of schemes, schemes of the list only.  The code does
\* not do that, and TLC refutes it: the loop over the attributes ends at the first
\* one without a list (clean.rs 297-303).
OnlyAllowedSchemesLeft ==
    phase = "done" /\ Whitelists(config, config.allow_schemes) =>
        \A n \in {m \in InTree(tree) : tree.data[m].kind = "Element"} :
        \A a \in tree.data[n].attrs :
            LET lists == SchemeLists(config, tree.data[n].name, a)
            IN  lists # {} => a.scheme \in UNION lists

\* Cleaning a document again with the same configuration changes nothing, so
\* what the sanitizer leaves is clean by its own rules.  Lists of replacements
\* may chain, and elements whose scheme check ended early, which the second
\* pass would meet, are exempt.
CleaningIsIdempotent ==
    (/\ phase = "done" /\ passes = 2
     /\ config.replace_elements = {} /\ config.replace_attrs = {}
     /\ \A n \in ToSet(visited) : ~ForbiddenScheme(config, first.data[n]))
    => tree = first

=============================================================================
