--------------------------- MODULE ExpressionTree ---------------------------
(***************************************************************************)
(* The expression tree of belt.pp/parser.hpp and what places a token in it *)
(* (parse_helper).  The nodes lie in memory in the order they were made    *)
(* and are linked by addresses: an operator to its last child, a child to  *)
(* the peer before it.  node_address is the path from the root to the node *)
(* that was placed last; only the nodes on it can still grow.              *)
(***************************************************************************)
EXTENDS Lexers

None == 0    \* T_size_type(-1); the addresses of the model begin with 1

EmptyTree == [node_address |-> <<>>, memory |-> <<>>, expression_string |-> <<>>]

OperatorNode(o) ==
    [rtt |-> o.lexer, union_is_value |-> FALSE, priority |-> o.priority, right |-> o.right,
     property |-> o.property, children_count |-> 0, last_child |-> None,
     previous_peer |-> None, start |-> 0, size |-> 0]

ValueNode(lexer, start, size) ==
    [rtt |-> lexer, union_is_value |-> TRUE, priority |-> 0, right |-> 0,
     property |-> 0, children_count |-> 0, last_child |-> None,
     previous_peer |-> None, start |-> start, size |-> size]

PropertyCheck(first, second) ==
    first # 0 /\ second % first = 0 /\ first * first >= second

PropertyCombine(first, second) == second \div first

PropertyFinal(property) == property \in {0, 1, 2}

Complete(node) == node.union_is_value \/ (node.right = 0 /\ PropertyFinal(node.property))

Depth(tree) == Len(tree.node_address)
Item2(tree, i) == tree.memory[tree.node_address[i]]

\* expression_tree::complete(): the nodes of the path, and no others.
TreeComplete(tree) ==
    /\ tree.node_address # <<>>
    /\ \A i \in 1..Depth(tree) : Complete(Item2(tree, i))

\* expression_tree::child(), from the last child back along its peers.
Child(tree, address, index) ==
    LET node == tree.memory[address]
        back[n \in 0..node.children_count] ==
            IF n = 0 THEN node.last_child ELSE tree.memory[back[n - 1]].previous_peer
    IN  back[node.children_count - index]

Children(tree, address) ==
    [i \in 1..tree.memory[address].children_count |-> Child(tree, address, i)]

\* The text of a value.
WordOf(tree, address) ==
    LET node == tree.memory[address]
    IN  SubSeq(tree.expression_string, node.start + 1, node.start + node.size)

\* expression_tree::dump(), as a term instead of indented lines.
Dump(tree) ==
    LET term[a \in 1..Len(tree.memory)] ==
            LET node == tree.memory[a] IN
            IF node.union_is_value THEN <<WordOf(tree, a)>>
            ELSE <<node.rtt, node.property>>
                 \o [i \in 1..node.children_count |-> term[Child(tree, a, i)]]
    IN  term[Last(tree.node_address)]

-----------------------------------------------------------------------------
(* parse_helper: act is the set with the operator to be placed, the one    *)
(* read or the default one before a value, or empty.                       *)

Lowest(indexes) == IF indexes = {} THEN 0 ELSE Max(indexes)

\* Variant: an operator of the same priority stops the scan.
ScanUpToEqual(tree, act) ==
    Lowest({i \in 1..Depth(tree) :
                LET node == Item2(tree, i) IN
                \/ ~Complete(node)
                \/ ~node.union_is_value /\ \E o \in act : node.priority <= o.priority})

\* The first scan up the path.
ScanUp(tree, act) ==
    Lowest({i \in 1..Depth(tree) :
                LET node == Item2(tree, i) IN
                \/ ~Complete(node)
                \/ ~node.union_is_value /\ \E o \in act : node.priority < o.priority})

\* With an operator: back to the child, then to the enclosing operator of the
\* same kind if that is the first one that still needs something.
Current(tree, act) ==
    LET top   == ScanUp(tree, act)
        child == IF top = Depth(tree) THEN top ELSE top + 1
        open  == Lowest({i \in 1..child : ~Complete(Item2(tree, i))})
    IN  IF act = {} THEN top
        ELSE IF open # 0 /\ \E o \in act : Item2(tree, open).rtt = o.rtt THEN open
        ELSE child

\* fix_the_same_possible
SameAgain(tree, i, o) ==
    LET node == Item2(tree, i)
    IN  node.rtt = o.rtt /\ ~node.union_is_value /\ PropertyCheck(node.property, o.property)

\* The operator at i goes on: another argument, or the closing half.
Extend(tree, i, o) ==
    [tree EXCEPT
        !.node_address = SubSeq(@, 1, i),
        !.memory[tree.node_address[i]].right = o.right,
        !.memory[tree.node_address[i]].property = PropertyCombine(@, o.property)]

\* Variant: the node keeps the peer it had.
InsertKeepsPeer(tree, i, o) ==
    LET old   == tree.node_address[i]
        new   == Len(tree.memory) + 1
        node  == [o EXCEPT !.last_child = old, !.children_count = 1,
                           !.previous_peer = tree.memory[old].previous_peer]
        above == IF i = 1 THEN tree.memory
                 ELSE [tree.memory EXCEPT ![tree.node_address[i - 1]].last_child = new]
    IN  [tree EXCEPT !.node_address = Append(SubSeq(@, 1, i - 1), new),
                     !.memory = Append(above, node)]

\* A new operator takes the place of the node at i, which becomes its child.
Insert(tree, i, o) ==
    LET old   == tree.node_address[i]
        new   == Len(tree.memory) + 1
        node  == [o EXCEPT !.last_child = old, !.children_count = 1,
                           !.previous_peer = tree.memory[old].previous_peer]
        freed == [tree.memory EXCEPT ![old].previous_peer = None]
        above == IF i = 1 THEN freed
                 ELSE [freed EXCEPT ![tree.node_address[i - 1]].last_child = new]
    IN  [tree EXCEPT !.node_address = Append(SubSeq(@, 1, i - 1), new),
                     !.memory = Append(above, node)]

\* The token becomes the next child of the operator at i.
AppendChild(tree, i, node) ==
    LET parent == tree.node_address[i]
        new    == Len(tree.memory) + 1
        child  == [node EXCEPT !.previous_peer = tree.memory[parent].last_child]
        grown  == [tree.memory EXCEPT ![parent].last_child = new,
                                      ![parent].children_count = @ + 1,
                                      ![parent].right = @ - 1]
    IN  [tree EXCEPT !.node_address = Append(SubSeq(@, 1, i), new),
                     !.memory = Append(grown, child)]

\* The first half of parse_helper, for the one member of act.
PlaceOperator(tree, i, o) ==
    IF SameAgain(tree, i, o) THEN [success |-> TRUE, tree |-> Extend(tree, i, o)]
    ELSE IF Complete(Item2(tree, i)) THEN [success |-> TRUE, tree |-> Insert(tree, i, o)]
    ELSE [success |-> FALSE, tree |-> tree]

PlaceValue(placed, i, node) ==
    IF i # 0 /\ Item2(placed.tree, i).right > 0
    THEN [success |-> TRUE, tree |-> AppendChild(placed.tree, i, node)]
    ELSE placed

parse_helper(tree, node, place, default) ==
    LET act    == IF place = "operator" THEN {node} ELSE {OperatorNode(o) : o \in default}
        i      == Current(tree, act)
        placed == IF act = {} THEN [success |-> FALSE, tree |-> tree]
                  ELSE PlaceOperator(tree, i, CHOOSE o \in act : TRUE)
    IN  IF place = "discard" THEN [success |-> TRUE, tree |-> tree]
        ELSE IF tree.node_address = <<>>
        THEN IF place = "operator" THEN [success |-> FALSE, tree |-> tree]
             ELSE [success |-> TRUE,
                   tree |-> [tree EXCEPT !.node_address = <<1>>, !.memory = Append(@, node)]]
        ELSE IF place = "operator" THEN placed ELSE PlaceValue(placed, i, node)
=============================================================================
