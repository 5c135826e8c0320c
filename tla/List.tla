-------------------------------- MODULE List --------------------------------
(***************************************************************************)
(* The kernel's linked list (kernel/data_structures/list.c) with its       *)
(* built-in iterator.                                                      *)
(*                                                                         *)
(* The operations are functions from one list to the next.  A list is its  *)
(* head, its iter_node, and the nodes in kmalloc's memory: what each holds *)
(* and which are allocated.  A freed node keeps its words until it is used *)
(* again, as it does in memory.                                            *)
(***************************************************************************)
EXTENDS Integers, Sequences, SequencesExt

CONSTANTS
    MaxNodes,       \* bound: nodes kmalloc has room for
    Elements        \* what lists hold

NIL == 0
Nodes == 1 .. MaxNodes
NoElement == "NULL"

ASSUME NodesAssumption == MaxNodes \in Nat \ {0} /\ NoElement \notin Elements

\* The image returns the list's address, so the missing return value is true.
initialize_list(l) == [l EXCEPT !.head = NIL, !.iter_node = NIL]

Unused == [head |-> NIL, iter_node |-> NIL,
           next |-> [n \in Nodes |-> NIL],
           element |-> [n \in Nodes |-> NoElement],
           allocated |-> {}]

\* The nodes of the list, in order.
Chain(l) ==
    LET after[k \in 0 .. MaxNodes] ==
          IF k = 0 THEN <<>>
          ELSE LET so_far == after[k - 1]
                   n == IF so_far = <<>> THEN l.head ELSE l.next[so_far[Len(so_far)]]
               IN  IF n = NIL THEN so_far ELSE Append(so_far, n)
    IN  after[MaxNodes]

Contents(l) == [k \in DOMAIN Chain(l) |-> l.element[Chain(l)[k]]]

\* *node_ptr = n, where node_ptr is the link to the k-th node.
Relink(l, k, n) ==
    IF k = 1 THEN [l EXCEPT !.head = n] ELSE [l EXCEPT !.next[Chain(l)[k - 1]] = n]

mutant_add_element(l, node, e) ==
    LET added == [l EXCEPT !.next[node] = l.head, !.element[node] = e, !.allocated = @ \cup {node}]
    IN  [added EXCEPT !.head = node, !.iter_node = IF l.head = NIL THEN node ELSE @]

\* At the end of the list, in a node fresh from kmalloc.
add_element(l, node, e) ==
    LET added == [l EXCEPT !.next[node] = NIL, !.element[node] = e, !.allocated = @ \cup {node}]
        linked == Relink(added, Len(Chain(l)) + 1, node)
    IN  IF l.head = NIL THEN [linked EXCEPT !.iter_node = node] ELSE linked

mutant_pop_element(l, index) ==
    IF index >= Len(Chain(l)) THEN l
    ELSE LET node == Chain(l)[index + 1] IN
         [Relink(l, index + 1, l.next[node]) EXCEPT !.allocated = @ \ {node}]

\* The element with that index is unlinked and freed, the iterator rewound.
pop_element(l, index) ==
    IF index >= Len(Chain(l)) THEN l
    ELSE LET node == Chain(l)[index + 1]
             rest == Relink(l, index + 1, l.next[node])
         IN  [rest EXCEPT !.allocated = @ \ {node}, !.iter_node = rest.head]

Popped(l, index) == IF index >= Len(Chain(l)) THEN NoElement ELSE Contents(l)[index + 1]

\* The first such element is unlinked; its node stays allocated, and the
\* iterator where it is.
remove_element(l, e) ==
    LET found == SelectInSeq(Contents(l), LAMBDA x : x = e) IN
    IF found = 0 THEN l ELSE Relink(l, found, l.next[Chain(l)[found]])

mutant_iter_list(l) ==
    IF l.iter_node = NIL THEN [l EXCEPT !.iter_node = l.head]
    ELSE [l EXCEPT !.iter_node = IF l.next[@] = NIL THEN l.head ELSE l.next[@]]

\* One call of the iterator; at the end it answers NULL and rewinds.
iter_list(l) ==
    [l EXCEPT !.iter_node = IF @ = NIL THEN l.head ELSE l.next[@]]

is_empty(l) == l.head = NIL

\* Every node in the list is freed; head and iter_node keep pointing there.
free_list(l) == [l EXCEPT !.allocated = @ \ ToSet(Chain(l))]

-----------------------------------------------------------------------------
(* A user of one list. *)

VARIABLES
    list,       \* the list
    pos,        \* elements the iterator has returned since it was rewound (bookkeeping)
    stale,      \* the element it stood on was removed since (bookkeeping)
    model       \* what the list should hold (bookkeeping)

lvars == <<list, pos, stale, model>>

LInit == list = initialize_list(Unused) /\ pos = 0 /\ stale = FALSE /\ model = <<>>

ListAdd == \E e \in Elements, node \in Nodes \ list.allocated :
    /\ list' = add_element(list, node, e)
    /\ model' = Append(model, e)
    /\ pos' = IF is_empty(list) THEN 0 ELSE pos
    /\ stale' = (stale /\ ~is_empty(list))

ListPop == \E index \in 0 .. MaxNodes :
    /\ list' = pop_element(list, index)
    /\ IF index >= Len(model) THEN UNCHANGED <<model, pos, stale>>
       ELSE model' = RemoveAt(model, index + 1) /\ pos' = 0 /\ stale' = FALSE

ListRemove == \E e \in Elements :
    LET found == SelectInSeq(model, LAMBDA x : x = e) IN
    /\ list' = remove_element(list, e)
    /\ model' = IF found = 0 THEN model ELSE RemoveAt(model, found)
    /\ pos' = IF found # 0 /\ found <= pos THEN pos - 1 ELSE pos
    /\ stale' = (stale \/ (found = pos + 1 /\ list.iter_node # NIL))

ListIterate ==
    /\ list' = iter_list(list)
    /\ IF list.iter_node = NIL THEN pos' = 0 /\ stale' = FALSE
       ELSE pos' = pos + 1 /\ UNCHANGED stale
    /\ UNCHANGED model

ListStep == ListAdd \/ ListPop \/ ListRemove \/ ListIterate

\* The list holds what was added, popped and removed, in order: the links
\* and the sequence of calls agree.
ContentsRight == Contents(list) = model

\* No link, and not the iterator, leads to memory that was given back to
\* kmalloc, also after elements were removed under the iterator.
NoDanglingNode ==
    /\ ToSet(Chain(list)) \subseteq list.allocated
    /\ list.iter_node \in {NIL} \cup list.allocated

\* The iterator has returned just the elements before its place, or has come
\* to the end, unless the very element it stood on was removed since it was
\* last rewound.
IteratorInPlace ==
    ~stale /\ list.iter_node # NIL =>
        pos < Len(Chain(list)) /\ list.iter_node = Chain(list)[pos + 1]
=============================================================================
