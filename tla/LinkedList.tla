----------------------------- MODULE LinkedList -----------------------------
(***************************************************************************)
(* The list template, as ll_int instantiates it, with its nodes in blocks  *)
(* of the heap: memory_calloc gives a node the contents its block was left *)
(* with, and deleting the first or the last of several nodes leaves head   *)
(* or tail at the freed one.  The calls are followed until neither walk    *)
(* along the list can be right any more.                                   *)
(***************************************************************************)
EXTENDS Heap, FiniteSets

CONSTANTS Values,    \* what is kept
          NodeSize   \* sizeof(ll_int_node)

\* no block is at address NULL
ASSUME LinkedListAssumption == NodeSize \in Sizes /\ Base # NULL

VARIABLES
    cell,      \* the arena's memory: a list node, at the first address of its block
    start,     \* list->head and list->tail, by the pointer they are followed along
    freeing,   \* the node ll_int_free goes on with, or NULL
    items,     \* history: the nodes pushed and not deleted, in their order
    right      \* history: the pointers along which no call has spoilt the walk

list == <<cell, start, freeing, items, right>>
listVars == <<vars, list>>

Ways == {"next", "prev"}
Back(way) == IF way = "next" THEN "prev" ELSE "next"

\* kernel_main's list is on the stack, in .bss, where nothing was before.
ListInit ==
    /\ Init
    /\ cell = [a \in Addresses |-> [val |-> 0, next |-> NULL, prev |-> NULL]]
    /\ start = [way \in Ways |-> NULL]
    /\ freeing = NULL
    /\ items = <<>> /\ right = Ways

\* p->field = value
Put(c, a, field, value) == Store(c, a, field, value)

\* the addresses met from start along way, cut off when they run in a circle
Walk(way) ==
    LET met[n \in 0 .. Cardinality(Addresses)] ==
            IF n = 0 THEN (IF start[way] = NULL THEN <<>> ELSE <<start[way]>>)
            ELSE LET w == met[n - 1]
                 IN  IF Len(w) < n \/ cell[Last(w)][way] = NULL THEN w
                     ELSE Append(w, cell[Last(w)][way])
    IN  met[Cardinality(Addresses)]

\* memory_calloc zeroes the first byte of its memory, as often as it has bytes
Calloc(c, a) == Put(c, a, "val", 0)

NewNode == node[First({p \in Nodes : Sufficient(p, NodeSize)})].begin

\* the item that a push in that direction comes behind
Behind(way) == IF way = "next" THEN Last(items) ELSE Head(items)

\* history: the ways that a push of node n spoils
Spoils(n, way) ==
    IF \E w \in Ways : start[w] = NULL
    THEN {w \in Ways : cell[n][w] # NULL}
    ELSE IF cell[n][way] # NULL \/ items = <<>> THEN {way, Back(way)}
    ELSE IF Behind(way).at # start[Back(way)] THEN {way, Back(way)} ELSE {}

Linked(n, val, way) ==
    LET c == Put(Calloc(cell, n), n, "val", val)
    IN  IF \E w \in Ways : start[w] = NULL THEN c
        ELSE Put(Put(c, start[Back(way)], way, n), n, Back(way), start[Back(way)])

\* bound: either the list uses the heap or others do
Untouched == items = <<>> /\ \A a \in Addresses : cell[a].val = 0

ListCallable ==
    /\ freeing = NULL /\ right # {}
    /\ Untouched => used = 1

\* pushback goes along next, pushfront along prev
Push(val, way) ==
    LET n == NewNode
        item == [at |-> n, val |-> val]
    IN  /\ ListCallable
        /\ Alloc(NodeSize)
        /\ cell' = Linked(n, val, way)
        /\ start' = IF \E w \in Ways : start[w] = NULL THEN [w \in Ways |-> n]
                    ELSE [start EXCEPT ![Back(way)] = n]
        /\ items' = IF way = "next" THEN Append(items, item) ELSE <<item>> \o items
        /\ right' = right \ Spoils(n, way)
        /\ UNCHANGED freeing

PushFails == ListCallable /\ AllocFails(NodeSize) /\ UNCHANGED list

-----------------------------------------------------------------------------
\* memory_free of what the list takes for a node of its own
FreeBlock(a) ==
    \/ Free(a)
    \/ /\ Callable /\ a \notin DOMAIN owned
       /\ LET n == First({p \in Nodes : node[p].begin = a})
          IN  merging' = n /\ node' = Store(node, n, "free", TRUE)
       /\ odd' = NextOdd
       /\ UNCHANGED <<used, root, freelist, lost, owned>>

IsOnly(val) == start["next"] = start["prev"] /\ cell[start["next"]].val = val

Emptied == [w \in Ways |-> NULL]

UnlinkNext(c, n) == Put(c, c[n].prev, "next", c[n].next)

\* (*prev)->next = *next; (*next)->prev = *prev
Unlink(c, n) ==
    LET d == Put(c, c[n].prev, "next", c[n].next) IN Put(d, d[n].next, "prev", d[n].prev)

Without(val) ==
    LET hits == {i \in DOMAIN items : items[i].val = val}
    IN  IF hits = {} THEN items
        ELSE RemoveAt(items, CHOOSE i \in hits : \A j \in hits : i <= j)

\* Not modelled as a step: a search that runs in a circle and never ends.
Delete(val) ==
    LET met == Walk("next")
        hits == {i \in DOMAIN met : cell[met[i]].val = val}
        n == met[CHOOSE i \in hits : \A j \in hits : i <= j]
    IN  /\ ListCallable
        /\ start["next"] # NULL /\ start["prev"] # NULL
        /\ hits # {}
        /\ FreeBlock(n)
        /\ items' = Without(val)
        /\ IF IsOnly(val)
           THEN /\ start' = Emptied
                /\ UNCHANGED <<cell, right>>
           ELSE /\ cell' = Unlink(cell, n)
                /\ right' = IF \E i \in DOMAIN items : items[i].at = n
                            THEN right \ {w \in Ways : start[w] = n} ELSE {}
                /\ UNCHANGED start
        /\ UNCHANGED freeing

\* ll_int_free: n->next is read before t is freed; head and tail are kept
FreeList ==
    /\ ListCallable /\ Callable
    /\ start["next"] # NULL
    /\ freeing' = start["next"]
    /\ UNCHANGED <<vars, cell, start, items, right>>

FreeListNode ==
    /\ freeing # NULL
    /\ FreeBlock(freeing)
    /\ freeing' = cell[freeing].next
    /\ IF freeing' = NULL THEN items' = <<>> /\ right' = {} ELSE UNCHANGED <<items, right>>
    /\ UNCHANGED <<cell, start>>

OtherCall ==
    /\ Untouched
    /\ \/ \E size \in Sizes : Alloc(size) \/ AllocFails(size)
       \/ \E a \in DOMAIN owned : Free(a)
    /\ UNCHANGED list

ListNext ==
    \/ \E val \in Values, way \in Ways : Push(val, way)
    \/ PushFails
    \/ \E val \in Values : Delete(val)
    \/ FreeList \/ FreeListNode
    \/ OtherCall
    \/ (MergePrevious \/ MergeNext \/ MergeDone) /\ UNCHANGED list

ListSpec == ListInit /\ [][ListNext]_listVars

-----------------------------------------------------------------------------
Along(way) == IF way = "next" THEN items ELSE Reverse(items)

\* What was pushed and not deleted is what a walk shows, as ll_int_print's, until a
\* call spoils it: deleting the first node spoils the walk along next and deleting
\* the last the one along prev; pushing behind a deleted node, or into a block whose
\* old contents calloc left there (memory.c 71), spoils both.
WalksShowTheItems ==
    odd = 0 /\ freeing = NULL => \A way \in right :
        /\ [i \in DOMAIN Walk(way) |-> cell[Walk(way)[i]].val]
              = [i \in DOMAIN items |-> Along(way)[i].val]
        /\ ToSet(Walk(way)) \subseteq DOMAIN owned
=============================================================================
