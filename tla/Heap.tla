-------------------------------- MODULE Heap --------------------------------
(***************************************************************************)
(* memory_alloc and memory_free_int: one doubly linked list of blocks, in  *)
(* the order of their addresses, whose nodes come from an arena and are    *)
(* kept on a freelist when blocks are merged.  A pointer is the number of  *)
(* a node; a store through NULL goes to page zero, where nothing is.       *)
(* memory_free_int's last loop adds malloc_arena.base to addresses twice:  *)
(* it clears memory behind the arena, and is left out.                     *)
(***************************************************************************)
EXTENDS Integers, Sequences, SequencesExt

CONSTANTS
    Base, Limit,   \* of malloc_arena; a block's end is its last byte
    Sizes,         \* what is asked for
    MaxNodes,      \* bound: nodes taken from llist_arena
    Top,           \* bound: addresses, the arena's and some behind it
    OddCalls       \* bound: calls after the list has become unsound

NULL == 0
Nodes == 1 .. MaxNodes
Pointers == Nodes \cup {NULL}
Addresses == Base .. Top

ASSUME HeapAssumption ==
    /\ Base \in Nat /\ Limit \in Nat /\ Base < Limit
    /\ Top \in Nat /\ Limit < Top
    /\ Sizes \subseteq Nat \ {0}
    /\ MaxNodes \in Nat \ {0} /\ OddCalls \in Nat

VARIABLES
    node,       \* the nodes' contents
    used,       \* nodes taken from llist_arena
    root, freelist,
    merging,    \* the node that merge_free_nodes_rec is called for, or NULL
    lost,       \* no block was found and NULL was taken for one
    owned,      \* history: address -> size of what is allocated and not freed
    odd         \* history: calls since the list became unsound, in one of the two
                \* cases below; 0 if it is not

blocks == <<node, used, root, freelist>>
vars == <<blocks, merging, lost, owned, odd>>

Init ==
    /\ node = [p \in Nodes |-> [free |-> TRUE, begin |-> Base, end |-> Limit,
                                next |-> NULL, prev |-> NULL]]
    /\ used = 1 /\ root = 1 /\ freelist = NULL
    /\ merging = NULL /\ lost = FALSE
    /\ owned = <<>> /\ odd = 0

\* p->field = value
Store(m, p, field, value) ==
    IF p = NULL THEN m ELSE [m EXCEPT ![p] = [@ EXCEPT ![field] = value]]

\* the n-th node from p along next
From(p) ==
    LET nth[n \in 0 .. MaxNodes] ==
            IF n = 0 THEN p
            ELSE IF nth[n - 1] = NULL THEN NULL ELSE node[nth[n - 1]].next
    IN  nth

\* the first node from root that is in wanted; NULL if there is none, or the list
\* runs in a circle (then the loop does not end)
First(wanted) ==
    LET nth == From(root)
        hits == {n \in 0 .. MaxNodes : nth[n] \in wanted}
    IN  IF hits = {} THEN NULL ELSE nth[CHOOSE n \in hits : \A m \in hits : n <= m]

-----------------------------------------------------------------------------
\* end - begin is compared as an unsigned number
Sufficient(p, size) ==
    node[p].free /\ (node[p].end - node[p].begin >= size \/ node[p].end < node[p].begin)

FreeNode == IF freelist # NULL THEN freelist ELSE used + 1

\* splits n: the new node is the allocation, n keeps the rest
Split(n, new, size) ==
    LET begin == node[n].begin
        prev == IF n = root THEN NULL ELSE node[n].prev
        linked == Store(node, node[n].prev, "next", new)
    IN  [linked EXCEPT
            ![new] = [free |-> FALSE, begin |-> begin, end |-> begin + size, next |-> n, prev |-> prev],
            ![n] = [@ EXCEPT !.begin = begin + size + 1, !.prev = new]]

Callable == merging = NULL /\ ~lost /\ odd <= OddCalls
NextOdd == IF odd = 0 THEN 0 ELSE odd + 1

Alloc(size) ==
    LET n == First({p \in Nodes : Sufficient(p, size)})
    IN  /\ Callable
        /\ n # NULL
        /\ FreeNode \in Nodes
        /\ node[n].begin + size < Top
        /\ node' = Split(n, FreeNode, size)
        /\ IF freelist # NULL
           THEN freelist' = node[freelist].next /\ used' = used
           ELSE freelist' = freelist /\ used' = used + 1
        /\ root' = IF n = root THEN FreeNode ELSE root
        /\ owned' = [a \in DOMAIN owned \cup {node[n].begin} |->
                        IF a = node[n].begin THEN size ELSE owned[a]]
        /\ odd' = IF node[n].end - node[n].begin <= size THEN odd + 1 ELSE NextOdd
        /\ UNCHANGED <<merging, lost>>

\* the end of the memory: n is NULL, and is used
AllocFails(size) ==
    /\ Callable
    /\ First({p \in Nodes : Sufficient(p, size)}) = NULL
    /\ lost' = TRUE
    /\ UNCHANGED <<blocks, merging, owned, odd>>

\* memory_free_int, up to the merging; addr is what an allocation returned
Free(addr) ==
    LET n == First({p \in Nodes : node[p].begin = addr})
    IN  /\ Callable
        /\ addr \in DOMAIN owned
        /\ owned' = [a \in DOMAIN owned \ {addr} |-> owned[a]]
        /\ node' = Store(node, n, "free", TRUE)
        /\ merging' = n
        /\ odd' = NextOdd
        /\ UNCHANGED <<used, root, freelist, lost>>

-----------------------------------------------------------------------------
\* merge_free_nodes_rec, one call an action
FreeBefore(n) == node[n].prev # NULL /\ node[node[n].prev].free
FreeAfterUnlessLast(n) ==
    node[n].next # NULL /\ node[node[n].next].free /\ node[node[n].next].next # NULL
FreeAfter(n) == node[n].next # NULL /\ node[node[n].next].free

\* puts p at the head of the freelist
RetireUnlinked(m, p) == Store(m, freelist, "prev", p)
Retire(m, p) == Store(Store(m, p, "next", freelist), freelist, "prev", p)

\* If the block before is the root, n keeps it as its predecessor.
MergePrevious ==
    LET n == merging
        before == node[n].prev
        prev == IF before = root THEN before ELSE node[before].prev
        wide == [node EXCEPT ![n] = [@ EXCEPT !.begin = node[before].begin, !.prev = prev]]
    IN  /\ n # NULL /\ FreeBefore(n)
        /\ node' = Retire(Store(wide, prev, "next", n), before)
        /\ freelist' = before
        /\ root' = IF before = root THEN n ELSE root
        /\ odd' = IF before = root THEN odd + 1 ELSE odd
        /\ UNCHANGED <<used, merging, lost, owned>>

KeptEnd(n, after) == node[n].end
MergedEnd(n, after) == node[after].end

MergeNext ==
    LET n == merging
        after == node[n].next
        next == node[after].next
        wide == [node EXCEPT ![n] = [@ EXCEPT !.end = MergedEnd(n, after), !.next = next]]
    IN  /\ n # NULL /\ ~FreeBefore(n) /\ FreeAfter(n)
        /\ node' = Retire(Store(wide, next, "prev", n), after)
        /\ freelist' = after
        /\ UNCHANGED <<used, root, merging, lost, owned, odd>>

MergeDone ==
    /\ merging # NULL /\ ~FreeBefore(merging) /\ ~FreeAfter(merging)
    /\ merging' = NULL
    /\ UNCHANGED <<blocks, lost, owned, odd>>

Next ==
    \/ \E size \in Sizes : Alloc(size) \/ AllocFails(size)
    \/ \E addr \in Addresses : Free(addr)
    \/ MergePrevious \/ MergeNext \/ MergeDone

Spec == Init /\ [][Next]_vars

-----------------------------------------------------------------------------
Listed(p) == LET nth == From(p) IN {nth[n] : n \in 0 .. MaxNodes} \ {NULL}
Quiet == merging = NULL /\ ~lost /\ odd = 0

\* The blocks in the list cover the arena without a gap or an overlap, forwards and
\* backwards, and those in use are the ones that callers hold and have not freed:
\* unless a block was used up to its last byte (memory.c 51), or the first block of
\* the list was merged into the one after it (memory.c 87).
Tiled(list) ==
    /\ node[root].begin = Base /\ node[root].prev = NULL
    /\ \A p \in list :
        IF node[p].next = NULL THEN node[p].end = Limit
        ELSE /\ node[node[p].next].begin = node[p].end + 1
             /\ node[node[p].next].prev = p
Owned(list) ==
    /\ \A p \in list : ~node[p].free =>
          /\ node[p].begin \in DOMAIN owned
          /\ node[p].end = node[p].begin + owned[node[p].begin]
    /\ \A a \in DOMAIN owned : \E p \in list : node[p].begin = a /\ ~node[p].free
BlocksTile == Quiet => Tiled(Listed(root)) /\ Owned(Listed(root))

\* Whoever frees everything gets back one block: no free blocks stay side by side.
FreeBlocksMerge ==
    Quiet => \A p \in Listed(root) :
        node[p].free /\ node[p].next # NULL => ~node[node[p].next].free

\* "Add to freelist" (memory.c:91), to "encourage memory reuse" (memory.c:37): a
\* node is in the list of blocks or on the freelist, and there once.
NodesStayApart ==
    odd = 0 => LET nth == From(freelist) IN
        /\ merging = NULL => Listed(root) \cap Listed(freelist) = {}
        /\ \A m, n \in 0 .. MaxNodes : m < n /\ nth[m] # NULL => nth[m] # nth[n]
=============================================================================
