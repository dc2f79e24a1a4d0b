------------------------------ MODULE WebRoute ------------------------------
(* WebRoute (webapp.hpp): the tree of pages of a WebApp, the route of a path *)
(* through it, the slots that record what ':' nodes matched, and the sizes   *)
(* the compiler computes from the tree: of the slot array and of the buffer  *)
(* in which pages are constructed. A name is compared by its hash, which is  *)
(* taken to tell the names of a tree apart. A path is the sequence of its    *)
(* segments (none of them empty, which ParseNode::parse asserts).            *)
EXTENDS Naturals, Sequences, FiniteSets

CONSTANTS
    Trees,      \* sequences of nodes [name, size, kids]; size is that of the page
    Paths,      \* sequences of segments
    RootSize, ErrorSize     \* the sizes of the root's page and of the error page

VARIABLE r      \* [tree, path, found, frozen]; found is [page, size, slots]

Slot == ":"     \* the name of a node that takes any segment
Max2(a, b) == IF a > b THEN a ELSE b

----------------------------------------------------------------------------
(* CalculateSlotCountNode over the nodes from i on: the depth is that of     *)
(* node i alone, the count looks one node further; a node asks its children  *)
(* for their depth, which is that of the first of them.                      *)
RECURSIVE Depth(_, _)
Depth(nodes, i) ==
    IF i > Len(nodes) THEN 0
    ELSE Depth(nodes[i].kids, 1) + (IF nodes[i].name = Slot THEN 1 ELSE 0)

SlotCount(nodes) == IF nodes = <<>> THEN 0 ELSE Max2(Depth(nodes, 1), Depth(nodes, 2))

(* A slip: the pages of the nodes below are left out.                        *)
RECURSIVE PageSizeFlat(_, _)
PageSizeFlat(nodes, i) ==
    IF i > Len(nodes) THEN 0 ELSE Max2(PageSizeFlat(nodes, i + 1), nodes[i].size)

(* CalculateBufferSizeNode: the largest page among the nodes from i on and   *)
(* all below them. The error page is added; the root's own page is not.      *)
RECURSIVE PageSize(_, _)
PageSize(nodes, i) ==
    IF i > Len(nodes) THEN 0
    ELSE Max2(Max2(PageSize(nodes, i + 1), nodes[i].size), PageSize(nodes[i].kids, 1))

BufferSize(nodes) == ErrorSize + PageSize(nodes, 1)

----------------------------------------------------------------------------
NotFound == [page |-> "none", size |-> 0, slots |-> <<>>]

(* Folder::parse and ParseNode::parse: the path from segment k on, at the    *)
(* node whose children are nodes; i is the child tried. A ':' node takes the *)
(* segment, whatever the nodes behind it are called.                         *)
RECURSIVE Route(_, _, _, _, _, _)
Route(nodes, i, path, k, at, slots) ==
    IF k > Len(path) THEN [page |-> at.name, size |-> at.size, slots |-> slots]
    ELSE IF i > Len(nodes) THEN NotFound
    ELSE IF nodes[i].name = Slot
    THEN Route(nodes[i].kids, 1, path, k + 1, nodes[i], Append(slots, path[k]))
    ELSE IF nodes[i].name = path[k] THEN Route(nodes[i].kids, 1, path, k + 1, nodes[i], slots)
    ELSE Route(nodes, i + 1, path, k, at, slots)

RootNode == [name |-> "root", size |-> RootSize]

Init == \E t \in Trees : r = [tree |-> t, path |-> <<>>, found |-> NotFound, frozen |-> FALSE]

(* pre_route: the slots and the query string are those of the first route,   *)
(* freeze() keeps them when a redirect routes again.                         *)
PreRoute == \E p \in Paths :
    /\ ~r.frozen
    /\ r' = [r EXCEPT !.path = p, !.frozen = TRUE,
                      !.found = Route(r.tree, 1, p, 1, RootNode, <<>>)]

Redirect == \E p \in Paths :
    /\ r.frozen
    /\ r' = [r EXCEPT !.path = p,
                      !.found = [Route(r.tree, 1, p, 1, RootNode, <<>>)
                                    EXCEPT !.slots = r.found.slots]]

Next == PreRoute \/ Redirect

Spec == Init /\ [][Next]_r

----------------------------------------------------------------------------
(* The assertion of WebRoute::spawn: the slot array the compiler sized has   *)
(* room for every slot on the route to the page.                             *)
SlotsInRange == Len(r.found.slots) <= SlotCount(r.tree)

(* The buffer a WebApp allocates for its pages holds every page that a route *)
(* leads to, of whatever depth, except that of the root.                     *)
PagesFit == r.found.page \notin {"none", "root"} => r.found.size <= BufferSize(r.tree)
============================================================================
