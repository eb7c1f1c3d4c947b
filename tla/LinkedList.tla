----------------------------- MODULE LinkedList -----------------------------
(***************************************************************************)
(* The doubly linked list of src/lib/list/list.c with its built-in cursor, *)
(* as a sequence of nodes and a node (or Null) that the cursor points at.  *)
(* A cursor that is neither Null nor a node of the list dangles: it points *)
(* at a node that List_delete has zeroed and freed.                        *)
(***************************************************************************)
EXTENDS Naturals, SequencesExt

CONSTANT Null

Dangles(items, cursor) == cursor # Null /\ cursor \notin ToSet(items)

Position(items, node) == CHOOSE i \in DOMAIN items : items[i] = node

\* The node that node->next points at.
Successor(items, node) ==
  LET i == Position(items, node)
  IN  IF i < Len(items) THEN items[i + 1] ELSE Null

\* List_append: only the first node of an empty list moves the cursor.
CursorAfterAppend(items, cursor, node) == IF items = <<>> THEN node ELSE cursor

\* List_delete: the node leaves the list.
ItemsAfterDelete(items, node) == RemoveAt(items, Position(items, node))

\* Mutant: the cursor never moves.
CursorAfterDelete_Unmoved(items, cursor, node) == cursor

\* List_delete: deleting the first node moves the cursor to the new first one,
\* wherever it stood; deleting any other node leaves it alone, even on the
\* deleted node.
CursorAfterDelete(items, cursor, node) ==
  IF items[1] = node THEN Successor(items, node) ELSE cursor

\* What this->first points at.
FirstNode(items) == IF items = <<>> THEN Null ELSE items[1]

\* What List_next may return: the node under the cursor, or Null at the end.
\* Under a dangling cursor, the zeroed data pointer (Null) or, if the memory
\* has been given to another node, that one.
NextData(items, cursor) ==
  IF Dangles(items, cursor) THEN {Null} \cup ToSet(items) ELSE {cursor}

\* Where List_next leaves the cursor after returning node: in zeroed memory the
\* next pointer is null as well.
CursorAfterNext(items, node) ==
  IF node = Null THEN Null ELSE Successor(items, node)
=============================================================================
