------------------------------ MODULE AstPool -------------------------------
(***************************************************************************)
(* The tree pool of the Subpython parser (lab04, ast.c).  A pool is a      *)
(* sequence of pages, the current one first; a page has room for a number  *)
(* of bytes and gives them out one after the other, and nothing is given   *)
(* back until the whole pool is freed.                                     *)
(***************************************************************************)
EXTENDS Integers, Sequences

CONSTANT AST_POOL_PGSIZE  \* the room of a page, unless one allocation needs more

\* Every struct of the tree fits into a page.
ASSUME PageAssumption == AST_POOL_PGSIZE \in Nat /\ AST_POOL_PGSIZE >= 32

\* ast_create_pool.
EmptyPages == <<>>

NewPage(size) ==
  [room |-> IF size > AST_POOL_PGSIZE THEN size ELSE AST_POOL_PGSIZE, offset |-> size]

\* The current page is said to have room for size bytes.  The room left is
\* unsigned: a page filled beyond AST_POOL_PGSIZE seems to have no end.
Fits(page, size) == AST_POOL_PGSIZE < page.offset \/ AST_POOL_PGSIZE - page.offset >= size

\* ast_pool_alloc: a page for a large allocation goes behind the current one.
Allocated(pages, size) ==
  IF pages # <<>> /\ Fits(Head(pages), size)
  THEN <<[Head(pages) EXCEPT !.offset = @ + size]>> \o Tail(pages)
  ELSE IF pages # <<>> /\ size > AST_POOL_PGSIZE
  THEN <<Head(pages), NewPage(size)>> \o Tail(pages)
  ELSE <<NewPage(size)>> \o pages

\* One allocation after the other.
AllocatedAll(pages, sizes) ==
  LET after[i \in 0..Len(sizes)] ==
        IF i = 0 THEN pages ELSE Allocated(after[i - 1], sizes[i])
  IN after[Len(sizes)]

----------------------------------------------------------------------------
\* The sizes of the structs of ast.h.
ListSize == 16
EntrySize == 32
NodeSize(node) ==
  CASE node = "EXPR_LITERAL_SINGLETON" -> 8
    [] node \in {"STMT_ASSIGN", "STMT_WHILE", "EXPR_LITERAL_PAIR", "EXPR_BUILTIN",
                 "EXPR_CALL", "EXPR_SUBSCRIPT"} -> 24
    [] node = "STMT_IF" -> 32
    [] OTHER -> 16

Named == {"EXPR_IDENTIFIER", "EXPR_LITERAL_STRING"}

\* Mutant: the copy of a name is made before its node.
SizesOfNodeTextFirst(node, length) ==
  IF node \in Named THEN <<length + 1, NodeSize(node)>> ELSE <<NodeSize(node)>>

\* What the allocation of a node takes, in its order; a name of this length is
\* copied after the node that points to it.
SizesOfNode(node, length) ==
  IF node \in Named THEN <<NodeSize(node), length + 1>> ELSE <<NodeSize(node)>>
=============================================================================
