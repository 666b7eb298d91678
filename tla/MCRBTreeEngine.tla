--------------------------- MODULE MCRBTreeEngine ---------------------------
(***************************************************************************)
(* RBTreeEngine for TLC.                                                   *)
(***************************************************************************)
EXTENDS RBTreeEngine

MCKey == 1 .. 10
MCFew == 1 .. 5

(***************************************************************************)
(* What tells two states apart.  Nothing depends on which address malloc   *)
(* gave a node, so a node is known by its key.  ret is written by every    *)
(* call and read by none, and the properties about it look at the step     *)
(* that writes it.  The parent of nil is read by rbtree_delete_fixup only, *)
(* after rbtree_delete wrote it in the same call.                          *)
(***************************************************************************)
View ==
    LET nodes == Linked
        Name(n) == IF n \in nodes THEN tree.at[n].key ELSE nil
    IN  <<{<<tree.at[n].key, tree.at[n].value, tree.at[n].color, Name(tree.at[n].left),
             Name(tree.at[n].right), Name(tree.at[n].parent)>> : n \in nodes},
          Name(tree.root), tree.at[nil].color, count, status>>
=============================================================================
