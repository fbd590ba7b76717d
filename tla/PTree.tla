------------------------------- MODULE PTree -------------------------------
(***************************************************************************)
(* KLEE's process tree (lib/klee/Core/PTree.cpp): the binary tree whose    *)
(* leaves are the execution states and whose inner nodes are the forks     *)
(* that separated them.  A node is named by the path that leads to it from *)
(* the root, a sequence of "L" and "R"; a tree is the set of its nodes.    *)
(***************************************************************************)
EXTENDS Naturals, Sequences

Nodes == Seq({"L", "R"})
Root == <<>>

Left(n) == Append(n, "L")
Right(n) == Append(n, "R")

(* m is n or an ancestor of n. *)
IsAbove(m, n) == Len(m) <= Len(n) /\ SubSeq(n, 1, Len(m)) = m

Leaves(tree) == {n \in tree : Left(n) \notin tree /\ Right(n) \notin tree}

(* PTree::split: the leaf n becomes an inner node with two children. *)
Split(tree, n) == tree \cup {Left(n), Right(n)}

(* PTree::remove: a leaf goes, and with it each ancestor that is left      *)
(* without a child; for the leaves S one after the other.  What stays is   *)
(* what lies above another leaf.                                           *)
RemoveAll(tree, S) ==
  {m \in tree : \E k \in Leaves(tree) \ S : IsAbove(m, k)}

Remove(tree, n) == RemoveAll(tree, {n})
============================================================================
