---------------------------- MODULE MCFileCommit ----------------------------
(* TLC instances of FileCommit. *)
EXTENDS FileCommit, TLC

CONSTANTS f1, f2

\* Target lists of the jobs: one file, and a batch that shares it.
OneAndTwo == {<<f1>>, <<f1, f2>>}

\* Workers are interchangeable, and so are contents.
Symmetry == Permutations(Workers) \cup Permutations(Contents)
=============================================================================
