-------------------------- MODULE MCEvidenceLedger --------------------------
(* An instance of EvidenceLedger for TLC: a tree whose root and child search, *)
(* the child from two cells at a time, beside a tree that does not search and *)
(* may make up an id of the other tree.                                      *)
EXTENDS EvidenceLedger

CONSTANTS r, s, k,      \* nodes
          r1, k1, k2    \* cells

MCParentOf == [c \in {k} |-> r]
MCRootOf == [n \in {r, s, k} |-> IF n = s THEN s ELSE r]
MCNodeOf == [c \in {r1, k1, k2} |-> IF c = r1 THEN r ELSE k]

\* An id that the child may or may not come to mint.
MCMadeUp == {<<k, 1>>}
=============================================================================
