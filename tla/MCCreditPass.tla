---------------------------- MODULE MCCreditPass ----------------------------
(* Instances of CreditPass for TLC: up to three outputs of two samples per   *)
(* prompt and up to three nodes in a tree, some outputs without rows.        *)
EXTENDS CreditPass

MCBatches ==
    { <<  <<1, 2, 1>>  >>,            \* a tree of three nodes
      <<  <<2, 1>>, <<1>>  >>,        \* two samples of a prompt
      <<  <<1, 1>>, <<1, 1>>  >>,
      <<  <<>>, <<1, 1>>  >>,         \* the first sample has no rows
      <<  <<1>>, <<>>, <<2>>  >>,     \* the first prompt's second has none
      <<  <<1>>, <<1, 1>>, <<1>>  >> }

MCRubrics == { <<2, 1>>, <<2, -1>>, <<-1>>, <<>> }

\* A tree of two nodes, and a rubric with a criterion that takes off the score.
MCTree == { << <<1, 1>> >> }
MCNegative == { <<1, -1>> }
=============================================================================
