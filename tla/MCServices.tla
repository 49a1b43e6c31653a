----------------------------- MODULE MCServices -----------------------------
(* Two requests, two places in the picture cache, and three players who     *)
(* have three pictures, or one picture for two of them.                     *)
EXTENDS Services

CONSTANTS u1, u2, u3

MCUrls == {u1, u2, u3}
MCLists == {<<u1, u2, u3>>, <<u1, NoUrl, u1>>}

\* Two requests, or a request beside the pictures.
MCBudgets == {[calls |-> 2, replies |-> 0, changes |-> 1],
              [calls |-> 1, replies |-> 1, changes |-> 1]}
=============================================================================
