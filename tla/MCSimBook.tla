----------------------------- MODULE MCSimBook -----------------------------
(* Two trades whose markets are strained, at their target, or not to be    *)
(* priced, on an account that may be reset once.                           *)
EXTENDS SimBook
SimMarks == {[cost |-> 4, margin |-> 9], [cost |-> -1, margin |-> 3], [cost |-> 1, margin |-> 3]}
=============================================================================
