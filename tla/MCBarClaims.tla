----------------------------- MODULE MCBarClaims -----------------------------
(* Instances of BarClaims for TLC. *)
EXTENDS BarClaims

CONSTANTS e1, e2,       \* engine processes
          btc           \* a symbol

(* The symbol's bar closes, and the next. *)
Twice == {<<btc, 1>>, <<btc, 2>>}
Once  == {<<btc, 1>>}
=============================================================================
