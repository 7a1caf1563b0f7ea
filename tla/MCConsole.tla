------------------------------ MODULE MCConsole ------------------------------
(* Values around the bounds that are checked and around what the column rounds,  *)
(* and prices around the roundings.                                              *)
EXTENDS Console

TheValues == {-1000, 0, 4, 5, 33333, 100000, 100004, 150000}
ThePrices == {0, 1, 9, 10, 1050}
=============================================================================
