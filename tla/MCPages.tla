------------------------------ MODULE MCPages ------------------------------
(* Up to four items, each in a page of its own or together, and limits of    *)
(* nothing, less than a list, and as much.                                   *)
EXTENDS Pages
=============================================================================
