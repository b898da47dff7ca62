------------------------------- MODULE Lookup -------------------------------
(* The linear search every table of this program is read with.             *)
EXTENDS Integers, FiniteSetsExt

\* The loops over a table stop at the first index that qualifies; -1: none.
First(S) == IF S = {} THEN -1 ELSE Min(S)
=============================================================================
