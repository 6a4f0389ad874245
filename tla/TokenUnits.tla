---- MODULE TokenUnits ----
(***************************************************************************)
(* The sum of the balances, as a cardinality.  A sum over a function needs *)
(* a recursive definition; counting the tokens themselves does not, and    *)
(* lemmas about it follow from facts about finite sets.                    *)
(***************************************************************************)
EXTENDS Casper

\* The tokens in existence, one element for each: the i-th token of key k.  Its cardinality
\* is the sum of the balances.
Units(b) == {unit \in Key \X (1..MaxU256) : unit[2] <= b[unit[1]]}
====
