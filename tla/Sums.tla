-------------------------------- MODULE Sums --------------------------------
(* Sums over a column of a table, a function from its rows to whole         *)
(* numbers, without recursion: a column's bytes, an element each, and how   *)
(* many these are.                                                          *)
EXTENDS Naturals, FiniteSets

Bytes(f) == UNION {{x} \X (1 .. f[x]) : x \in DOMAIN f}
Total(f) == Cardinality(Bytes(f))
=============================================================================
