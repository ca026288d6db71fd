----------------------------- MODULE MCArrayQueue -----------------------------
(* ArrayQueue with a few interchangeable threads on a two-slot queue. *)
EXTENDS ArrayQueue, TLC

Symmetry == Permutations(Threads)
===============================================================================
