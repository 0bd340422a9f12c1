------------------------------- MODULE MCDma -------------------------------
(* TLC instances of Dma and DmaClient. *)
EXTENDS DmaClient, TLC

\* The items of the heap are interchangeable; so are the clients.
Symmetry == Permutations(Items) \cup Permutations(Threads)

=============================================================================
