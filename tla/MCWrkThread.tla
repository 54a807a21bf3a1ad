----------------------------- MODULE MCWrkThread -----------------------------
(***************************************************************************)
(* WrkThread on small instances.  Connections are interchangeable, and so  *)
(* are descriptor numbers where Registrable and ForeignFds are all or none *)
(* of them, so safety runs may use symmetry.                               *)
(***************************************************************************)
EXTENDS WrkThread, TLC

Symmetry == Permutations(Conns) \cup Permutations(Fds)

=============================================================================
