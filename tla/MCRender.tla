------------------------------ MODULE MCRender ------------------------------
(* A small instance of Render: hosts are interchangeable.                  *)
EXTENDS Render, TLC

Symmetry == Permutations(Hosts)
=============================================================================
