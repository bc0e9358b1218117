------------------------------ MODULE MCImports ------------------------------
(* A small instance of Imports for TLC. *)
EXTENDS Imports, TLC
CONSTANTS i1, i2
BothImports == {i1, i2}
OneImport == {i1}
=============================================================================
