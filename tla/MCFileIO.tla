------------------------------ MODULE MCFileIO ------------------------------
(***************************************************************************)
(* Instances of FileIO for TLC.                                            *)
(***************************************************************************)
EXTENDS FileIO

(* No action looks at ret: states that differ in it alone are the same. *)
View == <<size, bytes>>

=============================================================================
