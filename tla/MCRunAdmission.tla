---------------------------- MODULE MCRunAdmission ----------------------------
(***************************************************************************)
(* Instances of RunAdmission for TLC.                                      *)
(***************************************************************************)
EXTENDS RunAdmission, TLC

\* Creations, and addresses, are interchangeable.
Interchangeable == Permutations(Creations) \cup Permutations(Addresses)

=============================================================================
