------------------------------ MODULE MCStaged ------------------------------
(***************************************************************************)
(* Instances of StagedExecution for TLC: two directories of one file each, *)
(* one of the files blocked.                                               *)
(***************************************************************************)
EXTENDS StagedExecution

SomePaths   == {<<"d">>, <<"d", "x">>, <<"e">>, <<"e", "x">>}
SomeBlocked == {<<"d", "x">>}

=============================================================================
