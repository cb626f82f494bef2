------------------------- MODULE MCGatewayLifecycle -------------------------
(***************************************************************************)
(* Instances of GatewayLifecycle for TLC.                                  *)
(***************************************************************************)
EXTENDS GatewayRefinement, GatewayInvariant, TLC

\* Actions are interchangeable, and so are reviewers; used by safety runs only.
Interchangeable == Permutations(Actions) \cup Permutations(Reviewers)

\* As above, for instances of several runs and one reviewer.
InterchangeableRuns == Permutations(Actions) \cup Permutations(Runs)

=============================================================================
