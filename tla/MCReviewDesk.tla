---------------------------- MODULE MCReviewDesk ----------------------------
(* The instances of ReviewDesk that TLC checks. *)
EXTENDS ReviewDesk, TLC

(* Every exception names every case of the instance. *)
AllReferences == [x \in SeedExceptions |-> SeedCases]

Symmetric ==
  Permutations(CaseRequests) \cup Permutations(ExceptionRequests)

=============================================================================
