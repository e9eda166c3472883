----------------------------- MODULE MCCaseFlow -----------------------------
(* The instances of CaseFlow that TLC checks. *)
EXTENDS CaseFlow, TLC

Symmetric == Permutations(Requests) \cup Permutations(Emails) \cup Permutations(Digests)

=============================================================================
