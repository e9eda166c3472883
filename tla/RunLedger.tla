----------------------------- MODULE RunLedger -----------------------------
(***************************************************************************)
(* What a judge run promises its uploader, without saying how: a run is    *)
(* recorded once, with its first attempt; a FAILED run may be tried again, *)
(* every try counted; a SUCCEEDED run never changes; and once the          *)
(* workspace of a run is retired, the run never changes either.            *)
(***************************************************************************)
EXTENDS Naturals

CONSTANT Runs

VARIABLES state, attempt, sealed

vars == <<state, attempt, sealed>>

Outcomes == {"FAILED", "SUCCEEDED"}

Init ==
  /\ state = [u \in Runs |-> "NONE"]
  /\ attempt = [u \in Runs |-> 0]
  /\ sealed = {}

Record(u) ==
  /\ u \notin sealed /\ state[u] = "NONE"
  /\ \E o \in Outcomes : state' = [state EXCEPT ![u] = o]
  /\ attempt' = [attempt EXCEPT ![u] = 1]
  /\ UNCHANGED sealed

Retry(u) ==
  /\ u \notin sealed /\ state[u] = "FAILED"
  /\ \E o \in Outcomes : state' = [state EXCEPT ![u] = o]
  /\ attempt' = [attempt EXCEPT ![u] = @ + 1]
  /\ UNCHANGED sealed

(* Reset All retires a workspace, for good. *)
Seal ==
  /\ sealed' \in {sealed \cup more : more \in SUBSET Runs}
  /\ UNCHANGED <<state, attempt>>

Next == Seal \/ \E u \in Runs : Record(u) \/ Retry(u)

Spec == Init /\ [][Next]_vars

=============================================================================
