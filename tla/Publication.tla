---------------------------- MODULE Publication ----------------------------
(***************************************************************************)
(* What a submission run promises, without saying how: it waits, PENDING   *)
(* or BLOCKED, until its records are staged, all at once and for good;     *)
(* what is published is what was staged, once, and never changes.          *)
(***************************************************************************)
CONSTANTS Runs, Contents, Nothing

VARIABLES state, staged, published

Init ==
  /\ state = [n \in Runs |-> "NONE"]
  /\ staged = [n \in Runs |-> Nothing]
  /\ published = [n \in Runs |-> Nothing]

Become(n, next) == state' = [state EXCEPT ![n] = next]

Create(n) ==
  /\ state[n] = "NONE"
  /\ Become(n, "PENDING")
  /\ UNCHANGED <<staged, published>>

Block(n) ==
  /\ state[n] \in {"PENDING", "BLOCKED"}
  /\ Become(n, "BLOCKED")
  /\ UNCHANGED <<staged, published>>

Stage(n) ==
  /\ state[n] \in {"PENDING", "BLOCKED"}
  /\ Become(n, "STAGED")
  /\ \E content \in Contents : staged' = [staged EXCEPT ![n] = content]
  /\ UNCHANGED published

Publish(n) ==
  /\ state[n] = "STAGED"
  /\ Become(n, "PUBLISHED")
  /\ published' = [published EXCEPT ![n] = staged[n]]
  /\ UNCHANGED staged

Next == \E n \in Runs : Create(n) \/ Block(n) \/ Stage(n) \/ Publish(n)

Spec == Init /\ [][Next]_<<state, staged, published>>

=============================================================================
