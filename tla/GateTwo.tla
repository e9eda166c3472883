------------------------------ MODULE GateTwo ------------------------------
(***************************************************************************)
(* Gate 2: the expected shipments of a ledger are reconciled with the      *)
(* cases Gate 1 left (reconcile_shipments).  A shipment and a case match   *)
(* where they carry the same identifier under the same name.  The          *)
(* shipments are gone through once; from each one not visited yet the      *)
(* whole group of shipments and cases that hang together is searched, and  *)
(* gets one result.  Then come the shipments and the cases nothing         *)
(* matched.  No winner is chosen where several claim each other.           *)
(*                                                                         *)
(* Identifiers are normalised names and values; a ledger is the input of   *)
(* one reconciliation.  Operators named "Mutant..." are plausible bugs; no *)
(* specification uses them.                                                *)
(***************************************************************************)
CONSTANTS
  Shipments,   \* shipments a ledger may expect
  Cases,       \* cases they are reconciled with
  Namespaces,  \* names of identifiers: booking_reference, ...
  Absent,      \* no identifier under a name
  Ledgers      \* inputs to check: [identifiers, stale, lifecycle, required, documents]

Lifecycles == {"BOOKED", "DRAFT_BL_EXPECTED", "BL_CHECK_REQUIRED"}

ASSUME LedgerAssumption ==
  \A l \in Ledgers : l.stale \subseteq Shipments /\ l.lifecycle \in [Shipments -> Lifecycles]

VARIABLES
  ledger,     \* the input
  stage,      \* "match", "rest" or "done"
  pending,    \* shipments of the current group still to be visited
  group,      \* shipments of the current group visited so far (component_shipments)
  claimed,    \* cases of the current group (component_cases)
  visited,    \* shipments of the groups that have their result
  results     \* results drafted so far

gateVars == <<ledger, stage, pending, group, claimed, visited, results>>

-----------------------------------------------------------------------------
(* Matching *)

Matches(s, c) ==
  \E n \in Namespaces :
    /\ ledger.identifiers[s][n] # Absent
    /\ ledger.identifiers[s][n] = ledger.identifiers[c][n]

CasesOf(s) == {c \in Cases : Matches(s, c)}
ShipmentsOf(c) == {s \in Shipments : Matches(s, c)}
Matched == {s \in Shipments : CasesOf(s) # {}}

(* A shipment that still expects its draft BL needs no document yet. *)
PairOutcome(s, c) ==
  CASE s \in ledger.stale -> "SOURCE_STALE"
    [] s \notin ledger.stale /\ ( \/ ledger.required[s] \subseteq ledger.documents[c]
                                  \/ ledger.lifecycle[s] = "DRAFT_BL_EXPECTED" ) -> "CASE_PRESENT"
    [] OTHER -> "DOCUMENT_MISSING"

Result(outcome, ships, cases) ==
  [outcome |-> outcome, shipments |-> ships, cases |-> cases,
   stale |-> ships \cap ledger.stale # {}]

(* One shipment and one case are a pair; anything else is ambiguous. *)
GroupResult(ships, cases) ==
  IF \E s \in ships, c \in cases : ships = {s} /\ cases = {c}
  THEN LET s == CHOOSE x \in ships : TRUE
           c == CHOOSE x \in cases : TRUE
       IN  Result(PairOutcome(s, c), ships, cases)
  ELSE Result("DUPLICATE_OR_AMBIGUOUS", ships, cases)

(* A shipment nothing matched is missing its case only if the ledger is    *)
(* fresh about it and a case was due; otherwise it gets no result at all.  *)
MissingCases ==
  {s \in Shipments \ Matched : s \notin ledger.stale /\ ledger.lifecycle[s] # "BOOKED"}

UnmatchedCases == {c \in Cases : ShipmentsOf(c) = {}}

-----------------------------------------------------------------------------
GateInit ==
  /\ ledger \in Ledgers
  /\ stage = "match"
  /\ pending = {} /\ group = {} /\ claimed = {}
  /\ visited = {} /\ results = {}

(* The next shipment that matches a case and is in no group yet. *)
StartGroup(s) ==
  /\ stage = "match" /\ pending = {} /\ group = {}
  /\ s \in Matched \ visited
  /\ pending' = {s}
  /\ UNCHANGED <<ledger, stage, group, claimed, visited, results>>

(* _candidate_component pops a shipment, and pushes the other shipments of *)
(* each of its cases that the group does not have yet.                     *)
Visit(s) ==
  LET found == CasesOf(s) \ claimed
      more  == (UNION {ShipmentsOf(c) : c \in found}) \ (group \cup {s})
  IN  /\ s \in pending
      /\ group' = group \cup {s}
      /\ claimed' = claimed \cup found
      /\ pending' = (pending \ {s}) \cup more
      /\ UNCHANGED <<ledger, stage, visited, results>>

MutantCloseGroup ==
  /\ pending = {} /\ group # {}
  /\ results' = results \cup {GroupResult(group, claimed)}
  /\ visited' = visited \cup group
  /\ group' = {}
  /\ UNCHANGED <<ledger, stage, pending, claimed>>

(* The group is searched through: it gets its one result. *)
CloseGroup ==
  /\ pending = {} /\ group # {}
  /\ results' = results \cup {GroupResult(group, claimed)}
  /\ visited' = visited \cup group
  /\ group' = {} /\ claimed' = {}
  /\ UNCHANGED <<ledger, stage, pending>>

(* Every shipment that matches a case is in a group. *)
AllMatched ==
  /\ stage = "match" /\ pending = {} /\ group = {} /\ Matched \subseteq visited
  /\ stage' = "rest"
  /\ UNCHANGED <<ledger, pending, group, claimed, visited, results>>

(* What nothing matched. *)
Rest ==
  /\ stage = "rest"
  /\ results' = results \cup {Result("MISSING_CASE", {s}, {}) : s \in MissingCases}
                        \cup {Result("UNMATCHED_CASE", {}, {c}) : c \in UnmatchedCases}
  /\ stage' = "done"
  /\ UNCHANGED <<ledger, pending, group, claimed, visited>>

GateStep ==
  \/ \E s \in Shipments : StartGroup(s) \/ Visit(s)
  \/ CloseGroup \/ AllMatched \/ Rest

GateNext == GateStep

GateSpec == GateInit /\ [][GateNext]_gateVars

-----------------------------------------------------------------------------
(* Properties *)

(* Every variable keeps its type, and a group being searched holds only    *)
(* shipments and cases.                                                    *)
GateTypeOK ==
  /\ ledger.stale \subseteq Shipments /\ ledger.lifecycle \in [Shipments -> Lifecycles]
  /\ stage \in {"match", "rest", "done"}
  /\ pending \subseteq Shipments /\ group \subseteq Shipments /\ visited \subseteq Shipments
  /\ claimed \subseteq Cases
  /\ \A r \in results : r.shipments \subseteq Shipments /\ r.cases \subseteq Cases

(* No shipment and no case is named by two results: nothing is claimed     *)
(* twice, and every subject key is unique (reconcile_shipments).           *)
OneResultEach ==
  \A q, r \in results :
    q # r => q.shipments \cap r.shipments = {} /\ q.cases \cap r.cases = {}

(* Two shipments hang together when every set that contains one, and with  *)
(* each shipment all that share a case with it, contains the other.        *)
Closed(set) ==
  \A s \in set, t \in Shipments :
    (\E c \in Cases : Matches(s, c) /\ Matches(t, c)) => t \in set

Component(s) ==
  {t \in Shipments : \A set \in SUBSET Shipments : s \in set /\ Closed(set) => t \in set}

Claims(ships) == {c \in Cases : \E s \in ships : Matches(s, c)}

(* Shipments that should have a case by now, and whose ledger row is fresh. *)
Overdue ==
  {s \in Shipments : /\ Claims({s}) = {} /\ s \notin ledger.stale
                     /\ ledger.lifecycle[s] \in {"DRAFT_BL_EXPECTED", "BL_CHECK_REQUIRED"}}

(* The results are, in the end, exactly one for each such group, whatever  *)
(* the order of the search, one for each shipment whose case is missing    *)
(* and one for each case nothing expects (reconcile_shipments).            *)
Reconciled ==
  stage = "done" =>
    results = {GroupResult(Component(s), Claims(Component(s))) : s \in Matched}
                \cup {Result("MISSING_CASE", {s}, {}) : s \in Overdue}
                \cup {Result("UNMATCHED_CASE", {}, {c}) : c \in Cases \ Claims(Shipments)}

=============================================================================
