------------------------- MODULE ControlGraphProofs --------------------------
(***************************************************************************)
(* For any mail, catalog and ledger: what Gate 2 finds, and the graph that *)
(* is built from it.                                                       *)
(*                                                                         *)
(* The search of GateTwo finds exactly the groups that hang together, and  *)
(* no result claims what another one claims: first lemmas about the groups *)
(* alone, then the inductive invariant, which says how far a search has    *)
(* come and that the results so far are those of the groups visited.       *)
(*                                                                         *)
(* A build then lists what it is to list, no more and no less.  The graph  *)
(* is made of sequences, so the lemmas say which set each of them lists;   *)
(* the folds they are made with are unfolded one step at a time.  From     *)
(* what a build is made of it follows that its graph is sound: every edge  *)
(* joins two of its nodes, no flag is marked by another, and each shipment *)
(* has one state.                                                          *)
(*                                                                         *)
(* It lists nothing twice: the last part follows the names of nodes and    *)
(* edges through the same folds, and reads from the edges what each flag   *)
(* is about and from each case how it was concluded.                       *)
(***************************************************************************)
EXTENDS ControlGraph, ComparisonProofs, FiniteSetTheorems, SequenceTheorems, TLAPS

-----------------------------------------------------------------------------
(* Groups *)

(* A shipment is in its own group. *)
LEMMA InOwn == ASSUME NEW s \in Shipments PROVE s \in Component(s)
  BY DEF Component

(* A group is a set of shipments that holds all that share a case with it. *)
LEMMA GroupClosed ==
  ASSUME NEW s \in Shipments
  PROVE  Component(s) \subseteq Shipments /\ Closed(Component(s))
  BY DEF Component, Closed

(* It is the smallest such set. *)
LEMMA GroupLeast ==
  ASSUME NEW s \in Shipments, NEW set \in SUBSET Shipments, s \in set, Closed(set)
  PROVE  Component(s) \subseteq set
  BY DEF Component

(* Sharing a case goes both ways, so what a closed set leaves over is closed. *)
LEMMA LeftOverClosed ==
  ASSUME NEW a \in SUBSET Shipments, NEW b \in SUBSET Shipments, Closed(a), Closed(b)
  PROVE  Closed(a \ b) /\ Closed(a \cup b)
  BY DEF Closed

(* Every member of a group has the same group. *)
LEMMA SameGroup ==
  ASSUME NEW s \in Shipments, NEW t \in Component(s)
  PROVE  Component(t) = Component(s)
<1>1. t \in Shipments /\ Component(s) \subseteq Shipments /\ Closed(Component(s))
  BY GroupClosed
<1>2. Component(t) \subseteq Shipments /\ Closed(Component(t)) BY <1>1, GroupClosed
<1>3. Component(t) \subseteq Component(s) BY <1>1, GroupLeast
<1>4. s \in Component(t)
  <2>1. SUFFICES ASSUME s \notin Component(t) PROVE FALSE OBVIOUS
  <2>2. Closed(Component(s) \ Component(t)) BY <1>1, <1>2, LeftOverClosed
  <2>3. s \in Component(s) \ Component(t) BY <2>1, InOwn
  <2>4. Component(s) \ Component(t) \in SUBSET Shipments BY <1>1
  <2>5. Component(s) \subseteq Component(s) \ Component(t) BY <2>2, <2>3, <2>4, GroupLeast
  <2>6. t \in Component(t) BY <1>1, InOwn
  <2> QED BY <2>5, <2>6
<1>5. Component(s) \subseteq Component(t) BY <1>2, <1>4, GroupLeast
<1> QED BY <1>3, <1>5

(* A set that is closed and not empty, and lies within a group, is that group. *)
LEMMA WholeGroup ==
  ASSUME NEW s \in Shipments, NEW set \in SUBSET Component(s), s \in set, Closed(set)
  PROVE  set = Component(s) /\ \A t \in set : Component(t) = set
<1>1. set \in SUBSET Shipments BY GroupClosed
<1>2. set = Component(s) BY <1>1, GroupLeast
<1> QED BY <1>2, SameGroup

(* Shipments of different groups share neither a group member nor a case. *)
LEMMA GroupsApart ==
  ASSUME NEW s \in Shipments, NEW t \in Shipments, Component(s) # Component(t)
  PROVE  /\ Component(s) \cap Component(t) = {}
         /\ Claims(Component(s)) \cap Claims(Component(t)) = {}
<1>1. Component(s) \cap Component(t) = {} BY SameGroup
<1>2. SUFFICES ASSUME NEW c \in Claims(Component(s)) \cap Claims(Component(t)) PROVE FALSE
  BY <1>1
<1>3. PICK u \in Component(s) : Matches(u, c) BY DEF Claims
<1>4. PICK v \in Component(t) : Matches(v, c) BY DEF Claims
<1>5. c \in Cases /\ v \in Shipments BY GroupClosed DEF Claims
<1>6. Closed(Component(s)) BY GroupClosed
<1>7. v \in Component(s) BY <1>3, <1>4, <1>5, <1>6 DEF Closed
<1> QED BY <1>1, <1>4, <1>7

(* Only shipments that match a case hang together with another one. *)
LEMMA GroupMatched ==
  ASSUME NEW s \in Matched PROVE Component(s) \subseteq Matched
<1>1. Matched \in SUBSET Shipments BY DEF Matched
<1>2. Closed(Matched) BY DEF Closed, Matched, CasesOf
<1> QED BY <1>1, <1>2, GroupLeast

-----------------------------------------------------------------------------
(* The search *)

(* What has been visited is whole groups; what is being searched lies      *)
(* within one group, none of it visited, and nothing that hangs together   *)
(* with it is forgotten.                                                   *)
Searching ==
  /\ visited \subseteq Matched /\ Closed(visited)
  /\ group \cup pending \subseteq Matched \ visited
  /\ claimed = Claims(group)
  /\ \A c \in claimed : ShipmentsOf(c) \subseteq group \cup pending
  /\ \A s, t \in group \cup pending : Component(s) = Component(t)
  /\ stage # "match" => group = {} /\ pending = {} /\ Matched \subseteq visited

ResultOf(s) == GroupResult(Component(s), Claims(Component(s)))

GroupResults == {ResultOf(s) : s \in visited}

Unmatchables ==
  {Result("MISSING_CASE", {s}, {}) : s \in MissingCases}
    \cup {Result("UNMATCHED_CASE", {}, {c}) : c \in UnmatchedCases}

GateInv ==
  /\ GateTypeOK
  /\ Searching
  /\ results = GroupResults \cup (IF stage = "done" THEN Unmatchables ELSE {})


(* The input never changes, so neither do its groups. *)
LEMMA SameLedger ==
  ASSUME ledger' = ledger
  PROVE  /\ \A s \in Shipments : Component(s)' = Component(s)
         /\ \A ships \in SUBSET Shipments : Claims(ships)' = Claims(ships)
         /\ \A s \in Shipments : ResultOf(s)' = ResultOf(s)
         /\ Matched' = Matched /\ Unmatchables' = Unmatchables
         /\ \A s \in Shipments : CasesOf(s)' = CasesOf(s)
         /\ \A c \in Cases : ShipmentsOf(c)' = ShipmentsOf(c)
<1>1. \A s, c : Matches(s, c)' = Matches(s, c) BY DEF Matches
<1>2. \A set : Closed(set)' = Closed(set) BY <1>1 DEF Closed
<1>3. \A s \in Shipments : Component(s)' = Component(s) BY <1>2 DEF Component
<1>4. \A ships \in SUBSET Shipments : Claims(ships)' = Claims(ships) BY <1>1 DEF Claims
<1>5. /\ \A s \in Shipments : CasesOf(s)' = CasesOf(s)
      /\ \A c \in Cases : ShipmentsOf(c)' = ShipmentsOf(c)
  BY <1>1 DEF CasesOf, ShipmentsOf
<1>6. Matched' = Matched BY <1>5 DEF Matched
<1>7. \A ships, cases : GroupResult(ships, cases)' = GroupResult(ships, cases)
  BY DEF GroupResult, Result, PairOutcome
<1>10. \A s \in Shipments : ResultOf(s)' = ResultOf(s)
  <2> TAKE s \in Shipments
  <2>1. Component(s)' = Component(s) BY <1>3
  <2>2. Claims(Component(s))' = Claims(Component(s)) BY <1>1, <2>1 DEF Claims
  <2> QED BY <1>7, <2>1, <2>2 DEF ResultOf, GroupResult, Result, PairOutcome
<1>8. MissingCases' = MissingCases /\ UnmatchedCases' = UnmatchedCases
  BY <1>5, <1>6 DEF MissingCases, UnmatchedCases
<1>9. Unmatchables' = Unmatchables BY <1>8 DEF Unmatchables, Result
<1> QED BY <1>3, <1>4, <1>5, <1>6, <1>9, <1>10

(* Whatever is found from a shipment hangs together with it. *)
LEMMA FoundTogether ==
  ASSUME NEW s \in Shipments, NEW c \in CasesOf(s), NEW t \in ShipmentsOf(c)
  PROVE  t \in Matched /\ Component(t) = Component(s)
<1>1. c \in Cases /\ t \in Shipments /\ Matches(s, c) /\ Matches(t, c)
  BY DEF CasesOf, ShipmentsOf
<1>2. t \in Matched BY <1>1 DEF Matched, CasesOf
<1>3. Closed(Component(s)) /\ s \in Component(s) BY GroupClosed, InOwn
<1>4. t \in Component(s) BY <1>1, <1>3 DEF Closed
<1> QED BY <1>2, <1>4, SameGroup

(* The invariant holds before the search. *)
LEMMA InvHolds == GateInit => GateInv
<1> SUFFICES ASSUME GateInit PROVE GateInv OBVIOUS
<1>1. GateTypeOK BY LedgerAssumption DEF GateInit, GateTypeOK
<1>2. Closed(visited) /\ claimed = Claims(group) BY DEF GateInit, Closed, Claims
<1>3. Searching BY <1>2 DEF GateInit, Searching
<1>4. results = GroupResults \cup (IF stage = "done" THEN Unmatchables ELSE {})
  BY DEF GateInit, GroupResults
<1> QED BY <1>1, <1>3, <1>4 DEF GateInv


(* Every step preserves the invariant. *)
LEMMA InvKept == GateInv /\ [GateNext]_gateVars => GateInv'
<1> SUFFICES ASSUME GateInv, [GateNext]_gateVars PROVE GateInv'
  OBVIOUS
<1> USE DEF GateInv
<1>0. ledger' = ledger
  BY DEF GateNext, GateStep, StartGroup, Visit, CloseGroup, AllMatched, Rest, gateVars
<1>1. /\ \A s \in Shipments : Component(s)' = Component(s)
      /\ \A ships \in SUBSET Shipments : Claims(ships)' = Claims(ships)
      /\ \A s \in Shipments : ResultOf(s)' = ResultOf(s)
      /\ Matched' = Matched /\ Unmatchables' = Unmatchables
      /\ \A s \in Shipments : CasesOf(s)' = CasesOf(s)
      /\ \A c \in Cases : ShipmentsOf(c)' = ShipmentsOf(c)
  BY <1>0, SameLedger
<1>2. \A s, c : Matches(s, c)' = Matches(s, c) BY <1>0 DEF Matches
<1>3. ASSUME NEW s \in Shipments, StartGroup(s) PROVE GateInv'
  <2>1. GateTypeOK' BY <1>0, <1>3 DEF StartGroup, GateTypeOK
  <2>2. Closed(visited)' BY <1>2, <1>3 DEF StartGroup, Searching, Closed
  <2>3. /\ claimed' = claimed /\ group' = {} /\ pending' = {s} /\ visited' = visited
        /\ results' = results /\ stage' = stage /\ stage = "match" /\ s \in Matched \ visited
    BY <1>3 DEF StartGroup
  <2>4. claimed = {} BY <1>3 DEF StartGroup, Searching, Claims
  <2>5. claimed' = Claims(group)' BY <2>3, <2>4 DEF Claims
  <2>6. Searching' BY <1>1, <2>2, <2>3, <2>4, <2>5 DEF Searching
  <2>7. visited \subseteq Shipments BY DEF GateTypeOK
  <2>8. GroupResults' = GroupResults BY <1>1, <2>3, <2>7 DEF GroupResults
  <2>9. results' = GroupResults' \cup (IF stage' = "done" THEN Unmatchables' ELSE {})
    BY <1>1, <2>3, <2>8
  <2> QED BY <2>1, <2>6, <2>9
<1>4. ASSUME NEW s \in Shipments, Visit(s) PROVE GateInv'
  <2> DEFINE found == CasesOf(s) \ claimed
             more  == (UNION {ShipmentsOf(c) : c \in found}) \ (group \cup {s})
  <2>1. /\ s \in pending /\ group' = group \cup {s} /\ claimed' = claimed \cup found
        /\ pending' = (pending \ {s}) \cup more
        /\ visited' = visited /\ results' = results /\ stage' = stage
    BY <1>4 DEF Visit
  <2>2. /\ found \subseteq Cases /\ more \subseteq Shipments
        /\ claimed \subseteq Cases /\ visited \subseteq Shipments /\ group \subseteq Shipments
    BY DEF CasesOf, ShipmentsOf, GateTypeOK
  <2> HIDE DEF found, more
  <2>3. GateTypeOK' BY <1>0, <2>1, <2>2 DEF GateTypeOK
  <2>4. Closed(visited)' BY <1>2, <2>1 DEF Searching, Closed
  <2>5. group' \cup pending' = (group \cup pending) \cup more BY <2>1
  <2>6. \A t \in more : t \in Matched /\ Component(t) = Component(s)
    BY FoundTogether DEF more, found
  <2>7. s \in Matched \ visited BY <2>1 DEF Searching
  <2>8. more \cap visited = {}
    <3> SUFFICES ASSUME NEW t \in more, t \in visited PROVE FALSE OBVIOUS
    <3>1. PICK c \in CasesOf(s) : t \in ShipmentsOf(c) BY DEF more, found
    <3>2. c \in Cases /\ Matches(s, c) /\ Matches(t, c) BY <3>1 DEF CasesOf, ShipmentsOf
    <3>3. Closed(visited) BY DEF Searching
    <3>4. s \in visited BY <3>2, <3>3 DEF Closed
    <3> QED BY <2>7, <3>4
  <2>9. claimed' = Claims(group)'
    <3>1. claimed = Claims(group) BY DEF Searching
    <3>2. claimed' = claimed \cup CasesOf(s) BY <2>1 DEF found
    <3>3. Claims(group \cup {s}) = Claims(group) \cup CasesOf(s) BY DEF Claims, CasesOf
    <3>4. Claims(group)' = Claims(group \cup {s}) BY <1>2, <2>1 DEF Claims
    <3> QED BY <3>1, <3>2, <3>3, <3>4
  <2>10. \A c \in claimed' : ShipmentsOf(c)' \subseteq group' \cup pending'
    <3> SUFFICES ASSUME NEW c \in claimed' PROVE ShipmentsOf(c)' \subseteq group' \cup pending'
      OBVIOUS
    <3>1. ShipmentsOf(c)' = ShipmentsOf(c) BY <1>1, <2>1, <2>2
    <3>2. CASE c \in claimed BY <2>5, <3>1, <3>2 DEF Searching
    <3>3. CASE c \in found
      <4>1. ShipmentsOf(c) \subseteq more \cup (group \cup {s}) BY <3>3 DEF more
      <4> QED BY <2>1, <2>5, <3>1, <4>1
    <3> QED BY <2>1, <3>2, <3>3
  <2>11. \A t \in group' \cup pending' : t \in Shipments /\ Component(t) = Component(s)
    BY <2>1, <2>2, <2>5, <2>6 DEF Searching, Matched
  <2>12. \A t, u \in group' \cup pending' : Component(t)' = Component(u)'
    BY <1>1, <2>11
  <2>13. Searching'
    BY <1>1, <2>1, <2>4, <2>5, <2>6, <2>8, <2>9, <2>10, <2>12 DEF Searching
  <2>14. GroupResults' = GroupResults BY <1>1, <2>1, <2>2 DEF GroupResults
  <2>15. results' = GroupResults' \cup (IF stage' = "done" THEN Unmatchables' ELSE {})
    BY <1>1, <2>1, <2>14
  <2> QED BY <2>3, <2>13, <2>15
<1>5. ASSUME CloseGroup PROVE GateInv'
  <2>1. /\ pending = {} /\ group # {} /\ visited' = visited \cup group
        /\ results' = results \cup {GroupResult(group, claimed)}
        /\ group' = {} /\ claimed' = {} /\ pending' = {} /\ stage' = stage
    BY <1>5 DEF CloseGroup
  <2>2. group \subseteq Shipments /\ visited \subseteq Shipments /\ claimed \subseteq Cases
    BY DEF GateTypeOK
  <2>3. PICK s \in group : TRUE BY <2>1
  <2>4. Closed(group) /\ Closed(visited)
    <3> SUFFICES ASSUME NEW t \in group, NEW u \in Shipments, NEW c \in Cases,
                        Matches(t, c), Matches(u, c)
                 PROVE  u \in group
      BY DEF Closed, Searching
    <3>1. c \in claimed BY DEF Searching, Claims
    <3>2. ShipmentsOf(c) \subseteq group BY <2>1, <3>1 DEF Searching
    <3> QED BY <3>2 DEF ShipmentsOf
  <2>5. group \subseteq Component(s)
    <3> SUFFICES ASSUME NEW t \in group PROVE t \in Component(s) OBVIOUS
    <3>1. Component(t) = Component(s) BY <2>3 DEF Searching
    <3> QED BY <2>2, <3>1, InOwn
  <2>6. \A t \in group : Component(t) = group BY <2>2, <2>3, <2>4, <2>5, WholeGroup
  <2>7. \A t \in group : ResultOf(t) = GroupResult(group, claimed)
    BY <2>6 DEF Searching, ResultOf
  <2>8. GroupResults' = GroupResults \cup {GroupResult(group, claimed)}
    <3>1. GroupResults' = {ResultOf(t) : t \in visited \cup group}
      BY <1>1, <2>1, <2>2 DEF GroupResults
    <3> QED BY <2>3, <2>7, <3>1 DEF GroupResults
  <2>9. stage = "match" BY <2>1 DEF Searching
  <2>10. results' = GroupResults' \cup (IF stage' = "done" THEN Unmatchables' ELSE {})
    BY <2>1, <2>8, <2>9
  <2>11. Closed(visited \cup group) BY <2>2, <2>4, LeftOverClosed
  <2>12. Closed(visited)' BY <1>2, <2>1, <2>11 DEF Closed
  <2>13. claimed' = Claims(group)' BY <2>1 DEF Claims
  <2>14. visited' \subseteq Matched BY <2>1 DEF Searching
  <2>15. Searching' BY <1>1, <2>1, <2>9, <2>12, <2>13, <2>14 DEF Searching
  <2>16. /\ GroupResult(group, claimed).shipments = group
         /\ GroupResult(group, claimed).cases = claimed
    BY DEF GroupResult, Result
  <2>17. GateTypeOK' BY <1>0, <2>1, <2>2, <2>16 DEF GateTypeOK
  <2> QED BY <2>10, <2>15, <2>17
<1>6. ASSUME AllMatched PROVE GateInv'
  <2>1. /\ stage = "match" /\ stage' = "rest" /\ Matched \subseteq visited
        /\ pending = {} /\ group = {}
        /\ pending' = pending /\ group' = group /\ claimed' = claimed
        /\ visited' = visited /\ results' = results
    BY <1>6 DEF AllMatched
  <2>2. Closed(visited)' BY <1>2, <2>1 DEF Searching, Closed
  <2>3. claimed' = Claims(group)' BY <2>1 DEF Searching, Claims
  <2>4. \A c \in claimed' : FALSE BY <2>1 DEF Searching, Claims
  <2>5. Searching' BY <1>1, <2>1, <2>2, <2>3, <2>4 DEF Searching
  <2>6. visited \subseteq Shipments BY DEF GateTypeOK
  <2>7. GroupResults' = GroupResults BY <1>1, <2>1, <2>6 DEF GroupResults
  <2>8. results' = GroupResults' \cup (IF stage' = "done" THEN Unmatchables' ELSE {})
    BY <2>1, <2>7
  <2>9. GateTypeOK' BY <1>0, <2>1 DEF GateTypeOK
  <2> QED BY <2>5, <2>8, <2>9
<1>7. ASSUME Rest PROVE GateInv'
  <2>1. /\ stage = "rest" /\ stage' = "done" /\ results' = results \cup Unmatchables
        /\ pending' = pending /\ group' = group /\ claimed' = claimed /\ visited' = visited
    BY <1>7 DEF Rest, Unmatchables
  <2>2. group = {} /\ pending = {} /\ Matched \subseteq visited BY <2>1 DEF Searching
  <2>3. Closed(visited)' BY <1>2, <2>1 DEF Searching, Closed
  <2>4. claimed' = Claims(group)' BY <2>1, <2>2 DEF Searching, Claims
  <2>5. \A c \in claimed' : FALSE BY <2>1, <2>2 DEF Searching, Claims
  <2>6. Searching' BY <1>1, <2>1, <2>2, <2>3, <2>4, <2>5 DEF Searching
  <2>7. visited \subseteq Shipments BY DEF GateTypeOK
  <2>8. GroupResults' = GroupResults BY <1>1, <2>1, <2>7 DEF GroupResults
  <2>9. results' = GroupResults' \cup (IF stage' = "done" THEN Unmatchables' ELSE {})
    BY <1>1, <2>1, <2>8
  <2>10. \A r \in Unmatchables : r.shipments \subseteq Shipments /\ r.cases \subseteq Cases
    BY DEF Unmatchables, Result, MissingCases, UnmatchedCases
  <2>11. GateTypeOK' BY <1>0, <2>1, <2>10 DEF GateTypeOK
  <2> QED BY <2>6, <2>9, <2>11
<1>8. ASSUME UNCHANGED gateVars PROVE GateInv'
  <2>1. /\ stage' = stage /\ results' = results /\ pending' = pending
        /\ group' = group /\ claimed' = claimed /\ visited' = visited
    BY <1>8 DEF gateVars
  <2>2. GateTypeOK' BY <1>0, <2>1 DEF GateTypeOK
  <2>3. Closed(visited)' BY <1>2, <2>1 DEF Searching, Closed
  <2>4. claimed' = Claims(group)' BY <1>2, <2>1 DEF Searching, Claims
  <2>5. \A c \in claimed' : ShipmentsOf(c)' \subseteq group' \cup pending'
    BY <1>1, <2>1 DEF Searching, GateTypeOK
  <2>6. \A s, t \in group' \cup pending' : Component(s)' = Component(t)'
    BY <1>1, <2>1 DEF Searching, GateTypeOK
  <2>7. Searching' BY <1>1, <2>1, <2>3, <2>4, <2>5, <2>6 DEF Searching
  <2>8. visited \subseteq Shipments BY DEF GateTypeOK
  <2>9. GroupResults' = GroupResults BY <1>1, <2>1, <2>8 DEF GroupResults
  <2>10. results' = GroupResults' \cup (IF stage' = "done" THEN Unmatchables' ELSE {})
    BY <1>1, <2>1, <2>9
  <2> QED BY <2>2, <2>7, <2>10
<1> QED BY <1>3, <1>4, <1>5, <1>6, <1>7, <1>8 DEF GateNext, GateStep

(* So the invariant always holds. *)
LEMMA InvAlways == GateSpec => []GateInv
<1> QED BY InvHolds, InvKept, PTL DEF GateSpec

-----------------------------------------------------------------------------
(* What follows from the invariant *)

(* A result claims the group and the cases it was made for. *)
LEMMA ResultClaims ==
  ASSUME NEW s \in Shipments
  PROVE  ResultOf(s).shipments = Component(s) /\ ResultOf(s).cases = Claims(Component(s))
  BY DEF ResultOf, GroupResult, Result

(* What nothing matched is in no group, and is claimed by none. *)
LEMMA LeftOut ==
  ASSUME NEW r \in Unmatchables
  PROVE  /\ \A s \in Matched :
              r.shipments \cap Component(s) = {} /\ r.cases \cap Claims(Component(s)) = {}
         /\ \A q \in Unmatchables :
              q # r => q.shipments \cap r.shipments = {} /\ q.cases \cap r.cases = {}
<1>1. \/ \E t \in Shipments \ Matched : r.shipments = {t} /\ r.cases = {}
      \/ \E c \in Cases : ShipmentsOf(c) = {} /\ r.shipments = {} /\ r.cases = {c}
  BY DEF Unmatchables, MissingCases, UnmatchedCases, Result
<1>2. ASSUME NEW s \in Matched
      PROVE  r.shipments \cap Component(s) = {} /\ r.cases \cap Claims(Component(s)) = {}
  <2>1. Component(s) \subseteq Matched BY GroupMatched
  <2>2. \A c \in Claims(Component(s)) : ShipmentsOf(c) # {}
    BY <2>1 DEF Claims, ShipmentsOf, Matched
  <2> QED BY <1>1, <2>1, <2>2
<1>3. ASSUME NEW q \in Unmatchables, q # r
      PROVE  q.shipments \cap r.shipments = {} /\ q.cases \cap r.cases = {}
  BY <1>3 DEF Unmatchables, Result
<1> QED BY <1>2, <1>3

(* It says that nothing is claimed twice, *)
LEMMA InvClaimsOnce == GateInv => OneResultEach
<1> SUFFICES ASSUME GateInv, NEW q \in results, NEW r \in results, q # r
             PROVE  q.shipments \cap r.shipments = {} /\ q.cases \cap r.cases = {}
  BY DEF OneResultEach
<1>1. \A x \in results : x \in GroupResults \/ x \in Unmatchables BY DEF GateInv
<1>2. \A x \in GroupResults : \E s \in Matched : x = ResultOf(s)
  BY DEF GateInv, Searching, GroupResults
<1>3. Matched \subseteq Shipments BY DEF Matched
<1>4. CASE q \in GroupResults /\ r \in GroupResults
  <2>1. PICK s, t \in Matched : q = ResultOf(s) /\ r = ResultOf(t) BY <1>2, <1>4
  <2>2. Component(s) # Component(t) BY <2>1 DEF ResultOf
  <2> QED BY <1>3, <2>1, <2>2, GroupsApart, ResultClaims
<1>5. CASE q \in GroupResults /\ r \in Unmatchables
  <2>1. PICK s \in Matched : q = ResultOf(s) BY <1>2, <1>5
  <2> QED BY <1>3, <1>5, <2>1, ResultClaims, LeftOut
<1>6. CASE q \in Unmatchables /\ r \in GroupResults
  <2>1. PICK s \in Matched : r = ResultOf(s) BY <1>2, <1>6
  <2> QED BY <1>3, <1>6, <2>1, ResultClaims, LeftOut
<1>7. CASE q \in Unmatchables /\ r \in Unmatchables BY <1>7, LeftOut
<1> QED BY <1>1, <1>4, <1>5, <1>6, <1>7

(* and at the end that the results are those of the groups. *)
LEMMA InvReconciles == GateInv => Reconciled
<1> SUFFICES ASSUME GateInv, stage = "done"
             PROVE  results = {ResultOf(s) : s \in Matched}
                                \cup {Result("MISSING_CASE", {s}, {}) : s \in Overdue}
                                \cup {Result("UNMATCHED_CASE", {}, {c}) : c \in Cases \ Claims(Shipments)}
  BY DEF Reconciled, ResultOf
<1>1. visited = Matched BY DEF GateInv, Searching
<1>2. MissingCases = Overdue
  BY DEF MissingCases, Overdue, Matched, CasesOf, Claims, GateInv, GateTypeOK, Lifecycles
<1>3. UnmatchedCases = Cases \ Claims(Shipments)
  BY DEF UnmatchedCases, ShipmentsOf, Claims
<1> QED BY <1>1, <1>2, <1>3 DEF GateInv, GroupResults, Unmatchables

-----------------------------------------------------------------------------
(* Theorems *)

(* Whatever the ledger, every variable keeps its type. *)
THEOREM GateTypeCorrect == GateSpec => []GateTypeOK
<1>1. GateInv => GateTypeOK BY DEF GateInv
<1> QED BY <1>1, InvAlways, PTL

(* In whatever order the groups are searched, no shipment and no case is   *)
(* named by two results.                                                   *)
THEOREM ClaimedOnce == GateSpec => []OneResultEach
<1> QED BY InvClaimsOnce, InvAlways, PTL

(* The search ends with exactly the groups that hang together, whatever    *)
(* identifiers shipments and cases share.                                  *)
THEOREM GateReconciles == GateSpec => []Reconciled
<1> QED BY InvReconciles, InvAlways, PTL

-----------------------------------------------------------------------------
(* Recursion *)

(* A set of numbers that holds 0 and the successor of each of its members  *)
(* is all of them.                                                         *)
LEMMA Induction ==
  ASSUME NEW S \in SUBSET Nat, 0 \in S, \A n \in S : n + 1 \in S
  PROVE  S = Nat
<1>1. SUFFICES ASSUME Nat \ S # {} PROVE FALSE OBVIOUS
<1>2. PICK m \in Nat \ S : \A n \in Nat \ S : m <= n BY ONLY <1>1, Least
<1>3. m # 0 OBVIOUS
<1>4. m - 1 \in Nat /\ ~(m <= m - 1) BY <1>3
<1>5. m - 1 \in S BY <1>2, <1>4
<1>6. (m - 1) + 1 \in S BY <1>5
<1> QED BY <1>6

(* A function may be defined by taking its finite argument apart. *)
TakenApart(f, S, base, step, pick) ==
  \A s \in SUBSET S : f[s] = IF s = {} THEN base ELSE step[<<pick[s], f[s \ {pick[s]}]>>]

(* There is such a function for any finite set. *)
LEMMA SetRecursion ==
  ASSUME NEW S, IsFiniteSet(S), NEW D, NEW base \in D, NEW step \in [S \X D -> D],
         NEW pick, \A s \in SUBSET S : s # {} => pick[s] \in s
  PROVE  \E f \in [SUBSET S -> D] : TakenApart(f, S, base, step, pick)
<1> DEFINE Small(n) == {s \in SUBSET S : Cardinality(s) <= n}
           Rec(f, n) == \A s \in Small(n) :
                          f[s] = IF s = {} THEN base ELSE step[<<pick[s], f[s \ {pick[s]}]>>]
           good == {n \in Nat : \E f \in [SUBSET S -> D] : Rec(f, n)}
<1>1. \A s \in SUBSET S : IsFiniteSet(s) /\ Cardinality(s) \in Nat
  BY FS_Subset, FS_CardinalityType
<1>2. \A s \in SUBSET S : s # {} =>
        /\ pick[s] \in S /\ s \ {pick[s]} \in SUBSET S
        /\ Cardinality(s \ {pick[s]}) = Cardinality(s) - 1
  BY <1>1, FS_RemoveElement
<1>3. 0 \in good
  <2>1. \A s \in Small(0) : s = {} BY <1>1, FS_EmptySet
  <2>2. [s \in SUBSET S |-> base] \in [SUBSET S -> D] OBVIOUS
  <2>3. Rec([s \in SUBSET S |-> base], 0) BY <2>1
  <2> HIDE DEF Rec
  <2> QED BY <2>2, <2>3
<1>4. ASSUME NEW n \in good PROVE n + 1 \in good
  <2>1. PICK f \in [SUBSET S -> D] : Rec(f, n) BY DEF good
  <2> DEFINE g == [s \in SUBSET S |->
                     IF s = {} THEN base ELSE step[<<pick[s], f[s \ {pick[s]}]>>]]
  <2>2. g \in [SUBSET S -> D] BY <1>2
  <2>3. \A s \in Small(n) : g[s] = f[s] BY <2>1
  <2>4. ASSUME NEW s \in Small(n + 1)
        PROVE  g[s] = IF s = {} THEN base ELSE step[<<pick[s], g[s \ {pick[s]}]>>]
    <3>1. CASE s = {} BY <3>1
    <3>2. CASE s # {}
      <4>1. s \ {pick[s]} \in Small(n) BY <1>1, <1>2, <3>2
      <4>2. g[s \ {pick[s]}] = f[s \ {pick[s]}] BY <2>3, <4>1
      <4> QED BY <3>2, <4>2
    <3> QED BY <3>1, <3>2
  <2>5. Rec(g, n + 1) BY <2>4
  <2> HIDE DEF Rec, g
  <2> QED BY <2>2, <2>5
<1>5. good = Nat
  <2> HIDE DEF good
  <2>1. good \in SUBSET Nat BY DEF good
  <2> QED BY ONLY <1>3, <1>4, <2>1, Induction
<1>6. Cardinality(S) \in good BY <1>1, <1>5
<1>7. PICK f \in [SUBSET S -> D] : Rec(f, Cardinality(S)) BY <1>6
<1>8. \A s \in SUBSET S : s \in Small(Cardinality(S)) BY <1>1, FS_Subset
<1> QED BY <1>7, <1>8 DEF TakenApart

(* The largest number from 1 to i + 1, and what is left without it. *)
LEMMA MaxOf ==
  ASSUME NEW i \in Nat
  PROVE  /\ (1..(i + 1)) \ {i + 1} = 1..i
         /\ Max(1..(i + 1)) = i + 1
<1>1. (1..(i + 1)) \ {i + 1} = 1..i OBVIOUS
<1>2. Max(1..(i + 1)) = i + 1
  <2>1. i + 1 \in 1..(i + 1) /\ \A y \in 1..(i + 1) : i + 1 >= y OBVIOUS
  <2>2. \A x \in 1..(i + 1) : (\A y \in 1..(i + 1) : x >= y) => x = i + 1
    <3> TAKE x \in 1..(i + 1)
    <3>1. (\A y \in 1..(i + 1) : x >= y) => x >= i + 1 BY <2>1
    <3> QED BY <3>1
  <2> QED BY <2>1, <2>2 DEF Max
<1> QED BY <1>1, <1>2

(* A set of numbers up to n has a largest member. *)
LEMMA MaxIn ==
  ASSUME NEW n \in Nat, NEW s \in SUBSET (1..n), s # {}
  PROVE  Max(s) \in s
<1> DEFINE far == {n - i : i \in s}
<1>1. far \in SUBSET Nat /\ far # {}
  <2>1. \A i \in s : i \in 1..n /\ n - i \in Nat OBVIOUS
  <2> QED BY <2>1
<1>2. PICK m \in far : \A k \in far : m <= k
  <2> HIDE DEF far
  <2> QED BY ONLY <1>1, Least
<1>3. PICK i \in s : m = n - i OBVIOUS
<1>4. \A j \in s : i >= j
  <2> TAKE j \in s
  <2>1. n - j \in far OBVIOUS
  <2>2. n - i <= n - j BY <1>2, <1>3, <2>1
  <2> QED BY <2>2
<1> QED BY <1>4 DEF Max

(* A value may be carried along a sequence. *)
Carried(f, n, base, step) ==
  f[0] = base /\ \A i \in 1..n : f[i] = step[<<i, f[i - 1]>>]

(* A function may be defined on the sets of numbers up to n by taking the  *)
(* largest one out.                                                        *)
LEMMA Recursion ==
  ASSUME NEW n \in Nat, NEW D, NEW base \in D, NEW step \in [(1..n) \X D -> D]
  PROVE  \E f \in [SUBSET (1..n) -> D] : TakenApart(f, 1..n, base, step, [s \in SUBSET (1..n) |-> Max(s)])
<1> DEFINE S == 1..n
           pick == [s \in SUBSET S |-> Max(s)]
<1>1. IsFiniteSet(S) BY FS_Interval
<1>2. \A s \in SUBSET S : pick[s] = Max(s) OBVIOUS
<1>3. \A s \in SUBSET S : s # {} => Max(s) \in s BY MaxIn
<1>5. \A s \in SUBSET S : s # {} => pick[s] \in s BY <1>2, <1>3
<1>6. step \in [S \X D -> D] OBVIOUS
<1>7. \E f \in [SUBSET S -> D] : TakenApart(f, S, base, step, pick)
  <2> HIDE DEF S, pick
  <2> QED BY ONLY <1>1, <1>5, <1>6, base \in D, SetRecursion
<1> QED BY <1>7

(* Whatever is carried along, there is such a function. *)
LEMMA Along ==
  ASSUME NEW n \in Nat, NEW D, NEW base \in D, NEW step \in [(1..n) \X D -> D]
  PROVE  \E acc \in [0..n -> D] : Carried(acc, n, base, step)
<1>1. PICK f \in [SUBSET (1..n) -> D] :
        TakenApart(f, 1..n, base, step, [s \in SUBSET (1..n) |-> Max(s)])
  BY Recursion
<1>2. \A s \in SUBSET (1..n) : f[s] = IF s = {} THEN base ELSE step[<<Max(s), f[s \ {Max(s)}]>>]
  BY <1>1 DEF TakenApart
<1> DEFINE acc == [i \in 0..n |-> f[1..i]]
<1>3. acc \in [0..n -> D] OBVIOUS
<1>4. acc[0] = base
  <2>1. 1..0 = {} /\ 0 \in 0..n OBVIOUS
  <2>2. acc[0] = f[1..0] BY <2>1
  <2>3. {} \in SUBSET (1..n) OBVIOUS
  <2>4. f[{}] = base BY <1>2, <2>3
  <2> QED BY <2>1, <2>2, <2>4
<1>5. ASSUME NEW i \in 1..n PROVE acc[i] = step[<<i, acc[i - 1]>>]
  <2>1. i - 1 \in Nat /\ (i - 1) + 1 = i /\ i \in 0..n /\ i - 1 \in 0..n OBVIOUS
  <2>2. (1..i) \ {i} = 1..(i - 1) /\ Max(1..i) = i BY <2>1, MaxOf
  <2>3. 1..i \in SUBSET (1..n) /\ 1..i # {} OBVIOUS
  <2>4. f[1..i] = step[<<i, f[1..(i - 1)]>>] BY <1>2, <2>2, <2>3
  <2>5. acc[i] = f[1..i] /\ acc[i - 1] = f[1..(i - 1)] BY <2>1
  <2> QED BY <2>4, <2>5
<1> HIDE DEF acc
<1> QED BY <1>3, <1>4, <1>5 DEF Carried

(* The same from 1 to i, as a part of 1 to n. *)
LEMMA UpTo ==
  ASSUME NEW n \in Nat, NEW i \in 1..n
  PROVE  /\ (1..i) \ {i} = 1..(i - 1) /\ Max(1..i) = i
         /\ 1..i \in SUBSET (1..n) /\ 1..i # {}
<1>1. i - 1 \in Nat /\ (i - 1) + 1 = i OBVIOUS
<1>2. (1..i) \ {i} = 1..(i - 1) /\ Max(1..i) = i BY <1>1, MaxOf
<1>3. 1..i \in SUBSET (1..n) /\ 1..i # {} OBVIOUS
<1> QED BY <1>2, <1>3

(* A fold over 1..n takes the largest number out of a set first. *)
FoldedUp(fold, n, D, base, step) ==
  /\ fold[{}] = base
  /\ \A s \in SUBSET (1..n) :
       s # {} /\ fold[s \ {Max(s)}] \in D => fold[s] = step[<<Max(s), fold[s \ {Max(s)}]>>]

(* It is what is carried along from 1 to n. *)
LEMMA Unfolded ==
  ASSUME NEW n \in Nat, NEW D, NEW base, NEW step, NEW fold, FoldedUp(fold, n, D, base, step),
         NEW acc \in [0..n -> D], Carried(acc, n, base, step)
  PROVE  fold[1..n] = acc[n]
<1> DEFINE good == {k \in Nat : k \in 0..n => fold[1..k] = acc[k]}
<1>1. 0 \in good
  <2>1. 1..0 = {} OBVIOUS
  <2> QED BY <2>1 DEF Carried, FoldedUp
<1>2. ASSUME NEW k \in good PROVE k + 1 \in good
  <2>1. k \in Nat /\ (k \in 0..n => fold[1..k] = acc[k]) OBVIOUS
  <2> HIDE DEF good
  <2> SUFFICES ASSUME k + 1 \in 0..n PROVE fold[1..(k + 1)] = acc[k + 1] BY <2>1 DEF good
  <2>2. k \in 0..n /\ k + 1 \in 1..n /\ (k + 1) - 1 = k BY <2>1
  <2> DEFINE j == k + 1
             s == 1..j
  <2>3. s \ {j} = 1..k /\ Max(s) = j /\ s \in SUBSET (1..n) /\ s # {}
    <3>1. j \in 1..n /\ j - 1 = k BY <2>2
    <3> HIDE DEF j
    <3> QED BY <3>1, UpTo
  <2>4. fold[1..k] = acc[k] /\ acc[k] \in D BY <2>1, <2>2
  <2>5. acc[j] = step[<<j, acc[k]>>]
    <3>1. acc[j] = step[<<j, acc[j - 1]>>] BY <2>2 DEF Carried
    <3> QED BY <2>2, <3>1
  <2> HIDE DEF s, j
  <2>6. fold[s] = step[<<j, fold[1..k]>>] BY <2>3, <2>4 DEF FoldedUp
  <2> QED BY <2>4, <2>5, <2>6 DEF s, j
<1>3. good = Nat
  <2> HIDE DEF good
  <2>1. good \in SUBSET Nat BY DEF good
  <2> QED BY ONLY <1>1, <1>2, <2>1, Induction
<1>4. n \in good /\ n \in 0..n BY <1>3
<1> QED BY <1>4

-----------------------------------------------------------------------------
(* Lists *)

(* Sequences laid end to end are laid one after the other. *)
LaidOut(acc, seqs) ==
  acc[0] = <<>> /\ \A i \in 1..Len(seqs) : acc[i] = acc[i - 1] \o seqs[i]

(* Any sequences may be laid out one after the other. *)
LEMMA LayOut ==
  ASSUME NEW T, NEW seqs \in Seq(Seq(T))
  PROVE  \E acc \in [0..Len(seqs) -> Seq(T)] : LaidOut(acc, seqs)
<1> DEFINE n == Len(seqs)
           step == [p \in (1..n) \X Seq(T) |-> p[2] \o seqs[p[1]]]
<1>1. n \in Nat /\ \A i \in 1..n : seqs[i] \in Seq(T) BY LenProperties, ElementOfSeq
<1>2. step \in [(1..n) \X Seq(T) -> Seq(T)] BY <1>1, ConcatProperties
<1>3. <<>> \in Seq(T) BY EmptySeq
<1>4. PICK acc \in [0..n -> Seq(T)] : Carried(acc, n, <<>>, step)
  <2> HIDE DEF n, step
  <2> QED BY ONLY <1>1, <1>2, <1>3, Along
<1>5. acc[0] = <<>> BY <1>4 DEF Carried
<1>6. ASSUME NEW i \in 1..n PROVE acc[i] = acc[i - 1] \o seqs[i]
  <2>1. i - 1 \in 0..n BY <1>1
  <2>2. acc[i - 1] \in Seq(T) BY <2>1
  <2>3. acc[i] = step[<<i, acc[i - 1]>>] BY <1>4 DEF Carried
  <2>4. <<i, acc[i - 1]>> \in (1..n) \X Seq(T) BY <2>2
  <2> QED BY <2>3, <2>4
<1>7. LaidOut(acc, seqs) BY <1>5, <1>6 DEF LaidOut
<1> QED BY <1>7

(* FlattenSeq returns what they come to. *)
LEMMA Flattened ==
  ASSUME NEW T, NEW seqs \in Seq(Seq(T)), NEW acc \in [0..Len(seqs) -> Seq(T)], LaidOut(acc, seqs)
  PROVE  FlattenSeq(seqs) = acc[Len(seqs)]
<1> DEFINE n == Len(seqs)
<1>1. n \in Nat /\ \A i \in 1..n : seqs[i] \in Seq(T) BY LenProperties, ElementOfSeq
<1>2. acc[0] = <<>> BY DEF LaidOut
<1>3. \A i \in 1..n : acc[i] = acc[i - 1] \o seqs[i] BY DEF LaidOut
<1>6. CASE n = 0
  <2>1. seqs = <<>> BY <1>6, LenProperties, EmptySeq
  <2>2. FlattenSeq(seqs) = <<>> BY <2>1 DEF FlattenSeq
  <2> QED BY <1>2, <1>6, <2>2
<1>7. CASE n # 0
  <2> DEFINE flat == CHOOSE f : f = [i \in 1..n |-> IF i = 1 THEN seqs[i] ELSE f[i - 1] \o seqs[i]]
             g == [i \in 1..n |-> acc[i]]
  <2>0. acc[1] = seqs[1]
    <3>1. 1 \in 1..n /\ 1 - 1 = 0 BY <1>1, <1>7
    <3>2. acc[1] = <<>> \o seqs[1]
      <4>1. acc[1] = acc[1 - 1] \o seqs[1] BY <1>3, <3>1
      <4> QED BY <1>2, <3>1, <4>1
    <3> QED BY <1>1, <3>1, <3>2, ConcatEmptySeq
  <2>1. g = [i \in 1..n |-> IF i = 1 THEN seqs[i] ELSE g[i - 1] \o seqs[i]]
    <3>1. ASSUME NEW i \in 1..n PROVE acc[i] = IF i = 1 THEN seqs[i] ELSE g[i - 1] \o seqs[i]
      <4>1. CASE i = 1 BY <2>0, <4>1
      <4>2. CASE i # 1
        <5>1. i - 1 \in 1..n BY <1>1, <4>2
        <5>2. acc[i] = acc[i - 1] \o seqs[i] BY <1>3
        <5>3. g[i - 1] = acc[i - 1] BY <5>1
        <5> HIDE DEF g
        <5> QED BY <4>2, <5>2, <5>3
      <4> QED BY <4>1, <4>2
    <3> QED BY <3>1
  <2>2. flat = [i \in 1..n |-> IF i = 1 THEN seqs[i] ELSE flat[i - 1] \o seqs[i]]
    <3> HIDE DEF g, n
    <3> QED BY <2>1
  <2>3. FlattenSeq(seqs) = flat[n] BY <1>7 DEF FlattenSeq
  <2> HIDE DEF flat
  <2> DEFINE same == {i \in Nat : i + 1 \in 1..n => flat[i + 1] = acc[i + 1]}
  <2>4. 0 \in same
    <3>1. 1 \in 1..n BY <1>1, <1>7
    <3>2. flat[1] = seqs[1] BY <2>2, <3>1
    <3> QED BY <2>0, <3>2
  <2>5. ASSUME NEW i \in same PROVE i + 1 \in same
    <3> SUFFICES ASSUME (i + 1) + 1 \in 1..n PROVE flat[(i + 1) + 1] = acc[(i + 1) + 1] OBVIOUS
    <3> DEFINE j == (i + 1) + 1
    <3>1. i + 1 \in 1..n /\ j - 1 = i + 1 /\ j # 1 /\ j \in 1..n BY <1>1
    <3>4. flat[i + 1] = acc[i + 1] BY <3>1
    <3> HIDE DEF j
    <3>2. flat[j] = flat[j - 1] \o seqs[j] BY <2>2, <3>1
    <3>3. acc[j] = acc[j - 1] \o seqs[j] BY <1>3, <3>1
    <3>5. flat[j] = acc[j]
      <4> HIDE DEF flat, n, same
      <4> QED BY <3>1, <3>2, <3>3, <3>4
    <3> QED BY <3>5 DEF j
  <2>6. same = Nat
    <3> HIDE DEF same
    <3>1. same \in SUBSET Nat BY DEF same
    <3> QED BY ONLY <2>4, <2>5, <3>1, Induction
  <2>7. n - 1 \in Nat /\ (n - 1) + 1 = n /\ n \in 1..n BY <1>1, <1>7
  <2>8. flat[n] = acc[n]
    <3>1. n - 1 \in same
      <4> HIDE DEF same
      <4> QED BY <2>6, <2>7
    <3> QED BY <2>7, <3>1
  <2> QED BY <2>3, <2>8
<1> QED BY <1>1, <1>6, <1>7

(* A sequence that lists the members of a set. *)
Lists(seq, set) == seq \in Seq(set) /\ ToSet(seq) = set

(* Each place of such a sequence holds a member of the set, and each       *)
(* member has a place.                                                     *)
LEMMA ListsDomain ==
  ASSUME NEW seq, NEW set, Lists(seq, set)
  PROVE  /\ Len(seq) \in Nat /\ DOMAIN seq = 1..Len(seq)
         /\ \A i \in 1..Len(seq) : seq[i] \in set
         /\ \A x \in set : \E i \in 1..Len(seq) : seq[i] = x
<1>1. seq \in Seq(set) /\ ToSet(seq) = set BY DEF Lists
<1>2. Len(seq) \in Nat /\ DOMAIN seq = 1..Len(seq) /\ \A i \in 1..Len(seq) : seq[i] \in set
  BY <1>1, LenProperties, ElementOfSeq
<1> QED BY <1>1, <1>2 DEF ToSet

(* A sequence with these two properties lists the set. *)
LEMMA ListsMade ==
  ASSUME NEW n \in Nat, NEW seq, NEW set, seq = [i \in 1..n |-> seq[i]],
         \A i \in 1..n : seq[i] \in set, \A x \in set : \E i \in 1..n : seq[i] = x
  PROVE  Lists(seq, set) /\ Len(seq) = n
<1>1. seq \in [1..n -> set]
  <2> DEFINE f == [i \in 1..n |-> seq[i]]
  <2>1. f \in [1..n -> set] OBVIOUS
  <2> QED BY <2>1
<1>2. seq \in Seq(set) /\ Len(seq) = n BY <1>1, SeqDef
<1>3. DOMAIN seq = 1..n BY <1>1
<1>4. ToSet(seq) = set BY <1>3 DEF ToSet
<1> QED BY <1>2, <1>4 DEF Lists

(* Nothing lists nothing. *)
LEMMA ListsEmpty == Lists(<<>>, {}) BY DEF Lists, ToSet

(* One value lists itself. *)
LEMMA ListsOne == ASSUME NEW x PROVE Lists(<<x>>, {x}) BY DEF Lists, ToSet

(* Two sequences, one after the other, list what either lists. *)
LEMMA ListsBoth ==
  ASSUME NEW s, NEW S, Lists(s, S), NEW t, NEW T, Lists(t, T)
  PROVE  Lists(s \o t, S \cup T)
<1>1. s \in Seq(S) /\ t \in Seq(T) /\ ToSet(s) = S /\ ToSet(t) = T BY DEF Lists
<1>2. s \in Seq(S \cup T) /\ t \in Seq(S \cup T)
  <2>1. Len(s) \in Nat /\ Len(t) \in Nat /\ s \in [1..Len(s) -> S] /\ t \in [1..Len(t) -> T]
    BY <1>1, LenProperties
  <2> QED BY <2>1, SeqDef
<1>3. s \o t \in Seq(S \cup T) BY <1>2, ConcatProperties
<1>4. Range(s \o t) = Range(s) \cup Range(t) BY <1>2, RangeConcatenation
<1>5. Range(s) = ToSet(s) /\ Range(t) = ToSet(t) /\ Range(s \o t) = ToSet(s \o t) BY DEF Range, ToSet
<1> QED BY <1>1, <1>3, <1>4, <1>5 DEF Lists

(* What FlattenSeq returns. *)
LEMMA ListsFlat ==
  ASSUME NEW n \in Nat, NEW seqs, seqs = [i \in 1..n |-> seqs[i]], NEW sets,
         \A i \in 1..n : Lists(seqs[i], sets[i])
  PROVE  Lists(FlattenSeq(seqs), UNION {sets[i] : i \in 1..n})
<1> DEFINE T == UNION {sets[i] : i \in 1..n}
<1>1. \A i \in 1..n : seqs[i] \in Seq(T)
  <2> TAKE i \in 1..n
  <2>1. seqs[i] \in Seq(sets[i]) BY DEF Lists
  <2>2. sets[i] \subseteq T OBVIOUS
  <2> HIDE DEF T
  <2>3. Len(seqs[i]) \in Nat /\ seqs[i] \in [1..Len(seqs[i]) -> sets[i]] BY <2>1, LenProperties
  <2>4. seqs[i] \in [1..Len(seqs[i]) -> T] BY <2>2, <2>3
  <2> QED BY <2>3, <2>4, SeqDef
<1> HIDE DEF T
<1>2. seqs \in Seq(Seq(T)) /\ Len(seqs) = n
  <2> DEFINE f == [i \in 1..n |-> seqs[i]]
  <2>1. f \in [1..n -> Seq(T)] BY <1>1
  <2>2. seqs \in [1..n -> Seq(T)] BY <2>1
  <2> QED BY <2>2, SeqDef
<1>3. PICK acc \in [0..n -> Seq(T)] : LaidOut(acc, seqs) BY <1>2, LayOut
<1>4. FlattenSeq(seqs) = acc[n] BY <1>2, <1>3, Flattened
<1> DEFINE good == {k \in Nat : k \in 0..n => Lists(acc[k], UNION {sets[i] : i \in 1..k})}
<1>5. 0 \in good
  <2>1. acc[0] = <<>> BY <1>3 DEF LaidOut
  <2>2. 1..0 = {} OBVIOUS
  <2>3. UNION {sets[i] : i \in 1..0} = {} BY <2>2
  <2> QED BY <2>1, <2>3, ListsEmpty
<1>6. ASSUME NEW k \in good PROVE k + 1 \in good
  <2>0. k \in Nat /\ (k \in 0..n => Lists(acc[k], UNION {sets[i] : i \in 1..k})) OBVIOUS
  <2> HIDE DEF good
  <2> SUFFICES ASSUME k + 1 \in 0..n
               PROVE Lists(acc[k + 1], UNION {sets[i] : i \in 1..(k + 1)})
    BY <2>0 DEF good
  <2>1. k \in 0..n /\ k + 1 \in 1..n /\ (k + 1) - 1 = k
    <3>1. k \in Nat BY <2>0
    <3> QED BY ONLY n \in Nat, <3>1, k + 1 \in 0..n
  <2>2. acc[k + 1] = acc[k] \o seqs[k + 1]
    <3>1. acc[k + 1] = acc[(k + 1) - 1] \o seqs[k + 1] BY <1>2, <1>3, <2>1 DEF LaidOut
    <3> QED BY <2>1, <3>1
  <2>3. Lists(acc[k + 1], (UNION {sets[i] : i \in 1..k}) \cup sets[k + 1])
    BY <2>0, <2>1, <2>2, ListsBoth
  <2>4. 1..(k + 1) = (1..k) \cup {k + 1} BY <2>0
  <2>5. UNION {sets[i] : i \in 1..(k + 1)} = (UNION {sets[i] : i \in 1..k}) \cup sets[k + 1] BY <2>4
  <2> QED BY <2>3, <2>5
<1>7. good = Nat
  <2> HIDE DEF good
  <2>1. good \in SUBSET Nat BY DEF good
  <2> QED BY ONLY <1>5, <1>6, <2>1, Induction
<1>8. n \in 0..n OBVIOUS
<1>9. n \in good BY <1>7
<1>10. Lists(acc[n], UNION {sets[i] : i \in 1..n}) BY <1>8, <1>9
<1> QED BY <1>4, <1>10

(* Kept keeps what is in the set. *)
LEMMA ListsKept ==
  ASSUME NEW s, NEW S, Lists(s, S), NEW set
  PROVE  Lists(Kept(s, set), S \cap set)
<1> DEFINE n == Len(s)
           seqs == [i \in 1..n |-> IF s[i] \in set THEN <<s[i]>> ELSE <<>>]
           sets == [i \in 1..n |-> IF s[i] \in set THEN {s[i]} ELSE {}]
<1>1. /\ n \in Nat /\ DOMAIN s = 1..n
      /\ \A i \in 1..n : s[i] \in S
      /\ \A x \in S : \E i \in 1..n : s[i] = x
  BY ListsDomain
<1>2. Kept(s, set) = FlattenSeq(seqs) BY <1>1 DEF Kept
<1>3. \A i \in 1..n : Lists(seqs[i], sets[i]) BY ListsOne, ListsEmpty
<1>4. UNION {sets[i] : i \in 1..n} = S \cap set BY <1>1
<1>5. seqs = [i \in 1..n |-> seqs[i]] OBVIOUS
<1>6. Lists(FlattenSeq(seqs), UNION {sets[i] : i \in 1..n})
  <2> HIDE DEF n, seqs, sets
  <2> QED BY <1>1, <1>3, <1>5, ListsFlat
<1> QED BY <1>2, <1>4, <1>6

(* Distinct drops repetitions and nothing else. *)
LEMMA ListsDistinct ==
  ASSUME NEW s, NEW S, Lists(s, S)
  PROVE  Lists(Distinct(s), S)
<1> DEFINE n == Len(s)
           seen(i) == \E j \in 1..(i - 1) : s[j] = s[i]
           seqs == [i \in 1..n |-> IF seen(i) THEN <<>> ELSE <<s[i]>>]
           sets == [i \in 1..n |-> IF seen(i) THEN {} ELSE {s[i]}]
<1>1. /\ n \in Nat /\ DOMAIN s = 1..n
      /\ \A i \in 1..n : s[i] \in S
      /\ \A x \in S : \E i \in 1..n : s[i] = x
  BY ListsDomain
<1>2. Distinct(s) = FlattenSeq(seqs) BY <1>1 DEF Distinct
<1>3. \A i \in 1..n : Lists(seqs[i], sets[i]) BY ListsOne, ListsEmpty
<1>4. UNION {sets[i] : i \in 1..n} = S
  <2>1. UNION {sets[i] : i \in 1..n} \subseteq S BY <1>1
  <2>2. ASSUME NEW x \in S PROVE \E i \in 1..n : x \in sets[i]
    <3> DEFINE at == {i \in 1..n : s[i] = x}
    <3>1. at \in SUBSET Nat /\ at # {} BY <1>1
    <3>2. PICK m \in at : \A i \in at : m <= i
      <4> HIDE DEF at
      <4> QED BY ONLY <3>1, Least
    <3>3. m \in 1..n /\ s[m] = x BY <3>2
    <3>4. ~seen(m)
      <4>1. SUFFICES ASSUME NEW j \in 1..(m - 1), s[j] = s[m] PROVE FALSE OBVIOUS
      <4>2. j \in 1..n /\ ~(m <= j) BY <1>1, <3>3
      <4>3. j \in at BY <3>3, <4>1, <4>2
      <4> QED BY <3>2, <4>2, <4>3
    <3>5. x \in sets[m] BY <3>3, <3>4
    <3> QED BY <3>3, <3>5
  <2> QED BY <2>1, <2>2
<1>5. seqs = [i \in 1..n |-> seqs[i]] OBVIOUS
<1>6. Lists(FlattenSeq(seqs), UNION {sets[i] : i \in 1..n})
  <2> HIDE DEF n, seqs, sets
  <2> QED BY <1>1, <1>3, <1>5, ListsFlat
<1> QED BY <1>2, <1>4, <1>6

(* Append adds one value at the end. *)
LEMMA ListsAppend ==
  ASSUME NEW s, NEW S, Lists(s, S), NEW x
  PROVE  Lists(Append(s, x), S \cup {x}) /\ Len(Append(s, x)) = Len(s) + 1
<1>1. s \in Seq(S \cup {x})
  <2>1. Len(s) \in Nat /\ s \in [1..Len(s) -> S] BY LenProperties DEF Lists
  <2>2. s \in [1..Len(s) -> S \cup {x}] BY <2>1
  <2> QED BY <2>1, <2>2, SeqDef
<1>2. /\ Append(s, x) \in Seq(S \cup {x}) /\ Len(Append(s, x)) = Len(s) + 1
      /\ \A i \in 1..Len(s) : Append(s, x)[i] = s[i]
      /\ Append(s, x)[Len(s) + 1] = x
  BY <1>1, AppendProperties
<1>3. Len(s) \in Nat /\ DOMAIN s = 1..Len(s) /\ DOMAIN Append(s, x) = 1..(Len(s) + 1)
  BY <1>1, <1>2, LenProperties
<1>4. 1..(Len(s) + 1) = (1..Len(s)) \cup {Len(s) + 1} BY <1>3
<1>5. ToSet(Append(s, x)) = ToSet(s) \cup {x} BY <1>2, <1>3, <1>4 DEF ToSet
<1> QED BY <1>2, <1>5 DEF Lists

(* EachOf lists any finite set, each member once. *)
LEMMA ListsEach ==
  ASSUME NEW S, IsFiniteSet(S)
  PROVE  Lists(EachOf(S), S) /\ Len(EachOf(S)) = Cardinality(S)
<1> DEFINE any == [s \in SUBSET S |-> CHOOSE x \in s : TRUE]
           step == [p \in S \X Seq(S) |-> Append(p[2], p[1])]
<1>1. <<>> \in Seq(S) BY EmptySeq
<1>2. step \in [S \X Seq(S) -> Seq(S)] BY AppendProperties
<1>3. \A s \in SUBSET S : s # {} => any[s] \in s OBVIOUS
<1>4. PICK f \in [SUBSET S -> Seq(S)] : TakenApart(f, S, <<>>, step, any)
  <2> HIDE DEF any, step
  <2> QED BY <1>1, <1>2, <1>3, SetRecursion
<1> DEFINE iter == CHOOSE g : g = [s \in SUBSET S |->
                     IF s = {} THEN <<>> ELSE Append(g[s \ {CHOOSE x \in s : TRUE}], CHOOSE x \in s : TRUE)]
<1>5. f = [s \in SUBSET S |->
             IF s = {} THEN <<>> ELSE Append(f[s \ {CHOOSE x \in s : TRUE}], CHOOSE x \in s : TRUE)]
  <2>1. ASSUME NEW s \in SUBSET S, s # {}
        PROVE  f[s] = Append(f[s \ {CHOOSE x \in s : TRUE}], CHOOSE x \in s : TRUE)
    <3>1. any[s] = (CHOOSE x \in s : TRUE) /\ any[s] \in S BY <2>1
    <3>2. f[s \ {any[s]}] \in Seq(S) OBVIOUS
    <3>3. f[s] = step[<<any[s], f[s \ {any[s]}]>>] BY <1>4, <2>1 DEF TakenApart
    <3>4. \A y \in S, t \in Seq(S) : step[<<y, t>>] = Append(t, y) OBVIOUS
    <3> HIDE DEF step, any
    <3>5. f[s] = Append(f[s \ {any[s]}], any[s]) BY <3>1, <3>2, <3>3, <3>4
    <3> QED BY <3>1, <3>5
  <2>2. f[{}] = <<>> BY <1>4 DEF TakenApart
  <2> HIDE DEF any, step
  <2> QED BY <2>1, <2>2
<1>6. iter = [s \in SUBSET S |->
                IF s = {} THEN <<>> ELSE Append(iter[s \ {CHOOSE x \in s : TRUE}], CHOOSE x \in s : TRUE)]
  <2> HIDE DEF any, step
  <2> QED BY <1>5
<1>7. EachOf(S) = iter[S] BY DEF EachOf, FoldSet, MapThenFoldSet
<1> HIDE DEF any, step, iter
<1> DEFINE good == {k \in Nat : \A s \in SUBSET S : Cardinality(s) = k => Lists(iter[s], s) /\ Len(iter[s]) = k}
<1>8. \A s \in SUBSET S : IsFiniteSet(s) /\ Cardinality(s) \in Nat BY FS_Subset, FS_CardinalityType
<1>9. 0 \in good
  <2>1. ASSUME NEW s \in SUBSET S, Cardinality(s) = 0 PROVE Lists(iter[s], s) /\ Len(iter[s]) = 0
    <3>1. s = {} BY <1>8, <2>1, FS_EmptySet
    <3>2. iter[s] = <<>> BY <1>6, <3>1
    <3> QED BY <3>1, <3>2, ListsEmpty, EmptySeq
  <2> QED BY <2>1
<1>10. ASSUME NEW k \in good PROVE k + 1 \in good
  <2>0. k \in Nat OBVIOUS
  <2>1. ASSUME NEW s \in SUBSET S, Cardinality(s) = k + 1 PROVE Lists(iter[s], s) /\ Len(iter[s]) = k + 1
    <3> DEFINE x == CHOOSE x \in s : TRUE
    <3>1. s # {} 
      <4>1. Cardinality({}) = 0 BY FS_EmptySet
      <4>2. k + 1 # 0 BY ONLY <2>0
      <4> QED BY <2>1, <4>1, <4>2
    <3>2. x \in s BY <3>1
    <3>3. Cardinality(s \ {x}) = k
      <4>1. Cardinality(s \ {x}) = Cardinality(s) - 1 BY <1>8, <3>2, FS_RemoveElement
      <4>2. (k + 1) - 1 = k BY ONLY <2>0
      <4> QED BY <2>1, <4>1, <4>2
    <3>4. iter[s] = Append(iter[s \ {x}], x) BY <1>6, <3>1
    <3>5. s \ {x} \in SUBSET S /\ s = (s \ {x}) \cup {x} BY <3>2
    <3> HIDE DEF x
    <3>6. Lists(iter[s \ {x}], s \ {x}) /\ Len(iter[s \ {x}]) = k BY <3>3, <3>5
    <3> HIDE DEF good
    <3> QED BY <3>4, <3>5, <3>6, ListsAppend
  <2> QED BY <2>0, <2>1
<1>11. good = Nat
  <2> HIDE DEF good
  <2>1. good \in SUBSET Nat BY DEF good
  <2> QED BY ONLY <1>9, <1>10, <2>1, Induction
<1>12. Cardinality(S) \in good BY <1>8, <1>11
<1>13. S \in SUBSET S OBVIOUS
<1> QED BY <1>7, <1>12, <1>13

-----------------------------------------------------------------------------
(* Cases and emails *)

(* The values of a function on a finite set are finitely many. *)
LEMMA FiniteImage ==
  ASSUME NEW S, IsFiniteSet(S), NEW f
  PROVE  IsFiniteSet({f[x] : x \in S})
<1> DEFINE T == {f[x] : x \in S}
           g == [x \in S |-> f[x]]
<1>1. g \in Surjection(S, T) BY DEF Surjection
<1> HIDE DEF T, g
<1>2. IsFiniteSet(T) BY <1>1, FS_Surjection
<1> QED BY <1>2 DEF T

(* Every diagnostic there can be of some attachments. *)
Roles(A) == {a.role : a \in A} \cup {"OTHER", "SI", "DRAFT_BL", Nothing}
Known(A) ==
  {Diagnostic(reason, a, role, f) :
     reason \in {"UNREADABLE", "WRONG_DOC_TYPE", "MISSING_VALUE"}, a \in A, role \in Roles(A),
     f \in ComparedFields \cup {Nothing}}
    \cup {MissingRole(role) : role \in {"SI", "DRAFT_BL"}}

(* They are finitely many. *)
LEMMA KnownFinite == ASSUME NEW A, IsFiniteSet(A) PROVE IsFiniteSet(Known(A))
<1> DEFINE R == {"UNREADABLE", "WRONG_DOC_TYPE", "MISSING_VALUE"}
           F == ComparedFields \cup {Nothing}
           P == (R \X A) \X (Roles(A) \X F)
           f == [p \in P |-> Diagnostic(p[1][1], p[1][2], p[2][1], p[2][2])]
           role == [a \in A |-> a.role]
           lack == [r \in {"SI", "DRAFT_BL"} |-> MissingRole(r)]
<1>1. IsFiniteSet({"SI", "DRAFT_BL"}) /\ IsFiniteSet(R) /\ IsFiniteSet({"OTHER", "SI", "DRAFT_BL", Nothing})
  <2>1. R = {"UNREADABLE"} \cup {"WRONG_DOC_TYPE"} \cup {"MISSING_VALUE"} OBVIOUS
  <2>2. {"OTHER", "SI", "DRAFT_BL", Nothing} = {"OTHER"} \cup {"SI"} \cup {"DRAFT_BL"} \cup {Nothing} OBVIOUS
  <2>3. {"SI", "DRAFT_BL"} = {"SI"} \cup {"DRAFT_BL"} OBVIOUS
  <2>4. \A x : IsFiniteSet({x}) BY FS_Singleton
  <2>5. \A S, x : IsFiniteSet(S) => IsFiniteSet(S \cup {x}) BY FS_AddElement
  <2>6. IsFiniteSet({"SI"} \cup {"DRAFT_BL"}) BY <2>4, <2>5
  <2>7. IsFiniteSet({"UNREADABLE"} \cup {"WRONG_DOC_TYPE"} \cup {"MISSING_VALUE"}) BY <2>4, <2>5
  <2>8. IsFiniteSet({"OTHER"} \cup {"SI"} \cup {"DRAFT_BL"} \cup {Nothing}) BY <2>4, <2>5
  <2> QED BY <2>1, <2>2, <2>3, <2>6, <2>7, <2>8
<1>2. IsFiniteSet(Roles(A))
  <2>1. IsFiniteSet({role[a] : a \in A})
    <3> HIDE DEF role
    <3> QED BY FiniteImage
  <2>2. {role[a] : a \in A} = {a.role : a \in A} OBVIOUS
  <2> QED BY <1>1, <2>1, <2>2, FS_Union DEF Roles
<1>3. IsFiniteSet(F) BY ComparisonAssumption, FS_Union, FS_Singleton DEF ComparedFields
<1>4. IsFiniteSet(P)
  <2> HIDE DEF R, F
  <2> QED BY <1>1, <1>2, <1>3, FS_Product
<1>5. IsFiniteSet({f[p] : p \in P})
  <2> HIDE DEF P, f
  <2> QED BY <1>4, FiniteImage
<1>6. {Diagnostic(r, a, q, g) : r \in R, a \in A, q \in Roles(A), g \in F} \subseteq {f[p] : p \in P}
  <2> HIDE DEF R, F
  <2> SUFFICES ASSUME NEW r \in R, NEW a \in A, NEW q \in Roles(A), NEW g \in F
               PROVE  \E p \in P : Diagnostic(r, a, q, g) = f[p]
    OBVIOUS
  <2>1. <<<<r, a>>, <<q, g>>>> \in P OBVIOUS
  <2>2. f[<<<<r, a>>, <<q, g>>>>] = Diagnostic(r, a, q, g) BY <2>1
  <2> QED BY <2>1, <2>2
<1>7. IsFiniteSet({lack[r] : r \in {"SI", "DRAFT_BL"}})
  <2> HIDE DEF lack
  <2> QED BY <1>1, FiniteImage
<1>8. {lack[r] : r \in {"SI", "DRAFT_BL"}} = {MissingRole(r) : r \in {"SI", "DRAFT_BL"}} OBVIOUS
<1>9. Known(A) \subseteq {f[p] : p \in P} \cup {lack[r] : r \in {"SI", "DRAFT_BL"}}
  <2> HIDE DEF f, P, lack
  <2> QED BY <1>6, <1>8 DEF Known
<1>10. IsFiniteSet({f[p] : p \in P} \cup {lack[r] : r \in {"SI", "DRAFT_BL"}})
  <2> HIDE DEF f, P, lack
  <2> QED BY <1>5, <1>7, FS_Union
<1> HIDE DEF f, P, lack
<1> QED BY <1>9, <1>10, FS_Subset

(* A pair that is admitted, or not, says no others, and one that is        *)
(* admitted is of the attachments.                                         *)
LEMMA PairKnown ==
  ASSUME NEW A, IsFiniteSet(A), \A a \in A : a.doc \in Nat
  PROVE  LET pair == AdmitPair(A)
         IN  /\ pair.diagnostics \subseteq Known(A)
             /\ pair.diagnostics = {} /\ pair.failure = Nothing => pair.si \in A /\ pair.bl \in A
<1> DEFINE pair == AdmitPair(A)
           files == FileDiagnostics(A)
           failed == {a \in A : a.failure # Nothing}
           si == OfRole(A, "SI")
           bl == OfRole(A, "DRAFT_BL")
<1>1. files \subseteq Known(A) BY DEF FileDiagnostics, Known, Roles
<1>2. \A a \in A : ValueDiagnostics(a) \subseteq Known(A) BY DEF ValueDiagnostics, Known, Roles
<1>3. PairDiagnostics(A) \subseteq Known(A)
  <2> DEFINE Extra(role) == OfRole(A, role) \ {First(OfRole(A, role))}
             absent == {role \in {"SI", "DRAFT_BL"} : OfRole(A, role) = {}}
             others == {Diagnostic("WRONG_DOC_TYPE", a, "OTHER", Nothing) : a \in OfRole(A, "OTHER")}
             more == UNION {{Diagnostic("WRONG_DOC_TYPE", a, role, Nothing) : a \in Extra(role)} :
                              role \in {"SI", "DRAFT_BL"} \ absent}
             missing == {MissingRole(role) : role \in absent}
  <2>1. PairDiagnostics(A) = others \cup more \cup missing BY DEF PairDiagnostics
  <2>2. others \subseteq Known(A) BY DEF Known, Roles, OfRole
  <2>3. ASSUME NEW d \in more PROVE d \in Known(A)
    <3>1. PICK role \in {"SI", "DRAFT_BL"} \ absent :
            d \in {Diagnostic("WRONG_DOC_TYPE", a, role, Nothing) : a \in Extra(role)}
      OBVIOUS
    <3>2. PICK a \in Extra(role) : d = Diagnostic("WRONG_DOC_TYPE", a, role, Nothing) BY <3>1
    <3>3. a \in A /\ role \in {"SI", "DRAFT_BL"} BY DEF OfRole
    <3> HIDE DEF Extra, absent, more
    <3> QED BY <3>2, <3>3 DEF Known, Roles
  <2>4. missing \subseteq Known(A) BY DEF Known
  <2> QED BY <2>1, <2>2, <2>3, <2>4
<1>4. ASSUME NEW role, OfRole(A, role) # {} PROVE First(OfRole(A, role)) \in A
  BY <1>4, FirstIsLeast DEF OfRole
<1>5. \/ pair.diagnostics = files
      \/ pair.diagnostics = {} /\ failed # {} /\ pair.failure = First(failed).failure
      \/ /\ Cardinality(si) = 1 /\ Cardinality(bl) = 1
         /\ pair.si = First(si) /\ pair.bl = First(bl)
         /\ pair.diagnostics = ValueDiagnostics(First(si)) \cup ValueDiagnostics(First(bl))
      \/ pair.diagnostics = files \cup PairDiagnostics(A)
  BY DEF AdmitPair, NoPair
<1>6. Cardinality(si) = 1 /\ Cardinality(bl) = 1 => First(si) \in A /\ First(bl) \in A
  BY <1>4, FS_EmptySet
<1>7. pair.diagnostics \subseteq Known(A)
  <2> HIDE DEF pair, files, failed, si, bl
  <2> QED BY <1>1, <1>2, <1>3, <1>5, <1>6
<1>8. pair.diagnostics = {} /\ pair.failure = Nothing => pair.si \in A /\ pair.bl \in A
  <2>1. Admits(A, pair) BY PairAdmitted
  <2> QED BY <2>1 DEF Admits, OfRole
<1> QED BY <1>7, <1>8

-----------------------------------------------------------------------------
(* Emails *)

(* The files of an email are numbered. *)
LEMMA FilesInOrder ==
  ASSUME NEW e \in Emails
  PROVE  Len(FilesOf(e)) \in Nat /\ DOMAIN FilesOf(e) = 1..Len(FilesOf(e))
BY SeedAssumption, LenProperties

(* Its attachments are finitely many, each a document of the email. *)
LEMMA AnalysesFinite ==
  ASSUME NEW e \in Emails
  PROVE  /\ IsFiniteSet(Analyses(e))
         /\ \A a \in Analyses(e) : a.doc \in DOMAIN FilesOf(e) /\ a.doc \in Nat /\ a.failure = Nothing
<1> DEFINE n == Len(FilesOf(e))
           f == [i \in 1..n |->
                   [doc |-> i, status |-> FilesOf(e)[i].status, route |-> FilesOf(e)[i].route,
                    role |-> FilesOf(e)[i].role, extraction |-> FilesOf(e)[i].values, failure |-> Nothing]]
<1>1. n \in Nat /\ DOMAIN FilesOf(e) = 1..n BY FilesInOrder
<1>2. Analyses(e) = {f[i] : i \in 1..n} BY <1>1 DEF Analyses
<1>3. IsFiniteSet(1..n) BY <1>1, FS_Interval
<1>4. IsFiniteSet({f[i] : i \in 1..n})
  <2> HIDE DEF f, n
  <2> QED BY <1>3, FiniteImage
<1>5. \A i \in 1..n : f[i].doc = i /\ f[i].failure = Nothing OBVIOUS
<1> HIDE DEF f, n
<1> QED BY <1>1, <1>2, <1>4, <1>5

(* What a case of the catalog says of its email. *)
LEMMA CaseKnown ==
  ASSUME NEW e \in Emails
  PROVE  /\ IsFiniteSet(SeedCase[e].diagnostics) /\ SeedCase[e].diagnostics \subseteq Known(Analyses(e))
         /\ IsFiniteSet(DOMAIN SeedCase[e].verdicts) /\ DOMAIN SeedCase[e].verdicts \subseteq ComparedFields
<1> DEFINE A == Analyses(e)
           pair == AdmitPair(A)
           D == SeedCase[e].diagnostics
           V == DOMAIN SeedCase[e].verdicts
<1>1. IsFiniteSet(A) /\ \A a \in A : a.doc \in Nat BY AnalysesFinite
<1>2. pair.diagnostics \subseteq Known(A) BY <1>1, PairKnown
<1>3. pair.failure = Nothing
  <2>1. {a \in A : a.failure # Nothing} = {} BY AnalysesFinite
  <2> QED BY <2>1 DEF AdmitPair, NoPair
<1>4. pair.diagnostics = {} => ScanHolds(pair) \subseteq Known(A)
  <2> SUFFICES ASSUME pair.diagnostics = {} PROVE ScanHolds(pair) \subseteq Known(A) OBVIOUS
  <2>1. pair.si \in A /\ pair.bl \in A BY <1>1, <1>3, PairKnown
  <2> HIDE DEF A, pair
  <2> QED BY <2>1 DEF ScanHolds, UnreadableDocument, Known, Roles
<1>5. \/ D = {} /\ V = {}
      \/ D = pair.diagnostics /\ V = {}
      \/ pair.diagnostics = {} /\ D = ScanHolds(pair) /\ V = ComparedFields
  <2>1. CASE e \notin Compared
    <3>1. SeedCase[e] = Concluded(AwaitingOutput, <<>>, {}) BY <2>1 DEF SeedCase
    <3> QED BY <3>1 DEF Concluded
  <2>2. CASE e \in Compared
    <3>1. SeedCase[e] = ComparedPair(e, pair) BY <2>2 DEF SeedCase, ComparisonCase
    <3> HIDE DEF pair, A
    <3>2. CASE pair.diagnostics # {} BY <3>1, <3>2 DEF ComparedPair, Concluded
    <3>3. CASE pair.diagnostics = {}
      <4>1. D = ScanHolds(pair) /\ V = DOMAIN SeedVerdicts(e, CompareFields(pair))
        BY <3>1, <3>3 DEF ComparedPair, Concluded
      <4>2. DOMAIN SeedVerdicts(e, CompareFields(pair)) = ComparedFields
        BY DEF SeedVerdicts, ResolveVerdicts
      <4> QED BY <3>3, <4>1, <4>2
    <3> QED BY <3>2, <3>3
  <2> QED BY <2>1, <2>2
<1>6. D \subseteq Known(A) /\ V \subseteq ComparedFields
  <2> HIDE DEF D, V, A, pair
  <2> QED BY <1>2, <1>4, <1>5
<1>7. IsFiniteSet(Known(A)) BY <1>1, KnownFinite
<1>8. IsFiniteSet(ComparedFields) BY ComparisonAssumption, FS_Union DEF ComparedFields
<1>9. IsFiniteSet(D) /\ IsFiniteSet(V)
  <2> HIDE DEF D, V, A
  <2> QED BY <1>6, <1>7, <1>8, FS_Subset
<1> QED BY <1>6, <1>9

(* A function applied to each value lists the values of the function. *)
LEMMA ListsMapped ==
  ASSUME NEW s, NEW S, Lists(s, S), NEW f
  PROVE  Lists([i \in DOMAIN s |-> f[s[i]]], {f[x] : x \in S}) /\ Len([i \in DOMAIN s |-> f[s[i]]]) = Len(s)
<1> DEFINE n == Len(s)
           t == [i \in 1..n |-> f[s[i]]]
           T == {f[x] : x \in S}
<1>1. /\ n \in Nat /\ DOMAIN s = 1..n
      /\ \A i \in 1..n : s[i] \in S
      /\ \A x \in S : \E i \in 1..n : s[i] = x
  BY ListsDomain
<1>2. \A i \in 1..n : t[i] \in T BY <1>1
<1>3. \A y \in T : \E i \in 1..n : t[i] = y
  <2> SUFFICES ASSUME NEW x \in S PROVE \E i \in 1..n : t[i] = f[x] OBVIOUS
  <2> QED BY <1>1
<1>4. t = [i \in 1..n |-> t[i]] OBVIOUS
<1>5. Lists(t, T) /\ Len(t) = n
  <2> HIDE DEF n, t, T
  <2> QED BY <1>1, <1>2, <1>3, <1>4, ListsMade
<1> QED BY <1>1, <1>5

(* The sequences of a sequence, one after the other. *)
LEMMA ListsAll ==
  ASSUME NEW s, NEW S, Lists(s, S), NEW seq, NEW set, \A x \in S : Lists(seq[x], set[x])
  PROVE  Lists(FlattenSeq([i \in DOMAIN s |-> seq[s[i]]]), UNION {set[x] : x \in S})
<1> DEFINE n == Len(s)
           seqs == [i \in 1..n |-> seq[s[i]]]
           sets == [i \in 1..n |-> set[s[i]]]
<1>1. /\ n \in Nat /\ DOMAIN s = 1..n
      /\ \A i \in 1..n : s[i] \in S
      /\ \A x \in S : \E i \in 1..n : s[i] = x
  BY ListsDomain
<1>2. \A i \in 1..n : Lists(seqs[i], sets[i]) BY <1>1
<1>3. seqs = [i \in 1..n |-> seqs[i]] OBVIOUS
<1>4. Lists(FlattenSeq(seqs), UNION {sets[i] : i \in 1..n})
  <2> HIDE DEF n, seqs, sets
  <2> QED BY <1>1, <1>2, <1>3, ListsFlat
<1>5. UNION {sets[i] : i \in 1..n} = UNION {set[x] : x \in S}
  <2>1. {sets[i] : i \in 1..n} = {set[x] : x \in S} BY <1>1
  <2> QED BY <2>1
<1> QED BY <1>1, <1>4, <1>5

(* The diagnostics of a case are listed, each once. *)
LEMMA DiagnosticsListed ==
  ASSUME NEW e \in Emails
  PROVE  /\ Lists(Diagnostics(e), SeedCase[e].diagnostics)
         /\ Len(Diagnostics(e)) = Cardinality(SeedCase[e].diagnostics)
BY CaseKnown, ListsEach DEF Diagnostics

(* So are the fields it has a verdict on. *)
LEMMA VerdictsListed ==
  ASSUME NEW e \in Emails
  PROVE  Lists(Verdicts(e), DOMAIN SeedCase[e].verdicts)
BY CaseKnown, ListsEach DEF Verdicts

(* The diagnostics that say an attachment is missing, and the roles nobody *)
(* sent.                                                                   *)
Lacks(e) == {d \in SeedCase[e].diagnostics : d.reason = "MISSING_ATTACHMENT" /\ d.doc = Nothing}
Lacking(e) == {ExpectedRole(d) : d \in Lacks(e)}

(* The roles that are drawn as expected are those. *)
LEMMA ExpectedListed ==
  ASSUME NEW e \in Emails
  PROVE  Lists(Expected(e), Lacking(e))
<1> DEFINE s == Kept(Diagnostics(e), Lacks(e))
           f == [d \in Lacks(e) |-> ExpectedRole(d)]
<1>1. Lists(s, Lacks(e))
  <2>1. Lists(s, SeedCase[e].diagnostics \cap Lacks(e)) BY DiagnosticsListed, ListsKept
  <2>2. SeedCase[e].diagnostics \cap Lacks(e) = Lacks(e) BY DEF Lacks
  <2> QED BY <2>1, <2>2
<1>2. Lists([i \in DOMAIN s |-> f[s[i]]], {f[d] : d \in Lacks(e)})
  <2> HIDE DEF s, f
  <2> QED BY <1>1, ListsMapped
<1>3. {f[d] : d \in Lacks(e)} = Lacking(e) BY DEF Lacking
<1>4. [i \in DOMAIN s |-> f[s[i]]] = Mapped(s, ExpectedRole)
  <2>1. \A i \in DOMAIN s : s[i] \in Lacks(e)
    <3> HIDE DEF s
    <3> QED BY <1>1, ListsDomain
  <2> HIDE DEF s
  <2> QED BY <2>1 DEF Mapped
<1>5. Expected(e) = Distinct(Mapped(s, ExpectedRole)) BY DEF Expected, Lacks
<1> HIDE DEF s, f
<1> QED BY <1>2, <1>3, <1>4, <1>5, ListsDistinct

(* The sides of a verdict that are drawn. *)
Shown(e, f) ==
  {side \in {"SI", "DRAFT_BL"} : f \in TextFields /\ OfSide(e, side) # {} /\ ~IsPlaceholder(Raw(e, f, side))}

(* Drawn lists them. *)
LEMMA DrawnListed ==
  ASSUME NEW e \in Emails, NEW f
  PROVE  Lists(Drawn(e, f), Shown(e, f))
<1>1. Lists(Sides, {"SI", "DRAFT_BL"})
  <2>1. Sides \in Seq({"SI", "DRAFT_BL"}) /\ DOMAIN Sides = 1..2 BY DEF Sides
  <2>2. Sides[1] = "SI" /\ Sides[2] = "DRAFT_BL" BY DEF Sides
  <2>3. ToSet(Sides) = {"SI", "DRAFT_BL"} BY <2>1, <2>2 DEF ToSet
  <2> QED BY <2>1, <2>3 DEF Lists
<1>2. ToSet(Sides) = {"SI", "DRAFT_BL"} BY <1>1 DEF Lists
<1>3. Lists(Drawn(e, f), {"SI", "DRAFT_BL"} \cap Shown(e, f)) BY <1>1, <1>2, ListsKept DEF Drawn, Shown
<1>4. {"SI", "DRAFT_BL"} \cap Shown(e, f) = Shown(e, f) BY DEF Shown
<1> QED BY <1>3, <1>4

(* The side of a verdict that is there is a document of the email. *)
LEMMA SideThere ==
  ASSUME NEW e \in Emails, NEW role, OfSide(e, role) # {}
  PROVE  Side(e, role) \in DOMAIN FilesOf(e) /\ Side(e, role) \in OfSide(e, role)
<1>1. OfSide(e, role) \in SUBSET Nat BY FilesInOrder DEF OfSide
<1>2. \E m \in OfSide(e, role) : \A n \in OfSide(e, role) : m <= n BY ONLY <1>1, OfSide(e, role) # {}, Least
<1>3. Side(e, role) \in OfSide(e, role) BY <1>2 DEF Side
<1> QED BY <1>3 DEF OfSide

-----------------------------------------------------------------------------
(* The graph of an email *)

(* The graph of an email, verdict by verdict. *)
ValueNode(e, f, side) == Node(ValueId(e, f, side), ValueId(e, f, side)[1], Worst(ValueId(e, f, side)))
FlagNode(e, f) == Node(VerdictFlag(e, f), VerdictFlag(e, f)[1], VerdictState(e, f))

VerdictNodes(e, f) ==
  {ValueNode(e, f, side) : side \in Shown(e, f)} \cup (IF Flagged(e, f) THEN {FlagNode(e, f)} ELSE {})

FileNode(e, i) == Node(DocumentId(<<e, i>>), "document", DocumentState(<<e, i>>))
MissingNode(e, role) == Node(ExpectedId(e, role), "document", "held")
FaultNode(e, n) == Node(DiagnosticFlag(e, n), "exception", "held")

NodesOf(e) ==
  {Node(EmailId(e), "email", EmailState(e))} \cup {FileNode(e, i) : i \in DOMAIN FilesOf(e)}
    \cup {MissingNode(e, role) : role \in Lacking(e)}
    \cup (UNION {VerdictNodes(e, f) : f \in DOMAIN SeedCase[e].verdicts})
    \cup {FaultNode(e, n) : n \in DOMAIN Diagnostics(e)}

(* A row of values lists them. *)
LEMMA ListsRow ==
  ASSUME NEW n \in Nat, NEW f
  PROVE  Lists([i \in 1..n |-> f[i]], {f[i] : i \in 1..n})
<1> DEFINE s == [i \in 1..n |-> f[i]]
<1>1. \A i \in 1..n : s[i] \in {f[j] : j \in 1..n} OBVIOUS
<1>2. \A x \in {f[j] : j \in 1..n} : \E i \in 1..n : s[i] = x OBVIOUS
<1>3. s = [i \in 1..n |-> s[i]] OBVIOUS
<1>4. Lists(s, {f[j] : j \in 1..n})
  <2> HIDE DEF s
  <2> QED BY <1>1, <1>2, <1>3, ListsMade
<1> QED BY <1>4

(* Five sequences, one after the other. *)
LEMMA ListsFive ==
  ASSUME NEW a, NEW A, NEW b, NEW B, NEW c, NEW C, NEW d, NEW D, NEW g, NEW G,
         Lists(a, A), Lists(b, B), Lists(c, C), Lists(d, D), Lists(g, G)
  PROVE  Lists(a \o b \o c \o d \o g, A \cup B \cup C \cup D \cup G)
<1>1. Lists(a \o b, A \cup B) BY ListsBoth
<1>2. Lists(a \o b \o c, A \cup B \cup C) BY <1>1, ListsBoth
<1>3. Lists(a \o b \o c \o d, A \cup B \cup C \cup D) BY <1>2, ListsBoth
<1> QED BY <1>3, ListsBoth

(* The nodes of a verdict as EmailNodes writes them. *)
VerdictSeq(e, f) ==
  Mapped(Drawn(e, f), LAMBDA side : Node(ValueId(e, f, side), ValueId(e, f, side)[1], Worst(ValueId(e, f, side))))
    \o IF Flagged(e, f) THEN <<Node(VerdictFlag(e, f), VerdictFlag(e, f)[1], VerdictState(e, f))>> ELSE <<>>

(* They are the nodes of the verdict. *)
LEMMA VerdictNodesListed ==
  ASSUME NEW e \in Emails, NEW f
  PROVE  Lists(VerdictSeq(e, f), VerdictNodes(e, f))
<1> DEFINE g == [side \in Shown(e, f) |-> ValueNode(e, f, side)]
           s == Drawn(e, f)
<1>1. Lists(s, Shown(e, f)) BY DrawnListed
<1>2. Lists([i \in DOMAIN s |-> g[s[i]]], {g[side] : side \in Shown(e, f)})
  <2> HIDE DEF s, g
  <2> QED BY <1>1, ListsMapped
<1>3. \A i \in DOMAIN s : s[i] \in Shown(e, f)
  <2> HIDE DEF s
  <2> QED BY <1>1, ListsDomain
<1>4. [i \in DOMAIN s |-> g[s[i]]] = [i \in DOMAIN s |-> ValueNode(e, f, s[i])]
  <2> HIDE DEF s
  <2> QED BY <1>3
<1>5. {g[side] : side \in Shown(e, f)} = {ValueNode(e, f, side) : side \in Shown(e, f)} OBVIOUS
<1> DEFINE t == IF Flagged(e, f) THEN <<FlagNode(e, f)>> ELSE <<>>
           T == IF Flagged(e, f) THEN {FlagNode(e, f)} ELSE {}
<1>6. Lists(t, T) BY ListsOne, ListsEmpty
<1>7. VerdictSeq(e, f) = [i \in DOMAIN s |-> ValueNode(e, f, s[i])] \o t
  BY DEF VerdictSeq, Mapped, ValueNode, FlagNode
<1>8. VerdictNodes(e, f) = {ValueNode(e, f, side) : side \in Shown(e, f)} \cup T BY DEF VerdictNodes
<1> HIDE DEF s, g, t, T
<1> QED BY <1>2, <1>4, <1>5, <1>6, <1>7, <1>8, ListsBoth

(* EmailNodes lists the nodes of an email. *)
LEMMA EmailNodesListed ==
  ASSUME NEW e \in Emails
  PROVE  Lists(EmailNodes(e), NodesOf(e))
<1> DEFINE files == [i \in DOMAIN FilesOf(e) |-> Node(DocumentId(<<e, i>>), "document", DocumentState(<<e, i>>))]
           expected == [i \in DOMAIN Expected(e) |-> Node(ExpectedId(e, Expected(e)[i]), "document", "held")]
           verdicts == FlattenSeq([i \in DOMAIN Verdicts(e) |-> VerdictSeq(e, Verdicts(e)[i])])
           faults == [n \in DOMAIN Diagnostics(e) |-> Node(DiagnosticFlag(e, n), "exception", "held")]
           V == DOMAIN SeedCase[e].verdicts
<1>1. EmailNodes(e) = <<Node(EmailId(e), "email", EmailState(e))>> \o files \o expected \o verdicts \o faults
  BY DEF EmailNodes, Mapped, VerdictSeq
<1>2. Lists(files, {FileNode(e, i) : i \in DOMAIN FilesOf(e)})
  <2> DEFINE n == Len(FilesOf(e))
             f == [i \in 1..n |-> FileNode(e, i)]
  <2>1. n \in Nat /\ DOMAIN FilesOf(e) = 1..n BY FilesInOrder
  <2>2. Lists([i \in 1..n |-> f[i]], {f[i] : i \in 1..n})
    <3> HIDE DEF n, f
    <3> QED BY <2>1, ListsRow
  <2>3. [i \in 1..n |-> f[i]] = files /\ {f[i] : i \in 1..n} = {FileNode(e, i) : i \in DOMAIN FilesOf(e)}
    BY <2>1 DEF FileNode
  <2> HIDE DEF n, f, files
  <2> QED BY <2>2, <2>3
<1>3. Lists(expected, {MissingNode(e, role) : role \in Lacking(e)})
  <2> DEFINE s == Expected(e)
             f == [role \in Lacking(e) |-> MissingNode(e, role)]
  <2>1. Lists(s, Lacking(e)) BY ExpectedListed
  <2>2. Lists([i \in DOMAIN s |-> f[s[i]]], {f[role] : role \in Lacking(e)})
    <3> HIDE DEF s, f
    <3> QED BY <2>1, ListsMapped
  <2>3. \A i \in DOMAIN s : s[i] \in Lacking(e)
    <3> HIDE DEF s
    <3> QED BY <2>1, ListsDomain
  <2>4. [i \in DOMAIN s |-> f[s[i]]] = expected BY <2>3 DEF MissingNode
  <2>5. {f[role] : role \in Lacking(e)} = {MissingNode(e, role) : role \in Lacking(e)} OBVIOUS
  <2> HIDE DEF s, f, expected
  <2> QED BY <2>2, <2>4, <2>5
<1>4. Lists(verdicts, UNION {VerdictNodes(e, f) : f \in V})
  <2> DEFINE s == Verdicts(e)
             seq == [f \in V |-> VerdictSeq(e, f)]
             set == [f \in V |-> VerdictNodes(e, f)]
  <2>1. Lists(s, V) BY VerdictsListed
  <2>2. \A f \in V : Lists(seq[f], set[f]) BY VerdictNodesListed
  <2>3. Lists(FlattenSeq([i \in DOMAIN s |-> seq[s[i]]]), UNION {set[f] : f \in V})
    <3> HIDE DEF s, seq, set, V
    <3> QED BY <2>1, <2>2, ListsAll
  <2>4. \A i \in DOMAIN s : s[i] \in V
    <3> HIDE DEF s, V
    <3> QED BY <2>1, ListsDomain
  <2>5. [i \in DOMAIN s |-> seq[s[i]]] = [i \in DOMAIN s |-> VerdictSeq(e, s[i])]
    <3> HIDE DEF s, V
    <3> QED BY <2>4
  <2>6. {set[f] : f \in V} = {VerdictNodes(e, f) : f \in V} OBVIOUS
  <2> HIDE DEF seq, set, V
  <2> QED BY <2>3, <2>5, <2>6
<1>5. Lists(faults, {FaultNode(e, n) : n \in DOMAIN Diagnostics(e)})
  <2> DEFINE m == Len(Diagnostics(e))
             f == [n \in 1..m |-> FaultNode(e, n)]
  <2>1. m \in Nat /\ DOMAIN Diagnostics(e) = 1..m BY DiagnosticsListed, ListsDomain
  <2>2. Lists([i \in 1..m |-> f[i]], {f[i] : i \in 1..m})
    <3> HIDE DEF m, f
    <3> QED BY <2>1, ListsRow
  <2>3. [i \in 1..m |-> f[i]] = faults /\ {f[i] : i \in 1..m} = {FaultNode(e, n) : n \in DOMAIN Diagnostics(e)}
    BY <2>1 DEF FaultNode
  <2> HIDE DEF m, f, faults
  <2> QED BY <2>2, <2>3
<1>6. Lists(<<Node(EmailId(e), "email", EmailState(e))>>, {Node(EmailId(e), "email", EmailState(e))}) BY ListsOne
<1> HIDE DEF files, expected, verdicts, faults, V
<1>7. Lists(EmailNodes(e),
            {Node(EmailId(e), "email", EmailState(e))} \cup {FileNode(e, i) : i \in DOMAIN FilesOf(e)}
              \cup {MissingNode(e, role) : role \in Lacking(e)}
              \cup (UNION {VerdictNodes(e, f) : f \in V})
              \cup {FaultNode(e, n) : n \in DOMAIN Diagnostics(e)})
  <2> HIDE DEF FileNode, MissingNode, FaultNode
  <2> QED BY ONLY <1>1, <1>2, <1>3, <1>4, <1>5, <1>6, ListsFive
<1> QED BY <1>7 DEF NodesOf, V

(* The edges of a flag lead to what it is about. *)
FlagEdge(flag, t) == Edge(<<"flags", flag, t>>, flag, t, "flags")
FlagLinks(flag, targets) == {FlagEdge(flag, t) : t \in targets}

(* FlagEdges lists them. *)
LEMMA FlagEdgesListed ==
  ASSUME NEW flag, NEW targets, IsFiniteSet(targets)
  PROVE  Lists(FlagEdges(flag, targets), FlagLinks(flag, targets))
<1> DEFINE s == EachOf(targets)
           f == [t \in targets |-> FlagEdge(flag, t)]
<1>1. Lists(s, targets) BY ListsEach
<1>2. Lists([i \in DOMAIN s |-> f[s[i]]], {f[t] : t \in targets})
  <2> HIDE DEF s, f
  <2> QED BY <1>1, ListsMapped
<1>3. \A i \in DOMAIN s : s[i] \in targets
  <2> HIDE DEF s
  <2> QED BY <1>1, ListsDomain
<1>4. [i \in DOMAIN s |-> f[s[i]]] = [i \in DOMAIN s |-> FlagEdge(flag, s[i])]
  <2> HIDE DEF s
  <2> QED BY <1>3
<1>5. FlagEdges(flag, targets) = [i \in DOMAIN s |-> FlagEdge(flag, s[i])] BY DEF FlagEdges, Mapped, FlagEdge
<1>6. {f[t] : t \in targets} = FlagLinks(flag, targets) BY DEF FlagLinks
<1> HIDE DEF s, f
<1> QED BY <1>2, <1>4, <1>5, <1>6

(* What a flag is about is finitely many. *)
LEMMA TargetsFinite ==
  ASSUME NEW e \in Emails
  PROVE  /\ \A f : IsFiniteSet(VerdictTargets(e, f))
         /\ \A d : IsFiniteSet(DiagnosticTargets(e, d))
<1>1. IsFiniteSet({"SI", "DRAFT_BL"})
  <2>1. {"SI", "DRAFT_BL"} = {"SI"} \cup {"DRAFT_BL"} OBVIOUS
  <2>2. IsFiniteSet({"SI"} \cup {"DRAFT_BL"}) BY FS_Singleton, FS_AddElement
  <2> QED BY <2>1, <2>2
<1>2. ASSUME NEW f PROVE IsFiniteSet(VerdictTargets(e, f))
  <2> DEFINE there == {r \in ToSet(Sides) : OfSide(e, r) # {}}
             shown == ToSet(Drawn(e, f))
             g == [role \in there |-> SideId(e, role)]
             h == [side \in shown |-> ValueId(e, f, side)]
  <2>1. ToSet(Sides) = {"SI", "DRAFT_BL"} BY DEF ToSet, Sides
  <2>2. IsFiniteSet(there) BY <1>1, <2>1, FS_Subset
  <2>3. shown = Shown(e, f) BY DrawnListed DEF Lists
  <2>4. IsFiniteSet(shown)
    <3>1. Shown(e, f) \subseteq {"SI", "DRAFT_BL"} BY DEF Shown
    <3> QED BY <1>1, <2>3, <3>1, FS_Subset
  <2>5. IsFiniteSet({g[role] : role \in there}) /\ IsFiniteSet({h[side] : side \in shown})
    <3> HIDE DEF there, shown, g, h
    <3> QED BY <2>2, <2>4, FiniteImage
  <2>6. VerdictTargets(e, f) = {g[role] : role \in there} \cup {h[side] : side \in shown} BY DEF VerdictTargets
  <2> HIDE DEF there, shown, g, h
  <2> QED BY <2>5, <2>6, FS_Union
<1>3. ASSUME NEW d PROVE IsFiniteSet(DiagnosticTargets(e, d))
  <2>1. \A x : IsFiniteSet({x}) BY FS_Singleton
  <2>2. IsFiniteSet({}) BY FS_EmptySet
  <2> DEFINE file == IF d.doc = Nothing THEN {} ELSE {DocumentId(<<e, d.doc>>)}
             place == IF d.reason = "MISSING_ATTACHMENT" /\ Contains(Expected(e), ExpectedRole(d))
                      THEN {ExpectedId(e, ExpectedRole(d))} ELSE {}
  <2>3. IsFiniteSet(file) /\ IsFiniteSet(place) BY <2>1, <2>2
  <2>4. DiagnosticTargets(e, d) = {EmailId(e)} \cup file \cup place BY DEF DiagnosticTargets
  <2>5. IsFiniteSet({EmailId(e)}) BY <2>1
  <2> HIDE DEF file, place
  <2> QED BY <2>3, <2>4, <2>5, FS_Union
<1> QED BY <1>2, <1>3

(* The edges of an email, verdict by verdict. *)
ValueEdge(e, f, side) ==
  Edge(<<"edge", <<e, Side(e, side)>>, f>>, SideId(e, side), ValueId(e, f, side),
       IF f \in PortFields THEN "routing" ELSE "party_role")

VerdictLinks(e, f) ==
  {ValueEdge(e, f, side) : side \in Shown(e, f)}
    \cup (IF Flagged(e, f) THEN FlagLinks(VerdictFlag(e, f), VerdictTargets(e, f)) ELSE {})

(* The edges of a verdict as EmailEdges writes them. *)
VerdictEdgeSeq(e, f) ==
  Mapped(Drawn(e, f), LAMBDA side :
    Edge(<<"edge", <<e, Side(e, side)>>, f>>, SideId(e, side), ValueId(e, f, side),
         IF f \in PortFields THEN "routing" ELSE "party_role"))
    \o IF Flagged(e, f) THEN FlagEdges(VerdictFlag(e, f), VerdictTargets(e, f)) ELSE <<>>

(* They are the edges of the verdict. *)
LEMMA VerdictEdgesListed ==
  ASSUME NEW e \in Emails, NEW f
  PROVE  Lists(VerdictEdgeSeq(e, f), VerdictLinks(e, f))
<1> DEFINE g == [side \in Shown(e, f) |-> ValueEdge(e, f, side)]
           s == Drawn(e, f)
<1>1. Lists(s, Shown(e, f)) BY DrawnListed
<1>2. Lists([i \in DOMAIN s |-> g[s[i]]], {g[side] : side \in Shown(e, f)})
  <2> HIDE DEF s, g
  <2> QED BY <1>1, ListsMapped
<1>3. \A i \in DOMAIN s : s[i] \in Shown(e, f)
  <2> HIDE DEF s
  <2> QED BY <1>1, ListsDomain
<1>4. [i \in DOMAIN s |-> g[s[i]]] = [i \in DOMAIN s |-> ValueEdge(e, f, s[i])]
  <2> HIDE DEF s
  <2> QED BY <1>3
<1>5. {g[side] : side \in Shown(e, f)} = {ValueEdge(e, f, side) : side \in Shown(e, f)} OBVIOUS
<1> DEFINE t == IF Flagged(e, f) THEN FlagEdges(VerdictFlag(e, f), VerdictTargets(e, f)) ELSE <<>>
           T == IF Flagged(e, f) THEN FlagLinks(VerdictFlag(e, f), VerdictTargets(e, f)) ELSE {}
<1>6. Lists(t, T)
  <2>1. Lists(FlagEdges(VerdictFlag(e, f), VerdictTargets(e, f)),
              FlagLinks(VerdictFlag(e, f), VerdictTargets(e, f)))
    BY TargetsFinite, FlagEdgesListed
  <2> QED BY <2>1, ListsEmpty
<1>7. VerdictEdgeSeq(e, f) = [i \in DOMAIN s |-> ValueEdge(e, f, s[i])] \o t
  BY DEF VerdictEdgeSeq, Mapped, ValueEdge
<1>8. VerdictLinks(e, f) = {ValueEdge(e, f, side) : side \in Shown(e, f)} \cup T BY DEF VerdictLinks
<1> HIDE DEF s, g, t, T
<1> QED BY <1>2, <1>4, <1>5, <1>6, <1>7, <1>8, ListsBoth

(* The other edges of an email: to its documents, and of its diagnostics. *)
FileEdge(e, i) == Edge(<<"edge", <<e, i>>>>, EmailId(e), DocumentId(<<e, i>>), "attachment")
MissingEdge(e, role) == Edge(<<"edge", <<e, "expected", role>>>>, EmailId(e), ExpectedId(e, role), "attachment")
FaultLinks(e, n) == FlagLinks(DiagnosticFlag(e, n), DiagnosticTargets(e, Diagnostics(e)[n]))

EdgesOf(e) ==
  {FileEdge(e, i) : i \in DOMAIN FilesOf(e)}
    \cup {MissingEdge(e, role) : role \in Lacking(e)}
    \cup (UNION {VerdictLinks(e, f) : f \in DOMAIN SeedCase[e].verdicts})
    \cup (UNION {FaultLinks(e, n) : n \in DOMAIN Diagnostics(e)})

(* Four sequences, one after the other. *)
LEMMA ListsFour ==
  ASSUME NEW a, NEW A, NEW b, NEW B, NEW c, NEW C, NEW d, NEW D,
         Lists(a, A), Lists(b, B), Lists(c, C), Lists(d, D)
  PROVE  Lists(a \o b \o c \o d, A \cup B \cup C \cup D)
<1>1. Lists(a \o b, A \cup B) BY ListsBoth
<1>2. Lists(a \o b \o c, A \cup B \cup C) BY <1>1, ListsBoth
<1> QED BY <1>2, ListsBoth

(* EmailEdges lists the edges of an email. *)
LEMMA EmailEdgesListed ==
  ASSUME NEW e \in Emails
  PROVE  Lists(EmailEdges(e), EdgesOf(e))
<1> DEFINE files == [i \in DOMAIN FilesOf(e) |->
                       Edge(<<"edge", <<e, i>>>>, EmailId(e), DocumentId(<<e, i>>), "attachment")]
           expected == [i \in DOMAIN Expected(e) |->
                          Edge(<<"edge", <<e, "expected", Expected(e)[i]>>>>, EmailId(e),
                               ExpectedId(e, Expected(e)[i]), "attachment")]
           verdicts == FlattenSeq([i \in DOMAIN Verdicts(e) |-> VerdictEdgeSeq(e, Verdicts(e)[i])])
           each == [n \in DOMAIN Diagnostics(e) |->
                      FlagEdges(DiagnosticFlag(e, n), DiagnosticTargets(e, Diagnostics(e)[n]))]
           faults == FlattenSeq(each)
           V == DOMAIN SeedCase[e].verdicts
<1>1. EmailEdges(e) = files \o expected \o verdicts \o faults
  BY DEF EmailEdges, Mapped, VerdictEdgeSeq
<1>2. Lists(files, {FileEdge(e, i) : i \in DOMAIN FilesOf(e)})
  <2> DEFINE n == Len(FilesOf(e))
             f == [i \in 1..n |-> FileEdge(e, i)]
  <2>1. n \in Nat /\ DOMAIN FilesOf(e) = 1..n BY FilesInOrder
  <2>2. Lists([i \in 1..n |-> f[i]], {f[i] : i \in 1..n})
    <3> HIDE DEF n, f
    <3> QED BY <2>1, ListsRow
  <2>3. [i \in 1..n |-> f[i]] = files /\ {f[i] : i \in 1..n} = {FileEdge(e, i) : i \in DOMAIN FilesOf(e)}
    BY <2>1 DEF FileEdge
  <2> HIDE DEF n, f, files
  <2> QED BY <2>2, <2>3
<1>3. Lists(expected, {MissingEdge(e, role) : role \in Lacking(e)})
  <2> DEFINE s == Expected(e)
             f == [role \in Lacking(e) |-> MissingEdge(e, role)]
  <2>1. Lists(s, Lacking(e)) BY ExpectedListed
  <2>2. Lists([i \in DOMAIN s |-> f[s[i]]], {f[role] : role \in Lacking(e)})
    <3> HIDE DEF s, f
    <3> QED BY <2>1, ListsMapped
  <2>3. \A i \in DOMAIN s : s[i] \in Lacking(e)
    <3> HIDE DEF s
    <3> QED BY <2>1, ListsDomain
  <2>4. [i \in DOMAIN s |-> f[s[i]]] = expected BY <2>3 DEF MissingEdge
  <2>5. {f[role] : role \in Lacking(e)} = {MissingEdge(e, role) : role \in Lacking(e)} OBVIOUS
  <2> HIDE DEF s, f, expected
  <2> QED BY <2>2, <2>4, <2>5
<1>4. Lists(verdicts, UNION {VerdictLinks(e, f) : f \in V})
  <2> DEFINE s == Verdicts(e)
             seq == [f \in V |-> VerdictEdgeSeq(e, f)]
             set == [f \in V |-> VerdictLinks(e, f)]
  <2>1. Lists(s, V) BY VerdictsListed
  <2>2. \A f \in V : Lists(seq[f], set[f]) BY VerdictEdgesListed
  <2>3. Lists(FlattenSeq([i \in DOMAIN s |-> seq[s[i]]]), UNION {set[f] : f \in V})
    <3> HIDE DEF s, seq, set, V
    <3> QED BY <2>1, <2>2, ListsAll
  <2>4. \A i \in DOMAIN s : s[i] \in V
    <3> HIDE DEF s, V
    <3> QED BY <2>1, ListsDomain
  <2>5. [i \in DOMAIN s |-> seq[s[i]]] = [i \in DOMAIN s |-> VerdictEdgeSeq(e, s[i])]
    <3> HIDE DEF s, V
    <3> QED BY <2>4
  <2>6. {set[f] : f \in V} = {VerdictLinks(e, f) : f \in V} OBVIOUS
  <2> HIDE DEF seq, set, V
  <2> QED BY <2>3, <2>5, <2>6
<1>5. Lists(faults, UNION {FaultLinks(e, n) : n \in DOMAIN Diagnostics(e)})
  <2> DEFINE m == Len(Diagnostics(e))
             sets == [n \in 1..m |-> FaultLinks(e, n)]
  <2>1. m \in Nat /\ DOMAIN Diagnostics(e) = 1..m BY DiagnosticsListed, ListsDomain
  <2>2. \A n \in 1..m : Lists(each[n], sets[n])
    <3> TAKE n \in 1..m
    <3>1. Lists(FlagEdges(DiagnosticFlag(e, n), DiagnosticTargets(e, Diagnostics(e)[n])), FaultLinks(e, n))
      BY TargetsFinite, FlagEdgesListed DEF FaultLinks
    <3> QED BY <2>1, <3>1
  <2>3. each = [n \in 1..m |-> each[n]] BY <2>1
  <2>4. Lists(FlattenSeq(each), UNION {sets[n] : n \in 1..m})
    <3> HIDE DEF m, each, sets
    <3> QED BY <2>1, <2>2, <2>3, ListsFlat
  <2>5. {sets[n] : n \in 1..m} = {FaultLinks(e, n) : n \in DOMAIN Diagnostics(e)} BY <2>1
  <2> HIDE DEF m, each, sets
  <2> QED BY <2>4, <2>5
<1> HIDE DEF files, expected, verdicts, faults, V
<1>7. Lists(EmailEdges(e),
            {FileEdge(e, i) : i \in DOMAIN FilesOf(e)}
              \cup {MissingEdge(e, role) : role \in Lacking(e)}
              \cup (UNION {VerdictLinks(e, f) : f \in V})
              \cup (UNION {FaultLinks(e, n) : n \in DOMAIN Diagnostics(e)}))
  BY ONLY <1>1, <1>2, <1>3, <1>4, <1>5, ListsFour
<1> QED BY <1>7 DEF EdgesOf, V

-----------------------------------------------------------------------------
(* The graph of a build *)

(* The results of a search that is over are finitely many: each is of a    *)
(* shipment, or of a case that is none.                                    *)
LEMMA ResultsFinite ==
  ASSUME stage = "done", Reconciled
  PROVE  IsFiniteSet(results)
<1> DEFINE f == [s \in Matched |-> GroupResult(Component(s), Claims(Component(s)))]
           g == [s \in Overdue |-> Result("MISSING_CASE", {s}, {})]
           C == Cases \ Claims(Shipments)
           h == [c \in C |-> Result("UNMATCHED_CASE", {}, {c})]
<1>1. IsFiniteSet(Matched) /\ IsFiniteSet(Overdue)
  BY GraphAssumption, FS_Subset DEF Matched, Overdue
<1>2. IsFiniteSet(C)
  <2>1. C \subseteq Emails BY SeedAssumption
  <2> HIDE DEF C
  <2> QED BY <2>1, GraphAssumption, FS_Subset
<1>3. /\ IsFiniteSet({f[s] : s \in Matched}) /\ IsFiniteSet({g[s] : s \in Overdue})
      /\ IsFiniteSet({h[c] : c \in C})
  <2> HIDE DEF f, g, h, C
  <2> QED BY <1>1, <1>2, FiniteImage
<1>4. results = {f[s] : s \in Matched} \cup {g[s] : s \in Overdue} \cup {h[c] : c \in C}
  BY DEF Reconciled
<1> HIDE DEF f, g, h, C
<1> QED BY <1>3, <1>4, FS_Union

(* The nodes and the edges of a whole build. *)
WrongResults == {r \in results : r.outcome # "CASE_PRESENT"}
ResultNode(r) == Node(ResultFlag(r), "exception", OutcomeState(r.outcome))
ShipmentNode(s) == Node(ShipmentId(s), "shipment", ShipmentState(s))

AllNodes ==
  (UNION {NodesOf(e) : e \in Emails}) \cup {ResultNode(r) : r \in WrongResults}
    \cup {ShipmentNode(s) : s \in Shipments}

ResultLinks(r) ==
  Joined(r) \cup (IF r.outcome = "CASE_PRESENT" THEN {} ELSE FlagLinks(ResultFlag(r), ResultTargets(r)))

AllEdges == (UNION {EdgesOf(e) : e \in Emails}) \cup (UNION {ResultLinks(r) : r \in results})

(* The mail is listed in the order it came. *)
LEMMA ReceivedListed == Lists(Received, Emails)
BY GraphAssumption DEF Lists

(* SeedNodes and SeedEdges list those of the emails. *)
LEMMA SeedListed ==
  /\ Lists(SeedNodes, UNION {NodesOf(e) : e \in Emails})
  /\ Lists(SeedEdges, UNION {EdgesOf(e) : e \in Emails})
<1> DEFINE nodes == [e \in Emails |-> EmailNodes(e)]
           edges == [e \in Emails |-> EmailEdges(e)]
           N == [e \in Emails |-> NodesOf(e)]
           E == [e \in Emails |-> EdgesOf(e)]
           s == Received
<1>1. \A e \in Emails : Lists(nodes[e], N[e]) /\ Lists(edges[e], E[e])
  BY EmailNodesListed, EmailEdgesListed
<1>2. /\ Lists(FlattenSeq([i \in DOMAIN s |-> nodes[s[i]]]), UNION {N[e] : e \in Emails})
      /\ Lists(FlattenSeq([i \in DOMAIN s |-> edges[s[i]]]), UNION {E[e] : e \in Emails})
  <2>1. Lists(s, Emails) BY ReceivedListed
  <2> HIDE DEF nodes, edges, N, E, s
  <2> QED BY <1>1, <2>1, ListsAll
<1>3. \A i \in DOMAIN s : s[i] \in Emails BY ReceivedListed, ListsDomain
<1>4. /\ [i \in DOMAIN s |-> nodes[s[i]]] = [i \in DOMAIN s |-> EmailNodes(s[i])]
      /\ [i \in DOMAIN s |-> edges[s[i]]] = [i \in DOMAIN s |-> EmailEdges(s[i])]
  BY <1>3
<1>5. {N[e] : e \in Emails} = {NodesOf(e) : e \in Emails} /\ {E[e] : e \in Emails} = {EdgesOf(e) : e \in Emails}
  OBVIOUS
<1>6. /\ SeedNodes = FlattenSeq([i \in DOMAIN s |-> EmailNodes(s[i])])
      /\ SeedEdges = FlattenSeq([i \in DOMAIN s |-> EmailEdges(s[i])])
  BY DEF SeedNodes, SeedEdges, Mapped
<1> HIDE DEF nodes, edges, N, E, s
<1> QED BY <1>2, <1>4, <1>5, <1>6

(* BuildCorpus lists those of the results. *)
LEMMA ResultsListed ==
  ASSUME stage = "done", Reconciled, GateTypeOK
  PROVE  /\ Lists(Mapped(Wrong, LAMBDA r : Node(ResultFlag(r), "exception", OutcomeState(r.outcome))),
                  {ResultNode(r) : r \in WrongResults})
         /\ Lists(FlattenSeq(Mapped(EachOf(results), LAMBDA r :
                    EachOf(Joined(r))
                      \o (IF r.outcome = "CASE_PRESENT" THEN <<>>
                          ELSE FlagEdges(ResultFlag(r), ResultTargets(r))))),
                  UNION {ResultLinks(r) : r \in results})
<1>1. IsFiniteSet(results) BY ResultsFinite
<1>2. IsFiniteSet(WrongResults) BY <1>1, FS_Subset DEF WrongResults
<1>3. Lists(Mapped(Wrong, LAMBDA r : Node(ResultFlag(r), "exception", OutcomeState(r.outcome))),
            {ResultNode(r) : r \in WrongResults})
  <2> DEFINE s == EachOf(WrongResults)
             f == [r \in WrongResults |-> ResultNode(r)]
  <2>1. Lists(s, WrongResults) BY <1>2, ListsEach
  <2>2. Lists([i \in DOMAIN s |-> f[s[i]]], {f[r] : r \in WrongResults})
    <3> HIDE DEF s, f
    <3> QED BY <2>1, ListsMapped
  <2>3. \A i \in DOMAIN s : s[i] \in WrongResults
    <3> HIDE DEF s
    <3> QED BY <2>1, ListsDomain
  <2>4. [i \in DOMAIN s |-> f[s[i]]] = [i \in DOMAIN s |-> ResultNode(s[i])]
    <3> HIDE DEF s
    <3> QED BY <2>3
  <2>5. {f[r] : r \in WrongResults} = {ResultNode(r) : r \in WrongResults} OBVIOUS
  <2>6. Mapped(Wrong, LAMBDA r : Node(ResultFlag(r), "exception", OutcomeState(r.outcome)))
          = [i \in DOMAIN s |-> ResultNode(s[i])]
    BY DEF Mapped, Wrong, WrongResults, ResultNode
  <2> HIDE DEF s, f
  <2> QED BY <2>2, <2>4, <2>5, <2>6
<1>4. ASSUME NEW r \in results
      PROVE  IsFiniteSet(Joined(r)) /\ IsFiniteSet(ResultTargets(r))
  <2> DEFINE S == r.shipments
             C == r.cases
             f == [p \in S \X C |-> Edge(<<"recon", p[1]>>, EmailId(p[2]), ShipmentId(p[1]), "reconciles")]
             g == [s \in S |-> ShipmentId(s)]
             h == [c \in C |-> EmailId(c)]
  <2>1. S \subseteq Shipments /\ C \subseteq Emails BY SeedAssumption DEF GateTypeOK
  <2>2. IsFiniteSet(S) /\ IsFiniteSet(C)
    <3> HIDE DEF S, C
    <3> QED BY <2>1, GraphAssumption, FS_Subset
  <2>3. /\ IsFiniteSet({f[p] : p \in S \X C}) /\ IsFiniteSet({g[s] : s \in S}) /\ IsFiniteSet({h[c] : c \in C})
    <3> HIDE DEF S, C, f, g, h
    <3> QED BY <2>2, FS_Product, FiniteImage
  <2>4. Joined(r) \subseteq {f[p] : p \in S \X C}
    <3>1. ASSUME NEW s \in S, NEW c \in C
          PROVE  Edge(<<"recon", s>>, EmailId(c), ShipmentId(s), "reconciles") \in {f[p] : p \in S \X C}
      <4> HIDE DEF S, C
      <4>1. <<s, c>> \in S \X C OBVIOUS
      <4>2. f[<<s, c>>] = Edge(<<"recon", s>>, EmailId(c), ShipmentId(s), "reconciles") BY <4>1
      <4> QED BY <4>1, <4>2
    <3>2. ASSUME NEW x \in Joined(r)
          PROVE  \E s \in S, c \in C : x = Edge(<<"recon", s>>, EmailId(c), ShipmentId(s), "reconciles")
      BY DEF Joined
    <3> HIDE DEF f, S, C
    <3> QED BY <3>1, <3>2
  <2>5. ResultTargets(r) = {g[s] : s \in S} \cup {h[c] : c \in C} BY DEF ResultTargets
  <2> HIDE DEF S, C, f, g, h
  <2> QED BY <2>3, <2>4, <2>5, FS_Subset, FS_Union
<1>5. Lists(FlattenSeq(Mapped(EachOf(results), LAMBDA r :
                    EachOf(Joined(r))
                      \o (IF r.outcome = "CASE_PRESENT" THEN <<>>
                          ELSE FlagEdges(ResultFlag(r), ResultTargets(r))))),
            UNION {ResultLinks(r) : r \in results})
  <2> DEFINE s == EachOf(results)
             Links(r) == EachOf(Joined(r)) \o (IF r.outcome = "CASE_PRESENT" THEN <<>>
                                               ELSE FlagEdges(ResultFlag(r), ResultTargets(r)))
             seq == [r \in results |-> Links(r)]
             set == [r \in results |-> ResultLinks(r)]
  <2>1. Lists(s, results) BY <1>1, ListsEach
  <2>2. ASSUME NEW r \in results PROVE Lists(Links(r), ResultLinks(r))
    <3> DEFINE t == IF r.outcome = "CASE_PRESENT" THEN <<>> ELSE FlagEdges(ResultFlag(r), ResultTargets(r))
               T == IF r.outcome = "CASE_PRESENT" THEN {} ELSE FlagLinks(ResultFlag(r), ResultTargets(r))
    <3>1. Lists(FlagEdges(ResultFlag(r), ResultTargets(r)), FlagLinks(ResultFlag(r), ResultTargets(r)))
      BY <1>4, FlagEdgesListed
    <3>2. Lists(t, T) BY <3>1, ListsEmpty
    <3>3. Lists(EachOf(Joined(r)), Joined(r)) BY <1>4, ListsEach
    <3>4. Links(r) = EachOf(Joined(r)) \o t OBVIOUS
    <3>5. ResultLinks(r) = Joined(r) \cup T BY DEF ResultLinks
    <3> HIDE DEF t, T, Links
    <3> QED BY <3>2, <3>3, <3>4, <3>5, ListsBoth
  <2>3. \A r \in results : Lists(seq[r], set[r])
    <3> HIDE DEF Links
    <3> QED BY <2>2
  <2>4. Lists(FlattenSeq([i \in DOMAIN s |-> seq[s[i]]]), UNION {set[r] : r \in results})
    <3> HIDE DEF s, seq, set, Links
    <3> QED BY <2>1, <2>3, ListsAll
  <2>5. \A i \in DOMAIN s : s[i] \in results
    <3> HIDE DEF s
    <3> QED BY <2>1, ListsDomain
  <2>6. [i \in DOMAIN s |-> seq[s[i]]] = [i \in DOMAIN s |-> Links(s[i])]
    <3> HIDE DEF s, Links
    <3> QED BY <2>5
  <2>7. {set[r] : r \in results} = {ResultLinks(r) : r \in results} OBVIOUS
  <2>8. Mapped(EachOf(results), LAMBDA r :
                    EachOf(Joined(r))
                      \o (IF r.outcome = "CASE_PRESENT" THEN <<>>
                          ELSE FlagEdges(ResultFlag(r), ResultTargets(r)))) = [i \in DOMAIN s |-> Links(s[i])]
    BY DEF Mapped
  <2> HIDE DEF s, seq, set, Links
  <2> QED BY <2>4, <2>6, <2>7, <2>8
<1> QED BY <1>3, <1>5

(* What a build is made of. *)
LEMMA CorpusListed ==
  ASSUME stage = "done", Reconciled, GateTypeOK
  PROVE  Lists(BuildCorpus.nodes, AllNodes) /\ Lists(BuildCorpus.edges, AllEdges)
<1> DEFINE wrong == Mapped(Wrong, LAMBDA r : Node(ResultFlag(r), "exception", OutcomeState(r.outcome)))
           ships == Mapped(EachOf(Shipments), LAMBDA s : Node(ShipmentId(s), "shipment", ShipmentState(s)))
           links == FlattenSeq(Mapped(EachOf(results), LAMBDA r :
                    EachOf(Joined(r))
                      \o (IF r.outcome = "CASE_PRESENT" THEN <<>>
                          ELSE FlagEdges(ResultFlag(r), ResultTargets(r)))))
<1>1. BuildCorpus.nodes = Distinct(SeedNodes \o wrong \o ships) /\ BuildCorpus.edges = SeedEdges \o links
  BY DEF BuildCorpus
<1>2. Lists(ships, {ShipmentNode(s) : s \in Shipments})
  <2> DEFINE q == EachOf(Shipments)
             f == [s \in Shipments |-> ShipmentNode(s)]
  <2>1. Lists(q, Shipments) BY GraphAssumption, ListsEach
  <2>2. Lists([i \in DOMAIN q |-> f[q[i]]], {f[s] : s \in Shipments})
    <3> HIDE DEF q, f
    <3> QED BY <2>1, ListsMapped
  <2>3. \A i \in DOMAIN q : q[i] \in Shipments
    <3> HIDE DEF q
    <3> QED BY <2>1, ListsDomain
  <2>4. [i \in DOMAIN q |-> f[q[i]]] = [i \in DOMAIN q |-> ShipmentNode(q[i])]
    <3> HIDE DEF q
    <3> QED BY <2>3
  <2>5. {f[s] : s \in Shipments} = {ShipmentNode(s) : s \in Shipments} OBVIOUS
  <2>6. ships = [i \in DOMAIN q |-> ShipmentNode(q[i])] BY DEF Mapped, ShipmentNode
  <2> HIDE DEF q, f, ships
  <2> QED BY <2>2, <2>4, <2>5, <2>6
<1>3. Lists(wrong, {ResultNode(r) : r \in WrongResults}) /\ Lists(links, UNION {ResultLinks(r) : r \in results})
  BY ResultsListed
<1> HIDE DEF wrong, ships, links
<1>4. Lists(SeedNodes \o wrong \o ships, AllNodes)
  <2>1. Lists(SeedNodes \o wrong, (UNION {NodesOf(e) : e \in Emails}) \cup {ResultNode(r) : r \in WrongResults})
    BY <1>3, SeedListed, ListsBoth
  <2> QED BY <1>2, <2>1, ListsBoth DEF AllNodes
<1>5. Lists(SeedEdges \o links, AllEdges) BY <1>3, SeedListed, ListsBoth DEF AllEdges
<1>6. Lists(Distinct(SeedNodes \o wrong \o ships), AllNodes) BY <1>4, ListsDistinct
<1> QED BY <1>1, <1>5, <1>6

-----------------------------------------------------------------------------
(* Soundness of a build *)

(* Nodes that say something is wrong. *)
FlagKinds == {"mismatch", "exception"}

(* A node is named after its kind, and an edge leads from a node to one    *)
(* that is no flag; no shipment has an edge of its own.                    *)
NodeSound(n) ==
  /\ n.kind = n.id[1]
  /\ n.kind = "shipment" => n.state \in DOMAIN Rank /\ \E s \in Shipments : n.id = ShipmentId(s)

EdgeSound(e, ids) ==
  {e.source, e.target} \subseteq ids /\ e.target[1] \notin FlagKinds /\ e.source[1] # "shipment"

Sound(g) ==
  /\ Lists(g.nodes, ToSet(g.nodes)) /\ Lists(g.edges, ToSet(g.edges))
  /\ \A n \in ToSet(g.nodes) : NodeSound(n)
  /\ \A m, n \in ToSet(g.nodes) : m.kind = "shipment" /\ m.id = n.id => m.state = n.state
  /\ \A e \in ToSet(g.edges) : EdgeSound(e, Ids(g))

(* What a node and an edge hold. *)
LEMMA NodeIs ==
  ASSUME NEW i, NEW k, NEW s
  PROVE  Node(i, k, s).id = i /\ Node(i, k, s).kind = k /\ Node(i, k, s).state = s
BY DEF Node

(* What an edge holds. *)
LEMMA EdgeIs ==
  ASSUME NEW i, NEW s, NEW t, NEW k
  PROVE  Edge(i, s, t, k).id = i /\ Edge(i, s, t, k).source = s /\ Edge(i, s, t, k).target = t
BY DEF Edge

(* A name begins with its kind. *)
LEMMA NamesTell ==
  /\ \A e : EmailId(e)[1] = "email"
  /\ \A s : ShipmentId(s)[1] = "shipment"
  /\ \A a : DocumentId(a)[1] = "document"
  /\ \A e, role : ExpectedId(e, role)[1] = "document"
  /\ \A e, f, side : ValueId(e, f, side)[1] \in {"party", "port"}
  /\ \A e, f : VerdictFlag(e, f)[1] \in FlagKinds
  /\ \A e, n : DiagnosticFlag(e, n)[1] = "exception"
  /\ \A r : ResultFlag(r)[1] = "exception"
<1>1. \A e : EmailId(e)[1] = "email" BY DEF EmailId
<1>2. \A s : ShipmentId(s)[1] = "shipment" BY DEF ShipmentId
<1>3. \A a : DocumentId(a)[1] = "document" BY DEF DocumentId
<1>4. \A e, role : ExpectedId(e, role)[1] = "document" BY DEF ExpectedId
<1>5. \A e, f, side : ValueId(e, f, side)[1] \in {"party", "port"} BY DEF ValueId
<1>6. \A e, f : VerdictFlag(e, f)[1] \in FlagKinds BY DEF VerdictFlag, FlagKinds
<1>7. \A e, n : DiagnosticFlag(e, n)[1] = "exception" BY DEF DiagnosticFlag
<1>8. \A r : ResultFlag(r)[1] = "exception" BY DEF ResultFlag
<1> QED BY <1>1, <1>2, <1>3, <1>4, <1>5, <1>6, <1>7, <1>8

(* So the nodes of an email are named, and none is a shipment. *)
LEMMA EmailNodesNamed ==
  ASSUME NEW e \in Emails, NEW n \in NodesOf(e)
  PROVE  n.kind = n.id[1] /\ n.kind # "shipment"
<1>1. CASE n = Node(EmailId(e), "email", EmailState(e)) BY <1>1, NamesTell, NodeIs
<1>2. CASE n \in {FileNode(e, i) : i \in DOMAIN FilesOf(e)} 
  <2>1. PICK i : n = FileNode(e, i) BY <1>2
  <2>2. n.id = DocumentId(<<e, i>>) /\ n.kind = "document" BY <2>1, NodeIs DEF FileNode
  <2> QED BY <2>2, NamesTell
<1>3. CASE n \in {MissingNode(e, role) : role \in Lacking(e)} BY <1>3, NamesTell, NodeIs DEF MissingNode
<1>4. CASE n \in UNION {VerdictNodes(e, f) : f \in DOMAIN SeedCase[e].verdicts}
  <2>1. PICK f : n \in VerdictNodes(e, f) BY <1>4
  <2>2. CASE n \in {ValueNode(e, f, side) : side \in Shown(e, f)} BY <2>2, NamesTell, NodeIs DEF ValueNode
  <2>3. CASE Flagged(e, f) /\ n = FlagNode(e, f) BY <2>3, NamesTell, NodeIs DEF FlagNode, FlagKinds
  <2> QED BY <2>1, <2>2, <2>3 DEF VerdictNodes
<1>5. CASE n \in {FaultNode(e, m) : m \in DOMAIN Diagnostics(e)} BY <1>5, NamesTell, NodeIs DEF FaultNode
<1> QED BY <1>1, <1>2, <1>3, <1>4, <1>5 DEF NodesOf

(* Every node of a build is named after its kind. *)
LEMMA NodesSound == \A n \in AllNodes : NodeSound(n)
<1>1. \A e \in Emails : \A n \in NodesOf(e) : n.kind = n.id[1] /\ n.kind # "shipment" BY EmailNodesNamed
<1>2. \A r : NodeSound(ResultNode(r)) BY NamesTell, NodeIs DEF ResultNode, NodeSound
<1>3. ASSUME NEW s \in Shipments PROVE NodeSound(ShipmentNode(s))
  <2>1. /\ ShipmentNode(s).id = ShipmentId(s) /\ ShipmentNode(s).kind = "shipment"
        /\ ShipmentNode(s).state = ShipmentState(s)
    BY NodeIs DEF ShipmentNode
  <2>2. ShipmentState(s) \in {"match", "mismatch", "held"} BY DEF ShipmentState, OutcomeState
  <2>3. ShipmentState(s) \in DOMAIN Rank BY <2>2 DEF Rank
  <2> QED BY <2>1, <2>3, NamesTell DEF NodeSound
<1> QED BY <1>1, <1>2, <1>3 DEF AllNodes, NodeSound

(* A shipment has one node. *)
LEMMA ShipmentsTold == \A m, n \in AllNodes : m.kind = "shipment" /\ m.id = n.id => m.state = n.state
<1>1. ASSUME NEW n \in AllNodes, n.id[1] = "shipment" PROVE \E s \in Shipments : n = ShipmentNode(s)
  <2>1. CASE \E e \in Emails : n \in NodesOf(e) BY <1>1, <2>1, EmailNodesNamed
  <2>2. CASE n \in {ResultNode(r) : r \in WrongResults} BY <1>1, <2>2, NamesTell, NodeIs DEF ResultNode
  <2> QED BY <2>1, <2>2 DEF AllNodes
<1>2. \A s : ShipmentNode(s).id = ShipmentId(s) BY NodeIs DEF ShipmentNode
<1>3. \A s, t : ShipmentId(s) = ShipmentId(t) => s = t BY DEF ShipmentId
<1>4. SUFFICES ASSUME NEW m \in AllNodes, NEW n \in AllNodes, m.kind = "shipment", m.id = n.id
               PROVE  m.state = n.state
  OBVIOUS
<1>5. m.id[1] = "shipment" BY <1>4, NodesSound DEF NodeSound
<1>6. PICK s \in Shipments : m = ShipmentNode(s) BY <1>1, <1>5
<1>7. PICK t \in Shipments : n = ShipmentNode(t) BY <1>1, <1>4, <1>5
<1>8. s = t BY <1>2, <1>3, <1>4, <1>6, <1>7
<1> QED BY <1>6, <1>7, <1>8

(* The names of its nodes. *)
AllIds == {n.id : n \in AllNodes}

(* Whatever an edge may name has a node. *)
LEMMA IdsThere ==
  /\ \A e \in Emails :
       /\ EmailId(e) \in AllIds
       /\ \A i \in DOMAIN FilesOf(e) : DocumentId(<<e, i>>) \in AllIds
       /\ \A role \in Lacking(e) : ExpectedId(e, role) \in AllIds
       /\ \A f \in DOMAIN SeedCase[e].verdicts :
            /\ \A side \in Shown(e, f) : ValueId(e, f, side) \in AllIds
            /\ Flagged(e, f) => VerdictFlag(e, f) \in AllIds
       /\ \A n \in DOMAIN Diagnostics(e) : DiagnosticFlag(e, n) \in AllIds
  /\ \A r \in WrongResults : ResultFlag(r) \in AllIds
  /\ \A s \in Shipments : ShipmentId(s) \in AllIds
<1>1. ASSUME NEW e \in Emails, NEW n \in NodesOf(e) PROVE n.id \in AllIds
  BY <1>1 DEF AllIds, AllNodes
<1>2. ASSUME NEW e \in Emails
      PROVE  /\ EmailId(e) \in AllIds
             /\ \A i \in DOMAIN FilesOf(e) : DocumentId(<<e, i>>) \in AllIds
             /\ \A role \in Lacking(e) : ExpectedId(e, role) \in AllIds
             /\ \A n \in DOMAIN Diagnostics(e) : DiagnosticFlag(e, n) \in AllIds
  <2>1. Node(EmailId(e), "email", EmailState(e)) \in NodesOf(e) BY DEF NodesOf
  <2>2. \A i \in DOMAIN FilesOf(e) : FileNode(e, i) \in NodesOf(e) BY DEF NodesOf
  <2>3. \A role \in Lacking(e) : MissingNode(e, role) \in NodesOf(e) BY DEF NodesOf
  <2>4. \A n \in DOMAIN Diagnostics(e) : FaultNode(e, n) \in NodesOf(e) BY DEF NodesOf
  <2> QED BY <1>1, <2>1, <2>2, <2>3, <2>4, NodeIs DEF FileNode, MissingNode, FaultNode
<1>3. ASSUME NEW e \in Emails, NEW f \in DOMAIN SeedCase[e].verdicts
      PROVE  /\ \A side \in Shown(e, f) : ValueId(e, f, side) \in AllIds
             /\ Flagged(e, f) => VerdictFlag(e, f) \in AllIds
  <2>1. \A n \in VerdictNodes(e, f) : n \in NodesOf(e) BY DEF NodesOf
  <2>2. \A side \in Shown(e, f) : ValueNode(e, f, side) \in VerdictNodes(e, f) BY DEF VerdictNodes
  <2>3. Flagged(e, f) => FlagNode(e, f) \in VerdictNodes(e, f) BY DEF VerdictNodes
  <2> QED BY <1>1, <2>1, <2>2, <2>3, NodeIs DEF ValueNode, FlagNode
<1>4. \A r \in WrongResults : ResultFlag(r) \in AllIds
  <2>1. \A r \in WrongResults : ResultNode(r) \in AllNodes BY DEF AllNodes
  <2> QED BY <2>1, NodeIs DEF ResultNode, AllIds
<1>5. \A s \in Shipments : ShipmentId(s) \in AllIds
  <2>1. \A s \in Shipments : ShipmentNode(s) \in AllNodes BY DEF AllNodes
  <2>2. \A s \in Shipments : ShipmentNode(s).id = ShipmentId(s) BY NodeIs DEF ShipmentNode
  <2> QED BY <2>1, <2>2 DEF AllIds
<1> QED BY <1>2, <1>3, <1>4, <1>5

(* An edge between nodes is sound. *)
LEMMA EdgeMade ==
  ASSUME NEW i, NEW s \in AllIds, NEW t \in AllIds, NEW k, t[1] \notin FlagKinds, s[1] # "shipment"
  PROVE  EdgeSound(Edge(i, s, t, k), AllIds)
<1>1. Edge(i, s, t, k).source = s /\ Edge(i, s, t, k).target = t BY EdgeIs
<1> QED BY <1>1 DEF EdgeSound

(* So are those of a flag, if it is about nodes. *)
LEMMA FlagLinksSound ==
  ASSUME NEW flag \in AllIds, flag[1] \in FlagKinds, NEW targets \in SUBSET AllIds,
         \A t \in targets : t[1] \notin FlagKinds
  PROVE  \A x \in FlagLinks(flag, targets) : EdgeSound(x, AllIds)
<1>1. flag[1] # "shipment" BY DEF FlagKinds
<1>2. ASSUME NEW t \in targets PROVE EdgeSound(FlagEdge(flag, t), AllIds)
  <2>1. t \in AllIds /\ t[1] \notin FlagKinds OBVIOUS
  <2> QED BY <1>1, <2>1, EdgeMade DEF FlagEdge
<1> QED BY <1>2 DEF FlagLinks

(* A diagnostic is about a document of its email, or about none. *)
LEMMA DiagnosticPlaced ==
  ASSUME NEW e \in Emails, NEW d \in SeedCase[e].diagnostics
  PROVE  d.doc = Nothing \/ d.doc \in DOMAIN FilesOf(e)
<1>1. d \in Known(Analyses(e)) BY CaseKnown
<1>2. CASE \E reason \in {"UNREADABLE", "WRONG_DOC_TYPE", "MISSING_VALUE"}, a \in Analyses(e),
           role \in Roles(Analyses(e)), f \in ComparedFields \cup {Nothing} : d = Diagnostic(reason, a, role, f)
  BY <1>2, AnalysesFinite DEF Diagnostic
<1>3. CASE \E role \in {"SI", "DRAFT_BL"} : d = MissingRole(role) BY <1>3 DEF MissingRole
<1>4. \/ \E reason \in {"UNREADABLE", "WRONG_DOC_TYPE", "MISSING_VALUE"}, a \in Analyses(e),
           role \in Roles(Analyses(e)), f \in ComparedFields \cup {Nothing} : d = Diagnostic(reason, a, role, f)
      \/ \E role \in {"SI", "DRAFT_BL"} : d = MissingRole(role)
  BY <1>1 DEF Known
<1> QED BY <1>2, <1>3, <1>4

(* The edges of an email are sound, *)
LEMMA EmailEdgesSound ==
  ASSUME NEW e \in Emails, NEW x \in EdgesOf(e)
  PROVE  EdgeSound(x, AllIds)
<1> USE DEF FlagKinds
<1>1. CASE x \in {FileEdge(e, i) : i \in DOMAIN FilesOf(e)}
  <2>1. PICK i \in DOMAIN FilesOf(e) : x = FileEdge(e, i) BY <1>1
  <2>2. EmailId(e) \in AllIds /\ DocumentId(<<e, i>>) \in AllIds BY IdsThere
  <2>3. EmailId(e)[1] = "email" /\ DocumentId(<<e, i>>)[1] = "document" BY NamesTell
  <2> QED BY <2>1, <2>2, <2>3, EdgeMade DEF FileEdge
<1>2. CASE x \in {MissingEdge(e, role) : role \in Lacking(e)}
  <2>1. PICK role \in Lacking(e) : x = MissingEdge(e, role) BY <1>2
  <2>2. EmailId(e) \in AllIds /\ ExpectedId(e, role) \in AllIds BY IdsThere
  <2>3. EmailId(e)[1] = "email" /\ ExpectedId(e, role)[1] = "document" BY NamesTell
  <2> QED BY <2>1, <2>2, <2>3, EdgeMade DEF MissingEdge
<1>3. \A role : OfSide(e, role) # {} => SideId(e, role) \in AllIds /\ SideId(e, role)[1] = "document"
  BY SideThere, IdsThere, NamesTell DEF SideId
<1>4. CASE x \in UNION {VerdictLinks(e, f) : f \in DOMAIN SeedCase[e].verdicts}
  <2>1. PICK f \in DOMAIN SeedCase[e].verdicts : x \in VerdictLinks(e, f) BY <1>4
  <2>2. CASE x \in {ValueEdge(e, f, side) : side \in Shown(e, f)}
    <3>1. PICK side \in Shown(e, f) : x = ValueEdge(e, f, side) BY <2>2
    <3>2. OfSide(e, side) # {} BY DEF Shown
    <3>3. x.source = SideId(e, side) /\ x.target = ValueId(e, f, side) BY <3>1, EdgeIs DEF ValueEdge
    <3>4. x.target \in AllIds /\ x.target[1] \in {"party", "port"} BY <3>3, IdsThere, NamesTell
    <3> QED BY <1>3, <3>2, <3>3, <3>4 DEF EdgeSound
  <2>3. CASE Flagged(e, f) /\ x \in FlagLinks(VerdictFlag(e, f), VerdictTargets(e, f))
    <3>1. ToSet(Sides) = {"SI", "DRAFT_BL"} BY DEF ToSet, Sides
    <3>2. ToSet(Drawn(e, f)) = Shown(e, f) BY DrawnListed DEF Lists
    <3>3. ASSUME NEW t \in VerdictTargets(e, f) PROVE t \in AllIds /\ t[1] \notin FlagKinds
      <4>1. CASE \E role : OfSide(e, role) # {} /\ t = SideId(e, role) BY <1>3, <4>1
      <4>2. CASE \E side \in Shown(e, f) : t = ValueId(e, f, side)
        <5>1. PICK side \in Shown(e, f) : t = ValueId(e, f, side) BY <4>2
        <5>2. t[1] \in {"party", "port"} BY <5>1, NamesTell
        <5> QED BY <5>1, <5>2, IdsThere
      <4> QED BY <3>2, <4>1, <4>2 DEF VerdictTargets
    <3>4. VerdictFlag(e, f) \in AllIds /\ VerdictFlag(e, f)[1] \in FlagKinds BY <2>3, IdsThere, NamesTell
    <3>5. VerdictTargets(e, f) \in SUBSET AllIds BY <3>3
    <3> HIDE DEF FlagKinds
    <3> QED BY <2>3, <3>3, <3>4, <3>5, FlagLinksSound
  <2> QED BY <2>1, <2>2, <2>3 DEF VerdictLinks
<1>5. CASE x \in UNION {FaultLinks(e, n) : n \in DOMAIN Diagnostics(e)}
  <2>1. PICK n \in DOMAIN Diagnostics(e) : x \in FaultLinks(e, n) BY <1>5
  <2> DEFINE d == Diagnostics(e)[n]
  <2>2. d \in SeedCase[e].diagnostics BY DiagnosticsListed, ListsDomain
  <2>3. d.doc = Nothing \/ d.doc \in DOMAIN FilesOf(e) BY <2>2, DiagnosticPlaced
  <2>4. \A role : Contains(Expected(e), role) => role \in Lacking(e)
    BY ExpectedListed, ListsDomain DEF Contains
  <2>5. ASSUME NEW t \in DiagnosticTargets(e, d) PROVE t \in AllIds /\ t[1] \notin FlagKinds
    <3> HIDE DEF d
    <3>1. \/ t = EmailId(e)
          \/ d.doc # Nothing /\ t = DocumentId(<<e, d.doc>>)
          \/ Contains(Expected(e), ExpectedRole(d)) /\ t = ExpectedId(e, ExpectedRole(d))
      BY DEF DiagnosticTargets
    <3>2. CASE t = EmailId(e) BY <3>2, IdsThere, NamesTell
    <3>3. CASE d.doc # Nothing /\ t = DocumentId(<<e, d.doc>>) BY <2>3, <3>3, IdsThere, NamesTell
    <3>4. CASE Contains(Expected(e), ExpectedRole(d)) /\ t = ExpectedId(e, ExpectedRole(d))
      BY <2>4, <3>4, IdsThere, NamesTell
    <3> QED BY <3>1, <3>2, <3>3, <3>4
  <2>6. DiagnosticFlag(e, n) \in AllIds /\ DiagnosticFlag(e, n)[1] \in FlagKinds BY IdsThere, NamesTell
  <2>7. DiagnosticTargets(e, d) \in SUBSET AllIds BY <2>5
  <2> HIDE DEF FlagKinds
  <2> QED BY <2>1, <2>5, <2>6, <2>7, FlagLinksSound DEF FaultLinks
<1> QED BY <1>1, <1>2, <1>4, <1>5 DEF EdgesOf

(* and those of a result. *)
LEMMA ResultEdgesSound ==
  ASSUME GateTypeOK, NEW r \in results, NEW x \in ResultLinks(r)
  PROVE  EdgeSound(x, AllIds)
<1>1. r.shipments \subseteq Shipments /\ r.cases \subseteq Emails BY SeedAssumption DEF GateTypeOK
<1>2. CASE x \in Joined(r)
  <2>1. \E s \in r.shipments, c \in r.cases : x = Edge(<<"recon", s>>, EmailId(c), ShipmentId(s), "reconciles")
    BY <1>2 DEF Joined
  <2> QED BY <1>1, <2>1, EdgeIs, IdsThere, NamesTell DEF EdgeSound, FlagKinds
<1>3. CASE r.outcome # "CASE_PRESENT" /\ x \in FlagLinks(ResultFlag(r), ResultTargets(r))
  <2>1. ResultFlag(r) \in AllIds /\ ResultFlag(r)[1] \in FlagKinds
    BY <1>3, IdsThere, NamesTell DEF WrongResults, FlagKinds
  <2>2. \A t \in ResultTargets(r) : t \in AllIds /\ t[1] \notin FlagKinds
    BY <1>1, IdsThere, NamesTell DEF ResultTargets, FlagKinds
  <2> QED BY <1>3, <2>1, <2>2, FlagLinksSound
<1> QED BY <1>2, <1>3 DEF ResultLinks

(* A build makes a sound graph. *)
LEMMA CorpusSound ==
  ASSUME stage = "done", Reconciled, GateTypeOK
  PROVE  Sound(BuildCorpus)
<1>1. Lists(BuildCorpus.nodes, AllNodes) /\ Lists(BuildCorpus.edges, AllEdges) BY CorpusListed
<1>2. ToSet(BuildCorpus.nodes) = AllNodes /\ ToSet(BuildCorpus.edges) = AllEdges BY <1>1 DEF Lists
<1>3. Ids(BuildCorpus) = AllIds BY <1>2 DEF Ids, AllIds
<1>4. \A x \in AllEdges : EdgeSound(x, AllIds) BY EmailEdgesSound, ResultEdgesSound DEF AllEdges
<1> QED BY <1>1, <1>2, <1>3, <1>4, NodesSound, ShipmentsTold DEF Sound

-----------------------------------------------------------------------------
(* What the graph lists, it lists once and by a name of its own. *)

(* A sequence that lists the members of a set once each. *)
Counts(seq, set) == Lists(seq, set) /\ IsFiniteSet(set) /\ Len(seq) = Cardinality(set)

(* No two places of it hold the same. *)
LEMMA CountsOnce ==
  ASSUME NEW s, NEW S, Counts(s, S)
  PROVE  \A i, j \in 1..Len(s) : s[i] = s[j] => i = j
<1>1. /\ Len(s) \in Nat /\ DOMAIN s = 1..Len(s)
      /\ \A i \in 1..Len(s) : s[i] \in S
      /\ \A x \in S : \E i \in 1..Len(s) : s[i] = x
  BY ListsDomain DEF Counts
<1> DEFINE n == Len(s)
           f == [i \in 1..n |-> s[i]]
<1>2. f \in Surjection(1..n, S) BY <1>1 DEF Surjection
<1>3. IsFiniteSet(1..n) /\ Cardinality(1..n) = n BY <1>1, FS_Interval
<1>4. f \in Injection(1..n, S)
  <2>1. Cardinality(S) = Cardinality(1..n) BY <1>3 DEF Counts
  <2> HIDE DEF f, n
  <2> QED BY <1>2, <1>3, <2>1, FS_Surjection
<1>5. \A i, j \in 1..n : f[i] = f[j] => i = j
  <2> HIDE DEF f, n
  <2> QED BY <1>4 DEF Injection, IsInjective
<1> QED BY <1>5

(* A sequence that lists a set and holds nothing twice does. *)
LEMMA CountsMade ==
  ASSUME NEW s, NEW S, Lists(s, S), \A i, j \in 1..Len(s) : s[i] = s[j] => i = j
  PROVE  Counts(s, S)
<1>1. /\ Len(s) \in Nat /\ DOMAIN s = 1..Len(s)
      /\ \A i \in 1..Len(s) : s[i] \in S
      /\ \A x \in S : \E i \in 1..Len(s) : s[i] = x
  BY ListsDomain
<1> DEFINE n == Len(s)
           f == [i \in 1..n |-> s[i]]
<1>2. f \in Bijection(1..n, S) BY <1>1 DEF Bijection, Injection, Surjection, IsInjective
<1>3. ExistsBijection(1..n, S)
  <2> HIDE DEF f, n
  <2> QED BY <1>2 DEF ExistsBijection
<1>4. IsFiniteSet(1..n) /\ Cardinality(1..n) = n BY <1>1, FS_Interval
<1>5. IsFiniteSet(S) /\ Cardinality(S) = n
  <2> HIDE DEF f, n
  <2> QED BY <1>3, <1>4, FS_Bijection
<1> QED BY <1>5 DEF Counts

(* Of nothing, *)
LEMMA CountsEmpty == Counts(<<>>, {}) BY ListsEmpty, FS_EmptySet, EmptySeq DEF Counts

(* and of one thing. *)
LEMMA CountsOne ==
  ASSUME NEW x
  PROVE  Counts(<<x>>, {x})
BY ListsOne, FS_Singleton DEF Counts

(* Two sequences with nothing in common, one after the other. *)
LEMMA CountsBoth ==
  ASSUME NEW s, NEW S, Counts(s, S), NEW t, NEW T, Counts(t, T), S \cap T = {}
  PROVE  Counts(s \o t, S \cup T)
<1>1. Lists(s \o t, S \cup T) BY ListsBoth DEF Counts
<1>2. Cardinality(S \cap T) = 0 BY FS_EmptySet
<1>3. /\ IsFiniteSet(S \cup T)
      /\ Cardinality(S \cup T) = Cardinality(S) + Cardinality(T) - Cardinality(S \cap T)
  BY FS_Union DEF Counts
<1>4. Cardinality(S) \in Nat /\ Cardinality(T) \in Nat BY FS_CardinalityType DEF Counts
<1>5. Cardinality(S \cup T) = Cardinality(S) + Cardinality(T) BY <1>2, <1>3, <1>4
<1>6. Len(s \o t) = Len(s) + Len(t)
  <2>1. s \in Seq(S \cup T) /\ t \in Seq(S \cup T)
    <3>1. Len(s) \in Nat /\ s \in [1..Len(s) -> S] BY LenProperties DEF Lists, Counts
    <3>2. Len(t) \in Nat /\ t \in [1..Len(t) -> T] BY LenProperties DEF Lists, Counts
    <3>3. s \in [1..Len(s) -> S \cup T] BY <3>1
    <3>4. t \in [1..Len(t) -> S \cup T] BY <3>2
    <3> QED BY <3>1, <3>2, <3>3, <3>4, SeqDef
  <2> QED BY <2>1, ConcatProperties
<1> QED BY <1>1, <1>3, <1>5, <1>6 DEF Counts

(* What FlattenSeq returns, of sequences with nothing in common. *)
LEMMA CountsFlat ==
  ASSUME NEW n \in Nat, NEW seqs, seqs = [i \in 1..n |-> seqs[i]], NEW sets,
         \A i \in 1..n : Counts(seqs[i], sets[i]),
         \A i, j \in 1..n : i # j => sets[i] \cap sets[j] = {}
  PROVE  Counts(FlattenSeq(seqs), UNION {sets[i] : i \in 1..n})
<1> DEFINE T == UNION {sets[i] : i \in 1..n}
<1>1. \A i \in 1..n : seqs[i] \in Seq(T)
  <2> TAKE i \in 1..n
  <2>1. seqs[i] \in Seq(sets[i]) BY DEF Lists, Counts
  <2>2. sets[i] \subseteq T OBVIOUS
  <2> HIDE DEF T
  <2>3. Len(seqs[i]) \in Nat /\ seqs[i] \in [1..Len(seqs[i]) -> sets[i]] BY <2>1, LenProperties
  <2>4. seqs[i] \in [1..Len(seqs[i]) -> T] BY <2>2, <2>3
  <2> QED BY <2>3, <2>4, SeqDef
<1> HIDE DEF T
<1>2. seqs \in Seq(Seq(T)) /\ Len(seqs) = n
  <2> DEFINE f == [i \in 1..n |-> seqs[i]]
  <2>1. f \in [1..n -> Seq(T)] BY <1>1
  <2>2. seqs \in [1..n -> Seq(T)] BY <2>1
  <2> QED BY <2>2, SeqDef
<1>3. PICK acc \in [0..n -> Seq(T)] : LaidOut(acc, seqs) BY <1>2, LayOut
<1>4. FlattenSeq(seqs) = acc[n] BY <1>2, <1>3, Flattened
<1> DEFINE good == {k \in Nat : k \in 0..n => Counts(acc[k], UNION {sets[i] : i \in 1..k})}
<1>5. 0 \in good
  <2>1. acc[0] = <<>> BY <1>3 DEF LaidOut
  <2>2. 1..0 = {} OBVIOUS
  <2>3. UNION {sets[i] : i \in 1..0} = {} BY <2>2
  <2> QED BY <2>1, <2>3, CountsEmpty
<1>6. ASSUME NEW k \in good PROVE k + 1 \in good
  <2>0. k \in Nat /\ (k \in 0..n => Counts(acc[k], UNION {sets[i] : i \in 1..k})) OBVIOUS
  <2> HIDE DEF good
  <2> SUFFICES ASSUME k + 1 \in 0..n
               PROVE Counts(acc[k + 1], UNION {sets[i] : i \in 1..(k + 1)})
    BY <2>0 DEF good
  <2>1. k \in 0..n /\ k + 1 \in 1..n /\ (k + 1) - 1 = k
    <3>1. k \in Nat BY <2>0
    <3> QED BY ONLY n \in Nat, <3>1, k + 1 \in 0..n
  <2>2. acc[k + 1] = acc[k] \o seqs[k + 1]
    <3>1. acc[k + 1] = acc[(k + 1) - 1] \o seqs[k + 1] BY <1>2, <1>3, <2>1 DEF LaidOut
    <3> QED BY <2>1, <3>1
  <2>3. (UNION {sets[i] : i \in 1..k}) \cap sets[k + 1] = {}
    <3>1. ASSUME NEW i \in 1..k PROVE sets[i] \cap sets[k + 1] = {}
      <4>1. i \in 1..n /\ i # k + 1 BY <2>1
      <4> QED BY <2>1, <4>1
    <3> QED BY <3>1
  <2>4. Counts(acc[k + 1], (UNION {sets[i] : i \in 1..k}) \cup sets[k + 1])
    <3>1. Counts(acc[k], UNION {sets[i] : i \in 1..k}) BY <2>0, <2>1
    <3>2. Counts(seqs[k + 1], sets[k + 1]) BY <2>1
    <3>3. Counts(acc[k] \o seqs[k + 1], (UNION {sets[i] : i \in 1..k}) \cup sets[k + 1])
      <4> DEFINE U == UNION {sets[i] : i \in 1..k}
      <4> HIDE DEF U
      <4> QED BY ONLY <2>3, <3>1, <3>2, CountsBoth DEF U
    <3> QED BY <2>2, <3>3
  <2>5. 1..(k + 1) = (1..k) \cup {k + 1} BY <2>0
  <2>6. UNION {sets[i] : i \in 1..(k + 1)} = (UNION {sets[i] : i \in 1..k}) \cup sets[k + 1] BY <2>5
  <2> QED BY <2>4, <2>6
<1>7. good = Nat
  <2> HIDE DEF good
  <2>1. good \in SUBSET Nat BY DEF good
  <2> QED BY ONLY <1>5, <1>6, <2>1, Induction
<1>8. n \in 0..n OBVIOUS
<1>9. n \in good BY <1>7
<1>10. Counts(acc[n], UNION {sets[i] : i \in 1..n}) BY <1>8, <1>9
<1> QED BY <1>4, <1>10

(* A function that tells the values apart. *)
LEMMA CountsMapped ==
  ASSUME NEW s, NEW S, Counts(s, S), NEW f, \A x, y \in S : f[x] = f[y] => x = y
  PROVE  Counts([i \in DOMAIN s |-> f[s[i]]], {f[x] : x \in S})
<1> DEFINE n == Len(s)
           t == [i \in DOMAIN s |-> f[s[i]]]
<1>1. Lists(t, {f[x] : x \in S}) /\ Len(t) = n BY ListsMapped DEF Counts
<1>2. n \in Nat /\ DOMAIN s = 1..n /\ \A i \in 1..n : s[i] \in S BY ListsDomain DEF Counts
<1>3. \A i, j \in 1..n : s[i] = s[j] => i = j BY CountsOnce
<1>4. \A i, j \in 1..n : t[i] = t[j] => i = j BY <1>2, <1>3
<1> HIDE DEF t, n
<1> QED BY <1>1, <1>4, CountsMade DEF t

(* The sequences of a sequence, one after the other. *)
LEMMA CountsAll ==
  ASSUME NEW s, NEW S, Counts(s, S), NEW seq, NEW set, \A x \in S : Counts(seq[x], set[x]),
         \A x, y \in S : x # y => set[x] \cap set[y] = {}
  PROVE  Counts(FlattenSeq([i \in DOMAIN s |-> seq[s[i]]]), UNION {set[x] : x \in S})
<1> DEFINE n == Len(s)
           seqs == [i \in 1..n |-> seq[s[i]]]
           sets == [i \in 1..n |-> set[s[i]]]
<1>1. /\ n \in Nat /\ DOMAIN s = 1..n
      /\ \A i \in 1..n : s[i] \in S
      /\ \A x \in S : \E i \in 1..n : s[i] = x
  BY ListsDomain DEF Counts
<1>2. \A i \in 1..n : Counts(seqs[i], sets[i]) BY <1>1
<1>3. seqs = [i \in 1..n |-> seqs[i]] OBVIOUS
<1>4. \A i, j \in 1..n : i # j => sets[i] \cap sets[j] = {}
  <2>1. \A i, j \in 1..n : s[i] = s[j] => i = j BY CountsOnce
  <2> QED BY <1>1, <2>1
<1>5. Counts(FlattenSeq(seqs), UNION {sets[i] : i \in 1..n})
  <2> HIDE DEF n, seqs, sets
  <2> QED BY <1>1, <1>2, <1>3, <1>4, CountsFlat
<1>6. UNION {sets[i] : i \in 1..n} = UNION {set[x] : x \in S}
  <2>1. {sets[i] : i \in 1..n} = {set[x] : x \in S} BY <1>1
  <2> QED BY <2>1
<1> QED BY <1>1, <1>5, <1>6

(* Kept keeps each once. *)
LEMMA CountsKept ==
  ASSUME NEW s, NEW S, Counts(s, S), NEW set
  PROVE  Counts(Kept(s, set), S \cap set)
<1> DEFINE n == Len(s)
           seqs == [i \in 1..n |-> IF s[i] \in set THEN <<s[i]>> ELSE <<>>]
           sets == [i \in 1..n |-> IF s[i] \in set THEN {s[i]} ELSE {}]
<1>1. /\ n \in Nat /\ DOMAIN s = 1..n
      /\ \A i \in 1..n : s[i] \in S
      /\ \A x \in S : \E i \in 1..n : s[i] = x
  BY ListsDomain DEF Counts
<1>2. Kept(s, set) = FlattenSeq(seqs) BY <1>1 DEF Kept
<1>3. \A i \in 1..n : Counts(seqs[i], sets[i]) BY CountsOne, CountsEmpty
<1>4. UNION {sets[i] : i \in 1..n} = S \cap set BY <1>1
<1>5. seqs = [i \in 1..n |-> seqs[i]] OBVIOUS
<1>6. \A i, j \in 1..n : i # j => sets[i] \cap sets[j] = {} BY CountsOnce
<1>7. Counts(FlattenSeq(seqs), UNION {sets[i] : i \in 1..n})
  <2>1. n \in Nat BY <1>1
  <2> HIDE DEF n, seqs, sets
  <2> QED BY ONLY <1>3, <1>5, <1>6, <2>1, CountsFlat
<1> QED BY <1>2, <1>4, <1>7

(* Distinct keeps each value once. *)
LEMMA CountsDistinct ==
  ASSUME NEW s, NEW S, Lists(s, S)
  PROVE  Counts(Distinct(s), S)
<1> DEFINE n == Len(s)
           seen(i) == \E j \in 1..(i - 1) : s[j] = s[i]
           seqs == [i \in 1..n |-> IF seen(i) THEN <<>> ELSE <<s[i]>>]
           sets == [i \in 1..n |-> IF seen(i) THEN {} ELSE {s[i]}]
<1>1. n \in Nat /\ DOMAIN s = 1..n BY ListsDomain
<1>2. Distinct(s) = FlattenSeq(seqs) BY <1>1 DEF Distinct
<1>3. \A i \in 1..n : Counts(seqs[i], sets[i]) BY CountsOne, CountsEmpty
<1>4. seqs = [i \in 1..n |-> seqs[i]] OBVIOUS
<1>5. \A i, j \in 1..n : i # j => sets[i] \cap sets[j] = {}
  <2>1. ASSUME NEW i \in 1..n, NEW j \in 1..n, i < j PROVE sets[i] \cap sets[j] = {}
    <3>1. i \in 1..(j - 1) BY <1>1, <2>1
    <3>2. s[i] = s[j] => seen(j) BY <3>1
    <3> QED BY <3>2
  <2>2. \A i, j \in 1..n : i < j => sets[i] \cap sets[j] = {} /\ sets[j] \cap sets[i] = {}
    <3> HIDE DEF sets
    <3> QED BY <2>1
  <2>3. \A i, j \in 1..n : i # j => i < j \/ j < i BY <1>1
  <2> HIDE DEF sets
  <2> QED BY <2>2, <2>3
<1>6. Counts(FlattenSeq(seqs), UNION {sets[i] : i \in 1..n})
  <2> HIDE DEF n, seqs, sets
  <2> QED BY <1>1, <1>3, <1>4, <1>5, CountsFlat
<1>7. Lists(Distinct(s), S) BY ListsDistinct
<1>8. UNION {sets[i] : i \in 1..n} = S BY <1>2, <1>6, <1>7 DEF Counts, Lists
<1> QED BY <1>2, <1>6, <1>8

(* What a field is called is no reason and no outcome. *)
LEMMA FieldsApart ==
  /\ \A f \in ComparedFields : f \notin Outcomes /\ f \notin Reasons
  /\ Reasons \cap Outcomes = {}
<1>1. ToSet(Precedence) = Reasons
  <2>1. Precedence = <<"UNREADABLE", "WRONG_DOC_TYPE", "MISSING_ATTACHMENT", "MISSING_VALUE">> BY DEF Precedence
  <2>2. DOMAIN Precedence = {1, 2, 3, 4} BY <2>1
  <2>3. ToSet(Precedence) = {Precedence[i] : i \in {1, 2, 3, 4}} BY <2>2 DEF ToSet
  <2> QED BY <2>3, PrecedenceIs DEF Reasons
<1>2. ComparedFields \cap (Outcomes \cup Reasons) = {} BY <1>1, GraphAssumption
<1> QED BY <1>2 DEF Reasons, Outcomes

(* Every diagnostic of a case has one of the known reasons. *)
LEMMA CaseReasoned ==
  ASSUME NEW e \in Emails
  PROVE  Reasoned(SeedCase[e].diagnostics)
<1> SUFFICES ASSUME NEW d \in SeedCase[e].diagnostics PROVE d.reason \in Reasons BY DEF Reasoned
<1>1. d \in Known(Analyses(e)) BY CaseKnown
<1>2. CASE \E reason \in {"UNREADABLE", "WRONG_DOC_TYPE", "MISSING_VALUE"}, a \in Analyses(e),
           role \in Roles(Analyses(e)), f \in ComparedFields \cup {Nothing} : d = Diagnostic(reason, a, role, f)
  BY <1>2 DEF Diagnostic, Reasons
<1>3. CASE \E role \in {"SI", "DRAFT_BL"} : d = MissingRole(role) BY <1>3 DEF MissingRole, Reasons
<1>4. \/ \E reason \in {"UNREADABLE", "WRONG_DOC_TYPE", "MISSING_VALUE"}, a \in Analyses(e),
           role \in Roles(Analyses(e)), f \in ComparedFields \cup {Nothing} : d = Diagnostic(reason, a, role, f)
      \/ \E role \in {"SI", "DRAFT_BL"} : d = MissingRole(role)
  BY <1>1 DEF Known
<1> QED BY <1>2, <1>3, <1>4

(* The first attachment whose file has a name. *)
FirstNamed(name) == SelectInSeq(Attached, LAMBDA b : File(b).name = name)

(* No two attachments are named alike, *)
LEMMA DocumentsTold ==
  ASSUME NEW e, NEW i, NEW g, NEW j, DocumentId(<<e, i>>) = DocumentId(<<g, j>>)
  PROVE  e = g /\ i = j
<1> DEFINE a == <<e, i>>
           b == <<g, j>>
<1>1. DocumentId(a) = IF Attached[FirstNamed(File(a).name)] = a THEN <<"document", <<File(a).name>>>> ELSE <<"document", a>>
  BY DEF DocumentId, FirstNamed
<1>2. DocumentId(b) = IF Attached[FirstNamed(File(b).name)] = b THEN <<"document", <<File(b).name>>>> ELSE <<"document", b>>
  BY DEF DocumentId, FirstNamed
<1>3. \A x : <<x>> # a /\ <<x>> # b OBVIOUS
<1>4. DocumentId(a) = DocumentId(b) OBVIOUS
<1>5. a = b
  <2> HIDE DEF a, b
  <2> QED BY <1>1, <1>2, <1>3, <1>4
<1> QED BY <1>5

(* nor is a document that did not come named like one that did. *)
LEMMA ExpectedTold ==
  /\ \A e, i, g, role : DocumentId(<<e, i>>) # ExpectedId(g, role)
  /\ \A e, role, g, other : ExpectedId(e, role) = ExpectedId(g, other) => e = g /\ role = other
<1>1. ASSUME NEW e, NEW i, NEW g, NEW role PROVE DocumentId(<<e, i>>) # ExpectedId(g, role)
  <2>1. \/ \E x : DocumentId(<<e, i>>) = <<"document", <<x>>>>
        \/ DocumentId(<<e, i>>) = <<"document", <<e, i>>>>
    BY DEF DocumentId
  <2>2. ExpectedId(g, role) = <<"document", <<g, "expected", role>>>> BY DEF ExpectedId
  <2>3. \A x : <<"document", <<x>>>> # <<"document", <<g, "expected", role>>>> OBVIOUS
  <2>4. <<"document", <<e, i>>>> # <<"document", <<g, "expected", role>>>> OBVIOUS
  <2> QED BY ONLY <2>1, <2>2, <2>3, <2>4
<1>2. \A e, role, g, other : ExpectedId(e, role) = ExpectedId(g, other) => e = g /\ role = other
  BY DEF ExpectedId
<1> QED BY <1>1, <1>2

(* Each verdict that is flagged has a flag of its own, *)
LEMMA VerdictFlagsTold ==
  ASSUME NEW e, NEW f, NEW g, NEW h, VerdictFlag(e, f) = VerdictFlag(g, h)
  PROVE  e = g /\ f = h
<1>1. \/ VerdictFlag(e, f) = <<"mismatch", <<e, f>>>>
      \/ VerdictFlag(e, f) = <<"exception", <<e, f, "review">>>>
  BY DEF VerdictFlag
<1>2. \/ VerdictFlag(g, h) = <<"mismatch", <<g, h>>>>
      \/ VerdictFlag(g, h) = <<"exception", <<g, h, "review">>>>
  BY DEF VerdictFlag
<1> QED BY <1>1, <1>2

(* The diagnostics of one reason before another. *)
Earlier(e, n) == {m \in 1..(n - 1) : Diagnostics(e)[m].reason = Diagnostics(e)[n].reason}

(* They grow from one of that reason to the next. *)
LEMMA EarlierGrow ==
  ASSUME NEW e \in Emails, NEW n \in DOMAIN Diagnostics(e), NEW m \in DOMAIN Diagnostics(e), n < m,
         Diagnostics(e)[n].reason = Diagnostics(e)[m].reason
  PROVE  Earlier(e, m) # {} /\ Cardinality(Earlier(e, n)) # Cardinality(Earlier(e, m))
<1>1. DOMAIN Diagnostics(e) = 1..Len(Diagnostics(e)) /\ Len(Diagnostics(e)) \in Nat
  BY DiagnosticsListed, ListsDomain
<1>2. n \in Nat /\ m \in Nat /\ n \in 1..(m - 1) BY <1>1
<1>3. n \in Earlier(e, m) BY <1>2 DEF Earlier
<1>4. n \notin Earlier(e, n) BY <1>2 DEF Earlier
<1>5. Earlier(e, n) \subseteq Earlier(e, m)
  <2>1. \A k \in 1..(n - 1) : k \in 1..(m - 1) BY <1>2
  <2> QED BY <2>1 DEF Earlier
<1>6. IsFiniteSet(Earlier(e, m))
  <2>1. IsFiniteSet(1..(m - 1)) BY <1>2, FS_Interval
  <2>2. Earlier(e, m) \subseteq 1..(m - 1) BY DEF Earlier
  <2> QED BY <2>1, <2>2, FS_Subset
<1>7. Cardinality(Earlier(e, n)) < Cardinality(Earlier(e, m))
  BY ONLY <1>3, <1>4, <1>5, <1>6, FS_Subset, FS_CardinalityType
<1>8. Cardinality(Earlier(e, n)) \in Nat /\ Cardinality(Earlier(e, m)) \in Nat
  BY <1>5, <1>6, FS_Subset, FS_CardinalityType
<1> QED BY <1>3, <1>7, <1>8

(* so has each diagnostic, *)
LEMMA FaultFlagsTold ==
  ASSUME NEW e \in Emails, NEW n \in DOMAIN Diagnostics(e), NEW g \in Emails, NEW m \in DOMAIN Diagnostics(g),
         DiagnosticFlag(e, n) = DiagnosticFlag(g, m)
  PROVE  e = g /\ n = m
<1> DEFINE p == Diagnostics(e)[n].reason
           q == Diagnostics(g)[m].reason
           i == Cardinality(Earlier(e, n)) + 1
           j == Cardinality(Earlier(g, m)) + 1
<1>1. DiagnosticFlag(e, n) = IF Earlier(e, n) = {} THEN <<"exception", <<e, p>>>> ELSE <<"exception", <<e, p, i>>>>
  BY DEF DiagnosticFlag, Earlier
<1>2. DiagnosticFlag(g, m) = IF Earlier(g, m) = {} THEN <<"exception", <<g, q>>>> ELSE <<"exception", <<g, q, j>>>>
  BY DEF DiagnosticFlag, Earlier
<1>3. /\ e = g /\ p = q
      /\ (Earlier(e, n) = {} /\ Earlier(g, m) = {}) \/ i = j
  <2> HIDE DEF p, q, i, j
  <2>1. \/ <<"exception", <<e, p>>>> = <<"exception", <<g, q>>>> /\ Earlier(e, n) = {} /\ Earlier(g, m) = {}
        \/ <<"exception", <<e, p>>>> = <<"exception", <<g, q, j>>>>
        \/ <<"exception", <<e, p, i>>>> = <<"exception", <<g, q>>>>
        \/ <<"exception", <<e, p, i>>>> = <<"exception", <<g, q, j>>>>
    BY <1>1, <1>2, Zenon
  <2> QED BY ONLY <2>1
<1>4. IsFiniteSet(Earlier(e, n)) /\ IsFiniteSet(Earlier(e, m)) /\ n \in Nat /\ m \in Nat
  <2>1. \A k \in DOMAIN Diagnostics(e) : k \in Nat BY DiagnosticsListed, ListsDomain
  <2>2. n \in Nat /\ m \in Nat BY <1>3, <2>1
  <2>3. IsFiniteSet(1..(n - 1)) /\ IsFiniteSet(1..(m - 1)) BY <2>2, FS_Interval
  <2> QED BY <2>2, <2>3, FS_Subset DEF Earlier
<1>5. Cardinality(Earlier(e, n)) = Cardinality(Earlier(g, m))
  <2>1. CASE Earlier(e, n) = {} /\ Earlier(g, m) = {} BY <2>1
  <2>2. CASE i = j
    <3>1. Cardinality(Earlier(e, n)) \in Nat /\ Cardinality(Earlier(g, m)) \in Nat
      BY <1>3, <1>4, FS_CardinalityType
    <3> QED BY <2>2, <3>1
  <2> QED BY <1>3, <2>1, <2>2
<1>6. ~(n < m) /\ ~(m < n) BY <1>3, <1>5, EarlierGrow
<1> QED BY <1>3, <1>4, <1>6

(* The shape of a result. *)
LEMMA ResultsShaped ==
  ASSUME stage = "done", Reconciled, NEW r \in results
  PROVE  /\ r.outcome \in Outcomes
         /\ IF r.outcome \in {"UNMATCHED_CASE", "DUPLICATE_OR_AMBIGUOUS"} THEN r.cases # {} ELSE r.shipments # {}
<1>1. \/ \E s \in Matched : r = GroupResult(Component(s), Claims(Component(s)))
      \/ \E s \in Overdue : r = Result("MISSING_CASE", {s}, {})
      \/ \E c \in Cases \ Claims(Shipments) : r = Result("UNMATCHED_CASE", {}, {c})
  BY DEF Reconciled
<1>2. CASE \E s \in Matched : r = GroupResult(Component(s), Claims(Component(s)))
  <2>1. PICK s \in Matched : r = GroupResult(Component(s), Claims(Component(s))) BY <1>2
  <2>2. s \in Component(s) BY InOwn DEF Matched
  <2>3. Claims(Component(s)) # {} BY <2>2 DEF Claims, Matched, CasesOf
  <2>4. r.shipments = Component(s) /\ r.cases = Claims(Component(s)) BY <2>1 DEF GroupResult, Result
  <2>5. r.outcome \in Outcomes BY <2>1 DEF GroupResult, Result, PairOutcome, Outcomes
  <2> QED BY <2>2, <2>3, <2>4, <2>5
<1>3. CASE \E s \in Overdue : r = Result("MISSING_CASE", {s}, {}) BY <1>3 DEF Result, Outcomes
<1>4. CASE \E c \in Cases \ Claims(Shipments) : r = Result("UNMATCHED_CASE", {}, {c})
  BY <1>4 DEF Result, Outcomes
<1> QED BY <1>1, <1>2, <1>3, <1>4

(* and each result. *)
LEMMA ResultFlagsTold ==
  ASSUME stage = "done", Reconciled, OneResultEach, NEW q \in results, NEW r \in results, ResultFlag(q) = ResultFlag(r)
  PROVE  q = r
<1> DEFINE Alone(x) == x.outcome \in {"UNMATCHED_CASE", "DUPLICATE_OR_AMBIGUOUS"}
           Of(x) == IF Alone(x) THEN CHOOSE c \in x.cases : TRUE ELSE CHOOSE s \in x.shipments : TRUE
<1>1. ASSUME NEW x PROVE ResultFlag(x) = <<"exception", <<Of(x), x.outcome>>>>
  <2>1. CASE Alone(x) BY <2>1 DEF ResultFlag
  <2>2. CASE ~Alone(x) BY <2>2 DEF ResultFlag
  <2> QED BY <2>1, <2>2
<1>2. Of(q) = Of(r) /\ q.outcome = r.outcome
  <2> HIDE DEF Of
  <2> QED BY <1>1
<1>3. \A x \in results : IF Alone(x) THEN Of(x) \in x.cases ELSE Of(x) \in x.shipments BY ResultsShaped
<1>4. CASE Alone(q)
  <2>1. Of(q) \in q.cases \cap r.cases BY <1>2, <1>3, <1>4
  <2> HIDE DEF Of
  <2> QED BY <2>1 DEF OneResultEach
<1>5. CASE ~Alone(q)
  <2>1. Of(q) \in q.shipments \cap r.shipments BY <1>2, <1>3, <1>5
  <2> HIDE DEF Of
  <2> QED BY <2>1 DEF OneResultEach
<1> QED BY <1>4, <1>5

(* What a diagnostic's flag is called. *)
LEMMA FaultNamed ==
  ASSUME NEW e \in Emails, NEW n \in DOMAIN Diagnostics(e)
  PROVE  \E reason \in Reasons : \/ DiagnosticFlag(e, n) = <<"exception", <<e, reason>>>>
                                \/ \E k : DiagnosticFlag(e, n) = <<"exception", <<e, reason, k>>>>
<1> DEFINE reason == Diagnostics(e)[n].reason
<1>1. \/ DiagnosticFlag(e, n) = <<"exception", <<e, reason>>>>
      \/ \E k : DiagnosticFlag(e, n) = <<"exception", <<e, reason, k>>>>
  BY DEF DiagnosticFlag
<1>2. reason \in Reasons
  <2>1. Diagnostics(e)[n] \in SeedCase[e].diagnostics BY DiagnosticsListed, ListsDomain
  <2> QED BY <2>1, CaseReasoned DEF Reasoned
<1> QED BY <1>1, <1>2

(* And no two of them share one. *)
LEMMA FlagsApart ==
  ASSUME NEW e \in Emails, NEW n \in DOMAIN Diagnostics(e)
  PROVE  /\ \A g : \A f \in ComparedFields : VerdictFlag(g, f) # DiagnosticFlag(e, n)
         /\ \A r : r.outcome \in Outcomes => DiagnosticFlag(e, n) # ResultFlag(r)
<1>1. PICK reason \in Reasons : \/ DiagnosticFlag(e, n) = <<"exception", <<e, reason>>>>
                               \/ \E k : DiagnosticFlag(e, n) = <<"exception", <<e, reason, k>>>>
  BY FaultNamed
<1>2. ASSUME NEW g, NEW f \in ComparedFields PROVE VerdictFlag(g, f) # DiagnosticFlag(e, n)
  <2>1. \/ VerdictFlag(g, f) = <<"mismatch", <<g, f>>>>
        \/ VerdictFlag(g, f) = <<"exception", <<g, f, "review">>>>
    BY DEF VerdictFlag
  <2>2. f # reason BY FieldsApart
  <2> QED BY <1>1, <2>1, <2>2
<1>3. ASSUME NEW r, r.outcome \in Outcomes PROVE DiagnosticFlag(e, n) # ResultFlag(r)
  <2>1. \E x : ResultFlag(r) = <<"exception", <<x, r.outcome>>>> BY DEF ResultFlag
  <2>2. r.outcome # reason BY <1>3, FieldsApart
  <2> QED BY <1>1, <2>1, <2>2
<1> QED BY <1>2, <1>3

(* The flag of a verdict is not one of a result. *)
LEMMA VerdictApart == \A e, f, r : VerdictFlag(e, f) # ResultFlag(r)
<1> SUFFICES ASSUME NEW e, NEW f, NEW r PROVE VerdictFlag(e, f) # ResultFlag(r) OBVIOUS
<1>1. \/ VerdictFlag(e, f) = <<"mismatch", <<e, f>>>>
      \/ VerdictFlag(e, f) = <<"exception", <<e, f, "review">>>>
  BY DEF VerdictFlag
<1>2. \E x : ResultFlag(r) = <<"exception", <<x, r.outcome>>>> BY DEF ResultFlag
<1> QED BY <1>1, <1>2

(* Names that tell what they name apart, and two sets with no common name. *)
Tells(S) == \A x, y \in S : x.id = y.id => x = y
Apart(S, T) == \A x \in S, y \in T : x.id # y.id

(* What a node may stand for. *)
IsEmail(n) == \E e \in Emails : n = Node(EmailId(e), "email", EmailState(e))
IsFile(n) == \E e \in Emails : \E i \in DOMAIN FilesOf(e) : n = FileNode(e, i)
IsMissing(n) == \E e \in Emails : \E role \in Lacking(e) : n = MissingNode(e, role)
IsValue(n) ==
  \E e \in Emails : \E f \in DOMAIN SeedCase[e].verdicts : \E side \in Shown(e, f) : n = ValueNode(e, f, side)
IsVerdict(n) == \E e \in Emails : \E f \in DOMAIN SeedCase[e].verdicts : Flagged(e, f) /\ n = FlagNode(e, f)
IsFault(n) == \E e \in Emails : \E i \in DOMAIN Diagnostics(e) : n = FaultNode(e, i)
IsResult(n) == \E r \in WrongResults : n = ResultNode(r)
IsShipment(n) == \E s \in Shipments : n = ShipmentNode(s)
IsFlag(n) == IsVerdict(n) \/ IsFault(n) \/ IsResult(n)

(* There are no other nodes. *)
LEMMA NodesAre ==
  ASSUME NEW n
  PROVE  n \in AllNodes <=>
           IsEmail(n) \/ IsFile(n) \/ IsMissing(n) \/ IsValue(n) \/ IsFlag(n) \/ IsShipment(n)
<1>1. ASSUME NEW e \in Emails
      PROVE  n \in UNION {VerdictNodes(e, f) : f \in DOMAIN SeedCase[e].verdicts} <=>
               \E f \in DOMAIN SeedCase[e].verdicts :
                 (\E side \in Shown(e, f) : n = ValueNode(e, f, side)) \/ (Flagged(e, f) /\ n = FlagNode(e, f))
  BY DEF VerdictNodes
<1>2. ASSUME NEW e \in Emails
      PROVE  n \in NodesOf(e) <=>
               \/ n = Node(EmailId(e), "email", EmailState(e))
               \/ \E i \in DOMAIN FilesOf(e) : n = FileNode(e, i)
               \/ \E role \in Lacking(e) : n = MissingNode(e, role)
               \/ n \in UNION {VerdictNodes(e, f) : f \in DOMAIN SeedCase[e].verdicts}
               \/ \E i \in DOMAIN Diagnostics(e) : n = FaultNode(e, i)
  BY DEF NodesOf
<1>3. n \in AllNodes <=> (\E e \in Emails : n \in NodesOf(e)) \/ IsResult(n) \/ IsShipment(n)
  BY DEF AllNodes, IsResult, IsShipment
<1>4. (\E e \in Emails : n \in NodesOf(e)) <=>
        IsEmail(n) \/ IsFile(n) \/ IsMissing(n) \/ IsValue(n) \/ IsVerdict(n) \/ IsFault(n)
  BY <1>1, <1>2, Zenon DEF IsEmail, IsFile, IsMissing, IsValue, IsVerdict, IsFault
<1> QED BY <1>3, <1>4 DEF IsFlag

(* What documents are called. *)
LEMMA FileNodeIs ==
  ASSUME NEW e, NEW i
  PROVE  FileNode(e, i).id = DocumentId(<<e, i>>) /\ FileNode(e, i).kind = "document"
<1>1. FileNode(e, i) = Node(DocumentId(<<e, i>>), "document", DocumentState(<<e, i>>)) BY DEF FileNode
<1> QED BY <1>1, NodeIs

(* The name of each begins with its kind. *)
LEMMA KindsAre ==
  ASSUME NEW n
  PROVE  /\ IsEmail(n) => n.kind = "email"
         /\ IsFile(n) \/ IsMissing(n) => n.kind = "document"
         /\ IsValue(n) => n.kind \in {"party", "port"} /\ n.kind = n.id[1] /\ n.state = Worst(n.id)
         /\ IsVerdict(n) => n.kind \in FlagKinds
         /\ IsFault(n) \/ IsResult(n) => n.kind = "exception"
         /\ IsShipment(n) => n.kind = "shipment"
<1>1. IsEmail(n) => n.kind = "email" BY NodeIs DEF IsEmail
<1>2. IsFile(n) \/ IsMissing(n) => n.kind = "document" 
  <2>1. IsFile(n) => n.kind = "document" BY FileNodeIs DEF IsFile
  <2>2. IsMissing(n) => n.kind = "document" BY NodeIs DEF IsMissing, MissingNode
  <2> QED BY <2>1, <2>2
<1>3. IsValue(n) => n.kind \in {"party", "port"} /\ n.kind = n.id[1] /\ n.state = Worst(n.id)
  BY NodeIs, NamesTell DEF IsValue, ValueNode
<1>4. IsVerdict(n) => n.kind \in FlagKinds BY NodeIs, NamesTell DEF IsVerdict, FlagNode
<1>5. IsFault(n) \/ IsResult(n) => n.kind = "exception" BY NodeIs DEF IsFault, IsResult, FaultNode, ResultNode
<1>6. IsShipment(n) => n.kind = "shipment" BY NodeIs DEF IsShipment, ShipmentNode
<1> QED BY <1>1, <1>2, <1>3, <1>4, <1>5, <1>6

(* A node of each kind, if it is a node of a build. *)
LEMMA KindsTell ==
  ASSUME NEW n \in AllNodes
  PROVE  /\ n.kind = "email" <=> IsEmail(n)
         /\ n.kind = "document" <=> IsFile(n) \/ IsMissing(n)
         /\ n.kind \in {"party", "port"} <=> IsValue(n)
         /\ n.kind \in FlagKinds <=> IsFlag(n)
         /\ n.kind = "shipment" <=> IsShipment(n)
BY NodesAre, KindsAre DEF IsFlag, FlagKinds

(* A document has one node, *)
LEMMA DocumentNodesTold ==
  ASSUME NEW m, NEW n, IsFile(m) \/ IsMissing(m), IsFile(n) \/ IsMissing(n), m.id = n.id
  PROVE  m = n
<1>1. IsFile(m) => \E e, i : m = FileNode(e, i) /\ m.id = DocumentId(<<e, i>>) BY FileNodeIs DEF IsFile
<1>2. IsFile(n) => \E e, i : n = FileNode(e, i) /\ n.id = DocumentId(<<e, i>>) BY FileNodeIs DEF IsFile
<1>3. IsMissing(m) => \E e, role : m = MissingNode(e, role) /\ m.id = ExpectedId(e, role)
  BY NodeIs DEF IsMissing, MissingNode
<1>4. IsMissing(n) => \E e, role : n = MissingNode(e, role) /\ n.id = ExpectedId(e, role)
  BY NodeIs DEF IsMissing, MissingNode
<1>5. CASE IsFile(m) /\ IsFile(n)
  <2>1. PICK e, i : m = FileNode(e, i) /\ m.id = DocumentId(<<e, i>>) BY <1>1, <1>5
  <2>2. PICK g, j : n = FileNode(g, j) /\ n.id = DocumentId(<<g, j>>) BY <1>2, <1>5
  <2>3. e = g /\ i = j BY <2>1, <2>2, DocumentsTold
  <2> QED BY <2>1, <2>2, <2>3
<1>6. CASE IsMissing(m) /\ IsMissing(n)
  <2>1. PICK e, role : m = MissingNode(e, role) /\ m.id = ExpectedId(e, role) BY <1>3, <1>6
  <2>2. PICK g, other : n = MissingNode(g, other) /\ n.id = ExpectedId(g, other) BY <1>4, <1>6
  <2>3. e = g /\ role = other BY <2>1, <2>2, ExpectedTold
  <2> QED BY <2>1, <2>2, <2>3
<1>7. CASE IsFile(m) /\ IsMissing(n)
  <2>1. PICK e, i : m.id = DocumentId(<<e, i>>) BY <1>1, <1>7
  <2>2. PICK g, role : n.id = ExpectedId(g, role) BY <1>4, <1>7
  <2>3. DocumentId(<<e, i>>) # ExpectedId(g, role) BY ExpectedTold
  <2> QED BY <2>1, <2>2, <2>3
<1>8. CASE IsMissing(m) /\ IsFile(n)
  <2>1. PICK e, i : n.id = DocumentId(<<e, i>>) BY <1>2, <1>8
  <2>2. PICK g, role : m.id = ExpectedId(g, role) BY <1>3, <1>8
  <2>3. DocumentId(<<e, i>>) # ExpectedId(g, role) BY ExpectedTold
  <2> QED BY <2>1, <2>2, <2>3
<1> QED BY <1>5, <1>6, <1>7, <1>8

(* The flag of a verdict is of a compared field. *)
LEMMA VerdictFields ==
  ASSUME NEW e \in Emails, NEW f \in DOMAIN SeedCase[e].verdicts
  PROVE  f \in ComparedFields
BY CaseKnown

(* so has a flag, *)
LEMMA FlagNodesTold ==
  ASSUME stage = "done", Reconciled, OneResultEach, NEW m, NEW n, IsFlag(m), IsFlag(n), m.id = n.id
  PROVE  m = n /\ (IsVerdict(m) <=> IsVerdict(n)) /\ (IsFault(m) <=> IsFault(n)) /\ (IsResult(m) <=> IsResult(n))
<1> DEFINE V(x) == \E e \in Emails : \E f \in DOMAIN SeedCase[e].verdicts : x = FlagNode(e, f) /\ x.id = VerdictFlag(e, f)
           F(x) == \E e \in Emails : \E i \in DOMAIN Diagnostics(e) : x = FaultNode(e, i) /\ x.id = DiagnosticFlag(e, i)
           R(x) == \E r \in WrongResults : x = ResultNode(r) /\ x.id = ResultFlag(r)
<1>1. \A x : (IsVerdict(x) => V(x)) /\ (IsFault(x) => F(x)) /\ (IsResult(x) => R(x))
  BY NodeIs DEF IsVerdict, IsFault, IsResult, FlagNode, FaultNode, ResultNode
<1>2. \A r \in WrongResults : r \in results /\ r.outcome \in Outcomes BY ResultsShaped DEF WrongResults
<1>3. ASSUME NEW x, NEW y, V(x), F(y) \/ R(y) PROVE x.id # y.id
  <2>1. PICK e \in Emails : \E f \in DOMAIN SeedCase[e].verdicts : x = FlagNode(e, f) /\ x.id = VerdictFlag(e, f)
    BY <1>3
  <2>2. PICK f \in DOMAIN SeedCase[e].verdicts : x.id = VerdictFlag(e, f) BY <2>1
  <2>3. f \in ComparedFields BY VerdictFields
  <2>4. CASE F(y)
    <3>1. PICK g \in Emails : \E i \in DOMAIN Diagnostics(g) : y = FaultNode(g, i) /\ y.id = DiagnosticFlag(g, i)
      BY <2>4
    <3>2. PICK i \in DOMAIN Diagnostics(g) : y.id = DiagnosticFlag(g, i) BY <3>1
    <3>3. VerdictFlag(e, f) # DiagnosticFlag(g, i) BY <2>3, FlagsApart
    <3> QED BY <2>2, <3>2, <3>3
  <2>5. CASE R(y)
    <3>1. PICK r \in WrongResults : y.id = ResultFlag(r) BY <2>5
    <3> QED BY <2>2, <3>1, VerdictApart
  <2> QED BY <1>3, <2>4, <2>5
<1>4. ASSUME NEW x, NEW y, F(x), R(y) PROVE x.id # y.id
  <2>1. PICK g \in Emails : \E i \in DOMAIN Diagnostics(g) : x = FaultNode(g, i) /\ x.id = DiagnosticFlag(g, i)
    BY <1>4
  <2>2. PICK i \in DOMAIN Diagnostics(g) : x.id = DiagnosticFlag(g, i) BY <2>1
  <2>3. PICK r \in WrongResults : y.id = ResultFlag(r) BY <1>4
  <2>4. r.outcome \in Outcomes BY <1>2
  <2>5. DiagnosticFlag(g, i) # ResultFlag(r) BY <2>4, FlagsApart
  <2> QED BY <2>2, <2>3, <2>5
<1>5. CASE IsVerdict(m) /\ IsVerdict(n)
  <2>1. V(m) /\ V(n) BY <1>1, <1>5
  <2>2. PICK e, f : m = FlagNode(e, f) /\ m.id = VerdictFlag(e, f) BY <2>1
  <2>3. PICK g, h : n = FlagNode(g, h) /\ n.id = VerdictFlag(g, h) BY <2>1
  <2>4. e = g /\ f = h BY <2>2, <2>3, VerdictFlagsTold
  <2> QED BY <2>2, <2>3, <2>4
<1>6. CASE IsFault(m) /\ IsFault(n)
  <2>1. F(m) /\ F(n) BY <1>1, <1>6
  <2>2. PICK e \in Emails : \E i \in DOMAIN Diagnostics(e) : m = FaultNode(e, i) /\ m.id = DiagnosticFlag(e, i) BY <2>1
  <2>3. PICK i \in DOMAIN Diagnostics(e) : m = FaultNode(e, i) /\ m.id = DiagnosticFlag(e, i) BY <2>2
  <2>4. PICK g \in Emails : \E j \in DOMAIN Diagnostics(g) : n = FaultNode(g, j) /\ n.id = DiagnosticFlag(g, j) BY <2>1
  <2>5. PICK j \in DOMAIN Diagnostics(g) : n = FaultNode(g, j) /\ n.id = DiagnosticFlag(g, j) BY <2>4
  <2>6. e = g /\ i = j
    <3>1. DiagnosticFlag(e, i) = DiagnosticFlag(g, j) BY <2>3, <2>5
    <3> QED BY <3>1, FaultFlagsTold
  <2> QED BY <2>3, <2>5, <2>6
<1>7. CASE IsResult(m) /\ IsResult(n)
  <2>1. PICK q \in WrongResults : m = ResultNode(q) /\ m.id = ResultFlag(q) BY <1>1, <1>7
  <2>2. PICK r \in WrongResults : n = ResultNode(r) /\ n.id = ResultFlag(r) BY <1>1, <1>7
  <2>3. q = r BY <1>2, <2>1, <2>2, ResultFlagsTold
  <2> QED BY <2>1, <2>2, <2>3
<1> HIDE DEF V, F, R
<1>8. /\ ~(IsVerdict(m) /\ (IsFault(n) \/ IsResult(n))) /\ ~(IsVerdict(n) /\ (IsFault(m) \/ IsResult(m)))
      /\ ~(IsFault(m) /\ IsResult(n)) /\ ~(IsFault(n) /\ IsResult(m))
  BY <1>1, <1>3, <1>4
<1> QED BY <1>5, <1>6, <1>7, <1>8 DEF IsFlag

(* and so has everything. *)
LEMMA NodesTold ==
  ASSUME stage = "done", Reconciled, OneResultEach
  PROVE  Tells(AllNodes)
<1> SUFFICES ASSUME NEW m \in AllNodes, NEW n \in AllNodes, m.id = n.id PROVE m = n BY DEF Tells
<1>1. m.kind = n.kind BY NodesSound DEF NodeSound
<1>2. CASE m.kind = "email"
  <2>1. IsEmail(m) /\ IsEmail(n) BY <1>1, <1>2, KindsTell
  <2>2. PICK e : m = Node(EmailId(e), "email", EmailState(e)) BY <2>1 DEF IsEmail
  <2>3. PICK g : n = Node(EmailId(g), "email", EmailState(g)) BY <2>1 DEF IsEmail
  <2>4. EmailId(e) = EmailId(g) BY <2>2, <2>3, NodeIs
  <2>5. e = g BY <2>4 DEF EmailId
  <2> QED BY <2>2, <2>3, <2>5
<1>3. CASE m.kind = "document"
  <2>1. (IsFile(m) \/ IsMissing(m)) /\ (IsFile(n) \/ IsMissing(n)) BY <1>1, <1>3, KindsTell
  <2> QED BY <2>1, DocumentNodesTold
<1>4. CASE m.kind \in {"party", "port"}
  <2>1. IsValue(m) /\ IsValue(n) BY <1>1, <1>4, KindsTell
  <2>2. \A x : IsValue(x) => x = Node(x.id, x.id[1], Worst(x.id)) BY NodeIs DEF IsValue, ValueNode
  <2> QED BY <2>1, <2>2
<1>5. CASE m.kind \in FlagKinds
  <2>1. IsFlag(m) /\ IsFlag(n) BY <1>1, <1>5, KindsTell
  <2> QED BY <2>1, FlagNodesTold
<1>6. CASE m.kind = "shipment"
  <2>1. IsShipment(m) /\ IsShipment(n) BY <1>1, <1>6, KindsTell
  <2>2. PICK s : m = ShipmentNode(s) /\ m.id = ShipmentId(s) BY <2>1, NodeIs DEF IsShipment, ShipmentNode
  <2>3. PICK t : n = ShipmentNode(t) /\ n.id = ShipmentId(t) BY <2>1, NodeIs DEF IsShipment, ShipmentNode
  <2>4. s = t BY <2>2, <2>3 DEF ShipmentId
  <2> QED BY <2>2, <2>3, <2>4
<1> QED BY <1>2, <1>3, <1>4, <1>5, <1>6, NodesAre, KindsAre DEF IsFlag, FlagKinds

(* A sequence that lists a set once, by names that tell. *)
Told(seq, set) == Counts(seq, set) /\ Tells(set)

(* So of nothing, *)
LEMMA ToldEmpty == Told(<<>>, {}) BY CountsEmpty DEF Told, Tells

(* of two, one after the other, with no name in common, *)
LEMMA ToldBoth ==
  ASSUME NEW s, NEW S, Told(s, S), NEW t, NEW T, Told(t, T), Apart(S, T)
  PROVE  Told(s \o t, S \cup T)
<1>1. S \cap T = {} BY DEF Apart
<1>2. Counts(s \o t, S \cup T) BY <1>1, CountsBoth DEF Told
<1>3. Tells(S \cup T) BY DEF Told, Tells, Apart
<1> QED BY <1>2, <1>3 DEF Told

(* Where a function gives each value a name of its own. *)
LEMMA ToldMapped ==
  ASSUME NEW s, NEW S, Counts(s, S), NEW f, \A x, y \in S : f[x].id = f[y].id => x = y
  PROVE  Told([i \in DOMAIN s |-> f[s[i]]], {f[x] : x \in S})
<1>1. \A x, y \in S : f[x] = f[y] => x = y OBVIOUS
<1>2. Counts([i \in DOMAIN s |-> f[s[i]]], {f[x] : x \in S}) BY <1>1, CountsMapped
<1>3. Tells({f[x] : x \in S}) BY DEF Tells
<1> QED BY <1>2, <1>3 DEF Told

(* of a row whose members have names of their own, *)
LEMMA ToldRow ==
  ASSUME NEW n \in Nat, NEW f, \A i, j \in 1..n : f[i].id = f[j].id => i = j
  PROVE  Told([i \in 1..n |-> f[i]], {f[i] : i \in 1..n})
<1> DEFINE s == [i \in 1..n |-> f[i]]
           S == {f[i] : i \in 1..n}
<1>1. Lists(s, S) BY ListsRow
<1>2. Len(s) = n /\ \A i \in 1..n : s[i] = f[i]
  <2>1. s \in Seq(S) BY <1>1 DEF Lists
  <2>2. DOMAIN s = 1..n OBVIOUS
  <2>3. DOMAIN s = 1..Len(s) /\ Len(s) \in Nat BY <1>1, ListsDomain
  <2>4. Len(s) = n
    <3> HIDE DEF s
    <3> QED BY <2>2, <2>3
  <2> QED BY <2>4
<1>3. \A i, j \in 1..Len(s) : s[i] = s[j] => i = j BY <1>2
<1>4. Tells(S) BY DEF Tells
<1> HIDE DEF s, S
<1>5. Counts(s, S) BY <1>1, <1>3, CountsMade
<1> QED BY <1>4, <1>5 DEF Told, s, S

(* and of what is made of each member of a set. *)
LEMMA ToldAll ==
  ASSUME NEW s, NEW S, Counts(s, S), NEW seq, NEW set, \A x \in S : Told(seq[x], set[x]),
         \A x, y \in S : x # y => Apart(set[x], set[y])
  PROVE  Told(FlattenSeq([i \in DOMAIN s |-> seq[s[i]]]), UNION {set[x] : x \in S})
<1>1. \A x \in S : Counts(seq[x], set[x]) BY DEF Told
<1>2. \A x, y \in S : x # y => set[x] \cap set[y] = {} BY DEF Apart
<1>3. Counts(FlattenSeq([i \in DOMAIN s |-> seq[s[i]]]), UNION {set[x] : x \in S}) BY <1>1, <1>2, CountsAll
<1>4. Tells(UNION {set[x] : x \in S}) BY DEF Tells, Told, Apart
<1> QED BY <1>3, <1>4 DEF Told

(* EachOf counts. *)
LEMMA CountsEach ==
  ASSUME NEW S, IsFiniteSet(S)
  PROVE  Counts(EachOf(S), S)
BY ListsEach DEF Counts

(* An edge of a flag as it is. *)
LEMMA FlagLinkIs ==
  ASSUME NEW flag, NEW t
  PROVE  /\ FlagEdge(flag, t).id = <<"flags", flag, t>>
         /\ FlagEdge(flag, t).source = flag /\ FlagEdge(flag, t).target = t
BY EdgeIs DEF FlagEdge

(* The edges of a flag. *)
LEMMA FlagEdgesTold ==
  ASSUME NEW flag, NEW targets, IsFiniteSet(targets)
  PROVE  Told(FlagEdges(flag, targets), FlagLinks(flag, targets))
<1> DEFINE s == EachOf(targets)
           f == [t \in targets |-> FlagEdge(flag, t)]
<1>1. Counts(s, targets) BY CountsEach
<1>2. \A t, u \in targets : f[t].id = f[u].id => t = u BY FlagLinkIs
<1>3. Told([i \in DOMAIN s |-> f[s[i]]], {f[t] : t \in targets})
  <2> HIDE DEF s, f
  <2> QED BY <1>1, <1>2, ToldMapped
<1>4. \A i \in DOMAIN s : s[i] \in targets
  <2> HIDE DEF s
  <2> QED BY <1>1, ListsDomain DEF Counts
<1>5. [i \in DOMAIN s |-> f[s[i]]] = [i \in DOMAIN s |-> FlagEdge(flag, s[i])]
  <2> HIDE DEF s
  <2> QED BY <1>4
<1>6. FlagEdges(flag, targets) = [i \in DOMAIN s |-> FlagEdge(flag, s[i])] BY DEF FlagEdges, Mapped, FlagEdge
<1>7. {f[t] : t \in targets} = FlagLinks(flag, targets) BY DEF FlagLinks
<1> HIDE DEF s, f
<1> QED BY <1>3, <1>5, <1>6, <1>7

(* An edge of a value. *)
LEMMA ValueLinkIs ==
  ASSUME NEW e, NEW f, NEW side
  PROVE  /\ ValueEdge(e, f, side).id = <<"edge", <<e, Side(e, side)>>, f>>
         /\ ValueEdge(e, f, side).source = SideId(e, side) /\ ValueEdge(e, f, side).target = ValueId(e, f, side)
BY EdgeIs DEF ValueEdge

(* What edges are called. *)
FileNamed(id, e) == \E i : id = <<"edge", <<e, i>>>>
MissingNamed(id, e) == \E role : id = <<"edge", <<e, "expected", role>>>>
ValueNamed(id, e, f) == \E i : id = <<"edge", <<e, i>>, f>>
FlagNamed(id, flag) == \E t : id = <<"flags", flag, t>>
PairNamed(id, s) == id = <<"recon", s>>

(* None is called in two ways, *)
LEMMA NamesApart ==
  ASSUME NEW id
  PROVE  /\ \A e, g : FileNamed(id, e) => ~MissingNamed(id, g)
         /\ \A e, g, f : FileNamed(id, e) \/ MissingNamed(id, e) => ~ValueNamed(id, g, f)
         /\ \A e, flag : FileNamed(id, e) \/ MissingNamed(id, e) => ~FlagNamed(id, flag)
         /\ \A e, f, flag : ValueNamed(id, e, f) => ~FlagNamed(id, flag)
         /\ \A s, flag : PairNamed(id, s) => ~FlagNamed(id, flag)
         /\ \A s, e : PairNamed(id, s) => ~FileNamed(id, e) /\ ~MissingNamed(id, e)
         /\ \A s, e, f : PairNamed(id, s) => ~ValueNamed(id, e, f)
<1>1. \A e, g : FileNamed(id, e) => ~MissingNamed(id, g) BY DEF FileNamed, MissingNamed
<1>2. \A e, g, f : FileNamed(id, e) \/ MissingNamed(id, e) => ~ValueNamed(id, g, f)
  BY DEF FileNamed, MissingNamed, ValueNamed
<1>3. \A e, flag : FileNamed(id, e) \/ MissingNamed(id, e) => ~FlagNamed(id, flag)
  BY DEF FileNamed, MissingNamed, FlagNamed
<1>4. \A e, f, flag : ValueNamed(id, e, f) => ~FlagNamed(id, flag) BY DEF ValueNamed, FlagNamed
<1>5. \A s, flag : PairNamed(id, s) => ~FlagNamed(id, flag) BY DEF PairNamed, FlagNamed
<1>6. \A s, e : PairNamed(id, s) => ~FileNamed(id, e) /\ ~MissingNamed(id, e)
  BY DEF PairNamed, FileNamed, MissingNamed
<1>7. \A s, e, f : PairNamed(id, s) => ~ValueNamed(id, e, f) BY DEF PairNamed, ValueNamed
<1> QED BY <1>1, <1>2, <1>3, <1>4, <1>5, <1>6, <1>7

(* and a name tells what it is of. *)
LEMMA NamesOfOne ==
  ASSUME NEW id
  PROVE  /\ \A e, g : FileNamed(id, e) /\ FileNamed(id, g) => e = g
         /\ \A e, g : MissingNamed(id, e) /\ MissingNamed(id, g) => e = g
         /\ \A e, f, g, h : ValueNamed(id, e, f) /\ ValueNamed(id, g, h) => e = g /\ f = h
         /\ \A flag, other : FlagNamed(id, flag) /\ FlagNamed(id, other) => flag = other
         /\ \A s, t : PairNamed(id, s) /\ PairNamed(id, t) => s = t
<1>1. \A e, g : FileNamed(id, e) /\ FileNamed(id, g) => e = g BY DEF FileNamed
<1>2. \A e, g : MissingNamed(id, e) /\ MissingNamed(id, g) => e = g BY DEF MissingNamed
<1>3. \A e, f, g, h : ValueNamed(id, e, f) /\ ValueNamed(id, g, h) => e = g /\ f = h BY DEF ValueNamed
<1>4. \A flag, other : FlagNamed(id, flag) /\ FlagNamed(id, other) => flag = other BY DEF FlagNamed
<1>5. \A s, t : PairNamed(id, s) /\ PairNamed(id, t) => s = t BY DEF PairNamed
<1> QED BY <1>1, <1>2, <1>3, <1>4, <1>5

(* The edges of a verdict. *)
LEMMA VerdictLinksNamed ==
  ASSUME NEW e \in Emails, NEW f, NEW x \in VerdictLinks(e, f)
  PROVE  ValueNamed(x.id, e, f) \/ FlagNamed(x.id, VerdictFlag(e, f))
<1>1. CASE x \in {ValueEdge(e, f, side) : side \in Shown(e, f)}
  BY <1>1, ValueLinkIs DEF ValueNamed
<1>2. CASE Flagged(e, f) /\ x \in FlagLinks(VerdictFlag(e, f), VerdictTargets(e, f))
  BY <1>2, FlagLinkIs DEF FlagLinks, FlagNamed
<1> QED BY <1>1, <1>2 DEF VerdictLinks

(* The sides a verdict draws are drawn once each. *)
LEMMA DrawnCounted ==
  ASSUME NEW e \in Emails, NEW f
  PROVE  Counts(Drawn(e, f), Shown(e, f))
<1>1. Counts(Sides, {"SI", "DRAFT_BL"})
  <2>1. Sides \in Seq({"SI", "DRAFT_BL"}) /\ DOMAIN Sides = 1..2 /\ Len(Sides) = 2 BY DEF Sides
  <2>2. Sides[1] = "SI" /\ Sides[2] = "DRAFT_BL" BY DEF Sides
  <2>3. ToSet(Sides) = {"SI", "DRAFT_BL"} BY <2>1, <2>2 DEF ToSet
  <2>4. \A i, j \in 1..Len(Sides) : Sides[i] = Sides[j] => i = j
    <3>1. 1..Len(Sides) = {1, 2} BY <2>1
    <3> QED BY <2>2, <3>1
  <2> QED BY <2>1, <2>3, <2>4, CountsMade DEF Lists
<1>2. ToSet(Sides) = {"SI", "DRAFT_BL"} BY <1>1 DEF Lists, Counts
<1>3. Counts(Drawn(e, f), {"SI", "DRAFT_BL"} \cap Shown(e, f)) BY <1>1, <1>2, CountsKept DEF Drawn, Shown
<1>4. {"SI", "DRAFT_BL"} \cap Shown(e, f) = Shown(e, f) BY DEF Shown
<1> QED BY <1>3, <1>4

(* The edges of a verdict. *)
LEMMA VerdictEdgesTold ==
  ASSUME NEW e \in Emails, NEW f
  PROVE  Told(VerdictEdgeSeq(e, f), VerdictLinks(e, f))
<1> DEFINE g == [side \in Shown(e, f) |-> ValueEdge(e, f, side)]
           s == Drawn(e, f)
<1>1. Counts(s, Shown(e, f)) BY DrawnCounted
<1>2. Told([i \in DOMAIN s |-> g[s[i]]], {g[side] : side \in Shown(e, f)})
  <2>1. \A side \in Shown(e, f) : g[side].id = <<"edge", <<e, Side(e, side)>>, f>> BY ValueLinkIs
  <2>2. ASSUME NEW side \in Shown(e, f), NEW other \in Shown(e, f), Side(e, side) = Side(e, other)
        PROVE  side = other
    <3>1. Side(e, side) \in OfSide(e, side) /\ Side(e, other) \in OfSide(e, other) BY SideThere DEF Shown
    <3> QED BY <2>2, <3>1 DEF OfSide
  <2>3. \A side, other \in Shown(e, f) : g[side].id = g[other].id => side = other
    <3> HIDE DEF g
    <3> QED BY <2>1, <2>2
  <2> HIDE DEF s, g
  <2> QED BY <1>1, <2>3, ToldMapped
<1>3. \A i \in DOMAIN s : s[i] \in Shown(e, f)
  <2> HIDE DEF s
  <2> QED BY <1>1, ListsDomain DEF Counts
<1>4. [i \in DOMAIN s |-> g[s[i]]] = [i \in DOMAIN s |-> ValueEdge(e, f, s[i])]
  <2> HIDE DEF s
  <2> QED BY <1>3
<1> DEFINE S == {ValueEdge(e, f, side) : side \in Shown(e, f)}
           t == IF Flagged(e, f) THEN FlagEdges(VerdictFlag(e, f), VerdictTargets(e, f)) ELSE <<>>
           T == IF Flagged(e, f) THEN FlagLinks(VerdictFlag(e, f), VerdictTargets(e, f)) ELSE {}
<1>5. {g[side] : side \in Shown(e, f)} = S OBVIOUS
<1>6. Told(t, T)
  <2>1. Told(FlagEdges(VerdictFlag(e, f), VerdictTargets(e, f)),
             FlagLinks(VerdictFlag(e, f), VerdictTargets(e, f)))
    BY TargetsFinite, FlagEdgesTold
  <2> QED BY <2>1, ToldEmpty
<1>7. VerdictEdgeSeq(e, f) = [i \in DOMAIN s |-> ValueEdge(e, f, s[i])] \o t
  BY DEF VerdictEdgeSeq, Mapped, ValueEdge
<1>8. VerdictLinks(e, f) = S \cup T BY DEF VerdictLinks
<1>9. Apart(S, T)
  <2>1. \A x \in S : ValueNamed(x.id, e, f) BY ValueLinkIs DEF ValueNamed
  <2>2. \A x \in T : FlagNamed(x.id, VerdictFlag(e, f)) BY FlagLinkIs DEF FlagLinks, FlagNamed
  <2> HIDE DEF S, T
  <2> QED BY <2>1, <2>2, NamesApart DEF Apart
<1> HIDE DEF s, g, t, S, T
<1>10. Told([i \in DOMAIN s |-> ValueEdge(e, f, s[i])], S) BY <1>2, <1>4, <1>5
<1>11. Told([i \in DOMAIN s |-> ValueEdge(e, f, s[i])] \o t, S \cup T) BY ONLY <1>6, <1>9, <1>10, ToldBoth
<1> QED BY <1>7, <1>8, <1>11

(* The edges of many. *)
LEMMA ToldFlat ==
  ASSUME NEW n \in Nat, NEW seqs, seqs = [i \in 1..n |-> seqs[i]], NEW sets,
         \A i \in 1..n : Told(seqs[i], sets[i]),
         \A i, j \in 1..n : i # j => Apart(sets[i], sets[j])
  PROVE  Told(FlattenSeq(seqs), UNION {sets[i] : i \in 1..n})
<1>1. \A i \in 1..n : Counts(seqs[i], sets[i]) BY DEF Told
<1>2. \A i, j \in 1..n : i # j => sets[i] \cap sets[j] = {} BY DEF Apart
<1>3. Counts(FlattenSeq(seqs), UNION {sets[i] : i \in 1..n}) BY <1>1, <1>2, CountsFlat
<1>4. Tells(UNION {sets[i] : i \in 1..n}) BY DEF Tells, Told, Apart
<1> QED BY <1>3, <1>4 DEF Told

(* Of four, one after the other. *)
LEMMA ToldFour ==
  ASSUME NEW a, NEW A, NEW b, NEW B, NEW c, NEW C, NEW d, NEW D,
         Told(a, A), Told(b, B), Told(c, C), Told(d, D),
         Apart(A, B), Apart(A, C), Apart(A, D), Apart(B, C), Apart(B, D), Apart(C, D)
  PROVE  Told(a \o b \o c \o d, A \cup B \cup C \cup D)
<1>1. Told(a \o b, A \cup B) BY ToldBoth
<1>2. Apart(A \cup B, C) /\ Apart(A \cup B \cup C, D) BY DEF Apart
<1>3. Told(a \o b \o c, A \cup B \cup C) BY <1>1, <1>2, ToldBoth
<1> QED BY <1>2, <1>3, ToldBoth

(* What an email is expected to bring is asked for once each. *)
LEMMA ExpectedCounted ==
  ASSUME NEW e \in Emails
  PROVE  Counts(Expected(e), Lacking(e))
<1> DEFINE s == Kept(Diagnostics(e), Lacks(e))
           f == [d \in Lacks(e) |-> ExpectedRole(d)]
<1>1. Lists(s, Lacks(e))
  <2>1. Lists(s, SeedCase[e].diagnostics \cap Lacks(e)) BY DiagnosticsListed, ListsKept
  <2>2. SeedCase[e].diagnostics \cap Lacks(e) = Lacks(e) BY DEF Lacks
  <2> QED BY <2>1, <2>2
<1>2. Lists([i \in DOMAIN s |-> f[s[i]]], {f[d] : d \in Lacks(e)})
  <2> HIDE DEF s, f
  <2> QED BY <1>1, ListsMapped
<1>3. {f[d] : d \in Lacks(e)} = Lacking(e) BY DEF Lacking
<1>4. [i \in DOMAIN s |-> f[s[i]]] = Mapped(s, ExpectedRole)
  <2>1. \A i \in DOMAIN s : s[i] \in Lacks(e)
    <3> HIDE DEF s
    <3> QED BY <1>1, ListsDomain
  <2> HIDE DEF s
  <2> QED BY <2>1 DEF Mapped
<1>5. Expected(e) = Distinct(Mapped(s, ExpectedRole)) BY DEF Expected, Lacks
<1> HIDE DEF s, f
<1> QED BY <1>2, <1>3, <1>4, <1>5, CountsDistinct

(* What the edges of an email are called. *)
LEMMA FileLinkIs ==
  ASSUME NEW e, NEW i
  PROVE  /\ FileEdge(e, i).id = <<"edge", <<e, i>>>>
         /\ FileEdge(e, i).source = EmailId(e) /\ FileEdge(e, i).target = DocumentId(<<e, i>>)
<1>1. FileEdge(e, i) = Edge(<<"edge", <<e, i>>>>, EmailId(e), DocumentId(<<e, i>>), "attachment") BY DEF FileEdge
<1> QED BY <1>1, EdgeIs

(* An edge of an expected document. *)
LEMMA MissingLinkIs ==
  ASSUME NEW e, NEW role
  PROVE  /\ MissingEdge(e, role).id = <<"edge", <<e, "expected", role>>>>
         /\ MissingEdge(e, role).source = EmailId(e) /\ MissingEdge(e, role).target = ExpectedId(e, role)
BY EdgeIs DEF MissingEdge

FileLinks(e) == {FileEdge(e, i) : i \in DOMAIN FilesOf(e)}
MissingLinks(e) == {MissingEdge(e, role) : role \in Lacking(e)}
AllVerdictLinks(e) == UNION {VerdictLinks(e, f) : f \in DOMAIN SeedCase[e].verdicts}
AllFaultLinks(e) == UNION {FaultLinks(e, n) : n \in DOMAIN Diagnostics(e)}

(* What the edges of an email are called. *)
LEMMA EmailLinksNamed ==
  ASSUME NEW e \in Emails, NEW x
  PROVE  /\ x \in FileLinks(e) => FileNamed(x.id, e)
         /\ x \in MissingLinks(e) => MissingNamed(x.id, e)
         /\ x \in AllVerdictLinks(e) =>
              \E f \in ComparedFields : ValueNamed(x.id, e, f) \/ FlagNamed(x.id, VerdictFlag(e, f))
         /\ x \in AllFaultLinks(e) => \E n \in DOMAIN Diagnostics(e) : FlagNamed(x.id, DiagnosticFlag(e, n))
<1>1. x \in FileLinks(e) => FileNamed(x.id, e) BY FileLinkIs DEF FileLinks, FileNamed
<1>2. x \in MissingLinks(e) => MissingNamed(x.id, e) BY MissingLinkIs DEF MissingLinks, MissingNamed
<1>3. x \in AllVerdictLinks(e) =>
        \E f \in ComparedFields : ValueNamed(x.id, e, f) \/ FlagNamed(x.id, VerdictFlag(e, f))
  BY VerdictLinksNamed, VerdictFields DEF AllVerdictLinks
<1>4. x \in AllFaultLinks(e) => \E n \in DOMAIN Diagnostics(e) : FlagNamed(x.id, DiagnosticFlag(e, n))
  BY FlagLinkIs DEF AllFaultLinks, FaultLinks, FlagLinks, FlagNamed
<1> QED BY <1>1, <1>2, <1>3, <1>4

(* The edges of two emails, and those of one, are called differently. *)
LEMMA EmailLinksApart ==
  ASSUME NEW e \in Emails, NEW g \in Emails
  PROVE  /\ Apart(FileLinks(e), MissingLinks(g))
         /\ Apart(FileLinks(e), AllVerdictLinks(g)) /\ Apart(FileLinks(e), AllFaultLinks(g))
         /\ Apart(MissingLinks(e), AllVerdictLinks(g)) /\ Apart(MissingLinks(e), AllFaultLinks(g))
         /\ Apart(AllVerdictLinks(e), AllFaultLinks(g))
<1>1. Apart(FileLinks(e), MissingLinks(g)) BY EmailLinksNamed, NamesApart DEF Apart
<1>2. Apart(FileLinks(e), AllVerdictLinks(g)) BY EmailLinksNamed, NamesApart DEF Apart
<1>3. Apart(FileLinks(e), AllFaultLinks(g)) BY EmailLinksNamed, NamesApart DEF Apart
<1>4. Apart(MissingLinks(e), AllVerdictLinks(g)) BY EmailLinksNamed, NamesApart DEF Apart
<1>5. Apart(MissingLinks(e), AllFaultLinks(g)) BY EmailLinksNamed, NamesApart DEF Apart
<1>6. Apart(AllVerdictLinks(e), AllFaultLinks(g))
  <2> SUFFICES ASSUME NEW x \in AllVerdictLinks(e), NEW y \in AllFaultLinks(g), x.id = y.id PROVE FALSE BY DEF Apart
  <2>1. PICK n \in DOMAIN Diagnostics(g) : FlagNamed(y.id, DiagnosticFlag(g, n)) BY EmailLinksNamed
  <2>2. PICK f \in ComparedFields : ValueNamed(x.id, e, f) \/ FlagNamed(x.id, VerdictFlag(e, f)) BY EmailLinksNamed
  <2>3. FlagNamed(x.id, VerdictFlag(e, f)) /\ FlagNamed(x.id, DiagnosticFlag(g, n)) BY <2>1, <2>2, NamesApart
  <2>4. VerdictFlag(e, f) = DiagnosticFlag(g, n) BY <2>3, NamesOfOne
  <2> QED BY <2>4, FlagsApart
<1> QED BY <1>1, <1>2, <1>3, <1>4, <1>5, <1>6

(* No edge of one email is called as one of another. *)
LEMMA EmailLinksOfOne ==
  ASSUME NEW e \in Emails, NEW g \in Emails, e # g
  PROVE  Apart(EdgesOf(e), EdgesOf(g))
<1>1. Apart(FileLinks(e), FileLinks(g)) BY EmailLinksNamed, NamesOfOne DEF Apart
<1>2. Apart(MissingLinks(e), MissingLinks(g)) BY EmailLinksNamed, NamesOfOne DEF Apart
<1>3. Apart(AllVerdictLinks(e), AllVerdictLinks(g))
  <2> SUFFICES ASSUME NEW x \in AllVerdictLinks(e), NEW y \in AllVerdictLinks(g), x.id = y.id PROVE FALSE BY DEF Apart
  <2>1. PICK f \in ComparedFields : ValueNamed(x.id, e, f) \/ FlagNamed(x.id, VerdictFlag(e, f)) BY EmailLinksNamed
  <2>2. PICK h \in ComparedFields : ValueNamed(x.id, g, h) \/ FlagNamed(x.id, VerdictFlag(g, h)) BY EmailLinksNamed
  <2>3. VerdictFlag(e, f) = VerdictFlag(g, h) BY <2>1, <2>2, NamesApart, NamesOfOne
  <2> QED BY <2>3, VerdictFlagsTold
<1>4. Apart(AllFaultLinks(e), AllFaultLinks(g))
  <2> SUFFICES ASSUME NEW x \in AllFaultLinks(e), NEW y \in AllFaultLinks(g), x.id = y.id PROVE FALSE BY DEF Apart
  <2>1. PICK n \in DOMAIN Diagnostics(e) : FlagNamed(x.id, DiagnosticFlag(e, n)) BY EmailLinksNamed
  <2>2. PICK m \in DOMAIN Diagnostics(g) : FlagNamed(x.id, DiagnosticFlag(g, m)) BY EmailLinksNamed
  <2>3. DiagnosticFlag(e, n) = DiagnosticFlag(g, m) BY <2>1, <2>2, NamesOfOne
  <2> QED BY <2>3, FaultFlagsTold
<1>5. \A h \in Emails : EdgesOf(h) = FileLinks(h) \cup MissingLinks(h) \cup AllVerdictLinks(h) \cup AllFaultLinks(h)
  BY DEF EdgesOf, FileLinks, MissingLinks, AllVerdictLinks, AllFaultLinks
<1>6. \A S, T : Apart(S, T) => Apart(T, S) BY DEF Apart
<1>7. /\ Apart(FileLinks(e), MissingLinks(g)) /\ Apart(FileLinks(e), AllVerdictLinks(g))
      /\ Apart(FileLinks(e), AllFaultLinks(g)) /\ Apart(MissingLinks(e), AllVerdictLinks(g))
      /\ Apart(MissingLinks(e), AllFaultLinks(g)) /\ Apart(AllVerdictLinks(e), AllFaultLinks(g))
  BY EmailLinksApart
<1>8. /\ Apart(MissingLinks(e), FileLinks(g)) /\ Apart(AllVerdictLinks(e), FileLinks(g))
      /\ Apart(AllFaultLinks(e), FileLinks(g)) /\ Apart(AllVerdictLinks(e), MissingLinks(g))
      /\ Apart(AllFaultLinks(e), MissingLinks(g)) /\ Apart(AllFaultLinks(e), AllVerdictLinks(g))
  BY <1>6, EmailLinksApart
<1>9. \A A, B, C, D, T : Apart(A, T) /\ Apart(B, T) /\ Apart(C, T) /\ Apart(D, T) => Apart(A \cup B \cup C \cup D, T)
  BY DEF Apart
<1>10. /\ Apart(EdgesOf(e), FileLinks(g)) /\ Apart(EdgesOf(e), MissingLinks(g))
       /\ Apart(EdgesOf(e), AllVerdictLinks(g)) /\ Apart(EdgesOf(e), AllFaultLinks(g))
  <2>1. Apart(EdgesOf(e), FileLinks(g)) BY <1>1, <1>5, <1>8, <1>9
  <2>2. Apart(EdgesOf(e), MissingLinks(g)) BY <1>2, <1>5, <1>7, <1>8, <1>9
  <2>3. Apart(EdgesOf(e), AllVerdictLinks(g)) BY <1>3, <1>5, <1>7, <1>8, <1>9
  <2>4. Apart(EdgesOf(e), AllFaultLinks(g)) BY <1>4, <1>5, <1>7, <1>9
  <2> QED BY <2>1, <2>2, <2>3, <2>4
<1>11. /\ Apart(FileLinks(g), EdgesOf(e)) /\ Apart(MissingLinks(g), EdgesOf(e))
       /\ Apart(AllVerdictLinks(g), EdgesOf(e)) /\ Apart(AllFaultLinks(g), EdgesOf(e))
  BY <1>6, <1>10
<1>12. Apart(EdgesOf(g), EdgesOf(e)) BY <1>5, <1>9, <1>11
<1> QED BY <1>6, <1>12

(* EmailEdges lists the edges of an email. *)
LEMMA EmailEdgesTold ==
  ASSUME NEW e \in Emails
  PROVE  Told(EmailEdges(e), EdgesOf(e))
<1> DEFINE files == [i \in DOMAIN FilesOf(e) |->
                       Edge(<<"edge", <<e, i>>>>, EmailId(e), DocumentId(<<e, i>>), "attachment")]
           expected == [i \in DOMAIN Expected(e) |->
                          Edge(<<"edge", <<e, "expected", Expected(e)[i]>>>>, EmailId(e),
                               ExpectedId(e, Expected(e)[i]), "attachment")]
           verdicts == FlattenSeq([i \in DOMAIN Verdicts(e) |-> VerdictEdgeSeq(e, Verdicts(e)[i])])
           each == [n \in DOMAIN Diagnostics(e) |->
                      FlagEdges(DiagnosticFlag(e, n), DiagnosticTargets(e, Diagnostics(e)[n]))]
           faults == FlattenSeq(each)
           V == DOMAIN SeedCase[e].verdicts
<1>1. EmailEdges(e) = files \o expected \o verdicts \o faults
  BY DEF EmailEdges, Mapped, VerdictEdgeSeq
<1>2. Told(files, FileLinks(e))
  <2> DEFINE n == Len(FilesOf(e))
             f == [i \in 1..n |-> FileEdge(e, i)]
  <2>1. n \in Nat /\ DOMAIN FilesOf(e) = 1..n BY FilesInOrder
  <2>2. \A i, j \in 1..n : f[i].id = f[j].id => i = j
    <3>1. \A i \in 1..n : f[i].id = <<"edge", <<e, i>>>> BY FileLinkIs
    <3> HIDE DEF n, f
    <3> QED BY <3>1
  <2>3. Told([i \in 1..n |-> f[i]], {f[i] : i \in 1..n})
    <3> HIDE DEF n, f
    <3> QED BY <2>1, <2>2, ToldRow
  <2>4. [i \in 1..n |-> f[i]] = files /\ {f[i] : i \in 1..n} = FileLinks(e)
    BY <2>1 DEF FileEdge, FileLinks
  <2> HIDE DEF n, f, files
  <2> QED BY <2>3, <2>4
<1>3. Told(expected, MissingLinks(e))
  <2> DEFINE s == Expected(e)
             f == [role \in Lacking(e) |-> MissingEdge(e, role)]
  <2>1. Counts(s, Lacking(e)) BY ExpectedCounted
  <2>2. \A role, other \in Lacking(e) : f[role].id = f[other].id => role = other BY MissingLinkIs
  <2>3. Told([i \in DOMAIN s |-> f[s[i]]], {f[role] : role \in Lacking(e)})
    <3> HIDE DEF s, f
    <3> QED BY <2>1, <2>2, ToldMapped
  <2>4. \A i \in DOMAIN s : s[i] \in Lacking(e)
    <3> HIDE DEF s
    <3> QED BY <2>1, ListsDomain DEF Counts
  <2>5. [i \in DOMAIN s |-> f[s[i]]] = expected BY <2>4 DEF MissingEdge
  <2>6. {f[role] : role \in Lacking(e)} = MissingLinks(e) BY DEF MissingLinks
  <2> HIDE DEF s, f, expected
  <2> QED BY <2>3, <2>5, <2>6
<1>4. Told(verdicts, AllVerdictLinks(e))
  <2> DEFINE s == Verdicts(e)
             seq == [f \in V |-> VerdictEdgeSeq(e, f)]
             set == [f \in V |-> VerdictLinks(e, f)]
  <2>1. Counts(s, V) BY CaseKnown, CountsEach DEF Verdicts
  <2>2. \A f \in V : Told(seq[f], set[f]) BY VerdictEdgesTold
  <2>3. ASSUME NEW f \in V, NEW h \in V, f # h PROVE Apart(set[f], set[h])
    <3> SUFFICES ASSUME NEW x \in VerdictLinks(e, f), NEW y \in VerdictLinks(e, h), x.id = y.id PROVE FALSE BY DEF Apart
    <3>1. ValueNamed(x.id, e, f) \/ FlagNamed(x.id, VerdictFlag(e, f)) BY VerdictLinksNamed
    <3>2. ValueNamed(x.id, e, h) \/ FlagNamed(x.id, VerdictFlag(e, h)) BY VerdictLinksNamed
    <3>3. VerdictFlag(e, f) = VerdictFlag(e, h) BY <2>3, <3>1, <3>2, NamesApart, NamesOfOne
    <3> QED BY <2>3, <3>3, VerdictFlagsTold
  <2>4. Told(FlattenSeq([i \in DOMAIN s |-> seq[s[i]]]), UNION {set[f] : f \in V})
    <3> HIDE DEF s, seq, set, V
    <3> QED BY <2>1, <2>2, <2>3, ToldAll
  <2>5. \A i \in DOMAIN s : s[i] \in V
    <3> HIDE DEF s, V
    <3> QED BY <2>1, ListsDomain DEF Counts
  <2>6. [i \in DOMAIN s |-> seq[s[i]]] = [i \in DOMAIN s |-> VerdictEdgeSeq(e, s[i])]
    <3> HIDE DEF s, V
    <3> QED BY <2>5
  <2>7. UNION {set[f] : f \in V} = AllVerdictLinks(e) BY DEF AllVerdictLinks
  <2> HIDE DEF seq, set, V
  <2> QED BY <2>4, <2>6, <2>7
<1>5. Told(faults, AllFaultLinks(e))
  <2> DEFINE m == Len(Diagnostics(e))
             sets == [n \in 1..m |-> FaultLinks(e, n)]
  <2>1. m \in Nat /\ DOMAIN Diagnostics(e) = 1..m BY DiagnosticsListed, ListsDomain
  <2>2. \A n \in 1..m : Told(each[n], sets[n])
    <3> TAKE n \in 1..m
    <3>1. Told(FlagEdges(DiagnosticFlag(e, n), DiagnosticTargets(e, Diagnostics(e)[n])), FaultLinks(e, n))
      BY TargetsFinite, FlagEdgesTold DEF FaultLinks
    <3> QED BY <2>1, <3>1
  <2>3. each = [n \in 1..m |-> each[n]] BY <2>1
  <2>4. \A i, j \in 1..m : i # j => Apart(sets[i], sets[j])
    <3> SUFFICES ASSUME NEW i \in 1..m, NEW j \in 1..m, i # j,
                        NEW x \in FaultLinks(e, i), NEW y \in FaultLinks(e, j), x.id = y.id
                 PROVE FALSE
      BY DEF Apart
    <3>1. FlagNamed(x.id, DiagnosticFlag(e, i)) /\ FlagNamed(x.id, DiagnosticFlag(e, j))
      BY FlagLinkIs DEF FaultLinks, FlagLinks, FlagNamed
    <3>2. DiagnosticFlag(e, i) = DiagnosticFlag(e, j) BY <3>1, NamesOfOne
    <3> QED BY <2>1, <3>2, FaultFlagsTold
  <2>5. Told(FlattenSeq(each), UNION {sets[n] : n \in 1..m})
    <3> HIDE DEF m, each, sets
    <3> QED BY <2>1, <2>2, <2>3, <2>4, ToldFlat
  <2>6. UNION {sets[n] : n \in 1..m} = AllFaultLinks(e) BY <2>1 DEF AllFaultLinks
  <2> HIDE DEF m, each, sets
  <2> QED BY <2>5, <2>6
<1> HIDE DEF files, expected, verdicts, faults, V
<1>6. EdgesOf(e) = FileLinks(e) \cup MissingLinks(e) \cup AllVerdictLinks(e) \cup AllFaultLinks(e)
  BY DEF EdgesOf, FileLinks, MissingLinks, AllVerdictLinks, AllFaultLinks
<1>7. /\ Apart(FileLinks(e), MissingLinks(e))
      /\ Apart(FileLinks(e), AllVerdictLinks(e)) /\ Apart(FileLinks(e), AllFaultLinks(e))
      /\ Apart(MissingLinks(e), AllVerdictLinks(e)) /\ Apart(MissingLinks(e), AllFaultLinks(e))
      /\ Apart(AllVerdictLinks(e), AllFaultLinks(e))
  BY EmailLinksApart
<1>8. Told(files \o expected \o verdicts \o faults,
           FileLinks(e) \cup MissingLinks(e) \cup AllVerdictLinks(e) \cup AllFaultLinks(e))
  BY ONLY <1>2, <1>3, <1>4, <1>5, <1>7, ToldFour
<1> QED BY <1>1, <1>6, <1>8

(* What joins a pair. *)
PairEdge(s, c) == Edge(<<"recon", s>>, EmailId(c), ShipmentId(s), "reconciles")

(* It is named after the shipment. *)
LEMMA PairLinkIs ==
  ASSUME NEW s, NEW c
  PROVE  /\ PairEdge(s, c).id = <<"recon", s>>
         /\ PairEdge(s, c).source = EmailId(c) /\ PairEdge(s, c).target = ShipmentId(s)
<1>1. PairEdge(s, c) = Edge(<<"recon", s>>, EmailId(c), ShipmentId(s), "reconciles") BY DEF PairEdge
<1> QED BY <1>1, EdgeIs

(* What is joined is one shipment and one email. *)
LEMMA JoinedIs ==
  ASSUME stage = "done", Reconciled, NEW r \in results
  PROVE  \/ Joined(r) = {}
         \/ \E s \in r.shipments : \E c \in r.cases : r.shipments = {s} /\ r.cases = {c} /\ Joined(r) = {PairEdge(s, c)}
<1>0. r.outcome \notin {"CASE_PRESENT", "DOCUMENT_MISSING", "SOURCE_STALE"} => Joined(r) = {} BY DEF Joined
<1> SUFFICES ASSUME r.outcome \in {"CASE_PRESENT", "DOCUMENT_MISSING", "SOURCE_STALE"}
             PROVE  \E s \in r.shipments : \E c \in r.cases :
                      r.shipments = {s} /\ r.cases = {c} /\ Joined(r) = {PairEdge(s, c)}
  BY <1>0, Zenon
<1>1. \/ \E s \in Matched : r = GroupResult(Component(s), Claims(Component(s)))
      \/ \E s \in Overdue : r = Result("MISSING_CASE", {s}, {})
      \/ \E c \in Cases \ Claims(Shipments) : r = Result("UNMATCHED_CASE", {}, {c})
  BY DEF Reconciled
<1>2. PICK g \in Matched : r = GroupResult(Component(g), Claims(Component(g)))
  BY <1>1 DEF Result
<1>3. r.shipments = Component(g) /\ r.cases = Claims(Component(g)) BY <1>2 DEF GroupResult, Result
<1>4. \E s \in Component(g), c \in Claims(Component(g)) : Component(g) = {s} /\ Claims(Component(g)) = {c}
  BY <1>2 DEF GroupResult, Result
<1>5. PICK s \in r.shipments, c \in r.cases : r.shipments = {s} /\ r.cases = {c} BY <1>3, <1>4
<1>6. Joined(r) = {PairEdge(s, c)}
  <2>1. Joined(r) = {Edge(<<"recon", t>>, EmailId(d), ShipmentId(t), "reconciles") : t \in r.shipments, d \in r.cases}
    BY DEF Joined
  <2>2. {Edge(<<"recon", t>>, EmailId(d), ShipmentId(t), "reconciles") : t \in {s}, d \in {c}} = {PairEdge(s, c)}
    BY DEF PairEdge
  <2> QED BY <1>5, <2>1, <2>2
<1> QED BY <1>5, <1>6

(* The edges of a result. *)
LEMMA ResultTargetsFinite ==
  ASSUME GateTypeOK, NEW r \in results
  PROVE  IsFiniteSet(ResultTargets(r))
<1> DEFINE S == r.shipments
           C == r.cases
           g == [s \in S |-> ShipmentId(s)]
           h == [c \in C |-> EmailId(c)]
<1>1. S \subseteq Shipments /\ C \subseteq Emails BY SeedAssumption DEF GateTypeOK
<1>2. IsFiniteSet(S) /\ IsFiniteSet(C)
  <2> HIDE DEF S, C
  <2> QED BY <1>1, GraphAssumption, FS_Subset
<1>3. IsFiniteSet({g[s] : s \in S}) /\ IsFiniteSet({h[c] : c \in C})
  <2> HIDE DEF S, C, g, h
  <2> QED BY <1>2, FiniteImage
<1>4. ResultTargets(r) = {g[s] : s \in S} \cup {h[c] : c \in C} BY DEF ResultTargets
<1> HIDE DEF S, C, g, h
<1> QED BY <1>3, <1>4, FS_Union

(* What the edges of a result are called. *)
LEMMA ResultLinksNamed ==
  ASSUME stage = "done", Reconciled, NEW r \in results, NEW x \in ResultLinks(r)
  PROVE  \/ \E s \in r.shipments : PairNamed(x.id, s)
         \/ r.outcome # "CASE_PRESENT" /\ FlagNamed(x.id, ResultFlag(r))
<1>1. CASE x \in Joined(r) BY <1>1, JoinedIs, PairLinkIs DEF PairNamed
<1>2. CASE x \notin Joined(r)
  <2>1. r.outcome # "CASE_PRESENT" /\ x \in FlagLinks(ResultFlag(r), ResultTargets(r)) BY <1>2 DEF ResultLinks
  <2> QED BY <2>1, FlagLinkIs DEF FlagLinks, FlagNamed
<1> QED BY <1>1, <1>2

ResultEdgeSeq(r) ==
  EachOf(Joined(r)) \o (IF r.outcome = "CASE_PRESENT" THEN <<>> ELSE FlagEdges(ResultFlag(r), ResultTargets(r)))

(* They are listed once each. *)
LEMMA ResultEdgesTold ==
  ASSUME stage = "done", Reconciled, GateTypeOK, NEW r \in results
  PROVE  Told(ResultEdgeSeq(r), ResultLinks(r))
<1> DEFINE t == IF r.outcome = "CASE_PRESENT" THEN <<>> ELSE FlagEdges(ResultFlag(r), ResultTargets(r))
           T == IF r.outcome = "CASE_PRESENT" THEN {} ELSE FlagLinks(ResultFlag(r), ResultTargets(r))
<1>1. Told(FlagEdges(ResultFlag(r), ResultTargets(r)), FlagLinks(ResultFlag(r), ResultTargets(r)))
  BY ResultTargetsFinite, FlagEdgesTold
<1>2. Told(t, T) BY <1>1, ToldEmpty
<1>3. IsFiniteSet(Joined(r)) /\ Tells(Joined(r))
  <2>1. \A s, c : IsFiniteSet({PairEdge(s, c)}) BY FS_Singleton
  <2> QED BY <2>1, JoinedIs, FS_EmptySet DEF Tells
<1>4. Told(EachOf(Joined(r)), Joined(r)) BY <1>3, CountsEach DEF Told
<1>5. Apart(Joined(r), T)
  <2>1. \A x \in Joined(r) : \E s : PairNamed(x.id, s) BY JoinedIs, PairLinkIs DEF PairNamed
  <2>2. \A x \in T : FlagNamed(x.id, ResultFlag(r)) BY FlagLinkIs DEF FlagLinks, FlagNamed
  <2> HIDE DEF T
  <2> QED BY <2>1, <2>2, NamesApart DEF Apart
<1>6. ResultEdgeSeq(r) = EachOf(Joined(r)) \o t BY DEF ResultEdgeSeq
<1>7. ResultLinks(r) = Joined(r) \cup T BY DEF ResultLinks
<1> HIDE DEF t, T
<1>8. Told(EachOf(Joined(r)) \o t, Joined(r) \cup T) BY ONLY <1>2, <1>4, <1>5, ToldBoth
<1> QED BY <1>6, <1>7, <1>8

(* Those of two results are called differently, *)
LEMMA ResultLinksApart ==
  ASSUME stage = "done", Reconciled, OneResultEach, NEW q \in results, NEW r \in results, q # r
  PROVE  Apart(ResultLinks(q), ResultLinks(r))
<1> SUFFICES ASSUME NEW x \in ResultLinks(q), NEW y \in ResultLinks(r), x.id = y.id PROVE FALSE BY DEF Apart
<1>1. \/ \E s \in q.shipments : PairNamed(x.id, s)
      \/ q.outcome # "CASE_PRESENT" /\ FlagNamed(x.id, ResultFlag(q))
  BY ResultLinksNamed
<1>2. \/ \E s \in r.shipments : PairNamed(x.id, s)
      \/ r.outcome # "CASE_PRESENT" /\ FlagNamed(x.id, ResultFlag(r))
  BY ResultLinksNamed
<1>3. CASE \E s \in q.shipments : PairNamed(x.id, s)
  <2>1. PICK s \in q.shipments : PairNamed(x.id, s) BY <1>3
  <2>2. PICK t \in r.shipments : PairNamed(x.id, t) BY <1>2, <2>1, NamesApart
  <2>3. s = t BY <2>1, <2>2, NamesOfOne
  <2> QED BY <2>3 DEF OneResultEach
<1>4. CASE FlagNamed(x.id, ResultFlag(q))
  <2>1. FlagNamed(x.id, ResultFlag(r)) BY <1>2, <1>4, NamesApart
  <2>2. ResultFlag(q) = ResultFlag(r) BY <1>4, <2>1, NamesOfOne
  <2> QED BY <2>2, ResultFlagsTold
<1> QED BY <1>1, <1>3, <1>4

(* and so are those of a result and of an email. *)
LEMMA SeedLinksApart ==
  ASSUME stage = "done", Reconciled, NEW e \in Emails, NEW r \in results
  PROVE  Apart(EdgesOf(e), ResultLinks(r))
<1> SUFFICES ASSUME NEW x \in EdgesOf(e), NEW y \in ResultLinks(r), x.id = y.id PROVE FALSE BY DEF Apart
<1>1. \/ \E s \in r.shipments : PairNamed(x.id, s)
      \/ r.outcome # "CASE_PRESENT" /\ FlagNamed(x.id, ResultFlag(r))
  BY ResultLinksNamed
<1>2. x \in FileLinks(e) \/ x \in MissingLinks(e) \/ x \in AllVerdictLinks(e) \/ x \in AllFaultLinks(e)
  BY DEF EdgesOf, FileLinks, MissingLinks, AllVerdictLinks, AllFaultLinks
<1>3. CASE x \in FileLinks(e) \/ x \in MissingLinks(e)
  <2>1. FileNamed(x.id, e) \/ MissingNamed(x.id, e) BY <1>3, EmailLinksNamed
  <2> QED BY <1>1, <2>1, NamesApart
<1>4. CASE x \in AllVerdictLinks(e)
  <2>1. PICK f \in ComparedFields : ValueNamed(x.id, e, f) \/ FlagNamed(x.id, VerdictFlag(e, f))
    BY <1>4, EmailLinksNamed
  <2>2. FlagNamed(x.id, VerdictFlag(e, f)) /\ FlagNamed(x.id, ResultFlag(r)) BY <1>1, <2>1, NamesApart
  <2>3. VerdictFlag(e, f) = ResultFlag(r) BY <2>2, NamesOfOne
  <2> QED BY <2>3, VerdictApart
<1>5. CASE x \in AllFaultLinks(e)
  <2>1. PICK n \in DOMAIN Diagnostics(e) : FlagNamed(x.id, DiagnosticFlag(e, n)) BY <1>5, EmailLinksNamed
  <2>2. FlagNamed(x.id, ResultFlag(r)) BY <1>1, <2>1, NamesApart
  <2>3. DiagnosticFlag(e, n) = ResultFlag(r) BY <2>1, <2>2, NamesOfOne
  <2>4. r.outcome \in Outcomes BY ResultsShaped
  <2> QED BY <2>3, <2>4, FlagsApart
<1> QED BY <1>2, <1>3, <1>4, <1>5

(* The nodes of a build before what is named twice is dropped. *)
LEMMA NodesListed ==
  ASSUME stage = "done", Reconciled, GateTypeOK
  PROVE  Lists(SeedNodes
               \o Mapped(Wrong, LAMBDA r : Node(ResultFlag(r), "exception", OutcomeState(r.outcome)))
               \o Mapped(EachOf(Shipments), LAMBDA s : Node(ShipmentId(s), "shipment", ShipmentState(s))), AllNodes)
<1> DEFINE wrong == Mapped(Wrong, LAMBDA r : Node(ResultFlag(r), "exception", OutcomeState(r.outcome)))
           ships == Mapped(EachOf(Shipments), LAMBDA s : Node(ShipmentId(s), "shipment", ShipmentState(s)))
<1>2. Lists(ships, {ShipmentNode(s) : s \in Shipments})
  <2> DEFINE q == EachOf(Shipments)
             f == [s \in Shipments |-> ShipmentNode(s)]
  <2>1. Lists(q, Shipments) BY GraphAssumption, ListsEach
  <2>2. Lists([i \in DOMAIN q |-> f[q[i]]], {f[s] : s \in Shipments})
    <3> HIDE DEF q, f
    <3> QED BY <2>1, ListsMapped
  <2>3. \A i \in DOMAIN q : q[i] \in Shipments
    <3> HIDE DEF q
    <3> QED BY <2>1, ListsDomain
  <2>4. [i \in DOMAIN q |-> f[q[i]]] = [i \in DOMAIN q |-> ShipmentNode(q[i])]
    <3> HIDE DEF q
    <3> QED BY <2>3
  <2>5. {f[s] : s \in Shipments} = {ShipmentNode(s) : s \in Shipments} OBVIOUS
  <2>6. ships = [i \in DOMAIN q |-> ShipmentNode(q[i])] BY DEF Mapped, ShipmentNode
  <2> HIDE DEF q, f, ships
  <2> QED BY <2>2, <2>4, <2>5, <2>6
<1>3. Lists(wrong, {ResultNode(r) : r \in WrongResults}) BY ResultsListed
<1> HIDE DEF wrong, ships
<1>4. Lists(SeedNodes \o wrong, (UNION {NodesOf(e) : e \in Emails}) \cup {ResultNode(r) : r \in WrongResults})
  BY <1>3, SeedListed, ListsBoth
<1>5. Lists((SeedNodes \o wrong) \o ships, AllNodes) BY <1>2, <1>4, ListsBoth DEF AllNodes
<1> QED BY <1>5 DEF wrong, ships

(* A build holds each of its nodes and edges once, by names that tell. *)
LEMMA CorpusTold ==
  ASSUME stage = "done", Reconciled, GateTypeOK, OneResultEach
  PROVE  Told(BuildCorpus.nodes, AllNodes) /\ Told(BuildCorpus.edges, AllEdges)
<1> DEFINE links == FlattenSeq(Mapped(EachOf(results), LAMBDA r :
                    EachOf(Joined(r))
                      \o (IF r.outcome = "CASE_PRESENT" THEN <<>>
                          ELSE FlagEdges(ResultFlag(r), ResultTargets(r)))))
           E == UNION {EdgesOf(e) : e \in Emails}
           L == UNION {ResultLinks(r) : r \in results}
<1>1. BuildCorpus.edges = SeedEdges \o links BY DEF BuildCorpus
<1>2. Told(SeedEdges, E)
  <2> DEFINE s == Received
             seq == [e \in Emails |-> EmailEdges(e)]
             set == [e \in Emails |-> EdgesOf(e)]
  <2>1. Counts(s, Emails) BY ReceivedListed, GraphAssumption DEF Counts
  <2>2. \A e \in Emails : Told(seq[e], set[e]) BY EmailEdgesTold
  <2>3. \A e, g \in Emails : e # g => Apart(set[e], set[g]) BY EmailLinksOfOne
  <2>4. Told(FlattenSeq([i \in DOMAIN s |-> seq[s[i]]]), UNION {set[e] : e \in Emails})
    <3> HIDE DEF s, seq, set
    <3> QED BY <2>1, <2>2, <2>3, ToldAll
  <2>5. \A i \in DOMAIN s : s[i] \in Emails BY ReceivedListed, ListsDomain
  <2>6. [i \in DOMAIN s |-> seq[s[i]]] = [i \in DOMAIN s |-> EmailEdges(s[i])] BY <2>5
  <2>7. {set[e] : e \in Emails} = {EdgesOf(e) : e \in Emails} OBVIOUS
  <2>8. SeedEdges = FlattenSeq([i \in DOMAIN s |-> EmailEdges(s[i])]) BY DEF SeedEdges, Mapped
  <2> HIDE DEF s, seq, set
  <2> QED BY <2>4, <2>6, <2>7, <2>8
<1>3. Told(links, L)
  <2> DEFINE s == EachOf(results)
             seq == [r \in results |-> ResultEdgeSeq(r)]
             set == [r \in results |-> ResultLinks(r)]
  <2>1. Counts(s, results) BY ResultsFinite, CountsEach
  <2>2. \A r \in results : Told(seq[r], set[r]) BY ResultEdgesTold
  <2>3. \A q, r \in results : q # r => Apart(set[q], set[r]) BY ResultLinksApart
  <2>4. Told(FlattenSeq([i \in DOMAIN s |-> seq[s[i]]]), UNION {set[r] : r \in results})
    <3> HIDE DEF s, seq, set
    <3> QED BY <2>1, <2>2, <2>3, ToldAll
  <2>5. \A i \in DOMAIN s : s[i] \in results
    <3> HIDE DEF s
    <3> QED BY <2>1, ListsDomain DEF Counts
  <2>6. [i \in DOMAIN s |-> seq[s[i]]] = [i \in DOMAIN s |-> ResultEdgeSeq(s[i])]
    <3> HIDE DEF s
    <3> QED BY <2>5
  <2>7. {set[r] : r \in results} = {ResultLinks(r) : r \in results} OBVIOUS
  <2>8. links = FlattenSeq([i \in DOMAIN s |-> ResultEdgeSeq(s[i])]) BY DEF Mapped, ResultEdgeSeq
  <2> HIDE DEF s, seq, set, links
  <2> QED BY <2>4, <2>6, <2>7, <2>8
<1>4. Apart(E, L) BY SeedLinksApart DEF Apart
<1>5. AllEdges = E \cup L BY DEF AllEdges
<1>6. Counts(BuildCorpus.nodes, AllNodes)
  <2> DEFINE s == SeedNodes
               \o Mapped(Wrong, LAMBDA r : Node(ResultFlag(r), "exception", OutcomeState(r.outcome)))
               \o Mapped(EachOf(Shipments), LAMBDA s : Node(ShipmentId(s), "shipment", ShipmentState(s)))
  <2>1. BuildCorpus.nodes = Distinct(s) BY DEF BuildCorpus
  <2>2. Lists(s, AllNodes) BY NodesListed
  <2> HIDE DEF s
  <2> QED BY <2>1, <2>2, CountsDistinct
<1> HIDE DEF links, E, L
<1>7. Told(SeedEdges \o links, E \cup L) BY <1>2, <1>3, <1>4, ToldBoth
<1> QED BY <1>1, <1>5, <1>6, <1>7, NodesTold DEF Told

(* What the prepared verdicts of a pair are. *)
LEMMA SeedVerdictsAre ==
  ASSUME NEW e \in Emails, NEW pair
  PROVE  LET verdicts == SeedVerdicts(e, CompareFields(pair))
         IN  /\ DOMAIN verdicts = ComparedFields
             /\ \A f \in ComparedFields :
                  /\ verdicts[f].batch = BatchResult(verdicts[f])
                  /\ verdicts[f].batch = "MISMATCH" <=> verdicts[f].interactive \in {"MISMATCH", "REVIEW"}
<1> DEFINE first == CompareFields(pair)
           unjudged == EquivalenceQuestions(first) \ DOMAIN Recorded[e]
           drafts == [f \in ComparedFields |-> IF f \in unjudged THEN "MISMATCH" ELSE first[f]]
           verdicts == SeedVerdicts(e, first)
           p == Recorded[e]
<1>1. verdicts = ResolveVerdicts(drafts, p) BY DEF SeedVerdicts
<1>2. ASSUME NEW f \in ComparedFields
      PROVE  /\ drafts[f] \in {"MATCH", "MISMATCH", Nothing}
             /\ drafts[f] = Nothing => p[f] \in 0..100
  <2>1. first[f] \in {"MATCH", "MISMATCH", Nothing} BY DEF CompareFields
  <2>2. drafts[f] = Nothing => f \in DOMAIN Recorded[e]
    BY <2>1, ComparisonAssumption DEF EquivalenceQuestions
  <2> HIDE DEF first
  <2> QED BY <2>1, <2>2, SeedAssumption
<1> HIDE DEF drafts, p, unjudged, first
<1>3. DOMAIN verdicts = ComparedFields
  <2> HIDE DEF verdicts
  <2> QED BY <1>1 DEF ResolveVerdicts
<1>4. ASSUME NEW f \in ComparedFields
      PROVE  /\ verdicts[f].batch = BatchResult(verdicts[f])
             /\ verdicts[f].batch = "MISMATCH" <=> verdicts[f].interactive \in {"MISMATCH", "REVIEW"}
  <2>1. CASE drafts[f] # Nothing
    <3>1. verdicts[f] = [probability |-> Nothing, interactive |-> drafts[f], batch |-> drafts[f]]
      BY <1>1, <2>1 DEF ResolveVerdicts
    <3> HIDE DEF verdicts
    <3>2. drafts[f] \in {"MATCH", "MISMATCH"} BY <1>2, <2>1
    <3>3. BatchResult(verdicts[f]) = drafts[f] BY <3>1 DEF BatchResult
    <3> QED BY <3>1, <3>2, <3>3
  <2>2. CASE drafts[f] = Nothing
    <3>1. p[f] \in 0..100 /\ p[f] # Nothing BY <1>2, <2>2, ComparisonAssumption
    <3>2. verdicts[f] = [probability |-> p[f], interactive |-> Band(p[f]),
                         batch |-> IF Band(p[f]) = "MATCH" THEN "MATCH" ELSE "MISMATCH"]
      BY <1>1, <2>2 DEF ResolveVerdicts
    <3> HIDE DEF verdicts
    <3>3. Band(p[f]) = "MATCH" <=> p[f] >= 85 BY <3>1 DEF Band
    <3>4. BatchResult(verdicts[f]) = IF p[f] >= 85 THEN "MATCH" ELSE "MISMATCH"
      BY <3>1, <3>2 DEF BatchResult
    <3>5. Band(p[f]) \in {"MATCH", "MISMATCH", "REVIEW"} BY DEF Band
    <3> QED BY <3>2, <3>3, <3>4, <3>5
  <2> QED BY <2>1, <2>2
<1> QED BY <1>3, <1>4 DEF verdicts, first

(* Nothing is wrong with a case. *)
Clean(e) == SeedCase[e].diagnostics = {} /\ \A f \in DOMAIN SeedCase[e].verdicts : ~Flagged(e, f)

(* How a case was concluded, by what was found. *)
CaseTells(e) ==
  /\ SeedCase[e].output.status \in {"OK", "MISMATCH", "NEEDS_REVIEW"}
  /\ SeedCase[e].output.status = "OK" <=> Clean(e)
  /\ SubmissionRow(e).status = SeedCase[e].output.status
  /\ SeedCase[e].inReview <=>
       SeedCase[e].diagnostics # {} \/ \E f \in DOMAIN SeedCase[e].verdicts : VerdictState(e, f) = "held"

(* What the state of a verdict says. *)
LEMMA VerdictStateIs ==
  ASSUME NEW e, NEW f
  PROVE  /\ VerdictState(e, f) \in {"mismatch", "held", "match"}
         /\ VerdictState(e, f) = "held" <=> SeedCase[e].verdicts[f].interactive = "REVIEW"
         /\ Flagged(e, f) <=> SeedCase[e].verdicts[f].interactive \in {"MISMATCH", "REVIEW"}
BY DEF VerdictState, Flagged

(* An output as it is. *)
LEMMA OutputIs == ASSUME NEW s, NEW r, NEW d PROVE Output(s, r, d).status = s
BY DEF Output

(* A case that was analysed. *)
LEMMA ConcludedIs ==
  ASSUME NEW output, NEW verdicts, NEW diagnostics
  PROVE  LET c == Concluded(output, verdicts, diagnostics)
         IN  /\ c.output = output /\ c.verdicts = verdicts /\ c.diagnostics = diagnostics
             /\ c.inReview <=> output.status = "NEEDS_REVIEW" \/ NeedsInteractiveReview(verdicts)
BY DEF Concluded

(* This is how every case was concluded; one that was not analysed is clean. *)
LEMMA CaseTold ==
  ASSUME NEW e \in Emails
  PROVE  CaseTells(e) /\ (e \notin Compared => Clean(e) /\ SeedCase[e].output.status = "OK")
<1> DEFINE output == SeedCase[e].output
           V == SeedCase[e].verdicts
           D == SeedCase[e].diagnostics
<1>1. SubmissionRow(e) = OutputForSnapshot(D, V) BY DEF SubmissionRow
<1>2. Clean(e) <=> D = {} /\ \A f \in DOMAIN V : V[f].interactive \notin {"MISMATCH", "REVIEW"}
  BY VerdictStateIs DEF Clean
<1>3. (\E f \in DOMAIN V : VerdictState(e, f) = "held") <=> NeedsInteractiveReview(V)
  BY VerdictStateIs DEF NeedsInteractiveReview
<1>4. SeedCase[e].inReview <=> output.status = "NEEDS_REVIEW" \/ NeedsInteractiveReview(V)
  BY ConcludedIs DEF SeedCase, ComparisonCase, ComparedPair
<1>5. ASSUME DOMAIN V = {}, D = {}, output = AwaitingOutput PROVE CaseTells(e) /\ Clean(e) /\ output.status = "OK"
  <2>1. output.status = "OK" BY <1>5, OutputIs DEF AwaitingOutput
  <2>2. Clean(e) BY <1>2, <1>5
  <2>3. SubmissionRow(e) = output BY <1>1, <1>5 DEF OutputForSnapshot
  <2>4. ~SeedCase[e].inReview BY <1>4, <1>5, <2>1 DEF NeedsInteractiveReview
  <2> QED BY <1>5, <2>1, <2>2, <2>3, <2>4 DEF CaseTells
<1>6. ASSUME D # {}, output = StructuralOutput(D) PROVE CaseTells(e)
  <2>1. output.status = "NEEDS_REVIEW" BY <1>6, OutputIs DEF StructuralOutput
  <2>2. ~Clean(e) BY <1>6 DEF Clean
  <2>3. SubmissionRow(e) = output BY <1>1, <1>6 DEF OutputForSnapshot
  <2>4. SeedCase[e].inReview BY <1>4, <2>1
  <2> QED BY <1>6, <2>1, <2>2, <2>3, <2>4 DEF CaseTells
<1>7. CASE e \notin Compared
  <2>1. SeedCase[e] = Concluded(AwaitingOutput, <<>>, {}) BY <1>7 DEF SeedCase
  <2>2. V = <<>> /\ D = {} /\ output = AwaitingOutput BY <2>1, ConcludedIs
  <2>3. DOMAIN V = {} BY <2>2
  <2> QED BY <1>5, <2>2, <2>3
<1>8. CASE e \in Compared
  <2> DEFINE pair == AdmitPair(Analyses(e))
             verdicts == SeedVerdicts(e, CompareFields(pair))
  <2>1. SeedCase[e] = ComparedPair(e, pair) BY <1>8 DEF SeedCase, ComparisonCase
  <2>2. CASE pair.diagnostics # {}
    <3> HIDE DEF pair
    <3>1. SeedCase[e] = Concluded(StructuralOutput(pair.diagnostics), <<>>, pair.diagnostics)
      BY <2>1, <2>2 DEF ComparedPair
    <3>2. D = pair.diagnostics /\ output = StructuralOutput(D) BY <3>1, ConcludedIs
    <3> QED BY <1>6, <1>8, <2>2, <3>2
  <2>3. CASE pair.diagnostics = {}
    <3>0. /\ DOMAIN verdicts = ComparedFields
          /\ \A f \in ComparedFields :
               /\ verdicts[f].batch = BatchResult(verdicts[f])
               /\ verdicts[f].batch = "MISMATCH" <=> verdicts[f].interactive \in {"MISMATCH", "REVIEW"}
      BY SeedVerdictsAre
    <3> DEFINE holds == ScanHolds(pair)
    <3>1. SeedCase[e] = Concluded(IF holds # {} THEN StructuralOutput(holds) ELSE ComparisonOutput(verdicts),
                                  verdicts, holds)
      <4> HIDE DEF pair
      <4> QED BY <2>1, <2>3 DEF ComparedPair
    <3> HIDE DEF pair, verdicts, holds
    <3>2. /\ D = holds /\ V = verdicts
          /\ output = IF holds # {} THEN StructuralOutput(holds) ELSE ComparisonOutput(verdicts)
      BY <3>1, ConcludedIs
    <3>3. CASE holds # {} BY <1>6, <1>8, <3>2, <3>3
    <3>4. CASE holds = {}
      <4> DEFINE defects == {f \in ComparedFields : V[f].batch = "MISMATCH"}
      <4>1. output.status = IF defects = {} THEN "OK" ELSE "MISMATCH"
        BY <3>0, <3>2, <3>4, OutputIs DEF ComparisonOutput
      <4>2. Clean(e) <=> defects = {} BY <1>2, <3>0, <3>2, <3>4
      <4>3. SubmissionRow(e).status = IF defects = {} THEN "OK" ELSE "MISMATCH"
        <5>1. defects = {f \in ComparedFields : BatchResult(V[f]) = "MISMATCH"} BY <3>0, <3>2
        <5>2. CASE ComparedFields = {} 
          <6>1. defects = {} BY <5>2
          <6>2. SubmissionRow(e) = AwaitingOutput BY <1>1, <3>0, <3>2, <3>4, <5>2 DEF OutputForSnapshot
          <6> QED BY <6>1, <6>2, OutputIs DEF AwaitingOutput
        <5>3. CASE ComparedFields # {}
          <6>1. SubmissionRow(e) = Output(IF defects = {} THEN "OK" ELSE "MISMATCH", Nothing, defects)
            BY <1>1, <3>0, <3>2, <3>4, <5>1, <5>3 DEF OutputForSnapshot
          <6> QED BY <6>1, OutputIs
        <5> QED BY <5>2, <5>3
      <4>4. SeedCase[e].inReview <=> D # {} \/ \E f \in DOMAIN V : VerdictState(e, f) = "held"
        BY <1>3, <1>4, <3>2, <3>4, <4>1
      <4> HIDE DEF defects, output, V, D
      <4> QED BY <1>8, <4>1, <4>2, <4>3, <4>4 DEF CaseTells, output, V, D
    <3> QED BY <3>3, <3>4
  <2> QED BY <2>2, <2>3
<1> QED BY <1>7, <1>8

(* What a flag is about. *)
AboutVerdict(id, t) ==
  \E e \in Emails : \E f \in DOMAIN SeedCase[e].verdicts :
    Flagged(e, f) /\ id = VerdictFlag(e, f) /\ t \in VerdictTargets(e, f)
AboutFault(id, t) ==
  \E e \in Emails : \E n \in DOMAIN Diagnostics(e) :
    id = DiagnosticFlag(e, n) /\ t \in DiagnosticTargets(e, Diagnostics(e)[n])
AboutResult(id, t) == \E r \in WrongResults : id = ResultFlag(r) /\ t \in ResultTargets(r)

Linked(id, t) == \E x \in AllEdges : x.source = id /\ x.target = t

(* A flag has an edge to each of these and no other. *)
LEMMA FlagLinked ==
  ASSUME NEW flag, NEW targets, NEW id, NEW t
  PROVE  (\E x \in FlagLinks(flag, targets) : x.source = id /\ x.target = t) <=> id = flag /\ t \in targets
<1>1. ASSUME NEW x \in FlagLinks(flag, targets), x.source = id, x.target = t PROVE id = flag /\ t \in targets
  <2>1. PICK u \in targets : x = FlagEdge(flag, u) BY DEF FlagLinks
  <2> QED BY <1>1, <2>1, FlagLinkIs
<1>2. ASSUME id = flag, t \in targets PROVE \E x \in FlagLinks(flag, targets) : x.source = id /\ x.target = t
  <2>1. FlagEdge(flag, t) \in FlagLinks(flag, targets) BY <1>2 DEF FlagLinks
  <2>2. FlagEdge(flag, t).source = id /\ FlagEdge(flag, t).target = t BY <1>2, FlagLinkIs
  <2> QED BY <2>1, <2>2
<1> QED BY <1>1, <1>2

(* What leads from a flag is what the flag is about. *)
LEMMA LinkedIs ==
  ASSUME stage = "done", Reconciled, NEW id, id[1] \in FlagKinds, NEW t
  PROVE  Linked(id, t) <=> AboutVerdict(id, t) \/ AboutFault(id, t) \/ AboutResult(id, t)
<1> DEFINE Of(x) == x.source = id /\ x.target = t
<1>0. \A flag, targets : (\E x \in FlagLinks(flag, targets) : Of(x)) <=> id = flag /\ t \in targets BY FlagLinked
<1>1. \A e : EmailId(e) # id BY NamesTell DEF FlagKinds
<1>2. \A e, role : SideId(e, role) # id
  <2>1. \A e, role : SideId(e, role)[1] = "document" BY NamesTell DEF SideId
  <2> QED BY <2>1 DEF FlagKinds
<1>3. ASSUME NEW e, NEW x \in FileLinks(e) \cup MissingLinks(e) PROVE ~Of(x)
  <2>1. CASE x \in FileLinks(e)
    <3>1. PICK i : x = FileEdge(e, i) BY <2>1 DEF FileLinks
    <3> QED BY <1>1, <3>1, FileLinkIs
  <2>2. CASE x \in MissingLinks(e)
    <3>1. PICK role : x = MissingEdge(e, role) BY <2>2 DEF MissingLinks
    <3> QED BY <1>1, <3>1, MissingLinkIs
  <2> QED BY <2>1, <2>2
<1>4. ASSUME NEW e, NEW f
      PROVE  (\E x \in VerdictLinks(e, f) : Of(x)) <=>
               Flagged(e, f) /\ id = VerdictFlag(e, f) /\ t \in VerdictTargets(e, f)
  <2>0. (\E x \in FlagLinks(VerdictFlag(e, f), VerdictTargets(e, f)) : Of(x)) <=>
          id = VerdictFlag(e, f) /\ t \in VerdictTargets(e, f)
    BY <1>0
  <2>1. \A side : ~Of(ValueEdge(e, f, side)) BY <1>2, ValueLinkIs
  <2>2. (\E x \in VerdictLinks(e, f) : Of(x)) <=>
          Flagged(e, f) /\ \E x \in FlagLinks(VerdictFlag(e, f), VerdictTargets(e, f)) : Of(x)
    BY <2>1 DEF VerdictLinks
  <2> HIDE DEF Of
  <2> QED BY <2>0, <2>2
<1>5. ASSUME NEW e, NEW n
      PROVE  (\E x \in FaultLinks(e, n) : Of(x)) <=>
               id = DiagnosticFlag(e, n) /\ t \in DiagnosticTargets(e, Diagnostics(e)[n])
  <2>1. (\E x \in FlagLinks(DiagnosticFlag(e, n), DiagnosticTargets(e, Diagnostics(e)[n])) : Of(x)) <=>
          id = DiagnosticFlag(e, n) /\ t \in DiagnosticTargets(e, Diagnostics(e)[n])
    <3> DEFINE flag == DiagnosticFlag(e, n)
               targets == DiagnosticTargets(e, Diagnostics(e)[n])
    <3> HIDE DEF Of, flag, targets
    <3>1. (\E x \in FlagLinks(flag, targets) : Of(x)) <=> id = flag /\ t \in targets BY <1>0
    <3> QED BY <3>1 DEF flag, targets
  <2> HIDE DEF Of
  <2> QED BY <2>1 DEF FaultLinks
<1>6. ASSUME NEW r \in results
      PROVE  (\E x \in ResultLinks(r) : Of(x)) <=>
               r.outcome # "CASE_PRESENT" /\ id = ResultFlag(r) /\ t \in ResultTargets(r)
  <2>0. (\E x \in FlagLinks(ResultFlag(r), ResultTargets(r)) : Of(x)) <=>
          id = ResultFlag(r) /\ t \in ResultTargets(r)
    BY <1>0
  <2>1. \A x \in Joined(r) : ~Of(x) BY <1>1, JoinedIs, PairLinkIs
  <2>2. (\E x \in ResultLinks(r) : Of(x)) <=>
          r.outcome # "CASE_PRESENT" /\ \E x \in FlagLinks(ResultFlag(r), ResultTargets(r)) : Of(x)
    BY <2>1 DEF ResultLinks
  <2> HIDE DEF Of
  <2> QED BY <2>0, <2>2
<1>7. ASSUME NEW e \in Emails
      PROVE  (\E x \in EdgesOf(e) : Of(x)) <=>
               \/ \E f \in DOMAIN SeedCase[e].verdicts : \E x \in VerdictLinks(e, f) : Of(x)
               \/ \E n \in DOMAIN Diagnostics(e) : \E x \in FaultLinks(e, n) : Of(x)
  <2>1. EdgesOf(e) = (FileLinks(e) \cup MissingLinks(e)) \cup AllVerdictLinks(e) \cup AllFaultLinks(e)
    BY DEF EdgesOf, FileLinks, MissingLinks, AllVerdictLinks, AllFaultLinks
  <2> HIDE DEF Of
  <2> QED BY <1>3, <2>1 DEF AllVerdictLinks, AllFaultLinks
<1> HIDE DEF Of
<1>8. (\E e \in Emails : \E x \in EdgesOf(e) : Of(x)) <=> AboutVerdict(id, t) \/ AboutFault(id, t)
  BY <1>4, <1>5, <1>7 DEF AboutVerdict, AboutFault
<1>9. (\E r \in results : \E x \in ResultLinks(r) : Of(x)) <=> AboutResult(id, t)
  BY <1>6 DEF AboutResult, WrongResults
<1>10. (\E x \in AllEdges : Of(x)) <=>
         (\E e \in Emails : \E x \in EdgesOf(e) : Of(x)) \/ (\E r \in results : \E x \in ResultLinks(r) : Of(x))
  BY DEF AllEdges
<1> QED BY <1>8, <1>9, <1>10 DEF Linked, Of

(* The flag of a verdict is about what the verdict compares, *)
LEMMA VerdictAbout ==
  ASSUME stage = "done", Reconciled, NEW e \in Emails, NEW f \in DOMAIN SeedCase[e].verdicts, Flagged(e, f), NEW t
  PROVE  Linked(VerdictFlag(e, f), t) <=> t \in VerdictTargets(e, f)
<1> DEFINE id == VerdictFlag(e, f)
<1>1. id[1] \in FlagKinds BY NamesTell
<1>2. AboutVerdict(id, t) <=> t \in VerdictTargets(e, f) BY VerdictFlagsTold DEF AboutVerdict
<1>3. ~AboutFault(id, t) BY FlagsApart, VerdictFields DEF AboutFault
<1>4. ~AboutResult(id, t) BY VerdictApart DEF AboutResult
<1> HIDE DEF id
<1>5. Linked(id, t) <=> t \in VerdictTargets(e, f) BY <1>1, <1>2, <1>3, <1>4, LinkedIs
<1> QED BY <1>5 DEF id

(* that of a diagnostic about its email and its documents, *)
LEMMA FaultAbout ==
  ASSUME stage = "done", Reconciled, NEW e \in Emails, NEW n \in DOMAIN Diagnostics(e), NEW t
  PROVE  Linked(DiagnosticFlag(e, n), t) <=> t \in DiagnosticTargets(e, Diagnostics(e)[n])
<1> DEFINE id == DiagnosticFlag(e, n)
<1>1. id[1] \in FlagKinds BY NamesTell DEF FlagKinds
<1>2. AboutFault(id, t) <=> t \in DiagnosticTargets(e, Diagnostics(e)[n]) BY FaultFlagsTold DEF AboutFault
<1>3. ~AboutVerdict(id, t) BY FlagsApart, VerdictFields DEF AboutVerdict
<1>4. ~AboutResult(id, t) BY FlagsApart, ResultsShaped DEF AboutResult, WrongResults
<1> HIDE DEF id
<1>5. Linked(id, t) <=> t \in DiagnosticTargets(e, Diagnostics(e)[n]) BY <1>1, <1>2, <1>3, <1>4, LinkedIs
<1> QED BY <1>5 DEF id

(* and that of a result about its shipments and its emails. *)
LEMMA ResultAbout ==
  ASSUME stage = "done", Reconciled, OneResultEach, NEW r \in WrongResults, NEW t
  PROVE  Linked(ResultFlag(r), t) <=> t \in ResultTargets(r)
<1> DEFINE id == ResultFlag(r)
<1>0. r \in results /\ r.outcome \in Outcomes BY ResultsShaped DEF WrongResults
<1>1. id[1] \in FlagKinds BY NamesTell DEF FlagKinds
<1>2. AboutResult(id, t) <=> t \in ResultTargets(r) BY <1>0, ResultFlagsTold DEF AboutResult, WrongResults
<1>3. ~AboutVerdict(id, t) BY VerdictApart DEF AboutVerdict
<1>4. ~AboutFault(id, t) BY <1>0, FlagsApart DEF AboutFault
<1> HIDE DEF id
<1>5. Linked(id, t) <=> t \in ResultTargets(r) BY <1>1, <1>2, <1>3, <1>4, LinkedIs
<1> QED BY <1>5 DEF id

(* Names that tell are as many as what they name. *)
LEMMA NamesCounted ==
  ASSUME NEW S, IsFiniteSet(S), NEW f, \A x, y \in S : f[x] = f[y] => x = y
  PROVE  IsFiniteSet({f[x] : x \in S}) /\ Cardinality({f[x] : x \in S}) = Cardinality(S)
<1> DEFINE T == {f[x] : x \in S}
           g == [x \in S |-> f[x]]
<1>1. g \in Bijection(S, T) BY DEF Bijection, Injection, Surjection, IsInjective
<1>2. ExistsBijection(S, T)
  <2> HIDE DEF g, T
  <2> QED BY <1>1 DEF ExistsBijection
<1> HIDE DEF T
<1>3. IsFiniteSet(T) /\ Cardinality(T) = Cardinality(S) BY <1>2, FS_Bijection
<1> QED BY <1>3 DEF T

(* so are the names of a sequence. *)
LEMMA NamesToldCounted ==
  ASSUME NEW s, NEW S, Told(s, S)
  PROVE  Cardinality({x.id : x \in S}) = Len(s)
<1> DEFINE f == [x \in S |-> x.id]
<1>1. \A x, y \in S : f[x] = f[y] => x = y BY DEF Told, Tells
<1>2. {f[x] : x \in S} = {x.id : x \in S} OBVIOUS
<1> HIDE DEF f
<1>3. Cardinality({f[x] : x \in S}) = Cardinality(S) BY <1>1, NamesCounted DEF Told, Counts
<1> QED BY <1>2, <1>3 DEF Told, Counts

(* What each kind of flag is called. *)
LEMMA FlagNodesAre ==
  /\ \A e, f : FlagNode(e, f).id = VerdictFlag(e, f) /\ FlagNode(e, f).kind = VerdictFlag(e, f)[1]
  /\ \A e, n : FaultNode(e, n).id = DiagnosticFlag(e, n) /\ FaultNode(e, n).kind = "exception"
  /\ \A r : ResultNode(r).id = ResultFlag(r) /\ ResultNode(r).kind = "exception"
<1>1. \A e, f : FlagNode(e, f).id = VerdictFlag(e, f) /\ FlagNode(e, f).kind = VerdictFlag(e, f)[1]
  BY NodeIs DEF FlagNode
<1>2. \A e, n : FaultNode(e, n).id = DiagnosticFlag(e, n) /\ FaultNode(e, n).kind = "exception"
  BY NodeIs DEF FaultNode
<1>3. \A r : ResultNode(r).id = ResultFlag(r) /\ ResultNode(r).kind = "exception" BY NodeIs DEF ResultNode
<1> QED BY <1>1, <1>2, <1>3

(* Which flags are about an email: *)
LEMMA EmailAbout ==
  ASSUME NEW e
  PROVE  /\ \A g, f : EmailId(e) \notin VerdictTargets(g, f)
         /\ \A g, d : EmailId(e) \in DiagnosticTargets(g, d) <=> g = e
         /\ \A r : EmailId(e) \in ResultTargets(r) <=> e \in r.cases
<1>1. /\ \A a : EmailId(e) # DocumentId(a)
      /\ \A g, role : EmailId(e) # ExpectedId(g, role)
      /\ \A g, f, side : EmailId(e) # ValueId(g, f, side)
      /\ \A s : EmailId(e) # ShipmentId(s)
  BY NamesTell
<1>2. \A g : EmailId(e) = EmailId(g) <=> e = g BY DEF EmailId
<1>3. \A g, f : EmailId(e) \notin VerdictTargets(g, f) BY <1>1 DEF VerdictTargets, SideId
<1>4. \A g, d : EmailId(e) \in DiagnosticTargets(g, d) <=> g = e BY <1>1, <1>2 DEF DiagnosticTargets
<1>5. \A r : EmailId(e) \in ResultTargets(r) <=> e \in r.cases BY <1>1, <1>2 DEF ResultTargets
<1> QED BY <1>3, <1>4, <1>5

FaultNodes(e) == {FaultNode(e, n) : n \in DOMAIN Diagnostics(e)}
WrongOf(e) == {r \in results : e \in r.cases /\ r.outcome # "CASE_PRESENT"}
ResultNodes(e) == {ResultNode(r) : r \in WrongOf(e)}

(* The name of a flag tells what it is of. *)
LEMMA FlagTells ==
  /\ \A e, f : VerdictFlag(e, f)[2][1] = e /\ VerdictFlag(e, f)[2][2] = f
  /\ \A e \in Emails : \A n \in DOMAIN Diagnostics(e) :
       DiagnosticFlag(e, n)[2][1] = e /\ DiagnosticFlag(e, n)[2][2] \in Reasons
  /\ \A r : ResultFlag(r)[2][2] = r.outcome
<1>1. ASSUME NEW e, NEW f PROVE VerdictFlag(e, f)[2][1] = e /\ VerdictFlag(e, f)[2][2] = f
  <2>1. \/ VerdictFlag(e, f) = <<"mismatch", <<e, f>>>>
        \/ VerdictFlag(e, f) = <<"exception", <<e, f, "review">>>>
    BY DEF VerdictFlag
  <2> QED BY <2>1
<1>2. ASSUME NEW e \in Emails, NEW n \in DOMAIN Diagnostics(e)
      PROVE  DiagnosticFlag(e, n)[2][1] = e /\ DiagnosticFlag(e, n)[2][2] \in Reasons
  <2>1. PICK reason \in Reasons : \/ DiagnosticFlag(e, n) = <<"exception", <<e, reason>>>>
                                 \/ \E k : DiagnosticFlag(e, n) = <<"exception", <<e, reason, k>>>>
    BY FaultNamed
  <2> QED BY <2>1
<1>3. ASSUME NEW r PROVE ResultFlag(r)[2][2] = r.outcome
  <2>1. \E x : ResultFlag(r) = <<"exception", <<x, r.outcome>>>> BY DEF ResultFlag
  <2> QED BY <2>1
<1> QED BY <1>1, <1>2, <1>3

FlaggedNodes(e) == {FlagNode(e, f) : f \in {g \in DOMAIN SeedCase[e].verdicts : Flagged(e, g)}}

(* The state of an email tells how its case was concluded. *)
LEMMA EmailStateTells ==
  ASSUME NEW e \in Emails, EmailState(e) # "neutral"
  PROVE  /\ EmailState(e) = "match" <=> SubmissionRow(e).status = "OK"
         /\ EmailState(e) = "match" <=> Clean(e)
<1>1. CaseTells(e) BY CaseTold
<1>2. EmailState(e) = "match" <=> SeedCase[e].output.status \notin {"MISMATCH", "NEEDS_REVIEW"}
  BY DEF EmailState
<1> QED BY <1>1, <1>2 DEF CaseTells

(* The verdicts that draw a party or a port. *)
Draws(e, f, id) == \E side \in Shown(e, f) : ValueId(e, f, side) = id
StatesOf(id) ==
  {VerdictState(p[1], p[2]) : p \in {q \in UNION {{<<e, f>> : f \in DOMAIN SeedCase[e].verdicts} : e \in Emails} :
                                       Draws(q[1], q[2], id)}}

(* Their states are those of these verdicts. *)
LEMMA StatesAre ==
  ASSUME NEW id, NEW state
  PROVE  state \in StatesOf(id) <=>
           \E e \in Emails : \E f \in DOMAIN SeedCase[e].verdicts : Draws(e, f, id) /\ state = VerdictState(e, f)
<1> DEFINE All == UNION {{<<e, f>> : f \in DOMAIN SeedCase[e].verdicts} : e \in Emails}
<1>1. ASSUME NEW p PROVE p \in All <=> \E e \in Emails : \E f \in DOMAIN SeedCase[e].verdicts : p = <<e, f>>
  OBVIOUS
<1>2. StatesOf(id) = {VerdictState(p[1], p[2]) : p \in {q \in All : Draws(q[1], q[2], id)}} BY DEF StatesOf
<1> HIDE DEF All
<1>3. ASSUME NEW e \in Emails, NEW f \in DOMAIN SeedCase[e].verdicts, Draws(e, f, id)
      PROVE  VerdictState(e, f) \in StatesOf(id)
  <2> DEFINE p == <<e, f>>
  <2>1. p \in All /\ p[1] = e /\ p[2] = f BY <1>1
  <2> HIDE DEF p
  <2> QED BY <1>2, <1>3, <2>1
<1>4. ASSUME state \in StatesOf(id)
      PROVE  \E e \in Emails : \E f \in DOMAIN SeedCase[e].verdicts : Draws(e, f, id) /\ state = VerdictState(e, f)
  <2>1. PICK p \in All : Draws(p[1], p[2], id) /\ state = VerdictState(p[1], p[2]) BY <1>2, <1>4
  <2>2. PICK e \in Emails : \E f \in DOMAIN SeedCase[e].verdicts : p = <<e, f>> BY <1>1, <2>1
  <2>3. PICK f \in DOMAIN SeedCase[e].verdicts : p = <<e, f>> BY <2>2
  <2>4. p[1] = e /\ p[2] = f BY <2>3
  <2> QED BY <2>1, <2>4
<1> QED BY <1>3, <1>4

(* The worst of some states. *)
LEMMA WorstIs ==
  ASSUME NEW states, states \subseteq {"mismatch", "held", "match"}, states # {}
  PROVE  /\ WorstOf(states) = "mismatch" <=> "mismatch" \in states
         /\ WorstOf(states) = "match" <=> states = {"match"}
<1> DEFINE Most(state) == \A other \in states : Rank[state] >= Rank[other]
<1>1. Rank["match"] = 1 /\ Rank["held"] = 2 /\ Rank["mismatch"] = 3 BY DEF Rank
<1>2. \E state \in states : Most(state)
  <2>1. CASE "mismatch" \in states BY <1>1, <2>1
  <2>2. CASE "mismatch" \notin states /\ "held" \in states BY <1>1, <2>2
  <2>3. CASE states \subseteq {"match"}
    <3>1. PICK state \in states : state = "match" BY <2>3
    <3>2. Most(state) BY <1>1, <2>3, <3>1
    <3> QED BY <3>1, <3>2
  <2> QED BY <2>1, <2>2, <2>3
<1>3. WorstOf(states) \in states /\ Most(WorstOf(states)) BY <1>2 DEF WorstOf
<1>4. WorstOf(states) \in {"mismatch", "held", "match"} BY <1>3
<1>5. CASE WorstOf(states) = "mismatch" BY <1>3, <1>5
<1>6. CASE WorstOf(states) = "held"
  <2>1. "mismatch" \notin states BY <1>1, <1>3, <1>6
  <2> QED BY <1>3, <1>6, <2>1
<1>7. CASE WorstOf(states) = "match"
  <2>1. "mismatch" \notin states /\ "held" \notin states BY <1>1, <1>3, <1>7
  <2>2. \A state \in states : state = "match" BY <2>1
  <2>3. states = {"match"} BY <1>3, <1>7, <2>2
  <2> QED BY <1>7, <2>1, <2>3
<1> QED BY <1>4, <1>5, <1>6, <1>7

=============================================================================
