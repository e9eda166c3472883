---------------------------- MODULE ControlGraph ----------------------------
(***************************************************************************)
(* The control graph (build_corpus): what was received, what was compared  *)
(* and how Gate 2 reconciled it, as one graph.  Each email has its         *)
(* documents, and a place for each document it lacks; a compared field     *)
(* joins the two documents through the parties and ports they name;        *)
(* whatever went wrong is a flag with an edge to all it is about; and the  *)
(* results of GateTwo join emails and shipments.  The graph is derived     *)
(* once from its inputs and is never changed, so everything here is an     *)
(* operator.  The canvas is served a slice of it (corpus_overview), the    *)
(* model the nodes nearest to a question (retrieve), and an answer is      *)
(* drawn with its neighbours (_cited_subgraph).                            *)
(*                                                                         *)
(* Names are tuples: two nodes have the same name where the code formats   *)
(* the same string.  Operators named "Mutant..." are plausible bugs; no    *)
(* specification uses them.                                                *)
(***************************************************************************)
EXTENDS SeedCatalog, SequencesExt

CONSTANT
  Received  \* the emails as a sequence, in catalog order

(* How Gate 2 may end with a shipment or a case. *)
Outcomes ==
  {"CASE_PRESENT", "DOCUMENT_MISSING", "MISSING_CASE", "SOURCE_STALE", "UNMATCHED_CASE", "DUPLICATE_OR_AMBIGUOUS"}

(* No field is called as an outcome or as the reason of a diagnostic is.   *)
ASSUME GraphAssumption ==
  /\ Received \in Seq(Emails) /\ ToSet(Received) = Emails
  /\ IsFiniteSet(Emails) /\ Len(Received) = Cardinality(Emails)
  /\ IsFiniteSet(Shipments)
  /\ ComparedFields \cap (Outcomes \cup ToSet(Precedence)) = {}

Node(id, kind, state) == [id |-> id, kind |-> kind, state |-> state]
Edge(id, source, target, kind) == [id |-> id, source |-> source, target |-> target, kind |-> kind]

Kept(seq, set) == FlattenSeq([i \in DOMAIN seq |-> IF seq[i] \in set THEN <<seq[i]>> ELSE <<>>])

Distinct(seq) ==
  FlattenSeq([i \in DOMAIN seq |-> IF \E j \in 1..(i - 1) : seq[j] = seq[i] THEN <<>> ELSE <<seq[i]>>])

EachOf(set) == FoldSet(LAMBDA x, s : Append(s, x), <<>>, set)

Mapped(seq, Op(_)) == [i \in DOMAIN seq |-> Op(seq[i])]

EmailId(e) == <<"email", e>>
ShipmentId(s) == <<"shipment", s>>

Diagnostics(e) == EachOf(SeedCase[e].diagnostics)

(* Only an email that was compared shows how it went. *)
EmailState(e) ==
  LET status == SeedCase[e].output.status
  IN  CASE Mail[e].category # "BL_COMPARISON" -> "neutral"
        [] Mail[e].category = "BL_COMPARISON" /\ status = "MISMATCH" -> "mismatch"
        [] Mail[e].category = "BL_COMPARISON" /\ status = "NEEDS_REVIEW" -> "held"
        [] OTHER -> "match"

-----------------------------------------------------------------------------
(* Documents *)

(* The attachments of all emails, in order; one is named by its place. *)
Attached == FlattenSeq(Mapped(Received, LAMBDA e : [i \in DOMAIN FilesOf(e) |-> <<e, i>>]))

File(a) == FilesOf(a[1])[a[2]]

(* A document is named after its file, the second of a name after its      *)
(* attachment.                                                             *)
DocumentId(a) ==
  LET first == SelectInSeq(Attached, LAMBDA b : File(b).name = File(a).name)
  IN  IF Attached[first] = a THEN <<"document", <<File(a).name>>>> ELSE <<"document", a>>

DocumentState(a) ==
  IF \/ ~File(a).known
     \/ \E d \in ToSet(Diagnostics(a[1])) : d.doc = a[2]
  THEN "held" ELSE "neutral"

(* A document that was expected and did not come: a draft BL, unless the   *)
(* diagnostic says otherwise.                                              *)
ExpectedRole(d) == IF d.role = Nothing THEN "DRAFT_BL" ELSE d.role

Expected(e) ==
  LET lacks == {d \in SeedCase[e].diagnostics : d.reason = "MISSING_ATTACHMENT" /\ d.doc = Nothing}
  IN  Distinct(Mapped(Kept(Diagnostics(e), lacks), ExpectedRole))

ExpectedId(e, role) == <<"document", <<e, "expected", role>>>>

(* The first attachment of a role. *)
Side(e, role) == CHOOSE i \in OfSide(e, role) : \A j \in OfSide(e, role) : i <= j

SideId(e, role) == DocumentId(<<e, Side(e, role)>>)

-----------------------------------------------------------------------------
(* Verdicts, each named by its email and its field *)

Sides == <<"SI", "DRAFT_BL">>

Verdicts(e) == EachOf(DOMAIN SeedCase[e].verdicts)

Raw(e, f, side) == FilesOf(e)[Side(e, side)].values[f]

VerdictState(e, f) ==
  LET state == SeedCase[e].verdicts[f].interactive
  IN  CASE state = "MISMATCH" -> "mismatch" [] state = "REVIEW" -> "held" [] OTHER -> "match"

(* The sides of a verdict whose value gets a node: a party or a port, on a *)
(* document that is there.                                                 *)
Drawn(e, f) ==
  Kept(Sides, {side \in ToSet(Sides) : f \in TextFields /\ OfSide(e, side) # {}
                                         /\ ~IsPlaceholder(Raw(e, f, side))})

(* A port is named by its code where its value carries one. *)
ValueId(e, f, side) ==
  LET raw == Raw(e, f, side)
  IN  IF f \in PortFields THEN <<"port", IF Locode(f, raw) = NoCode THEN raw.name ELSE raw.code>>
      ELSE <<"party", raw.name>>

(* A value many verdicts share shows the worst of them. *)
Rank == [neutral |-> 0, match |-> 1, held |-> 2, mismatch |-> 3]

WorstOf(states) == CHOOSE state \in states : \A other \in states : Rank[state] >= Rank[other]

Worst(id) ==
  WorstOf({VerdictState(p[1], p[2]) :
             p \in {q \in UNION {{<<e, f>> : f \in DOMAIN SeedCase[e].verdicts} : e \in Emails} :
                      \E side \in ToSet(Drawn(q[1], q[2])) : ValueId(q[1], q[2], side) = id}})

(* A mismatch, and a verdict a person has to judge, is flagged. *)
Flagged(e, f) == VerdictState(e, f) # "match"

VerdictFlag(e, f) ==
  IF VerdictState(e, f) = "mismatch" THEN <<"mismatch", <<e, f>>>> ELSE <<"exception", <<e, f, "review">>>>

-----------------------------------------------------------------------------
(* Flags *)

(* One edge to each of the things a flag is about, however often named. *)
FlagEdges(flag, targets) ==
  Mapped(EachOf(targets), LAMBDA t : Edge(<<"flags", flag, t>>, flag, t, "flags"))

VerdictTargets(e, f) ==
  {SideId(e, role) : role \in {r \in ToSet(Sides) : OfSide(e, r) # {}}}
    \cup {ValueId(e, f, side) : side \in ToSet(Drawn(e, f))}

(* The second diagnostic of a reason gets a name of its own (_unique_id). *)
DiagnosticFlag(e, n) ==
  LET earlier == {m \in 1..(n - 1) : Diagnostics(e)[m].reason = Diagnostics(e)[n].reason}
  IN  IF earlier = {} THEN <<"exception", <<e, Diagnostics(e)[n].reason>>>>
      ELSE <<"exception", <<e, Diagnostics(e)[n].reason, Cardinality(earlier) + 1>>>>

DiagnosticTargets(e, d) ==
  {EmailId(e)}
    \cup (IF d.doc = Nothing THEN {} ELSE {DocumentId(<<e, d.doc>>)})
    \cup (IF d.reason = "MISSING_ATTACHMENT" /\ Contains(Expected(e), ExpectedRole(d))
          THEN {ExpectedId(e, ExpectedRole(d))} ELSE {})

-----------------------------------------------------------------------------
(* Reconciliation *)

OutcomeState(outcome) ==
  CASE outcome = "CASE_PRESENT" -> "match"
    [] outcome \in {"DOCUMENT_MISSING", "MISSING_CASE"} -> "mismatch"
    [] OTHER -> "held"

(* A flag is named after the shipment, or after the email where there is   *)
(* none or several of them.                                                *)
ResultFlag(r) ==
  IF r.outcome \in {"UNMATCHED_CASE", "DUPLICATE_OR_AMBIGUOUS"}
  THEN <<"exception", <<CHOOSE c \in r.cases : TRUE, r.outcome>>>>
  ELSE <<"exception", <<CHOOSE s \in r.shipments : TRUE, r.outcome>>>>

MutantResultTargets(r) ==
  IF r.shipments # {} THEN {ShipmentId(s) : s \in r.shipments} ELSE {EmailId(c) : c \in r.cases}

ResultTargets(r) == {ShipmentId(s) : s \in r.shipments} \cup {EmailId(c) : c \in r.cases}

(* A pair is joined; an ambiguous group is only flagged. *)
Joined(r) ==
  IF r.outcome \in {"CASE_PRESENT", "DOCUMENT_MISSING", "SOURCE_STALE"}
  THEN {Edge(<<"recon", s>>, EmailId(c), ShipmentId(s), "reconciles") : s \in r.shipments, c \in r.cases}
  ELSE {}

(* A shipment no result names is unreconciled, which is "held". *)
ShipmentState(s) ==
  IF \E r \in results : s \in r.shipments
  THEN OutcomeState((CHOOSE r \in results : s \in r.shipments).outcome)
  ELSE "held"

-----------------------------------------------------------------------------
(* The graph *)

EmailNodes(e) ==
  LET files    == [i \in DOMAIN FilesOf(e) |-> Node(DocumentId(<<e, i>>), "document", DocumentState(<<e, i>>))]
      expected == Mapped(Expected(e), LAMBDA role : Node(ExpectedId(e, role), "document", "held"))
      verdict(f) ==
        Mapped(Drawn(e, f), LAMBDA side : Node(ValueId(e, f, side), ValueId(e, f, side)[1], Worst(ValueId(e, f, side))))
          \o IF Flagged(e, f) THEN <<Node(VerdictFlag(e, f), VerdictFlag(e, f)[1], VerdictState(e, f))>> ELSE <<>>
      faults   == [n \in DOMAIN Diagnostics(e) |-> Node(DiagnosticFlag(e, n), "exception", "held")]
  IN  <<Node(EmailId(e), "email", EmailState(e))>> \o files \o expected
        \o FlattenSeq(Mapped(Verdicts(e), verdict)) \o faults

EmailEdges(e) ==
  LET files    == [i \in DOMAIN FilesOf(e) |->
                     Edge(<<"edge", <<e, i>>>>, EmailId(e), DocumentId(<<e, i>>), "attachment")]
      expected == Mapped(Expected(e), LAMBDA role :
                     Edge(<<"edge", <<e, "expected", role>>>>, EmailId(e), ExpectedId(e, role), "attachment"))
      value(f, side) ==
        Edge(<<"edge", <<e, Side(e, side)>>, f>>, SideId(e, side), ValueId(e, f, side),
             IF f \in PortFields THEN "routing" ELSE "party_role")
      verdict(f) ==
        Mapped(Drawn(e, f), LAMBDA side : value(f, side))
          \o IF Flagged(e, f) THEN FlagEdges(VerdictFlag(e, f), VerdictTargets(e, f)) ELSE <<>>
      faults   == [n \in DOMAIN Diagnostics(e) |->
                     FlagEdges(DiagnosticFlag(e, n), DiagnosticTargets(e, Diagnostics(e)[n]))]
  IN  files \o expected \o FlattenSeq(Mapped(Verdicts(e), verdict)) \o FlattenSeq(faults)

(* What Gate 1 alone gives of the graph. *)
SeedNodes == FlattenSeq(Mapped(Received, EmailNodes))
SeedEdges == FlattenSeq(Mapped(Received, EmailEdges))

(* Results are sorted by the hash of their subject: their order means      *)
(* nothing.                                                                *)
Wrong == EachOf({r \in results : r.outcome # "CASE_PRESENT"})

BuildCorpus ==
  [nodes |-> Distinct(SeedNodes
               \o Mapped(Wrong, LAMBDA r : Node(ResultFlag(r), "exception", OutcomeState(r.outcome)))
               \o Mapped(EachOf(Shipments), LAMBDA s : Node(ShipmentId(s), "shipment", ShipmentState(s)))),
   edges |-> SeedEdges
               \o FlattenSeq(Mapped(EachOf(results), LAMBDA r :
                    EachOf(Joined(r))
                      \o (IF r.outcome = "CASE_PRESENT" THEN <<>>
                          ELSE FlagEdges(ResultFlag(r), ResultTargets(r)))))]

-----------------------------------------------------------------------------
(* Slices *)

Ids(graph) == {n.id : n \in ToSet(graph.nodes)}

Within(graph, ids) ==
  [nodes |-> Kept(graph.nodes, {n \in ToSet(graph.nodes) : n.id \in ids}),
   edges |-> Kept(graph.edges, {e \in ToSet(graph.edges) : {e.source, e.target} \subseteq ids})]

(* Neighbours either way, in the order of the edges (_adjacency). *)
Adjacent(graph, id) ==
  FlattenSeq(Mapped(graph.edges, LAMBDA e :
    (IF e.source = id THEN <<e.target>> ELSE <<>>) \o (IF e.target = id THEN <<e.source>> ELSE <<>>)))

IdsOf(graph, kind, states) ==
  Mapped(Kept(graph.nodes, {n \in ToSet(graph.nodes) : n.kind = kind /\ n.state \in states}), LAMBDA n : n.id)

(* One of each in turn, then what is left of the longer (zip_longest). *)
Alternating(s, t) ==
  LET both == [i \in 1..(Len(s) + Len(t)) |->
                 (IF i <= Len(s) THEN <<s[i]>> ELSE <<>>) \o (IF i <= Len(t) THEN <<t[i]>> ELSE <<>>)]
  IN  FlattenSeq(both)

MutantDrawnWith(graph, selected, anchor, alone, limit) ==
  LET region == selected \cup {anchor} \cup ToSet(Adjacent(graph, anchor))
  IN  IF Cardinality(region) <= limit THEN region
      ELSE IF Cardinality(selected) < limit THEN selected \cup {anchor} ELSE selected

(* A node is drawn with its neighbours where they all fit, or alone if it  *)
(* must be drawn whatever happens.                                         *)
DrawnWith(graph, selected, anchor, alone, limit) ==
  LET region == selected \cup {anchor} \cup ToSet(Adjacent(graph, anchor))
  IN  IF Cardinality(region) <= limit THEN region
      ELSE IF alone /\ Cardinality(selected) < limit THEN selected \cup {anchor} ELSE selected

(* Every shipment that went wrong, then the flags, then the other          *)
(* shipments.                                                              *)
CorpusOverview(graph, limit) ==
  LET wrong == IdsOf(graph, "shipment", DOMAIN Rank \ {"match"})
      clear == IdsOf(graph, "shipment", {"match"})
      flags == Alternating(IdsOf(graph, "mismatch", DOMAIN Rank), IdsOf(graph, "exception", DOMAIN Rank))
      draw(selected, anchor) == DrawnWith(graph, selected, anchor, Contains(wrong, anchor), limit)
  IN  Within(graph, FoldLeft(draw, {}, wrong \o flags \o clear))

(* What is cited, and then its neighbours while there is room.             *)
CitedSubgraph(graph, cited, limit) ==
  LET add(selected, id) ==
        IF Len(selected) >= limit \/ Contains(selected, id) THEN selected ELSE Append(selected, id)
      near == FlattenSeq(Mapped(cited, LAMBDA id : Adjacent(graph, id)))
      ids  == FoldLeft(add, cited, near)
  IN  [ids |-> ids, edges |-> Within(graph, ToSet(ids)).edges]

(* The nodes that score highest against the question, the earlier first    *)
(* among equals; what scores nothing is never sent.                        *)
Retrieve(graph, score, limit) ==
  LET scored == {i \in DOMAIN graph.nodes : score[graph.nodes[i].kind] > 0}
      before(j, i) == LET a == score[graph.nodes[j].kind]
                          b == score[graph.nodes[i].kind]
                      IN  a > b \/ (a = b /\ j < i)
  IN  Within(graph, {graph.nodes[i].id : i \in {k \in scored :
                       Cardinality({j \in scored : before(j, k)}) < limit}})

=============================================================================
