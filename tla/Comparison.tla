----------------------------- MODULE Comparison -----------------------------
(***************************************************************************)
(* The decisions of Gate 1 as pure operators: which analysed attachments   *)
(* form an SI / draft BL pair (comparison.admit_pair), how the values of   *)
(* the pair are compared (normalization, compare_fields), how the          *)
(* classifier's probabilities become verdicts (band, resolve_verdicts),    *)
(* what is recorded for the case (structural_output, comparison_output),   *)
(* and the two later readings of the record: the check before it is        *)
(* written (persistence._validate_case_evidence) and the row the batch     *)
(* publishes for it (submission._output_for_snapshot).                     *)
(*                                                                         *)
(* A raw value is a record [name, code]: "name" is what the value says and *)
(* "code" the UN/LOCODE-shaped token a port value may end with.            *)
(* Probabilities are hundredths, 0..100.  An operator named "Mutant..." is *)
(* a plausible bug; nothing uses it.                                       *)
(***************************************************************************)
EXTENDS Integers, FiniteSets, Sequences

CONSTANTS
  TextFields,    \* the compared fields read as text, ports among them
  PortFields,    \* the text fields whose values may carry a code
  NumericFields, \* the fields compared as numbers, never by the classifier
  Placeholders,  \* names that stand for "to be filled in"
  Numbers,       \* names a numeric field can be read from
  NoCode,        \* the code of a value that carries none
  Nothing        \* None: no value, no role, no failure, no reason

ASSUME ComparisonAssumption ==
  /\ PortFields \subseteq TextFields
  /\ TextFields \cap NumericFields = {}
  /\ IsFiniteSet(TextFields) /\ IsFiniteSet(NumericFields)
  /\ Placeholders \cap Numbers = {}
  /\ Nothing \notin Int
  /\ Nothing \notin {"MATCH", "MISMATCH", "UNREADABLE", "WRONG_DOC_TYPE", "MISSING_ATTACHMENT", "MISSING_VALUE"}

ComparedFields == TextFields \cup NumericFields

-----------------------------------------------------------------------------
(* Values *)

IsPlaceholder(value) == value.name \in Placeholders

Usable(field, value) == field \in NumericFields => value.name \in Numbers

Locode(field, value) == IF field \in PortFields THEN value.code ELSE NoCode

(* text_key: a port's key leaves its code out unless the codes disagree. *)
TextKey(field, value, keepCode) ==
  IF field \in PortFields /\ keepCode THEN <<value.name, value.code>>
                                      ELSE <<value.name>>

SameValue(field, si, bl) ==
  LET codes == {Locode(field, si), Locode(field, bl)}
      keep  == NoCode \notin codes /\ Cardinality(codes) = 2
  IN  TextKey(field, si, keep) = TextKey(field, bl, keep)

-----------------------------------------------------------------------------
(* Admission.  An analysis is a record [doc, status, route, role,          *)
(* extraction, failure, attempts]: doc its place in the email, status      *)
(* "UNREADABLE" when the preflight or the parser gave up on it, role a     *)
(* role or Nothing, extraction a function from the fields found to their   *)
(* values or Nothing, failure [from, code, retryable] or Nothing.          *)

Diagnostic(reason, analysis, role, field) ==
  [reason |-> reason, doc |-> analysis.doc, role |-> role, field |-> field,
   route |-> analysis.route]

MissingRole(role) ==
  [reason |-> "MISSING_ATTACHMENT", doc |-> Nothing, role |-> role,
   field |-> Nothing, route |-> Nothing]

(* unreadable_document: the hold names the role the document was given. *)
UnreadableDocument(analysis) ==
  Diagnostic("UNREADABLE", analysis, analysis.role, Nothing)

FileDiagnostics(analyses) ==
  {Diagnostic(IF a.status = "UNREADABLE" THEN "UNREADABLE" ELSE "WRONG_DOC_TYPE",
              a, Nothing, Nothing) : a \in {b \in analyses : b.status # "OK"}}

Unreadable(diagnostics) == \E d \in diagnostics : d.reason = "UNREADABLE"

ValueFault(field, extraction) ==
  \/ field \notin DOMAIN extraction
  \/ IsPlaceholder(extraction[field])
  \/ ~Usable(field, extraction[field])

(* _check_values: one diagnostic for each value that is absent, a          *)
(* placeholder or not usable as a number.                                  *)
ValueDiagnostics(analysis) ==
  {Diagnostic("MISSING_VALUE", analysis, analysis.role, f) :
      f \in {g \in ComparedFields : ValueFault(g, analysis.extraction)}}

OfRole(analyses, role) == {a \in analyses : a.role = role}
First(analyses) == CHOOSE a \in analyses : \A b \in analyses : a.doc <= b.doc

NoPair == [si |-> Nothing, bl |-> Nothing, diagnostics |-> {}, failure |-> Nothing]

(* The diagnostics of attachments that do not make up exactly one pair. *)
PairDiagnostics(analyses) ==
  LET Extra(role) == OfRole(analyses, role) \ {First(OfRole(analyses, role))}
      absent == {role \in {"SI", "DRAFT_BL"} : OfRole(analyses, role) = {}}
  IN  {Diagnostic("WRONG_DOC_TYPE", a, "OTHER", Nothing) : a \in OfRole(analyses, "OTHER")}
        \cup (UNION {{Diagnostic("WRONG_DOC_TYPE", a, role, Nothing) : a \in Extra(role)} :
                       role \in {"SI", "DRAFT_BL"} \ absent})
        \cup {MissingRole(role) : role \in absent}

AdmitPair(analyses) ==
  LET files  == FileDiagnostics(analyses)
      failed == {a \in analyses : a.failure # Nothing}
      si     == OfRole(analyses, "SI")
      bl     == OfRole(analyses, "DRAFT_BL")
  IN  IF failed # {}
      THEN IF Unreadable(files) THEN [NoPair EXCEPT !.diagnostics = files]
           ELSE [NoPair EXCEPT !.failure = First(failed).failure]
      ELSE IF ~Unreadable(files) /\ Cardinality(si) = 1 /\ Cardinality(bl) = 1
      THEN [si |-> First(si), bl |-> First(bl), failure |-> Nothing,
            diagnostics |-> ValueDiagnostics(First(si)) \cup ValueDiagnostics(First(bl))]
      ELSE [NoPair EXCEPT !.diagnostics = files \cup PairDiagnostics(analyses)]

(* scan_holds: a pair read from an image is compared and still held. *)
ScanHolds(pair) ==
  {UnreadableDocument(a) : a \in {b \in {pair.si, pair.bl} : b.route = "gemini_scan"}}

-----------------------------------------------------------------------------
(* Verdicts *)

Band(p) == IF p >= 85 THEN "MATCH" ELSE IF p <= 30 THEN "MISMATCH" ELSE "REVIEW"

(* deterministic_result of each field of the pair; Nothing asks the classifier. *)
CompareFields(pair) ==
  [f \in ComparedFields |->
     LET same == SameValue(f, pair.si.extraction[f], pair.bl.extraction[f])
     IN  IF same THEN "MATCH" ELSE IF f \in NumericFields THEN "MISMATCH" ELSE Nothing]

EquivalenceQuestions(drafts) == {f \in ComparedFields : drafts[f] = Nothing}

(* probabilities is a function from the asked fields to 0..100. *)
ResolveVerdicts(drafts, probabilities) ==
  [f \in ComparedFields |->
     IF drafts[f] # Nothing
     THEN [probability |-> Nothing, interactive |-> drafts[f], batch |-> drafts[f]]
     ELSE [probability |-> probabilities[f], interactive |-> Band(probabilities[f]),
           batch |-> IF Band(probabilities[f]) = "MATCH" THEN "MATCH" ELSE "MISMATCH"]]

NeedsInteractiveReview(verdicts) ==
  \E f \in DOMAIN verdicts : verdicts[f].interactive = "REVIEW"

-----------------------------------------------------------------------------
(* What is recorded for the case, and how it is read again *)

(* select_structural_review_reason: the first reason in precedence order. *)
Precedence == <<"UNREADABLE", "WRONG_DOC_TYPE", "MISSING_ATTACHMENT", "MISSING_VALUE">>
ReviewReason(diagnostics) ==
  LET present == {i \in 1..4 : \E d \in diagnostics : d.reason = Precedence[i]}
  IN  IF present = {} THEN Nothing
      ELSE Precedence[CHOOSE i \in present : \A j \in present : i <= j]

Output(status, reason, defects) == [status |-> status, reason |-> reason, defects |-> defects]

AwaitingOutput == Output("OK", Nothing, {})

StructuralOutput(diagnostics) == Output("NEEDS_REVIEW", ReviewReason(diagnostics), {})

ComparisonOutput(verdicts) ==
  LET defects == {f \in DOMAIN verdicts : verdicts[f].batch = "MISMATCH"}
  IN  Output(IF defects = {} THEN "OK" ELSE "MISMATCH", Nothing, defects)

(* EvaluatorOutput.status_fields_are_consistent, for a comparison case. *)
Consistent(output) ==
  CASE output.status = "OK"           -> output.reason = Nothing /\ output.defects = {}
    [] output.status = "MISMATCH"     -> output.reason = Nothing /\ output.defects # {}
    [] output.status = "NEEDS_REVIEW" -> output.reason # Nothing /\ output.defects = {}

(* The evidence stored with an output: its diagnostics, and the verdicts   *)
(* as a function over the fields compared (none, when nothing was).        *)
IsScanHold(diagnostics) ==
  /\ diagnostics # {}
  /\ \A d \in diagnostics : d.reason = "UNREADABLE" /\ d.route = "gemini_scan"

(* _validate_case_evidence: what record_comparison_result accepts. *)
ValidEvidence(output, diagnostics, verdicts) ==
  IF output.status = "NEEDS_REVIEW"
  THEN /\ output.reason = ReviewReason(diagnostics) /\ diagnostics # {}
       /\ DOMAIN verdicts = {} \/ (IsScanHold(diagnostics) /\ DOMAIN verdicts = ComparedFields)
  ELSE /\ diagnostics = {}
       /\ \/ DOMAIN verdicts = {} /\ output.status = "OK"
          \/ DOMAIN verdicts = ComparedFields

MutantBatchResult(verdict) ==
  IF verdict.probability = Nothing THEN verdict.batch
  ELSE IF verdict.probability > 85 THEN "MATCH" ELSE "MISMATCH"

(* The row submission._output_for_snapshot gives the stored evidence; the  *)
(* snapshot carries verdicts only where it carries no diagnostics, and a   *)
(* text verdict is decided again from its probability.                     *)
BatchResult(verdict) ==
  IF verdict.probability = Nothing THEN verdict.batch
  ELSE IF verdict.probability >= 85 THEN "MATCH" ELSE "MISMATCH"

(* _submission_field_snapshot refuses a verdict that contradicts its evidence. *)
SnapshotAccepts(verdicts) == \A f \in DOMAIN verdicts : verdicts[f].batch = BatchResult(verdicts[f])

OutputForSnapshot(diagnostics, verdicts) ==
  IF diagnostics # {} THEN StructuralOutput(diagnostics)
  ELSE IF DOMAIN verdicts = {} THEN AwaitingOutput
  ELSE LET defects == {f \in ComparedFields : BatchResult(verdicts[f]) = "MISMATCH"}
       IN  Output(IF defects = {} THEN "OK" ELSE "MISMATCH", Nothing, defects)

=============================================================================
