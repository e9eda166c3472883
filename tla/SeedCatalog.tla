---------------------------- MODULE SeedCatalog ----------------------------
(***************************************************************************)
(* The prepared demo (SeedCatalog.build): the committed emails, and what   *)
(* Gate 1 makes of each with recorded decisions in place of its two        *)
(* providers.  The comparison is the one of Comparison; only where no      *)
(* answer of the classifier was recorded is a difference in a text field a *)
(* mismatch outright.  From each comparison case comes the snapshot Gate 2 *)
(* reconciles (GateTwo) and from each case the row of the submission.      *)
(*                                                                         *)
(* The decisions cover every file here: a build for which they do not      *)
(* raises, which is a failed build (GraphChat).  Nothing here changes, so  *)
(* everything is an operator.                                              *)
(***************************************************************************)
EXTENDS GateTwo, Comparison, TLC

CONSTANTS
  Mail,     \* [emails -> [category, asks, numbers, files]]: asks for the draft BL,
            \* the numbers it names, and its files as a sequence of
            \* [name, known, status, route, role, values, numbers]
  Recorded  \* [emails -> function from some text fields to a probability]

Emails == DOMAIN Mail

FilesOf(e) == Mail[e].files

ASSUME SeedAssumption ==
  /\ Cases = {e \in Emails : Mail[e].category = "BL_COMPARISON"}
  /\ \A e \in Emails :
       /\ FilesOf(e) \in Seq({FilesOf(e)[i] : i \in DOMAIN FilesOf(e)})
       /\ DOMAIN Recorded[e] \subseteq TextFields
       /\ \A f \in DOMAIN Recorded[e] : Recorded[e][f] \in 0..100

(* What is left of an analysis when its role and its scan were decided. *)
Analyses(e) ==
  {[doc |-> i, status |-> FilesOf(e)[i].status, route |-> FilesOf(e)[i].route,
    role |-> FilesOf(e)[i].role, extraction |-> FilesOf(e)[i].values, failure |-> Nothing]
     : i \in DOMAIN FilesOf(e)}

-----------------------------------------------------------------------------
(* Cases *)

(* A difference nobody judged is a mismatch, and labelled as one. *)
SeedVerdicts(e, drafts) ==
  LET unjudged == EquivalenceQuestions(drafts) \ DOMAIN Recorded[e]
  IN  ResolveVerdicts([f \in ComparedFields |-> IF f \in unjudged THEN "MISMATCH" ELSE drafts[f]], Recorded[e])

Concluded(output, verdicts, diagnostics) ==
  [output |-> output, verdicts |-> verdicts, diagnostics |-> diagnostics,
   inReview |-> output.status = "NEEDS_REVIEW" \/ NeedsInteractiveReview(verdicts)]

(* A pair that is compared and was read from an image keeps its verdicts   *)
(* and is held all the same.                                               *)
ComparedPair(e, pair) ==
  LET compared == pair.diagnostics = {}
      verdicts == IF compared THEN SeedVerdicts(e, CompareFields(pair)) ELSE <<>>
      holds    == IF compared THEN ScanHolds(pair) ELSE pair.diagnostics
  IN  Concluded(IF holds # {} THEN StructuralOutput(holds) ELSE ComparisonOutput(verdicts), verdicts, holds)

ComparisonCase(e) == ComparedPair(e, AdmitPair(Analyses(e)))

(* A draft BL that is asked for is not compared yet. *)
Compared == {e \in Emails : Mail[e].category = "BL_COMPARISON" /\ ~(FilesOf(e) = <<>> /\ Mail[e].asks)}

SeedCase == [e \in Emails |-> IF e \in Compared THEN ComparisonCase(e) ELSE Concluded(AwaitingOutput, <<>>, {})]

-----------------------------------------------------------------------------
(* What others are given of a case *)

(* Only a case that was analysed knows the roles of its files. *)
Role(e, i) == IF Mail[e].category = "BL_COMPARISON" THEN FilesOf(e)[i].role ELSE Nothing

OfSide(e, role) == {i \in DOMAIN FilesOf(e) : Role(e, i) = role}

(* The numbers the Shipping Instruction prints, then those the email names. *)
Identifiers(e) ==
  LET si == OfSide(e, "SI")
      printed == FilesOf(e)[CHOOSE i \in si : \A j \in si : i <= j].numbers
  IN  [n \in Namespaces |->
         IF si # {} /\ printed[n] # Absent THEN printed[n] ELSE Mail[e].numbers[n]]

Documents(e) == {role \in {"SI", "DRAFT_BL"} : OfSide(e, role) # {}}

(* The row of the submission; a hold decides it, whatever was compared. *)
SubmissionRow(e) == OutputForSnapshot(SeedCase[e].diagnostics, SeedCase[e].verdicts)

=============================================================================
