--------------------------- MODULE ComparisonProofs ---------------------------
(***************************************************************************)
(* Theorems about the operators of Comparison, for any fields, values,     *)
(* analyses and probabilities: which attachments are admitted as a pair    *)
(* and why the others are not, and that what is recorded for a case is     *)
(* accepted when it is written and read again the same way.                *)
(***************************************************************************)
EXTENDS Comparison, FiniteSetTheorems, WellFoundedInduction, TLAPS

(* A nonempty set of naturals has a least member. *)
LEMMA Least ==
  ASSUME NEW S \in SUBSET Nat, S # {}
  PROVE  \E m \in S : \A n \in S : m <= n
<1> DEFINE R == OpToRel(<, Nat)
<1>1. IsWellFoundedOn(R, Nat) BY NatLessThanWellFounded
<1>2. \A a, b \in Nat : <<a, b>> \in R <=> a < b BY DEF OpToRel
<1> HIDE DEF R
<1>3. PICK m \in S : \A n \in S : ~(<<n, m>> \in R) BY <1>1, WFMin
<1>4. \A n \in S : ~(n < m) BY <1>2, <1>3
<1>5. \A n \in S : n \in Nat /\ m \in Nat OBVIOUS
<1> QED BY ONLY m \in S, <1>4, <1>5

(* The first of some documents has the least number. *)
LEMMA FirstIsLeast ==
  ASSUME NEW S, S # {}, \A a \in S : a.doc \in Nat
  PROVE  First(S) \in S /\ \A b \in S : First(S).doc <= b.doc
<1> DEFINE docs == {a.doc : a \in S}
<1>1. docs \in SUBSET Nat /\ docs # {} OBVIOUS
<1>2. PICK m \in docs : \A n \in docs : m <= n BY ONLY <1>1, Least
<1>3. \E a \in S : \A b \in S : a.doc <= b.doc BY <1>2
<1> QED BY <1>3 DEF First

-----------------------------------------------------------------------------
(* Diagnostics *)

Reasons == {"UNREADABLE", "WRONG_DOC_TYPE", "MISSING_ATTACHMENT", "MISSING_VALUE"}

Reasoned(diagnostics) == \A d \in diagnostics : d.reason \in Reasons

(* The order of the reasons. *)
LEMMA PrecedenceIs ==
  /\ Precedence[1] = "UNREADABLE" /\ Precedence[2] = "WRONG_DOC_TYPE"
  /\ Precedence[3] = "MISSING_ATTACHMENT" /\ Precedence[4] = "MISSING_VALUE"
BY DEF Precedence

(* A case held for some diagnostics shows the reason of one of them, and   *)
(* an unreadable file comes before any other.                              *)
LEMMA ReasonShown ==
  ASSUME NEW D, D # {}, Reasoned(D)
  PROVE  /\ ReviewReason(D) \in Reasons /\ ReviewReason(D) # Nothing
         /\ \E d \in D : d.reason = ReviewReason(D)
         /\ Unreadable(D) => ReviewReason(D) = "UNREADABLE"
<1> DEFINE present == {i \in 1..4 : \E d \in D : d.reason = Precedence[i]}
           i == CHOOSE k \in present : \A j \in present : k <= j
<1>1. present # {}
  <2>1. PICK d \in D : d.reason \in Reasons BY DEF Reasoned
  <2>2. \E k \in 1..4 : d.reason = Precedence[k] BY <2>1, PrecedenceIs DEF Reasons
  <2> QED BY <2>2
<1>2. i \in present /\ \A j \in present : i <= j
  <2>1. present \in SUBSET Nat OBVIOUS
  <2>2. \E k \in present : \A j \in present : k <= j
    <3> HIDE DEF present
    <3> QED BY ONLY <1>1, <2>1, Least
  <2> HIDE DEF present
  <2> QED BY <2>2
<1>3. ReviewReason(D) = Precedence[i] BY <1>1 DEF ReviewReason
<1> HIDE DEF i
<1>4. i \in 1..4 /\ \E d \in D : d.reason = Precedence[i] BY <1>2
<1>5. Precedence[i] \in Reasons BY <1>4, PrecedenceIs DEF Reasons
<1>6. Precedence[i] # Nothing BY <1>5, ComparisonAssumption DEF Reasons
<1>7. ASSUME Unreadable(D) PROVE Precedence[i] = "UNREADABLE"
  <2>1. 1 \in present BY <1>7, PrecedenceIs DEF Unreadable
  <2>2. i <= 1 BY <1>2, <2>1
  <2>3. i = 1 BY <1>4, <2>2
  <2> QED BY <2>3, PrecedenceIs
<1> QED BY <1>3, <1>4, <1>5, <1>6, <1>7

(* What is said of files has a reason, and says which are unreadable. *)
LEMMA FilesReasoned ==
  ASSUME NEW A
  PROVE  /\ Reasoned(FileDiagnostics(A))
         /\ Unreadable(FileDiagnostics(A)) <=> \E a \in A : a.status = "UNREADABLE"
<1>1. \A d \in FileDiagnostics(A) : \E a \in A :
        /\ a.status # "OK"
        /\ d.reason = IF a.status = "UNREADABLE" THEN "UNREADABLE" ELSE "WRONG_DOC_TYPE"
  BY DEF FileDiagnostics, Diagnostic
<1>2. ASSUME NEW a \in A, a.status = "UNREADABLE"
      PROVE  \E d \in FileDiagnostics(A) : d.reason = "UNREADABLE"
  <2>1. Diagnostic("UNREADABLE", a, Nothing, Nothing) \in FileDiagnostics(A)
    BY <1>2 DEF FileDiagnostics
  <2> QED BY <2>1 DEF Diagnostic
<1> QED BY <1>1, <1>2 DEF Reasoned, Reasons, Unreadable

(* What is said of values is that they are missing, *)
LEMMA ValuesReasoned ==
  ASSUME NEW a
  PROVE  \A d \in ValueDiagnostics(a) : d.reason = "MISSING_VALUE"
BY DEF ValueDiagnostics, Diagnostic

(* and what is said of a pair is that it is none. *)
LEMMA PairReasoned ==
  ASSUME NEW A
  PROVE  \A d \in PairDiagnostics(A) : d.reason \in {"WRONG_DOC_TYPE", "MISSING_ATTACHMENT"}
<1> DEFINE Extra(role) == OfRole(A, role) \ {First(OfRole(A, role))}
           absent == {role \in {"SI", "DRAFT_BL"} : OfRole(A, role) = {}}
           others == {Diagnostic("WRONG_DOC_TYPE", a, "OTHER", Nothing) : a \in OfRole(A, "OTHER")}
           more == UNION {{Diagnostic("WRONG_DOC_TYPE", a, role, Nothing) : a \in Extra(role)} :
                            role \in {"SI", "DRAFT_BL"} \ absent}
           missing == {MissingRole(role) : role \in absent}
<1>1. PairDiagnostics(A) = others \cup more \cup missing BY DEF PairDiagnostics
<1>2. \A d \in others : d.reason = "WRONG_DOC_TYPE" BY DEF Diagnostic
<1>3. ASSUME NEW d \in more PROVE d.reason = "WRONG_DOC_TYPE"
  <2>1. PICK role \in {"SI", "DRAFT_BL"} \ absent :
          d \in {Diagnostic("WRONG_DOC_TYPE", a, role, Nothing) : a \in Extra(role)}
    OBVIOUS
  <2>2. PICK a \in Extra(role) : d = Diagnostic("WRONG_DOC_TYPE", a, role, Nothing) BY <2>1
  <2> QED BY <2>2 DEF Diagnostic
<1>4. \A d \in missing : d.reason = "MISSING_ATTACHMENT" BY DEF MissingRole
<1> QED BY <1>1, <1>2, <1>3, <1>4

-----------------------------------------------------------------------------
(* Records *)

(* What is recorded of a case is accepted when it is written, satisfies    *)
(* the contract of the evaluator, and is derived again from the evidence   *)
(* stored with it.                                                         *)
Agrees(output, diagnostics, verdicts) ==
  /\ Consistent(output) /\ ValidEvidence(output, diagnostics, verdicts)
  /\ SnapshotAccepts(verdicts) /\ OutputForSnapshot(diagnostics, verdicts) = output

(* An output that waits for documents agrees with no verdicts. *)
LEMMA AwaitingAgrees == Agrees(AwaitingOutput, {}, <<>>)
<1>1. DOMAIN <<>> = {} OBVIOUS
<1>2. AwaitingOutput.status = "OK" /\ AwaitingOutput.reason = Nothing /\ AwaitingOutput.defects = {}
  BY DEF AwaitingOutput, Output
<1> QED BY <1>1, <1>2 DEF Agrees, Consistent, ValidEvidence, SnapshotAccepts, OutputForSnapshot

(* structural_output: a case held for what its files or values lack, with  *)
(* nothing compared, is recorded and read again as it is.                  *)
THEOREM StructuralAgrees ==
  ASSUME NEW D, D # {}, Reasoned(D)
  PROVE  Agrees(StructuralOutput(D), D, <<>>)
<1> DEFINE output == StructuralOutput(D)
<1>1. output.status = "NEEDS_REVIEW" /\ output.reason = ReviewReason(D) /\ output.defects = {}
  BY DEF StructuralOutput, Output
<1>2. ReviewReason(D) # Nothing BY ReasonShown
<1>3. DOMAIN <<>> = {} OBVIOUS
<1>4. OutputForSnapshot(D, <<>>) = output BY DEF OutputForSnapshot
<1> HIDE DEF output
<1>5. Consistent(output) BY <1>1, <1>2 DEF Consistent
<1>6. ValidEvidence(output, D, <<>>) BY <1>1, <1>3 DEF ValidEvidence
<1> QED BY <1>3, <1>4, <1>5, <1>6 DEF Agrees, SnapshotAccepts, output

(* Whatever the classifier answers, each verdict of a pair is decided      *)
(* again from its probability as it was decided first.                     *)
LEMMA VerdictsAgree ==
  ASSUME NEW pair, NEW p, \A f \in EquivalenceQuestions(CompareFields(pair)) : p[f] \in Int
  PROVE  LET verdicts == ResolveVerdicts(CompareFields(pair), p)
         IN  /\ DOMAIN verdicts = ComparedFields
             /\ \A f \in ComparedFields : /\ verdicts[f].batch = BatchResult(verdicts[f])
                                          /\ verdicts[f].batch \in {"MATCH", "MISMATCH"}
<1> DEFINE drafts == CompareFields(pair)
           verdicts == ResolveVerdicts(drafts, p)
<1>1. DOMAIN verdicts = ComparedFields BY DEF ResolveVerdicts
<1>2. ASSUME NEW f \in ComparedFields
      PROVE  verdicts[f].batch = BatchResult(verdicts[f]) /\ verdicts[f].batch \in {"MATCH", "MISMATCH"}
  <2>1. drafts[f] \in {"MATCH", "MISMATCH", Nothing} BY DEF CompareFields
  <2>2. CASE drafts[f] # Nothing
    <3>1. verdicts[f].probability = Nothing /\ verdicts[f].batch = drafts[f]
      BY <2>2 DEF ResolveVerdicts
    <3> QED BY <2>1, <2>2, <3>1 DEF BatchResult
  <2>3. CASE drafts[f] = Nothing
    <3>1. f \in EquivalenceQuestions(drafts) BY <2>3 DEF EquivalenceQuestions
    <3>2. p[f] \in Int /\ p[f] # Nothing BY <3>1, ComparisonAssumption
    <3>3. /\ verdicts[f].probability = p[f]
          /\ verdicts[f].batch = IF Band(p[f]) = "MATCH" THEN "MATCH" ELSE "MISMATCH"
      BY <2>3 DEF ResolveVerdicts
    <3>4. Band(p[f]) = "MATCH" <=> p[f] >= 85 BY <3>2 DEF Band
    <3> HIDE DEF verdicts
    <3> QED BY <3>2, <3>3, <3>4 DEF BatchResult
  <2> QED BY <2>2, <2>3
<1> QED BY <1>1, <1>2

(* comparison_output: the published row of a compared case is the one its  *)
(* reviewer saw, whatever the classifier answered.                         *)
THEOREM ComparedAgrees ==
  ASSUME NEW pair, NEW p, \A f \in EquivalenceQuestions(CompareFields(pair)) : p[f] \in Int
  PROVE  LET verdicts == ResolveVerdicts(CompareFields(pair), p)
         IN  Agrees(ComparisonOutput(verdicts), {}, verdicts)
<1> DEFINE verdicts == ResolveVerdicts(CompareFields(pair), p)
           output == ComparisonOutput(verdicts)
           defects == {f \in ComparedFields : verdicts[f].batch = "MISMATCH"}
<1>1. DOMAIN verdicts = ComparedFields /\ \A f \in ComparedFields : verdicts[f].batch = BatchResult(verdicts[f])
  BY VerdictsAgree
<1> HIDE DEF verdicts
<1>2. output = Output(IF defects = {} THEN "OK" ELSE "MISMATCH", Nothing, defects)
  BY <1>1 DEF ComparisonOutput
<1>3. /\ output.status = IF defects = {} THEN "OK" ELSE "MISMATCH"
      /\ output.reason = Nothing /\ output.defects = defects
  BY <1>2 DEF Output
<1>4. SnapshotAccepts(verdicts) BY <1>1 DEF SnapshotAccepts
<1>5. Consistent(output)
  <2> HIDE DEF output, defects
  <2> QED BY <1>3 DEF Consistent
<1>6. ValidEvidence(output, {}, verdicts)
  <2>1. output.status # "NEEDS_REVIEW" BY <1>3
  <2> HIDE DEF output
  <2> QED BY <1>1, <2>1 DEF ValidEvidence
<1>7. OutputForSnapshot({}, verdicts) = output
  <2>1. defects = {f \in ComparedFields : BatchResult(verdicts[f]) = "MISMATCH"} BY <1>1
  <2>2. CASE ComparedFields = {}
    <3>1. defects = {} BY <2>2
    <3> QED BY <1>1, <1>2, <2>2, <3>1 DEF OutputForSnapshot, AwaitingOutput
  <2>3. CASE ComparedFields # {}
    BY <1>1, <1>2, <2>1, <2>3 DEF OutputForSnapshot
  <2> QED BY <2>2, <2>3
<1> QED BY <1>4, <1>5, <1>6, <1>7 DEF Agrees, verdicts

(* scan_holds: a compared pair that was read from an image is held, with   *)
(* its verdicts kept.                                                      *)
LEMMA HoldsAgree ==
  ASSUME NEW pair, NEW verdicts, ScanHolds(pair) # {}, DOMAIN verdicts = ComparedFields,
         SnapshotAccepts(verdicts)
  PROVE  Agrees(StructuralOutput(ScanHolds(pair)), ScanHolds(pair), verdicts)
<1> DEFINE D == ScanHolds(pair)
           output == StructuralOutput(D)
<1>1. \A d \in D : d.reason = "UNREADABLE" /\ d.route = "gemini_scan"
  BY DEF ScanHolds, UnreadableDocument, Diagnostic
<1>2. output.status = "NEEDS_REVIEW" /\ output.reason = ReviewReason(D) /\ output.defects = {}
  BY DEF StructuralOutput, Output
<1>3. OutputForSnapshot(D, verdicts) = output BY DEF OutputForSnapshot
<1> HIDE DEF D, output
<1>4. Reasoned(D) BY <1>1 DEF Reasoned, Reasons
<1>5. D # {} BY DEF D
<1>6. ReviewReason(D) # Nothing BY <1>4, <1>5, ReasonShown
<1>7. Consistent(output) BY <1>2, <1>6 DEF Consistent
<1>8. IsScanHold(D) BY <1>1, <1>5 DEF IsScanHold
<1>9. ValidEvidence(output, D, verdicts) BY <1>2, <1>5, <1>8 DEF ValidEvidence
<1> QED BY <1>3, <1>7, <1>9 DEF Agrees, D, output

-----------------------------------------------------------------------------
(* Admission *)

OneOf(A, role) == Cardinality(OfRole(A, role)) = 1

(* Attachments that are not one pair have something to say for it. *)
LEMMA NoPairDiagnosed ==
  ASSUME NEW A, NEW role \in {"SI", "DRAFT_BL"}, ~OneOf(A, role)
  PROVE  PairDiagnostics(A) # {}
<1> DEFINE first == First(OfRole(A, role))
<1>1. CASE OfRole(A, role) = {}
  <2>1. MissingRole(role) \in PairDiagnostics(A) BY <1>1 DEF PairDiagnostics
  <2> QED BY <2>1
<1>2. CASE OfRole(A, role) # {}
  <2>1. OfRole(A, role) # {first} BY FS_Singleton DEF OneOf
  <2>2. PICK a \in OfRole(A, role) : a # first BY <1>2, <2>1
  <2>3. Diagnostic("WRONG_DOC_TYPE", a, role, Nothing) \in PairDiagnostics(A)
    BY <1>2, <2>2 DEF PairDiagnostics
  <2> QED BY <2>3
<1> QED BY <1>1, <1>2

(* What the pair, the diagnostics or the failure says of the attachments. *)
Admits(A, pair) ==
  LET failed  == {a \in A : a.failure # Nothing}
      unread  == \E a \in A : a.status = "UNREADABLE"
      onePair == OneOf(A, "SI") /\ OneOf(A, "DRAFT_BL")
  IN  /\ pair.failure # Nothing <=> failed # {} /\ ~unread
      /\ pair.failure # Nothing => \E a \in failed : pair.failure = a.failure
      /\ Reasoned(pair.diagnostics)
      /\ unread => Unreadable(pair.diagnostics)
      /\ pair.failure = Nothing /\ pair.diagnostics = {} =>
           /\ failed = {} /\ ~unread /\ onePair
           /\ OfRole(A, "SI") = {pair.si} /\ OfRole(A, "DRAFT_BL") = {pair.bl}
           /\ \A f \in ComparedFields : /\ ~ValueFault(f, pair.si.extraction)
                                        /\ ~ValueFault(f, pair.bl.extraction)
      /\ pair.failure = Nothing /\ ~unread /\ ~onePair =>
           \E d \in pair.diagnostics : d.reason \in {"WRONG_DOC_TYPE", "MISSING_ATTACHMENT"}
      /\ failed = {} /\ ~unread /\ onePair => \A d \in pair.diagnostics : d.reason = "MISSING_VALUE"

(* admit_pair: a pair is compared only if every attachment was read and    *)
(* exactly one is a Shipping Instruction and one a draft BL, with every    *)
(* value there; a failed read leaves the case to be tried again unless     *)
(* some file cannot be read at all; such a file is always named; and an    *)
(* email with exactly one pair is held for nothing but its values.         *)
THEOREM PairAdmitted ==
  ASSUME NEW A, IsFiniteSet(A), \A a \in A : a.doc \in Nat
  PROVE  Admits(A, AdmitPair(A))
<1> DEFINE pair   == AdmitPair(A)
           failed == {a \in A : a.failure # Nothing}
           unread == \E a \in A : a.status = "UNREADABLE"
           onePair == OneOf(A, "SI") /\ OneOf(A, "DRAFT_BL")
           files  == FileDiagnostics(A)
           si     == First(OfRole(A, "SI"))
           bl     == First(OfRole(A, "DRAFT_BL"))
<1>1. Unreadable(files) <=> unread BY FilesReasoned
<1>2. Reasoned(files) BY FilesReasoned
<1>3. CASE failed # {} /\ unread
  <2>1. pair = [NoPair EXCEPT !.diagnostics = files] BY <1>1, <1>3 DEF AdmitPair
  <2>2. pair.failure = Nothing /\ pair.diagnostics = files BY <2>1 DEF NoPair
  <2>3. files # {} BY <1>1, <1>3 DEF Unreadable
  <2> HIDE DEF pair, files
  <2> QED BY <1>1, <1>2, <1>3, <2>2, <2>3 DEF Admits, pair
<1>4. CASE failed # {} /\ ~unread
  <2>1. pair = [NoPair EXCEPT !.failure = First(failed).failure] BY <1>1, <1>4 DEF AdmitPair
  <2>2. First(failed) \in failed
    <3>1. \A a \in failed : a.doc \in Nat OBVIOUS
    <3> HIDE DEF failed
    <3> QED BY ONLY <1>4, <3>1, FirstIsLeast
  <2>3. pair.failure = First(failed).failure /\ pair.diagnostics = {} BY <2>1 DEF NoPair
  <2>4. pair.failure # Nothing BY <2>2, <2>3
  <2>5. Reasoned(pair.diagnostics) BY <2>3 DEF Reasoned
  <2> HIDE DEF pair
  <2> QED BY <1>4, <2>2, <2>3, <2>4, <2>5 DEF Admits, pair
<1>5. CASE failed = {} /\ ~unread /\ onePair
  <2>1. pair = [si |-> si, bl |-> bl, failure |-> Nothing,
                diagnostics |-> ValueDiagnostics(si) \cup ValueDiagnostics(bl)]
    BY <1>1, <1>5 DEF AdmitPair, OneOf
  <2>2. \A d \in pair.diagnostics : d.reason = "MISSING_VALUE" BY <2>1, ValuesReasoned
  <2>3. ASSUME NEW role, OneOf(A, role)
        PROVE  OfRole(A, role) = {First(OfRole(A, role))}
    <3>1. IsFiniteSet(OfRole(A, role)) BY FS_Subset DEF OfRole
    <3>2. PICK x : OfRole(A, role) = {x} BY <2>3, <3>1, FS_Singleton DEF OneOf
    <3>3. First(OfRole(A, role)) = x
      <4>1. x \in A BY <3>2 DEF OfRole
      <4>2. x.doc <= x.doc BY <4>1
      <4> QED BY <3>2, <4>2 DEF First
    <3> QED BY <3>2, <3>3
  <2>4. OfRole(A, "SI") = {pair.si} /\ OfRole(A, "DRAFT_BL") = {pair.bl} BY <1>5, <2>1, <2>3
  <2>5. ASSUME pair.diagnostics = {}, NEW f \in ComparedFields
        PROVE  ~ValueFault(f, pair.si.extraction) /\ ~ValueFault(f, pair.bl.extraction)
    <3>1. ValueDiagnostics(pair.si) = {} /\ ValueDiagnostics(pair.bl) = {} BY <2>1, <2>5
    <3> HIDE DEF pair
    <3> QED BY <3>1 DEF ValueDiagnostics
  <2>6. Reasoned(pair.diagnostics) BY <2>2 DEF Reasoned, Reasons
  <2>7. pair.failure = Nothing BY <2>1
  <2> HIDE DEF pair
  <2> QED BY <1>5, <2>2, <2>4, <2>5, <2>6, <2>7 DEF Admits, pair
<1>6. CASE failed = {} /\ ~(~unread /\ onePair)
  <2>1. pair = [NoPair EXCEPT !.diagnostics = files \cup PairDiagnostics(A)]
    BY <1>1, <1>6 DEF AdmitPair, OneOf
  <2>2. pair.failure = Nothing /\ pair.diagnostics = files \cup PairDiagnostics(A)
    BY <2>1 DEF NoPair
  <2>3. \A d \in PairDiagnostics(A) : d.reason \in {"WRONG_DOC_TYPE", "MISSING_ATTACHMENT"}
    BY PairReasoned
  <2>4. Reasoned(pair.diagnostics) BY <1>2, <2>2, <2>3 DEF Reasoned, Reasons
  <2>5. unread => Unreadable(pair.diagnostics) BY <1>1, <2>2 DEF Unreadable
  <2>6. ~onePair => PairDiagnostics(A) # {} BY NoPairDiagnosed
  <2>7. ~onePair => \E d \in pair.diagnostics : d.reason \in {"WRONG_DOC_TYPE", "MISSING_ATTACHMENT"}
    BY <2>2, <2>3, <2>6
  <2>8. pair.diagnostics # {}
    <3>1. unread => \E d \in pair.diagnostics : TRUE BY <2>5 DEF Unreadable
    <3> QED BY <1>6, <2>7, <3>1
  <2> HIDE DEF pair
  <2> QED BY <1>6, <2>2, <2>4, <2>5, <2>7, <2>8 DEF Admits, pair
<1> QED BY <1>3, <1>4, <1>5, <1>6

=============================================================================
