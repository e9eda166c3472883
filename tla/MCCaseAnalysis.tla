---------------------------- MODULE MCCaseAnalysis ----------------------------
(* Two runs that share a scanned Shipping Instruction: one pairs it with a *)
(* draft BL whose port the parser left open, the other has nothing beside  *)
(* it.  The other subjects reach the remaining ends, next to a run that    *)
(* awaits its documents.                                                   *)
EXTENDS CaseAnalysis

Value(name, code) == [name |-> name, code |-> code]
Klang == Value("Klang", "MYPKG")
Busan == Value("Busan", NoCode)
Kilos == Value("100", NoCode)

MCCategories == {"BL_COMPARISON", "QUOTATION"}

MCEmails == {"paired", "single", "clear", "twice", "mixed", "empty", "quote"}
MCSubjects ==
  {s \in [Runs -> MCEmails] :
     \/ s["r1"] = "paired" /\ s["r2"] = "single"
     \/ s["r1"] \in {"clear", "twice", "mixed", "quote"} /\ s["r2"] = "empty"}

MCMailbox == [e \in MCEmails |-> IF e = "mixed" THEN <<"quote", e>> ELSE <<e>>]
MCCategoryOf == [e \in MCEmails |-> IF e = "quote" THEN "QUOTATION" ELSE "BL_COMPARISON"]

MCAttachments == [e \in MCEmails |->
  CASE e = "paired" -> <<"scan", "open">>
    [] e = "single" -> <<"scan">>
    [] e = "clear"  -> <<"si", "draft", "note">>
    [] e = "twice"  -> <<"si", "draft", "draft">>
    [] e = "mixed"  -> <<"open", "broken", "photo", "si">>
    [] OTHER        -> <<>>]

MCContents == {"scan", "open", "draft", "broken", "photo", "si", "note"}
MCKind == [c \in MCContents |->
  CASE c = "scan" -> "scan" [] c = "broken" -> "unreadable" [] c = "photo" -> "unsupported"
    [] OTHER -> "text"]
MCRoleOf == [c \in MCContents |->
  CASE c \in {"scan", "si"} -> "SI" [] c \in {"open", "draft"} -> "DRAFT_BL" [] OTHER -> "OTHER"]
MCPrinted == [c \in MCContents |->
  CASE c = "open"  -> [weight |-> Kilos]
    [] c = "draft" -> [port |-> Busan, weight |-> Kilos]
    [] c = "note"  -> [port |-> Value("TBA", NoCode), weight |-> Kilos]
    [] c = "si"    -> [port |-> Klang, weight |-> Kilos]
    [] OTHER       -> <<>>]
MCInText == [c \in MCContents |-> {Klang}]

MCReadings == {[fields |-> [port |-> Klang, weight |-> Kilos], placed |-> TRUE],
               [fields |-> [weight |-> Kilos], placed |-> TRUE],
               [fields |-> [port |-> Busan, weight |-> Kilos], placed |-> FALSE]}

MCBadAnswers ==
  {[type |-> "choice", choice |-> "SI", confidence |-> 50,
    probabilities |-> [c \in Roles |-> IF c = "OTHER" THEN 60 ELSE 20]]}

MCEnvelopes == {[pinned |-> FALSE, identified |-> TRUE, complete |-> TRUE]}

MCExceptions == {[name |-> "timeout", status |-> NoStatus], [name |-> "other", status |-> NoStatus]}

===============================================================================
