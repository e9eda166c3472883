---------------------------- MODULE MCGraphChat ----------------------------
(* Six emails: a pair with differences, a scanned pair, a Shipping         *)
(* Instruction with two files nobody can read, a request for a draft BL,   *)
(* and two of other categories; and ledgers over three shipments: two that *)
(* share booking and container numbers with the first two emails in every  *)
(* way, and a third that tells of neither, of one, or of both.  Chats ask  *)
(* about one of the ledgers, where one shipment is cleared and two claim   *)
(* one case; so much of it tells of the question that the last email is    *)
(* not sent.                                                               *)
EXTENDS GraphChat

Value(name, code) == [name |-> name, code |-> code]
Named(b, k) == [booking |-> b, container |-> k]

Values(shipper, consignee, port, weight) ==
  [shipper |-> Value(shipper, NoCode), consignee |-> Value(consignee, NoCode),
   port |-> port, weight |-> Value(weight, NoCode)]

Text(name, role, values, numbers) ==
  [name |-> name, known |-> TRUE, status |-> "OK", route |-> "local", role |-> role,
   values |-> values, numbers |-> numbers]
Scan(name, role, values, numbers) == [Text(name, role, values, numbers) EXCEPT !.route = "gemini_scan"]
Broken(name, known, status) ==
  [name |-> name, known |-> known, status |-> status, route |-> "none", role |-> Nothing,
   values |-> <<>>, numbers |-> Named(Absent, Absent)]

Klang == Value("Klang", "MYPKG")
Blank == Named(Absent, Absent)

Message(category, asks, numbers, files) ==
  [category |-> category, asks |-> asks, numbers |-> numbers, files |-> files]

MCMail ==
  "c1" :> Message("BL_COMPARISON", FALSE, Named(Absent, 1),
            <<Text("si", "SI", Values("acme", "zeta", Klang, "90"), Named(1, Absent)),
              Text("bl", "DRAFT_BL", Values("zeta", "zeta", Value("Busan", NoCode), "100"), Blank)>>)
  @@ "c2" :> Message("BL_COMPARISON", FALSE, Named(1, 2),
            <<Scan("si", "SI", Values("acme", "acme", Klang, "90"), Named(2, 2)),
              Text("bl", "DRAFT_BL", Values("acme", "acme", Value("Port Klang", "MYPKG"), "90"), Blank)>>)
  @@ "c3" :> Message("BL_COMPARISON", FALSE, Blank,
            <<Text("order", "SI", Values("acme", "zeta", Klang, "90"), Named(3, Absent)),
              Broken("photo", TRUE, "UNREADABLE"), Broken("data", TRUE, "UNREADABLE")>>)
  @@ "c4" :> Message("BL_COMPARISON", TRUE, Named(4, Absent), <<>>)
  @@ "e5" :> Message("QUOTATION", FALSE, Blank, <<Broken("data", FALSE, "UNSUPPORTED")>>)
  @@ "e6" :> Message("OTHER", TRUE, Named(1, 1), <<>>)

MCReceived == <<"c1", "c2", "c3", "c4", "e5", "e6">>
MCRecorded == "c1" :> [port |-> 50] @@ "c2" :> [port |-> 90] @@ [e \in DOMAIN MCMail |-> <<>>]

(* "@@" makes TLC keep the values of a function. *)
Required == [s \in Shipments |-> {"SI", "DRAFT_BL"}] @@ <<>>
Attachments == [c \in Cases |-> Documents(c)] @@ <<>>
Printed == [c \in Cases |-> Identifiers(c)] @@ <<>>

Ledger(numbers, stale, lifecycle) ==
  [identifiers |-> numbers @@ Printed, stale |-> stale,
   lifecycle |-> "s1" :> lifecycle @@ [s \in Shipments |-> "BL_CHECK_REQUIRED"],
   required |-> Required, documents |-> Attachments]

MCLedgers ==
  {Ledger("s1" :> first @@ "s2" :> second @@ "s3" :> third, stale, lifecycle) :
     first, second \in {Named(b, k) : b, k \in {Absent, 1, 2}},
     third \in {Blank, Named(1, 2), Named(Absent, 2)},
     stale \in {{}, {"s1"}}, lifecycle \in {"BOOKED", "DRAFT_BL_EXPECTED"}}

Mixed ==
  Ledger("s1" :> Named(1, 1) @@ "s2" :> Named(2, 2) @@ "s3" :> Named(Absent, 2), {}, "DRAFT_BL_EXPECTED")

MCAsked(l) == IF l = Mixed THEN {"wrong", "blank"} ELSE {}
MCKeys(l) == IF l = Mixed THEN {0, 2} ELSE {2}

GraphKinds == {"email", "shipment", "party", "port", "document", "mismatch", "exception"}
Scores(f) == f @@ [kind \in GraphKinds |-> 0]
MCScore == [q \in {"wrong", "blank"} |-> Scores([email |-> 1, exception |-> 2, shipment |-> 2])]

Cite(ref, on, id) == [ref |-> ref, on |-> on, id |-> id]
Said(cites, marks) == [refused |-> FALSE, plain |-> TRUE, cites |-> cites, marks |-> marks]
Mail1 == Cite(1, "node", <<"email", "c1">>)
Mail6 == Cite(1, "node", <<"email", "e6">>)
Alone == Cite(2, "node", <<"exception", <<"c3", "UNMATCHED_CASE">>>>)
Link == Cite(2, "edge", <<"recon", "s1">>)
Claim == Cite(1, "node", <<"exception", <<"c2", "DUPLICATE_OR_AMBIGUOUS">>>>)
MCAnswers ==
  {Garbage, [Said(<<Mail1>>, {1}) EXCEPT !.refused = TRUE], [Said(<<Mail1>>, {1}) EXCEPT !.plain = FALSE],
   Said(<<Mail1>>, {1}), Said(<<Link, Mail1>>, {1, 2}), Said(<<Alone, Claim>>, {2}),
   Said(<<>>, {}), Said(<<Mail6>>, {1}), Said(<<Mail1>>, {1, 2}), Said(<<Mail1, [Link EXCEPT !.ref = 1]>>, {1}),
   Said(<<Cite(1, "both", <<"email", "c1">>)>>, {1}), Said(<<Cite(1, "node", <<"document", <<"si">>>>)>>, {})}

=============================================================================
