------------------------------ MODULE JevClient ------------------------------
(***************************************************************************)
(* How a call of the hosted classifier becomes an answer or a failure      *)
(* (jev.py): the exception that ends a call, the envelope of a response,   *)
(* and each answer in it.  Gate 1's category client, the document role     *)
(* client and the equivalence client share these checks.  A failure is a   *)
(* record [from, code, retryable]; probabilities are hundredths.  An        *)
(* operator named "Mutant..." is a plausible bug; nothing uses it.         *)
(***************************************************************************)
EXTENDS Integers, Sequences, Functions

CONSTANT NoStatus   \* an exception without an HTTP status, a missing field

JevFailureCodes ==
  {"authentication_error", "rate_limited", "overloaded", "timeout", "connection_error",
   "server_error", "http_error", "malformed_response", "invalid_answer",
   "provider_unconfigured"}

JevFailure(code, retryable) == [from |-> "jev", code |-> code, retryable |-> retryable]

InvalidAnswer == JevFailure("invalid_answer", TRUE)

(* What every request ends with where no client is wired (_JevNotWired).   *)
Unwired == JevFailure("provider_unconfigured", FALSE)

(* An exception of the client library: [name, status], name one of         *)
(* "timeout", "malformed", "connection" and "other".  An exception of none *)
(* of the known kinds is raised as it is.                                  *)
Known(e) == e.name # "other" \/ e.status # NoStatus

ProviderError(e) ==
  CASE e.name = "timeout"      -> JevFailure("timeout", TRUE)
    [] e.name = "malformed"    -> JevFailure("malformed_response", TRUE)
    [] e.name \in {"connection", "other"} ->
         CASE e.status = NoStatus    -> JevFailure("connection_error", TRUE)
           [] e.status \in {401, 403} -> JevFailure("authentication_error", FALSE)
           [] e.status = 429         -> JevFailure("rate_limited", TRUE)
           [] e.status = 529         -> JevFailure("overloaded", TRUE)
           [] OTHER -> IF e.status >= 500 THEN JevFailure("server_error", TRUE)
                                          ELSE JevFailure("http_error", FALSE)

(* _call_batch: the pinned model, a request id, an answer for exactly the  *)
(* ids asked, checked in this order.  A response is a record [pinned,      *)
(* identified, complete].                                                  *)
EnvelopeFaults(response) ==
  IF ~response.pinned THEN {JevFailure("invalid_answer", FALSE)}
  ELSE IF ~response.identified THEN {JevFailure("malformed_response", TRUE)}
  ELSE IF ~response.complete THEN {InvalidAnswer}
  ELSE {}

Tolerance == 2      \* PROBABILITY_SUM_TOLERANCE

Within(low, high, x) == low <= x /\ x <= high

Distribution(probabilities, choices) ==
  /\ DOMAIN probabilities = choices
  /\ \A c \in choices : Within(0, 100, probabilities[c])
  /\ Within(100 - Tolerance, 100 + Tolerance, FoldFunction(+, 0, probabilities))

(* _parse_answer and _parse_role_answer: one choice of a closed set, with  *)
(* a confidence, the most probable one of a whole distribution.            *)
ChoiceAccepted(answer, choices) ==
  /\ answer.type = "choice"
  /\ answer.choice \in choices
  /\ Within(0, 100, answer.confidence)
  /\ Distribution(answer.probabilities, choices)
  /\ \A c \in choices : answer.probabilities[c] <= answer.probabilities[answer.choice]

(* _parse_noul: the probability that both values name the same thing. *)
NoulAccepted(answer) == answer.type = "noul" /\ Within(0, 100, answer.noul)

(* The consecutive batches a request is cut into, each asked on its own. *)
Batch(ids, size, start) ==
  SubSeq(ids, start, IF start + size - 1 <= Len(ids) THEN start + size - 1 ELSE Len(ids))

(* persistence._validate_document_role_decision, asked again before the    *)
(* decision is stored.                                                     *)
Storable(answer, choices) ==
  /\ answer.choice \in choices
  /\ DOMAIN answer.probabilities = choices
  /\ \A c \in choices : Within(0, 100, answer.probabilities[c])
  /\ Within(98, 102, FoldFunction(+, 0, answer.probabilities))

=============================================================================
