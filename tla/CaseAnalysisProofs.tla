------------------------- MODULE CaseAnalysisProofs -------------------------
(***************************************************************************)
(* Theorems about CaseAnalysis, for any runs, mailboxes, attachments,      *)
(* numbers of keys, failures and resets: the attempts of a read account    *)
(* for its calls, the cache agrees with its readers, every conclusion      *)
(* leaves its trail, and what a run concludes is what its attachments and  *)
(* reads call for and is read again the same way.                          *)
(*                                                                         *)
(* The first inductive invariant says of each read how many keys it has    *)
(* called and left behind at each of its stages (Account, Served), of each *)
(* cache entry which read wrote it and that the read still holds it        *)
(* (Written), of each run what it cannot have touched yet (Order), and     *)
(* that a run past its record has left its trail (Recorded).  The second   *)
(* is relative to it: where a run is says which reads and answers it has   *)
(* behind it (Progress), and a result is one they call for (Due).          *)
(***************************************************************************)
EXTENDS CaseAnalysis, ComparisonProofs, SequenceTheorems, TLAPS

Outcomes == {"SUCCEEDED", "RATE_LIMITED", "FAILED"}

(* A value that is not in the text is not in it the next time. *)
ReadFailures == {f \in ExtractionFailures : f.code = "ungrounded_value" => ~f.retryable}

Reads == [at : {"none", "call", "store", "ok", "failed"}, attempts : Seq(Outcomes), calls : Nat,
          value : Values \cup {Nothing}, failure : ReadFailures \cup {Nothing}]

Shape ==
  /\ keys \in 0..2
  /\ subject \in [Runs -> Emails]
  /\ cache \in [Contents -> Values \cup {Nothing}]
  /\ DOMAIN phase = Runs /\ DOMAIN result = Runs
  /\ DOMAIN read = Runs /\ \A r \in Runs : read[r] \in [Docs(r) -> Reads]
  /\ DOMAIN role = Runs
  /\ \A r \in Runs : DOMAIN role[r] = Docs(r)
  /\ \A r \in Runs : \A i \in Docs(r) : role[r][i] = Nothing \/ role[r][i].choice \in Roles
  /\ failure \in [Runs -> JevFailures \cup {Nothing}]

(* What the stage of a read says of the keys it has called. *)
Account(x) ==
  LET n == Len(x.attempts)
  IN  /\ n <= keys
      /\ \A k \in 1..(n - 1) : x.attempts[k] = "RATE_LIMITED"
      /\ x.at = "none" => n = 0 /\ x.calls = 0
      /\ x.at = "call" =>
           /\ n > 0 => x.attempts[n] = "RATE_LIMITED"
           /\ x.calls = IF keys = 0 THEN 0 ELSE n + 1
           /\ keys > 0 => n < keys
      /\ x.at \in {"store", "ok"} =>
           x.calls = n /\ x.value # Nothing /\ (n > 0 => x.attempts[n] = "SUCCEEDED")
      /\ x.at = "store" => n > 0
      /\ x.at = "failed" <=> x.failure # Nothing
      /\ x.at = "failed" =>
           IF x.failure.code = "timeout" THEN x.calls = n + 1 /\ n < keys
           ELSE x.calls = n /\ (n > 0 /\ x.attempts[n] = "RATE_LIMITED" => n = keys)

(* A value that took no call is the one the cache holds. *)
Served(r, i) ==
  read[r][i].at = "ok" /\ Len(read[r][i].attempts) = 0 => cache[Content(r, i)] = read[r][i].value

Writing(e) == e.kind = "EXTRACTION_CACHED"

(* Who wrote a cache entry still holds what it wrote, unless its run ended *)
(* with an error, and read no more.                                        *)
Written ==
  /\ \A e \in trail : Writing(e) =>
       /\ e.run \in Runs /\ e.doc \in Docs(e.run) /\ e.content = Content(e.run, e.doc)
       /\ cache[e.content] = e.detail /\ e.detail # Nothing
       /\ \/ read[e.run][e.doc].at = "ok" /\ read[e.run][e.doc].value = e.detail
          \/ read[e.run][e.doc].at = "none" /\ phase[e.run] = "done"
  /\ \A c \in Contents : cache[c] # Nothing => \E e \in trail : Writing(e) /\ e.content = c
  /\ \A e, x \in trail : Writing(e) /\ Writing(x) /\ e.content = x.content => e = x

Early == {"classify", "preflight"}
Asking == Early \cup {"scans", "roles"}

(* What a run cannot have touched yet. *)
Order(r) ==
  /\ phase[r] \in Early => \A i \in Docs(r) : read[r][i].at = "none" /\ role[r][i] = Nothing
  /\ phase[r] \in Asking \cup {"texts"} => failure[r] = Nothing
  /\ phase[r] \in Asking \/ failure[r] # Nothing =>
       \A i \in Docs(r) : Kind[Content(r, i)] = "text" => read[r][i].at = "none"

(* The trail of a run is complete. *)
Covered(r) ==
  \A i \in Docs(r) :
    LET Kept(kind) == \E e \in trail : e.kind = kind /\ e.run = r /\ e.doc = i
    IN  /\ role[r][i] # Nothing => Kept("DOCUMENT_ROLE_DECIDED")
        /\ read[r][i].at = "failed" => Kept("EXTRACTION_FAILED")
        /\ UsedSecondKey(read[r][i].attempts) => Kept("GEMINI_SECOND_KEY_USED")
        /\ failure[r] # Nothing /\ HasText(r, i) => Kept("DOCUMENT_ROLE_FAILED")

Recorded(r) ==
  phase[r] = "equivalence" \/ (phase[r] = "done" /\ result[r].state \notin {"ERROR", "REFUSED"}) => Covered(r)

AInv ==
  /\ Shape
  /\ \A r \in Runs : \A i \in Docs(r) : Account(read[r][i]) /\ Served(r, i)
  /\ Written
  /\ \A r \in Runs : Order(r) /\ Recorded(r)

-----------------------------------------------------------------------------
(* Data *)

(* What a document holds is a content. *)
LEMMA ContentTyped ==
  ASSUME Shape, NEW r \in Runs, NEW i \in Docs(r)
  PROVE  Content(r, i) \in Contents
BY DEF Shape, Content, Contents, Docs

(* Every failure of a read is one the code gives it, and only a call that  *)
(* times out fails with a timeout.                                         *)
LEMMA FailuresTyped ==
  /\ \A code \in ExtractionFailureCodes \ {"ungrounded_value"}, b \in BOOLEAN :
       GeminiFailure(code, b) \in ReadFailures
  /\ Nothing \notin ReadFailures /\ Nothing \notin JevFailures
  /\ \A status : CallFailure(status) \in ReadFailures /\ CallFailure(status).code # "timeout"
  /\ \A c, reading : \A f \in Unusable(c, reading) : f \in ReadFailures /\ f.code # "timeout"
<1>1. \A code \in ExtractionFailureCodes, b \in BOOLEAN :
        /\ GeminiFailure(code, b) \in ExtractionFailures /\ GeminiFailure(code, b).code = code
        /\ code # "ungrounded_value" \/ ~b => GeminiFailure(code, b) \in ReadFailures
  BY DEF GeminiFailure, ExtractionFailures, ReadFailures
<1>2. Nothing \notin ReadFailures /\ Nothing \notin JevFailures BY AnalysisAssumption DEF ReadFailures
<1>3. {"rate_limited", "provider_rejected", "provider_error", "invalid_schema", "ungrounded_value"}
        \subseteq ExtractionFailureCodes \ {"timeout"}
  BY DEF ExtractionFailureCodes
<1>4. ASSUME NEW status
      PROVE  CallFailure(status) \in ReadFailures /\ CallFailure(status).code # "timeout"
  <2>1. \/ CallFailure(status) = GeminiFailure("rate_limited", TRUE)
        \/ CallFailure(status) = GeminiFailure("provider_rejected", FALSE)
        \/ CallFailure(status) = GeminiFailure("provider_error", TRUE)
    BY DEF CallFailure
  <2> QED BY <1>1, <1>3, <2>1
<1>5. ASSUME NEW c, NEW reading, NEW f \in Unusable(c, reading)
      PROVE  f \in ReadFailures /\ f.code # "timeout"
  <2>1. f = GeminiFailure("invalid_schema", TRUE) \/ f = GeminiFailure("ungrounded_value", FALSE)
    BY Zenon DEF Unusable
  <2> QED BY <1>1, <1>3, <2>1
<1> QED BY <1>1, <1>2, <1>4, <1>5

(* So is every failure of a request to the classifier. *)
LEMMA RequestFailuresTyped ==
  ASSUME NEW refused
  PROVE  CaseFailures(refused) \subseteq JevFailures
<1>1. \A code \in JevFailureCodes, b \in BOOLEAN : JevFailure(code, b) \in JevFailures
  BY DEF JevFailure, JevFailures
<1>2. InvalidAnswer \in JevFailures BY <1>1 DEF InvalidAnswer, JevFailureCodes
<1>3. \A e \in Exceptions : Known(e) => ProviderError(e) \in JevFailures
  BY AnalysisAssumption DEF Known, ProviderError, JevFailure, JevFailures, JevFailureCodes
<1>4. ASSUME NEW x, NEW f \in EnvelopeFaults(x)
      PROVE  f \in JevFailures
  <2>1. \/ f = JevFailure("invalid_answer", FALSE) \/ f = JevFailure("malformed_response", TRUE)
        \/ f = InvalidAnswer
    BY Zenon DEF EnvelopeFaults
  <2> QED BY <1>1, <1>2, <2>1 DEF JevFailureCodes
<1> DEFINE Raised == {ProviderError(e) : e \in {y \in Exceptions : Known(y)}}
           Malformed == UNION {EnvelopeFaults(x) : x \in Envelopes}
           Refused == {InvalidAnswer : a \in refused}
<1>5. RequestFailures(refused) = Raised \cup Refused \cup Malformed BY DEF RequestFailures
<1>6. Raised \subseteq JevFailures BY <1>3
<1>7. Malformed \subseteq JevFailures BY <1>4
<1>8. Refused \subseteq JevFailures BY <1>2
<1>9. Unwired \in JevFailures BY <1>1 DEF Unwired, JevFailureCodes
<1> QED BY <1>5, <1>6, <1>7, <1>8, <1>9 DEF CaseFailures

(* A read that was tried once more, and how it ended. *)
LEMMA Tried ==
  ASSUME NEW s \in Seq(Outcomes), NEW o \in Outcomes
  PROVE  /\ Append(s, o) \in Seq(Outcomes) /\ Len(Append(s, o)) = Len(s) + 1
         /\ Append(s, o)[Len(s) + 1] = o
         /\ \A k \in 1..Len(s) : Append(s, o)[k] = s[k]
OBVIOUS

-----------------------------------------------------------------------------
(* Reads *)

(* A step of one read: it goes on as y says, and may fill the cache. *)
Moves(r, i, y) ==
  /\ y \in Reads /\ y.at # "none" /\ read[r][i].at \notin {"ok", "failed"}
  /\ read' = [read EXCEPT ![r][i] = y]
  /\ \/ UNCHANGED <<cache, trail>> /\ (y.at = "ok" /\ Len(y.attempts) = 0 => cache[Content(r, i)] = y.value)
     \/ /\ y.at = "ok" /\ Len(y.attempts) > 0 /\ cache[Content(r, i)] = Nothing
        /\ cache' = [cache EXCEPT ![Content(r, i)] = y.value]
        /\ trail' = trail \cup {Event("EXTRACTION_CACHED", r, i, y.value)}

(* A step of a read moves that read alone, and leaves it accounted for. *)
LEMMA ReadMoves ==
  ASSUME Shape, NEW r \in Runs, NEW i \in Docs(r), Account(read[r][i]),
         ReadStep(r, i), ~CacheUnreachable(r, i)
  PROVE  \E y : Moves(r, i, y) /\ Account(y)
<1> DEFINE x == read[r][i]
           n == Len(x.attempts)
<1> USE FailuresTyped
<1>1. x \in Reads /\ n \in Nat /\ keys \in 0..2 /\ x.attempts \in Seq(Outcomes) BY DEF Shape, Reads
<1>2. Content(r, i) \in Contents BY ContentTyped
<1>3. CASE CacheHits(r, i)
  <2> DEFINE y == [x EXCEPT !.at = "ok", !.value = cache[Content(r, i)]]
  <2>1. y \in Reads BY <1>1, <1>2, <1>3 DEF Shape, Reads
  <2>2. x.at = "none" /\ cache[Content(r, i)] # Nothing BY <1>3 DEF CacheHits
  <2>3. Account(y) BY <1>1, <2>1, <2>2 DEF Account, Reads
  <2>4. Moves(r, i, y) BY <1>1, <1>3, <2>1 DEF Moves, CacheHits, Reads
  <2> QED BY <2>3, <2>4
<1>4. CASE CacheMisses(r, i)
  <2> DEFINE y == [x EXCEPT !.at = "call", !.calls = IF keys = 0 THEN 0 ELSE 1]
  <2>1. y \in Reads BY <1>1 DEF Reads
  <2>2. Account(y) BY <1>1, <1>4, <2>1 DEF CacheMisses, Account, Reads
  <2>3. Moves(r, i, y) BY <1>1, <1>4, <2>1 DEF Moves, CacheMisses, Reads
  <2> QED BY <2>2, <2>3
<1>5. CASE \E reading \in Readings : KeyAnswers(r, i, reading)
  <2>1. PICK reading \in Readings : KeyAnswers(r, i, reading) BY <1>5
  <2> DEFINE s == Append(x.attempts, "SUCCEEDED")
             v == Found(Content(r, i), reading)
  <2>2. s \in Seq(Outcomes) /\ Len(s) = n + 1 /\ s[n + 1] = "SUCCEEDED" /\ \A k \in 1..n : s[k] = x.attempts[k]
    BY <1>1, Tried DEF Outcomes
  <2>3. v \in Values /\ v # Nothing BY <1>2, ReadingAssumption DEF Values
  <2>4. x.at = "call" /\ keys > 0 BY <2>1 DEF KeyAnswers, Calling
  <2>5. CASE Unusable(Content(r, i), reading) = {}
    <3> DEFINE y == [x EXCEPT !.at = "store", !.attempts = s, !.value = v]
    <3>1. y \in Reads BY <1>1, <2>2, <2>3 DEF Reads
    <3>2. Account(y) BY <1>1, <2>2, <2>3, <2>4 DEF Account, Reads
    <3>3. Moves(r, i, y) BY <1>1, <2>1, <2>4, <2>5, <3>1 DEF Moves, KeyAnswers, Reads
    <3> QED BY <3>2, <3>3
  <2>6. CASE Unusable(Content(r, i), reading) # {}
    <3>1. PICK f \in Unusable(Content(r, i), reading) : Fail(r, i, s, f) BY <2>1, <2>6 DEF KeyAnswers
    <3> DEFINE y == [x EXCEPT !.at = "failed", !.attempts = s, !.failure = f]
    <3>2. f \in ReadFailures /\ f.code # "timeout" /\ f # Nothing BY <3>1
    <3>3. y \in Reads BY <1>1, <2>2, <3>2 DEF Reads
    <3>6. y.at = "failed" /\ y.attempts = s /\ y.failure = f /\ y.calls = x.calls BY <1>1 DEF Reads
    <3>7. x.calls = n + 1 /\ n < keys /\ \A k \in 1..n : x.attempts[k] = "RATE_LIMITED"
      BY <1>1, <2>4 DEF Account
    <3>4. Account(y)
      <4>1. f # Nothing /\ f.code # "timeout" BY <3>2
      <4>2. n \in Nat /\ keys \in 0..2 BY <1>1
      <4> HIDE DEF s, y
      <4> QED BY ONLY <2>2, <3>6, <3>7, <4>1, <4>2 DEF Account
    <3>5. Moves(r, i, y) BY <1>1, <2>1, <2>4, <3>1, <3>3 DEF Moves, KeyAnswers, Fail, Reads
    <3> QED BY <3>4, <3>5
  <2> QED BY <2>5, <2>6
<1>6. ASSUME NEW o \in Outcomes, NEW f \in ReadFailures, f.code # "timeout",
             o = "RATE_LIMITED" => n + 1 = keys,
             x.at = "call", keys > 0, Fail(r, i, Append(x.attempts, o), f), UNCHANGED <<cache, trail>>
      PROVE  \E y : Moves(r, i, y) /\ Account(y)
  <2> DEFINE s == Append(x.attempts, o)
             y == [x EXCEPT !.at = "failed", !.attempts = s, !.failure = f]
  <2>1. s \in Seq(Outcomes) /\ Len(s) = n + 1 /\ s[n + 1] = o /\ \A k \in 1..n : s[k] = x.attempts[k]
    BY <1>1, Tried
  <2>2. y \in Reads BY <1>1, <2>1 DEF Reads
  <2>5. y.at = "failed" /\ y.attempts = s /\ y.failure = f /\ y.calls = x.calls BY <1>1 DEF Reads
  <2>6. x.calls = n + 1 /\ n < keys /\ \A k \in 1..n : x.attempts[k] = "RATE_LIMITED"
    BY <1>1, <1>6 DEF Account
  <2>3. Account(y)
    <3>1. f # Nothing OBVIOUS
    <3> HIDE DEF s, y
    <3> QED BY ONLY <1>1, <1>6, <2>1, <2>5, <2>6, <3>1 DEF Account
  <2>4. Moves(r, i, y) BY <1>1, <1>6, <2>2 DEF Moves, Fail, Reads
  <2> QED BY <2>3, <2>4
<1>7. {"invalid_schema", "provider_unconfigured", "timeout"} \subseteq ExtractionFailureCodes \ {"ungrounded_value"}
  BY DEF ExtractionFailureCodes
<1>8. CASE KeyGarbles(r, i)
  <2>1. GeminiFailure("invalid_schema", TRUE) \in ReadFailures BY <1>7
  <2>2. GeminiFailure("invalid_schema", TRUE).code # "timeout" BY DEF GeminiFailure
  <2> QED BY <1>6, <1>8, <2>1, <2>2 DEF KeyGarbles, Calling, Outcomes
<1>9. CASE \E status \in {403, 503} : KeyFails(r, i, status)
  BY <1>6, <1>9 DEF KeyFails, Calling, Outcomes
<1>10. CASE KeyLimited(r, i)
  <2> DEFINE s == Append(x.attempts, "RATE_LIMITED")
  <2>1. s \in Seq(Outcomes) /\ Len(s) = n + 1 /\ s[n + 1] = "RATE_LIMITED" /\ \A k \in 1..n : s[k] = x.attempts[k]
    BY <1>1, Tried DEF Outcomes
  <2>2. x.at = "call" /\ keys > 0 /\ n < keys BY <1>10 DEF KeyLimited, Calling, Account
  <2>3. CASE n + 1 < keys
    <3> DEFINE more == x.calls + 1
               y == [x EXCEPT !.attempts = s, !.calls = more]
    <3>4. more \in Nat BY <1>1 DEF Reads
    <3>1. y \in Reads
      <4> HIDE DEF s, more
      <4> QED BY <1>1, <2>1, <3>4 DEF Reads
    <3>2. Account(y) BY <1>1, <2>1, <2>2, <2>3 DEF Account, Reads
    <3>5. read' = [read EXCEPT ![r][i] = y] /\ UNCHANGED <<cache, trail>>
      <4>1. Len(s) < keys BY <2>1, <2>3
      <4> QED BY <1>10, <4>1 DEF KeyLimited
    <3>3. Moves(r, i, y) BY <1>1, <2>2, <3>1, <3>5 DEF Moves, Reads
    <3> QED BY <3>2, <3>3
  <2>4. CASE ~(n + 1 < keys)
    <3>1. n + 1 = keys BY <1>1, <2>2, <2>4
    <3>2. Fail(r, i, s, CallFailure(429)) /\ UNCHANGED <<cache, trail>>
      BY <1>10, <2>1, <2>4 DEF KeyLimited
    <3> QED BY <1>6, <2>2, <3>1, <3>2 DEF Outcomes
  <2> QED BY <2>3, <2>4
<1>11. CASE CallTimesOut(r, i)
  <2> DEFINE f == GeminiFailure("timeout", TRUE)
             y == [x EXCEPT !.at = "failed", !.attempts = x.attempts, !.failure = f]
  <2>1. f \in ReadFailures /\ f # Nothing BY <1>7
  <2>2. f.code = "timeout" BY DEF GeminiFailure
  <2>3. x.at = "call" /\ keys > 0 BY <1>11 DEF CallTimesOut, Calling
  <2>4. y \in Reads BY <1>1, <2>1 DEF Reads
  <2>7. y.at = "failed" /\ y.attempts = x.attempts /\ y.failure = f /\ y.calls = x.calls BY <1>1 DEF Reads
  <2>8. x.calls = n + 1 /\ n < keys /\ \A k \in 1..(n - 1) : x.attempts[k] = "RATE_LIMITED"
    BY <1>1, <2>3 DEF Account
  <2>5. Account(y) BY <1>1, <2>1, <2>2, <2>3, <2>7, <2>8 DEF Account
  <2>6. Moves(r, i, y) BY <1>1, <1>11, <2>3, <2>4 DEF Moves, CallTimesOut, Fail, Reads
  <2> QED BY <2>5, <2>6
<1>12. CASE NotConfigured(r, i)
  <2> DEFINE f == GeminiFailure("provider_unconfigured", FALSE)
             y == [x EXCEPT !.at = "failed", !.attempts = <<>>, !.failure = f]
  <2>1. f \in ReadFailures /\ f # Nothing BY <1>7
  <2>2. f.code # "timeout" BY DEF GeminiFailure
  <2>3. x.at = "call" /\ keys = 0 BY <1>12 DEF NotConfigured
  <2>4. y \in Reads
    <3>1. <<>> \in Seq(Outcomes) OBVIOUS
    <3> QED BY <1>1, <2>1, <3>1 DEF Reads
  <2>7. y.at = "failed" /\ y.attempts = <<>> /\ y.failure = f /\ y.calls = x.calls BY <1>1 DEF Reads
  <2>8. x.calls = 0
    BY <1>1, <2>3 DEF Account
  <2>5. Account(y)
    <3>1. Len(y.attempts) = 0 BY <2>7
    <3> HIDE DEF f, y
    <3> QED BY ONLY <1>1, <2>1, <2>2, <2>3, <2>7, <2>8, <3>1 DEF Account
  <2>6. Moves(r, i, y) BY <1>1, <1>12, <2>3, <2>4 DEF Moves, NotConfigured, Fail, Reads
  <2> QED BY <2>5, <2>6
<1>13. ASSUME x.at = "store", read' = [read EXCEPT ![r][i].at = "ok"],
              \/ UNCHANGED <<cache, trail>>
              \/ /\ cache[Content(r, i)] = Nothing
                 /\ cache' = [cache EXCEPT ![Content(r, i)] = x.value]
                 /\ trail' = trail \cup {Event("EXTRACTION_CACHED", r, i, x.value)}
       PROVE  \E y : Moves(r, i, y) /\ Account(y)
  <2> DEFINE y == [x EXCEPT !.at = "ok"]
  <2>1. y \in Reads BY <1>1 DEF Reads
  <2>2. Account(y) BY <1>1, <1>13 DEF Account, Reads
  <2>3. n > 0 BY <1>13 DEF Account
  <2>4. y.at = "ok" /\ y.attempts = x.attempts /\ y.value = x.value BY <1>1 DEF Reads
  <2>5. read' = [read EXCEPT ![r][i] = y] BY <1>13
  <2>6. Moves(r, i, y) BY <1>1, <1>13, <2>1, <2>3, <2>4, <2>5 DEF Moves
  <2> QED BY <2>2, <2>6
<1>14. CASE StoreResult(r, i) BY <1>13, <1>14 DEF StoreResult
<1>15. CASE StoreFails(r, i) BY <1>13, <1>15 DEF StoreFails
<1> QED
  BY <1>3, <1>4, <1>5, <1>8, <1>9, <1>10, <1>11, <1>12, <1>14, <1>15 DEF ReadStep

(* What a step of a read leaves alone, and which read it is. *)
LEMMA ReadFrame ==
  ASSUME NEW r \in Runs, NEW i \in Docs(r), ReadStep(r, i)
  PROVE  /\ UNCHANGED <<keys, subject, role, failure>>
         /\ ~CacheUnreachable(r, i) => UNCHANGED <<phase, result>>
         /\ Reading(r, i)
BY DEF ReadStep, CacheHits, CacheMisses, KeyAnswers, KeyGarbles, KeyLimited, KeyFails, CallTimesOut,
       NotConfigured, StoreResult, StoreFails, CacheUnreachable, Calling, calm, given

(* While runs keep their emails, documents keep their content. *)
LEMMA SameContent ==
  ASSUME UNCHANGED subject
  PROVE  \A r : Docs(r)' = Docs(r) /\ \A i : Content(r, i)' = Content(r, i)
BY DEF Docs, Content

(* A read that moves leaves every entry of the cache with its one writer. *)
LEMMA MovesWritten ==
  ASSUME AInv, NEW r \in Runs, NEW i \in Docs(r), NEW y, Moves(r, i, y), Account(y),
         phase[r] # "done", UNCHANGED <<subject, phase>>
  PROVE  Written'
<1> DEFINE c == Content(r, i)
           new == Event("EXTRACTION_CACHED", r, i, y.value)
<1>1. c \in Contents BY ContentTyped DEF AInv
<1>2. DOMAIN read = Runs /\ DOMAIN read[r] = Docs(r) /\ cache \in [Contents -> Values \cup {Nothing}]
  BY DEF AInv, Shape
<1>3. \A q \in Runs : \A j \in Docs(q) : q # r \/ j # i => read'[q][j] = read[q][j]
  BY <1>2 DEF Moves
<1>4. read'[r][i] = y BY <1>2 DEF Moves
<1>5. ASSUME NEW e \in trail, Writing(e)
      PROVE  /\ e.run \in Runs /\ e.doc \in Docs(e.run)' /\ e.content = Content(e.run, e.doc)'
             /\ cache'[e.content] = e.detail /\ cache[e.content] = e.detail /\ e.detail # Nothing
             /\ \/ read'[e.run][e.doc].at = "ok" /\ read'[e.run][e.doc].value = e.detail
                \/ read'[e.run][e.doc].at = "none" /\ phase'[e.run] = "done"
  <2>1. /\ e.run \in Runs /\ e.doc \in Docs(e.run) /\ e.content = Content(e.run, e.doc)
        /\ cache[e.content] = e.detail /\ e.detail # Nothing
        /\ \/ read[e.run][e.doc].at = "ok" /\ read[e.run][e.doc].value = e.detail
           \/ read[e.run][e.doc].at = "none" /\ phase[e.run] = "done"
    BY <1>5 DEF AInv, Written
  <2>2. e.run # r \/ e.doc # i BY <2>1 DEF Moves
  <2>3. e.content \in Contents BY <2>1, ContentTyped DEF AInv
  <2>4. cache'[e.content] = e.detail BY <1>1, <1>2, <2>1, <2>3 DEF Moves
  <2> QED BY <1>3, <2>1, <2>2, <2>4, SameContent
<1>6. \A d \in Contents : cache[d] # Nothing => \E e \in trail : Writing(e) /\ e.content = d
  BY DEF AInv, Written
<1>7. \A e, x \in trail : Writing(e) /\ Writing(x) /\ e.content = x.content => e = x
  BY DEF AInv, Written
<1>8. CASE UNCHANGED <<cache, trail>>
  BY <1>5, <1>6, <1>7, <1>8 DEF Written
<1>9. CASE /\ y.at = "ok" /\ cache[c] = Nothing /\ cache' = [cache EXCEPT ![c] = y.value]
           /\ trail' = trail \cup {new}
  <2>1. new.run = r /\ new.doc = i /\ new.content = c /\ new.detail = y.value /\ Writing(new)
    BY DEF Event, Writing
  <2>2. y.value # Nothing BY <1>9 DEF Account
  <2>3. cache'[c] = y.value BY <1>1, <1>2, <1>9
  <2>4. /\ r \in Runs /\ i \in Docs(r)' /\ c = Content(r, i)' /\ cache'[c] = y.value
        /\ read'[r][i].at = "ok" /\ read'[r][i].value = y.value
    BY <1>4, <1>9, <2>3, SameContent
  <2>5. \A e \in trail : Writing(e) => e.content # c BY <1>5, <1>9
  <2>6. \A d \in Contents : cache'[d] # Nothing => d = c \/ cache[d] # Nothing BY <1>2, <1>9
  <2> HIDE DEF new, c
  <2>7. ASSUME NEW e \in trail', Writing(e)
        PROVE  /\ e.run \in Runs /\ e.doc \in Docs(e.run)' /\ e.content = Content(e.run, e.doc)'
               /\ cache'[e.content] = e.detail /\ e.detail # Nothing
               /\ \/ read'[e.run][e.doc].at = "ok" /\ read'[e.run][e.doc].value = e.detail
                  \/ read'[e.run][e.doc].at = "none" /\ phase'[e.run] = "done"
    <3>1. CASE e \in trail BY <1>5, <2>7, <3>1
    <3>2. CASE e = new
      <4>1. e.run = r /\ e.doc = i /\ e.content = c /\ e.detail = y.value BY <2>1, <3>2
      <4> QED BY <2>2, <2>4, <4>1
    <3> QED BY <1>9, <2>7, <3>1, <3>2
  <2>8. \A d \in Contents : cache'[d] # Nothing => \E e \in trail' : Writing(e) /\ e.content = d
    BY <1>6, <1>9, <2>1, <2>6
  <2>9. \A e, x \in trail' : Writing(e) /\ Writing(x) /\ e.content = x.content => e = x
    BY <1>7, <1>9, <2>1, <2>5

  <2> QED BY <2>7, <2>8, <2>9 DEF Written, Writing
<1> QED BY <1>8, <1>9 DEF Moves

-----------------------------------------------------------------------------
(* Trails *)

(* A run that has not come to its reads has nothing to put on record. *)
LEMMA UntouchedCovered ==
  ASSUME AInv, NEW r \in Runs, phase[r] \in Early
  PROVE  Covered(r)
<1>1. failure[r] = Nothing BY DEF AInv, Order, Asking
<1>2. ASSUME NEW i \in Docs(r)
      PROVE  role[r][i] = Nothing /\ read[r][i].at = "none" /\ ~UsedSecondKey(read[r][i].attempts)
  <2>1. role[r][i] = Nothing /\ read[r][i].at = "none" BY DEF AInv, Order
  <2>2. Len(read[r][i].attempts) = 0 BY <2>1 DEF AInv, Account
  <2> QED BY <2>1, <2>2 DEF UsedSecondKey
<1> QED BY <1>1, <1>2 DEF Covered

(* What is on record stays so. *)
LEMMA CoveredStays ==
  ASSUME NEW r \in Runs, Covered(r), UNCHANGED subject, read'[r] = read[r], role'[r] = role[r],
         failure'[r] = failure[r], trail \subseteq trail'
  PROVE  Covered(r)'
<1>1. \A i : HasText(r, i)' = HasText(r, i) BY SameContent DEF HasText
<1> QED BY <1>1, SameContent DEF Covered

(* A run that goes on as another takes a step. *)
LEMMA OthersStay ==
  ASSUME NEW r \in Runs, Order(r), Recorded(r), UNCHANGED subject, read'[r] = read[r], role'[r] = role[r],
         failure'[r] = failure[r], phase'[r] = phase[r], result'[r] = result[r], trail \subseteq trail'
  PROVE  Order(r)' /\ Recorded(r)'
<1>1. Order(r)' BY SameContent DEF Order
<1>2. Recorded(r)' BY CoveredStays DEF Recorded
<1> QED BY <1>1, <1>2

(* Nothing is left to record: the trail is complete. *)
LEMMA PendingCovered ==
  ASSUME AInv, NEW r \in Runs, Pending(r) = {}
  PROVE  Covered(r)
<1>1. RoleEvents(r, Analyses(r)) \subseteq trail /\ ExtractionEvents(r, Analyses(r)) \subseteq trail
  BY DEF Pending
<1>2. ASSUME NEW i \in Docs(r)
      PROVE  LET Kept(kind) == \E e \in trail : e.kind = kind /\ e.run = r /\ e.doc = i
             IN  /\ role[r][i] # Nothing => Kept("DOCUMENT_ROLE_DECIDED")
                 /\ read[r][i].at = "failed" => Kept("EXTRACTION_FAILED")
                 /\ UsedSecondKey(read[r][i].attempts) => Kept("GEMINI_SECOND_KEY_USED")
                 /\ failure[r] # Nothing /\ HasText(r, i) => Kept("DOCUMENT_ROLE_FAILED")
  <2> DEFINE a == Analysis(r, i)
             Kept(kind) == \E e \in trail : e.kind = kind /\ e.run = r /\ e.doc = i
  <2>1. a \in Analyses(r) BY DEF Analyses
  <2>2. /\ a.doc = i /\ a.role = Decided(r, i) /\ a.attempts = read[r][i].attempts
        /\ a.failure = IF failure[r] # Nothing /\ HasText(r, i) THEN failure[r] ELSE read[r][i].failure
    BY DEF Analysis
  <2>3. \A kind, detail : Event(kind, r, i, detail).kind = kind /\ Event(kind, r, i, detail).run = r
                            /\ Event(kind, r, i, detail).doc = i
    BY DEF Event
  <2> HIDE DEF a
  <2>4. ASSUME role[r][i] # Nothing PROVE Kept("DOCUMENT_ROLE_DECIDED")
    <3>1. a.role # Nothing
      <4>1. role[r][i].choice \in Roles BY <2>4 DEF AInv, Shape
      <4> QED BY <2>2, <2>4, <4>1, AnalysisAssumption DEF Decided
    <3>2. Event("DOCUMENT_ROLE_DECIDED", r, a.doc, a.role) \in RoleEvents(r, Analyses(r))
      BY <2>1, <3>1 DEF RoleEvents
    <3> QED BY <1>1, <2>2, <2>3, <3>2
  <2>5. ASSUME read[r][i].at = "failed" PROVE Kept("EXTRACTION_FAILED")
    <3>1. ~(failure[r] # Nothing /\ HasText(r, i)) BY <2>5 DEF AInv, Order, HasText
    <3>2. read[r][i] \in Reads /\ read[r][i].failure # Nothing BY <2>5 DEF AInv, Shape, Account
    <3>3. a.failure = read[r][i].failure /\ a.failure \in ExtractionFailures
      BY <2>2, <3>1, <3>2 DEF Reads, ReadFailures
    <3>4. a.failure # Nothing /\ a.failure.from = "gemini" BY <3>2, <3>3 DEF ExtractionFailures
    <3>5. Event("EXTRACTION_FAILED", r, a.doc, a.failure.code) \in ExtractionEvents(r, Analyses(r))
      BY <2>1, <3>4 DEF ExtractionEvents, Failing
    <3> QED BY <1>1, <2>2, <2>3, <3>5
  <2>6. ASSUME UsedSecondKey(read[r][i].attempts) PROVE Kept("GEMINI_SECOND_KEY_USED")
    <3>1. Event("GEMINI_SECOND_KEY_USED", r, a.doc, a.attempts) \in ExtractionEvents(r, Analyses(r))
      BY <2>1, <2>2, <2>6 DEF ExtractionEvents
    <3> QED BY <1>1, <2>2, <2>3, <3>1
  <2>7. ASSUME failure[r] # Nothing, HasText(r, i) PROVE Kept("DOCUMENT_ROLE_FAILED")
    <3>1. a.failure = failure[r] /\ a.failure \in JevFailures /\ a.failure # Nothing
      BY <2>2, <2>7 DEF AInv, Shape
    <3>2. a.failure.from = "jev" BY <3>1 DEF JevFailures
    <3>3. Event("DOCUMENT_ROLE_FAILED", r, a.doc, a.failure.code) \in RoleEvents(r, Analyses(r))
      BY <2>1, <3>1, <3>2 DEF RoleEvents, Failing
    <3> QED BY <1>1, <2>2, <2>3, <3>3
  <2> QED BY <2>4, <2>5, <2>6, <2>7
<1> QED BY <1>2 DEF Covered

(* What a run records of its analysis is not a write of the cache. *)
LEMMA PendingKinds ==
  ASSUME NEW r, NEW e \in Pending(r)
  PROVE  ~Writing(e)
<1>1. e \in RoleEvents(r, Analyses(r)) \/ e \in ExtractionEvents(r, Analyses(r)) BY DEF Pending
<1> QED BY <1>1 DEF RoleEvents, ExtractionEvents, Event, Writing

-----------------------------------------------------------------------------
(* Steps *)

(* A step of a read keeps the invariant, *)
LEMMA ReadKeeps ==
  ASSUME AInv, NEW r \in Runs, NEW i \in Docs(r), ReadStep(r, i), ~CacheUnreachable(r, i)
  PROVE  AInv'
<1>1. UNCHANGED <<keys, subject, phase, role, failure, result>> /\ Reading(r, i) BY ReadFrame
<1>2. PICK y : Moves(r, i, y) /\ Account(y) BY ReadMoves DEF AInv
<1>3. phase[r] \in {"scans", "texts"} /\ phase[r] # "done" /\ phase[r] # "equivalence"
  BY <1>1 DEF Reading
<1>4. Content(r, i) \in Contents BY ContentTyped DEF AInv
<1>5. DOMAIN read = Runs /\ \A q \in Runs : read[q] \in [Docs(q) -> Reads] BY DEF AInv, Shape
<1>6. /\ DOMAIN read' = Runs /\ read'[r] = [read[r] EXCEPT ![i] = y] /\ read'[r][i] = y
      /\ \A q \in Runs : q # r => read'[q] = read[q]
      /\ \A j \in Docs(r) : j # i => read'[r][j] = read[r][j]
  BY <1>2, <1>5 DEF Moves
<1>7. cache \in [Contents -> Values \cup {Nothing}] BY DEF AInv, Shape
<1>8. \/ UNCHANGED cache /\ (y.at = "ok" /\ Len(y.attempts) = 0 => cache[Content(r, i)] = y.value)
      \/ /\ y.at = "ok" /\ Len(y.attempts) > 0 /\ cache[Content(r, i)] = Nothing
         /\ cache' = [cache EXCEPT ![Content(r, i)] = y.value]
  BY <1>2 DEF Moves
<1>9. Shape'
  <2>1. \A q \in Runs : read'[q] \in [Docs(q)' -> Reads]
    BY <1>1, <1>2, <1>5, <1>6, SameContent DEF Moves
  <2>2. cache' \in [Contents -> Values \cup {Nothing}]
    BY <1>2, <1>4, <1>7, <1>8 DEF Moves, Reads
  <2>3. /\ DOMAIN role' = Runs /\ \A q \in Runs : DOMAIN role'[q] = Docs(q)'
        /\ \A q \in Runs : \A j \in Docs(q)' : role'[q][j] = Nothing \/ role'[q][j].choice \in Roles
    BY <1>1, SameContent DEF AInv, Shape
  <2> QED BY <1>1, <1>6, <2>1, <2>2, <2>3 DEF AInv, Shape
<1>10. ASSUME NEW q \in Runs, NEW j \in Docs(q)'
       PROVE  Account(read[q][j])' /\ Served(q, j)'
  <2>1. j \in Docs(q) /\ Content(q, j)' = Content(q, j) BY <1>1, SameContent
  <2>2. CASE q = r /\ j = i
    <3>1. Account(read[q][j])' BY <1>1, <1>2, <1>6, <2>2 DEF Account
    <3>2. Served(q, j)'
      <4>1. read'[q][j] = y /\ Content(q, j)' = Content(r, i) BY <1>6, <2>1, <2>2
      <4>2. y.at = "ok" /\ Len(y.attempts) = 0 => cache'[Content(r, i)] = y.value BY <1>8
      <4> QED BY <4>1, <4>2 DEF Served
    <3> QED BY <3>1, <3>2
  <2>3. CASE q # r \/ j # i
    <3>1. read'[q][j] = read[q][j] BY <1>6, <2>1, <2>3
    <3>2. Account(read[q][j]) /\ Served(q, j) BY <2>1 DEF AInv
    <3>3. Account(read[q][j])' BY <1>1, <3>1, <3>2 DEF Account
    <3>4. read[q][j].at = "ok" => read[q][j].value # Nothing BY <3>2 DEF Account
    <3>5. Content(q, j) \in Contents BY <2>1, ContentTyped DEF AInv
    <3>6. Served(q, j)' BY <1>4, <1>7, <1>8, <2>1, <3>1, <3>2, <3>4, <3>5 DEF Served
    <3> QED BY <3>3, <3>6
  <2> QED BY <2>2, <2>3
<1>11. Written' BY <1>1, <1>2, <1>3, MovesWritten
<1>12. trail \subseteq trail' BY <1>2 DEF Moves
<1>13. ASSUME NEW q \in Runs, q # r
       PROVE  Order(q)' /\ Recorded(q)'
  BY <1>1, <1>6, <1>12, <1>13, OthersStay DEF AInv
<1>14. Order(r)'
  <2>1. failure[r] = Nothing /\ phase[r] \notin Early BY <1>3 DEF AInv, Order, Asking, Early
  <2>2. ASSUME phase[r] \in Asking, NEW j \in Docs(r), Kind[Content(r, j)] = "text"
        PROVE  read'[r][j].at = "none"
    <3>1. read[r][j].at = "none" BY <2>2 DEF AInv, Order
    <3>2. i \in Scanned(r) BY <1>1, <2>2 DEF Reading, Asking, Early
    <3>3. j # i BY <2>2, <3>2 DEF Scanned
    <3> QED BY <1>6, <3>1, <3>3
  <2> QED BY <1>1, <2>1, <2>2, SameContent DEF Order
<1>15. Recorded(r)' BY <1>1, <1>3 DEF Recorded
<1> QED BY <1>9, <1>10, <1>11, <1>13, <1>14, <1>15 DEF AInv

(* and so does a cache that cannot be reached, which ends them all. *)
LEMMA UnreachableKeeps ==
  ASSUME AInv, NEW r \in Runs, NEW i \in Docs(r), ReadStep(r, i), CacheUnreachable(r, i)
  PROVE  AInv'
<1>1. UNCHANGED <<keys, subject, role, failure, cache, trail>> /\ Reading(r, i)
  BY ReadFrame DEF CacheUnreachable
<1>2. phase[r] \in {"scans", "texts"} BY <1>1 DEF Reading
<1>3. /\ DOMAIN read = Runs /\ DOMAIN phase = Runs /\ DOMAIN result = Runs
      /\ \A q \in Runs : read[q] \in [Docs(q) -> Reads]
  BY DEF AInv, Shape
<1>4. /\ DOMAIN read' = Runs /\ DOMAIN phase' = Runs /\ DOMAIN result' = Runs
      /\ read'[r] = [j \in Docs(r) |-> NoRead] /\ phase'[r] = "done"
      /\ result'[r] = [NoResult EXCEPT !.state = "ERROR"]
      /\ \A q \in Runs : q # r => read'[q] = read[q] /\ phase'[q] = phase[q] /\ result'[q] = result[q]
  BY <1>3 DEF CacheUnreachable, Conclude, Goto
<1>5. NoRead \in Reads /\ NoRead.at = "none" /\ Account(NoRead)'
  <2>1. NoRead \in Reads
    <3>1. <<>> \in Seq(Outcomes) OBVIOUS
    <3> QED BY <3>1 DEF NoRead, Reads
  <2>2. Len(NoRead.attempts) = 0 BY DEF NoRead
  <2>3. keys' \in 0..2 BY <1>1 DEF AInv, Shape
  <2> QED BY <2>1, <2>2, <2>3 DEF NoRead, Account
<1>6. Shape'
  <2>1. \A q \in Runs : read'[q] \in [Docs(q)' -> Reads] BY <1>1, <1>3, <1>4, <1>5, SameContent
  <2>2. /\ DOMAIN role' = Runs /\ \A q \in Runs : DOMAIN role'[q] = Docs(q)'
        /\ \A q \in Runs : \A j \in Docs(q)' : role'[q][j] = Nothing \/ role'[q][j].choice \in Roles
    BY <1>1, SameContent DEF AInv, Shape
  <2> QED BY <1>1, <1>4, <2>1, <2>2 DEF AInv, Shape
<1>7. ASSUME NEW q \in Runs, NEW j \in Docs(q)'
      PROVE  Account(read[q][j])' /\ Served(q, j)'
  <2>1. j \in Docs(q) BY <1>1, SameContent
  <2>2. CASE q = r
    <3>1. read'[q][j] = NoRead BY <1>4, <2>1, <2>2
    <3> QED BY <1>5, <3>1 DEF Account, Served
  <2>3. CASE q # r
    <3>1. read'[q][j] = read[q][j] /\ keys' = keys /\ cache' = cache BY <1>1, <1>4, <2>3
    <3>2. Account(read[q][j]) /\ Served(q, j) BY <2>1 DEF AInv
    <3>3. Content(q, j)' = Content(q, j) BY <1>1, <2>1, SameContent
    <3> QED BY <3>1, <3>2, <3>3 DEF Account, Served
  <2> QED BY <2>2, <2>3
<1>8. Written'
  <2>1. ASSUME NEW e \in trail, Writing(e)
        PROVE  /\ e.run \in Runs /\ e.doc \in Docs(e.run)' /\ e.content = Content(e.run, e.doc)'
               /\ cache[e.content] = e.detail /\ e.detail # Nothing
               /\ \/ read'[e.run][e.doc].at = "ok" /\ read'[e.run][e.doc].value = e.detail
                  \/ read'[e.run][e.doc].at = "none" /\ phase'[e.run] = "done"
    <3>1. /\ e.run \in Runs /\ e.doc \in Docs(e.run) /\ e.content = Content(e.run, e.doc)
          /\ cache[e.content] = e.detail /\ e.detail # Nothing
          /\ \/ read[e.run][e.doc].at = "ok" /\ read[e.run][e.doc].value = e.detail
             \/ read[e.run][e.doc].at = "none" /\ phase[e.run] = "done"
      BY <2>1 DEF AInv, Written
    <3> QED BY <1>1, <1>4, <1>5, <3>1, SameContent
  <2> QED BY <1>1, <2>1 DEF AInv, Written
<1>9. ASSUME NEW q \in Runs, q # r
      PROVE  Order(q)' /\ Recorded(q)'
  BY <1>1, <1>4, <1>9, OthersStay DEF AInv
<1>10. Order(r)' BY <1>1, <1>2, <1>4 DEF AInv, Order, Asking, Early
<1>11. Recorded(r)' BY <1>4 DEF Recorded, NoResult
<1> QED BY <1>6, <1>7, <1>8, <1>9, <1>10, <1>11 DEF AInv

(* What any other step changes: where its run is, what it concluded, its   *)
(* roles and failure, and the trail.                                       *)
Elsewhere(r) ==
  /\ DOMAIN phase' = Runs /\ DOMAIN result' = Runs /\ DOMAIN role' = Runs /\ DOMAIN failure' = Runs
  /\ \A q \in Runs : q # r => /\ phase'[q] = phase[q] /\ result'[q] = result[q]
                             /\ role'[q] = role[q] /\ failure'[q] = failure[q]

(* A step of a run keeps it if the run itself stays in order and on        *)
(* record.                                                                 *)
LEMMA RunKeeps ==
  ASSUME AInv, NEW r \in Runs, UNCHANGED <<keys, subject, cache, read>>, Elsewhere(r), phase[r] # "done",
         trail \subseteq trail', \A e \in trail' : e \in trail \/ ~Writing(e),
         failure' \in [Runs -> JevFailures \cup {Nothing}], DOMAIN role'[r] = Docs(r),
         \A i \in Docs(r) : role'[r][i] = Nothing \/ role'[r][i].choice \in Roles,
         Order(r)', Recorded(r)'
  PROVE  AInv'
<1>1. Shape'
  <2>1. /\ \A q \in Runs : DOMAIN role'[q] = Docs(q)'
        /\ \A q \in Runs : \A j \in Docs(q)' : role'[q][j] = Nothing \/ role'[q][j].choice \in Roles
    BY SameContent DEF AInv, Shape, Elsewhere
  <2>2. \A q \in Runs : read'[q] \in [Docs(q)' -> Reads] BY SameContent DEF AInv, Shape
  <2> QED BY <2>1, <2>2 DEF AInv, Shape, Elsewhere
<1>2. \A q \in Runs : \A j \in Docs(q)' : Account(read[q][j])' /\ Served(q, j)'
  BY SameContent DEF AInv, Account, Served
<1>3. Written'
  <2>1. ASSUME NEW e \in trail, Writing(e)
        PROVE  /\ e.run \in Runs /\ e.doc \in Docs(e.run)' /\ e.content = Content(e.run, e.doc)'
               /\ cache[e.content] = e.detail /\ e.detail # Nothing
               /\ \/ read[e.run][e.doc].at = "ok" /\ read[e.run][e.doc].value = e.detail
                  \/ read[e.run][e.doc].at = "none" /\ phase'[e.run] = "done"
    <3>1. /\ e.run \in Runs /\ e.doc \in Docs(e.run) /\ e.content = Content(e.run, e.doc)
          /\ cache[e.content] = e.detail /\ e.detail # Nothing
          /\ \/ read[e.run][e.doc].at = "ok" /\ read[e.run][e.doc].value = e.detail
             \/ read[e.run][e.doc].at = "none" /\ phase[e.run] = "done"
      BY <2>1 DEF AInv, Written
    <3> QED BY <3>1, SameContent DEF Elsewhere
  <2> QED BY <2>1 DEF AInv, Written
<1>4. ASSUME NEW q \in Runs, q # r
      PROVE  Order(q)' /\ Recorded(q)'
  BY <1>4, OthersStay DEF AInv, Elsewhere
<1> QED BY <1>1, <1>2, <1>3, <1>4 DEF AInv

(* ... and when it leaves roles, failure and trail alone. *)
LEMMA QuietKeeps ==
  ASSUME AInv, NEW r \in Runs, UNCHANGED <<keys, subject, cache, read, trail, role, failure>>,
         DOMAIN phase' = Runs, DOMAIN result' = Runs, phase[r] # "done",
         \A q \in Runs : q # r => phase'[q] = phase[q] /\ result'[q] = result[q],
         phase'[r] \in Early => phase[r] \in Early,
         phase'[r] \in Asking => phase[r] \in Asking,
         phase'[r] = "texts" => phase[r] \in Asking,
         Covered(r) \/ phase'[r] \notin {"equivalence", "done"}
                    \/ (phase'[r] = "done" /\ result'[r].state \in {"ERROR", "REFUSED"})
  PROVE  AInv'
<1>1. Elsewhere(r)
  BY DEF AInv, Shape, Elsewhere
<1>2. Order(r)' BY SameContent DEF AInv, Order
<1>3. Recorded(r)'
  <2>1. Covered(r) => Covered(r)' BY CoveredStays
  <2> QED BY <2>1 DEF Recorded
<1>4. /\ failure' \in [Runs -> JevFailures \cup {Nothing}] /\ DOMAIN role'[r] = Docs(r)
      /\ \A i \in Docs(r) : role'[r][i] = Nothing \/ role'[r][i].choice \in Roles
  BY DEF AInv, Shape
<1> QED BY <1>1, <1>2, <1>3, <1>4, RunKeeps

(* A run that concludes has its result, and the others keep theirs. *)
LEMMA Concludes ==
  ASSUME AInv, NEW r \in Runs, NEW res, Conclude(r, res)
  PROVE  /\ DOMAIN phase' = Runs /\ DOMAIN result' = Runs /\ phase'[r] = "done" /\ result'[r] = res
         /\ \A q \in Runs : q # r => phase'[q] = phase[q] /\ result'[q] = result[q]
BY DEF AInv, Shape, Conclude, Goto

(* A run that goes on moves alone. *)
LEMMA GoesTo ==
  ASSUME AInv, NEW r \in Runs, NEW p, Goto(r, p)
  PROVE  /\ DOMAIN phase' = Runs /\ phase'[r] = p
         /\ \A q \in Runs : q # r => phase'[q] = phase[q]
BY DEF AInv, Shape, Goto

(* Every step of a run keeps the invariant. *)
LEMMA RunStepKeeps ==
  ASSUME AInv, NEW r \in Runs, RunStep(r)
  PROVE  AInv'
<1> USE DEF calm, given
<1>1. DOMAIN phase = Runs /\ DOMAIN result = Runs BY DEF AInv, Shape
<1>2. CASE ClassifyBatch(r)
  <2>1. phase[r] \in Early /\ Covered(r) BY <1>2, UntouchedCovered DEF ClassifyBatch, Early
  <2>2. \/ UNCHANGED <<phase, result>>
        \/ Goto(r, "preflight") /\ UNCHANGED result
        \/ \E res : Conclude(r, res)
    BY <1>2 DEF ClassifyBatch
  <2>3. /\ DOMAIN phase' = Runs /\ DOMAIN result' = Runs /\ phase'[r] \in Early \cup {"done"}
        /\ \A q \in Runs : q # r => phase'[q] = phase[q] /\ result'[q] = result[q]
    BY <1>1, <2>1, <2>2, GoesTo, Concludes DEF Early
  <2>4. UNCHANGED <<keys, subject, cache, read, trail, role, failure>> BY <1>2 DEF ClassifyBatch
  <2> QED BY <2>1, <2>3, <2>4, QuietKeeps DEF Early, Asking
<1>3. CASE ClassifyFails(r)
  <2>1. phase[r] \in Early /\ Covered(r) BY <1>3, UntouchedCovered DEF ClassifyFails, Early
  <2>2. PICK res : Conclude(r, res) BY <1>3 DEF ClassifyFails
  <2>3. UNCHANGED <<keys, subject, cache, read, trail, role, failure>> BY <1>3 DEF ClassifyFails
  <2> QED BY <2>1, <2>2, <2>3, Concludes, QuietKeeps DEF Early, Asking
<1>4. CASE Await(r)
  <2>1. phase[r] \in Early /\ Covered(r) BY <1>4, UntouchedCovered DEF Await, Early
  <2>2. PICK res : Conclude(r, res) BY <1>4 DEF Await
  <2>3. UNCHANGED <<keys, subject, cache, read, trail, role, failure>> BY <1>4 DEF Await
  <2> QED BY <2>1, <2>2, <2>3, Concludes, QuietKeeps DEF Early, Asking
<1>5. CASE Preflight(r)
  BY <1>1, <1>5, GoesTo, QuietKeeps DEF Preflight, Early, Asking
<1>6. CASE \E i \in Docs(r) : ReadStep(r, i)
  BY <1>6, ReadKeeps, UnreachableKeeps
<1>7. CASE ScansDone(r)
  <2>1. PICK p \in {"record", "roles"} : Goto(r, p) BY <1>7 DEF ScansDone
  <2>2. phase[r] = "scans" /\ UNCHANGED <<keys, subject, cache, read, trail, role, failure, result>>
    BY <1>7 DEF ScansDone
  <2> QED BY <1>1, <2>1, <2>2, GoesTo, QuietKeeps DEF Early, Asking
<1>8. CASE RolesAnswered(r)
  <2>1. PICK answer, new :
          /\ RoleAccepted(answer) /\ role' = [role EXCEPT ![r] = new] /\ DOMAIN new = Docs(r)
          /\ \A i \in Docs(r) : new[i] = answer \/ new[i] = role[r][i]
    <3>1. PICK first : /\ RoleAccepted(Answer(RoleOf[Content(r, first)], Roles))
                       /\ role' = [role EXCEPT ![r] = [i \in Docs(r) |->
                             IF i \in NextBatch(r) THEN Answer(RoleOf[Content(r, first)], Roles) ELSE role[r][i]]]
      BY <1>8 DEF RolesAnswered
    <3> DEFINE answer == Answer(RoleOf[Content(r, first)], Roles)
               new == [i \in Docs(r) |-> IF i \in NextBatch(r) THEN answer ELSE role[r][i]]
    <3>2. RoleAccepted(answer) /\ role' = [role EXCEPT ![r] = new] BY <3>1
    <3> HIDE DEF answer
    <3>3. DOMAIN new = Docs(r) /\ \A i \in Docs(r) : new[i] = answer \/ new[i] = role[r][i] OBVIOUS
    <3> HIDE DEF new
    <3> QED BY <3>2, <3>3
  <2>10. /\ phase[r] = "roles"
         /\ UNCHANGED phase \/ Goto(r, "texts")
         /\ UNCHANGED <<keys, subject, cache, read, trail, failure, result>>
    BY <1>8 DEF RolesAnswered
  <2>2. answer.choice \in Roles BY <2>1 DEF RoleAccepted, ChoiceAccepted
  <2>3. DOMAIN role = Runs /\ failure \in [Runs -> JevFailures \cup {Nothing}] BY DEF AInv, Shape
  <2>4. role'[r] = new /\ DOMAIN role' = Runs /\ \A q \in Runs : q # r => role'[q] = role[q]
    BY <2>1, <2>3
  <2>5. /\ DOMAIN role'[r] = Docs(r)
        /\ \A i \in Docs(r) : role'[r][i] = Nothing \/ role'[r][i].choice \in Roles
    <3>2. \A i \in Docs(r) : role[r][i] = Nothing \/ role[r][i].choice \in Roles BY DEF AInv, Shape
    <3> QED BY <2>1, <2>2, <2>4, <3>2
  <2>6. /\ DOMAIN phase' = Runs /\ phase'[r] \in {"roles", "texts"}
        /\ \A q \in Runs : q # r => phase'[q] = phase[q]
    BY <1>1, <2>10, GoesTo
  <2>7. Elsewhere(r) BY <1>1, <2>10, <2>3, <2>4, <2>6 DEF Elsewhere
  <2>8. Order(r)'
    <3>1. failure[r] = Nothing /\ failure'[r] = Nothing BY <2>10 DEF AInv, Order, Asking
    <3>2. \A i \in Docs(r) : Kind[Content(r, i)] = "text" => read[r][i].at = "none"
      BY <2>10 DEF AInv, Order, Asking
    <3> QED BY <2>10, <2>6, <3>1, <3>2, SameContent DEF Order, Asking, Early
  <2>9. Recorded(r)' BY <2>6 DEF Recorded
  <2> QED BY <2>10, <2>3, <2>5, <2>7, <2>8, <2>9, RunKeeps
<1>9. CASE RolesFail(r)
  <2>1. PICK f \in CaseFailures({a \in BadAnswers : ~RoleAccepted(a)}) : failure' = [failure EXCEPT ![r] = f]
    BY <1>9 DEF RolesFail
  <2>2. f \in JevFailures BY <2>1, RequestFailuresTyped
  <2>3. /\ phase[r] = "roles" /\ role' = [role EXCEPT ![r] = [i \in Docs(r) |-> Nothing]]
        /\ Goto(r, "record") /\ UNCHANGED <<keys, subject, cache, read, trail, result>>
    BY <1>9 DEF RolesFail
  <2>4. DOMAIN role = Runs /\ failure \in [Runs -> JevFailures \cup {Nothing}] BY DEF AInv, Shape
  <2>5. /\ failure' \in [Runs -> JevFailures \cup {Nothing}]
        /\ \A q \in Runs : q # r => failure'[q] = failure[q] /\ role'[q] = role[q]
        /\ DOMAIN failure' = Runs /\ DOMAIN role' = Runs /\ DOMAIN role'[r] = Docs(r)
        /\ \A i \in Docs(r) : role'[r][i] = Nothing
    BY <2>1, <2>2, <2>3, <2>4
  <2>6. Elsewhere(r) BY <1>1, <2>3, <2>5, GoesTo DEF Elsewhere
  <2>7. phase'[r] = "record" BY <2>3, GoesTo
  <2>8. Order(r)'
    <3>1. \A i \in Docs(r) : Kind[Content(r, i)] = "text" => read[r][i].at = "none"
      BY <2>3 DEF AInv, Order, Asking
    <3> QED BY <2>3, <2>7, <3>1, SameContent DEF Order, Asking, Early
  <2>9. Recorded(r)' BY <2>7 DEF Recorded
  <2> QED BY <2>3, <2>5, <2>6, <2>8, <2>9, RunKeeps
<1>10. CASE TextsDone(r)
  BY <1>1, <1>10, GoesTo, QuietKeeps DEF TextsDone, Early, Asking
<1>11. CASE CallRaises(r)
  <2> DEFINE res == [NoResult EXCEPT !.state = "ERROR"]
  <2>1. Conclude(r, res) /\ res.state = "ERROR" /\ phase[r] # "done" BY <1>11 DEF CallRaises, NoResult
  <2>2. UNCHANGED <<keys, subject, cache, read, trail, role, failure>> BY <1>11 DEF CallRaises
  <2> HIDE DEF res
  <2> QED BY <2>1, <2>2, Concludes, QuietKeeps DEF Early, Asking
<1>12. CASE RecordNext(r)
  <2>1. phase[r] = "record" /\ UNCHANGED <<keys, subject, cache, read, role, failure>>
    BY <1>12 DEF RecordNext
  <2>2. PICK e \in Pending(r) :
          \/ Conclude(r, [NoResult EXCEPT !.state = "REFUSED"]) /\ UNCHANGED trail
          \/ Conclude(r, [NoResult EXCEPT !.state = "ERROR"]) /\ UNCHANGED trail
          \/ trail' = trail \cup {e} /\ UNCHANGED <<phase, result>>
    BY <1>12 DEF RecordNext
  <2>3. ASSUME NEW res, res.state \in {"ERROR", "REFUSED"}, Conclude(r, res), UNCHANGED trail
        PROVE  AInv'
    BY <2>1, <2>3, Concludes, QuietKeeps DEF Early, Asking
  <2>4. CASE trail' = trail \cup {e} /\ UNCHANGED <<phase, result>>
    <3>1. Elsewhere(r) BY <1>1, <2>1, <2>4 DEF AInv, Shape, Elsewhere
    <3>2. \A x \in trail' : x \in trail \/ ~Writing(x) BY <2>4, PendingKinds
    <3>3. Order(r)' BY <2>1, <2>4, SameContent DEF AInv, Order
    <3>4. Recorded(r)' BY <2>1, <2>4 DEF Recorded
    <3>5. /\ failure' \in [Runs -> JevFailures \cup {Nothing}] /\ DOMAIN role'[r] = Docs(r)
          /\ \A i \in Docs(r) : role'[r][i] = Nothing \/ role'[r][i].choice \in Roles
      BY <2>1 DEF AInv, Shape
    <3> QED BY <2>1, <2>4, <3>1, <3>2, <3>3, <3>4, <3>5, RunKeeps
  <2> QED BY <2>2, <2>3, <2>4 DEF NoResult
<1>13. CASE Decide(r)
  <2>1. Covered(r) /\ phase[r] = "record" BY <1>13, PendingCovered DEF Decide
  <2>2. (\E res : Conclude(r, res)) \/ (Goto(r, "equivalence") /\ UNCHANGED result) BY <1>13 DEF Decide
  <2>3. UNCHANGED <<keys, subject, cache, read, trail, role, failure>> BY <1>13 DEF Decide
  <2> QED BY <1>1, <2>1, <2>2, <2>3, GoesTo, Concludes, QuietKeeps DEF Early, Asking
<1>14. CASE EquivalenceAnswered(r)
  <2>1. Covered(r) /\ phase[r] = "equivalence" BY <1>14 DEF AInv, Recorded, EquivalenceAnswered
  <2>2. PICK res : Conclude(r, res) BY <1>14 DEF EquivalenceAnswered
  <2>3. UNCHANGED <<keys, subject, cache, read, trail, role, failure>> BY <1>14 DEF EquivalenceAnswered
  <2> QED BY <2>1, <2>2, <2>3, Concludes, QuietKeeps DEF Early, Asking
<1>15. CASE EquivalenceFails(r)
  <2>1. Covered(r) /\ phase[r] = "equivalence" BY <1>15 DEF AInv, Recorded, EquivalenceFails
  <2>2. PICK res : Conclude(r, res) BY <1>15 DEF EquivalenceFails
  <2>3. UNCHANGED <<keys, subject, cache, read, trail, role, failure>> BY <1>15 DEF EquivalenceFails
  <2> QED BY <2>1, <2>2, <2>3, Concludes, QuietKeeps DEF Early, Asking
<1> QED
  BY <1>2, <1>3, <1>4, <1>5, <1>6, <1>7, <1>8, <1>9, <1>10, <1>11, <1>12, <1>13, <1>14, <1>15 DEF RunStep

-----------------------------------------------------------------------------
(* Theorems on the reads, the cache and the trail *)

(* The initial state satisfies the invariant. *)
LEMMA AnalysisStarts == Init => AInv
<1> SUFFICES ASSUME Init PROVE AInv OBVIOUS
<1> USE DEF Init
<1>1. NoRead \in Reads /\ NoRead.at = "none" /\ Len(NoRead.attempts) = 0 /\ NoRead.calls = 0
      /\ NoRead.failure = Nothing
  <2>1. <<>> \in Seq(Outcomes) /\ Len(<<>>) = 0 OBVIOUS
  <2> QED BY <2>1 DEF NoRead, Reads
<1>2. keys \in 0..2 /\ subject \in [Runs -> Emails] BY AnalysisAssumption
<1>3. \A r \in Runs : \A i \in Docs(r) : read[r][i] = NoRead /\ role[r][i] = Nothing OBVIOUS
<1>4. Shape BY <1>1, <1>2, <1>3 DEF Shape
<1>5. \A r \in Runs : \A i \in Docs(r) : Account(read[r][i]) /\ Served(r, i)
  BY <1>1, <1>2, <1>3 DEF Account, Served
<1>6. Written BY DEF Written
<1>7. \A r \in Runs : Order(r) /\ Recorded(r) BY <1>1, <1>3 DEF Order, Recorded, Early, Asking
<1> QED BY <1>4, <1>5, <1>6, <1>7 DEF AInv

(* A step that changes nothing a run has or shares keeps the invariant. *)
LEMMA NothingKeeps ==
  ASSUME AInv, UNCHANGED <<keys, subject, cache, trail, phase, read, role, failure, result>>
  PROVE  AInv'
<1>1. Shape' BY SameContent DEF AInv, Shape
<1>2. \A r \in Runs : \A i \in Docs(r)' : Account(read[r][i])' /\ Served(r, i)'
  BY SameContent DEF AInv, Account, Served
<1>3. Written' BY SameContent DEF AInv, Written
<1>4. \A r \in Runs : Order(r)' /\ Recorded(r)' BY OthersStay DEF AInv
<1> QED BY <1>1, <1>2, <1>3, <1>4 DEF AInv

(* So it always holds. *)
LEMMA AnalysisInvariance == Spec => []AInv
<1>1. AInv /\ [Next]_vars => AInv'
  <2> SUFFICES ASSUME AInv, [Next]_vars PROVE AInv' OBVIOUS
  <2>1. CASE \E r \in Runs : RunStep(r) BY <2>1, RunStepKeeps
  <2>2. CASE \E r \in Runs : ResetAll(r) BY <2>2, NothingKeeps DEF ResetAll, given
  <2>3. CASE UNCHANGED vars BY <2>3, NothingKeeps DEF vars, calm, given
  <2> QED BY <2>1, <2>2, <2>3 DEF Next, Finish
<1> QED BY <1>1, AnalysisStarts, PTL DEF Spec

(* generate_traced and GeminiExtractor._call: whatever a key answers and   *)
(* whenever the timeout cuts, the attempts recorded of a read are the      *)
(* calls it made, a second key follows only a 429, and a value that took   *)
(* no call is the cached one.                                              *)
THEOREM ReadsAlwaysAccounted == Spec => []ReadsAccounted
<1>1. AInv => ReadsAccounted
  <2> SUFFICES ASSUME AInv, NEW r \in Runs, NEW i \in Docs(r)
               PROVE  LET x == read[r][i]
                          n == Len(x.attempts)
                      IN  /\ x.calls <= keys
                          /\ \A k \in 1..(n - 1) : x.attempts[k] = "RATE_LIMITED"
                          /\ Finished(r, i) => x.calls = IF Cut(r, i) THEN n + 1 ELSE n
                          /\ x.at = "failed" /\ n > 0 /\ ~Cut(r, i) =>
                               (x.attempts[n] = "RATE_LIMITED" => n = keys)
                          /\ x.at = "ok" => IF n = 0 THEN cache[Content(r, i)] = x.value
                                             ELSE x.attempts[n] = "SUCCEEDED"
    BY DEF ReadsAccounted
  <2>1. Account(read[r][i]) /\ Served(r, i) /\ read[r][i] \in Reads /\ keys \in 0..2
    BY DEF AInv, Shape
  <2> QED BY <2>1 DEF Account, Served, Reads, Finished, Cut
<1> QED BY <1>1, AnalysisInvariance, PTL

(* cache_extraction: however many reads race to fill an entry of the       *)
(* shared cache, and wherever a run dies, it has one audited writer and    *)
(* holds for good what that writer read.                                   *)
THEOREM CacheAlwaysAgrees == Spec => []CacheAgreement
<1>1. AInv => CacheAgreement
  <2> SUFFICES ASSUME AInv PROVE CacheAgreement OBVIOUS
  <2> USE DEF AInv, Written, Writing
  <2>1. ASSUME NEW c \in Contents
        PROVE  LET writes == {e \in trail : e.kind = "EXTRACTION_CACHED" /\ e.content = c}
               IN  /\ cache[c] = Nothing <=> writes = {}
                   /\ \A e, x \in writes : e = x
                   /\ \A e \in writes : /\ e.detail = cache[c]
                                        /\ read[e.run][e.doc].at # "none" => read[e.run][e.doc].value = cache[c]
    <3> DEFINE writes == {e \in trail : e.kind = "EXTRACTION_CACHED" /\ e.content = c}
    <3>1. cache[c] = Nothing <=> writes = {} OBVIOUS
    <3>2. \A e, x \in writes : e = x OBVIOUS
    <3>3. \A e \in writes : /\ e.detail = cache[c]
                            /\ read[e.run][e.doc].at # "none" => read[e.run][e.doc].value = cache[c]
      OBVIOUS
    <3> QED BY <3>1, <3>2, <3>3
  <2> QED BY <2>1 DEF CacheAgreement
<1> QED BY <1>1, AnalysisInvariance, PTL

(* analyze and run_case: whatever fails on the way, a run that concludes   *)
(* has recorded every role it decided, every read that failed and every    *)
(* read the second key saved.                                              *)
THEOREM TrailAlwaysComplete == Spec => []TrailComplete
<1>1. AInv => TrailComplete
  <2> SUFFICES ASSUME AInv, NEW r \in Runs, Ended(r),
                      result[r].state \in {"COMPARED", "NEEDS_REVIEW", "PROVIDER_FAILED"}
               PROVE  Covered(r)
    BY Zenon DEF TrailComplete, Covered
  <2> QED BY DEF AInv, Recorded, Ended
<1> QED BY <1>1, AnalysisInvariance, PTL

-----------------------------------------------------------------------------
(* What a run has behind it, and what it may conclude *)

(* What each place of a run says of the reads and answers behind it. *)
Progress(r) ==
  /\ phase[r] \in {"roles", "texts", "record", "equivalence"} => \A i \in Scanned(r) : Finished(r, i)
  /\ \A i \in Docs(r) : role[r][i] # Nothing =>
       /\ Kind[Content(r, i)] \in {"text", "scan"}
       /\ RoleBatch = 1 => role[r][i].choice = RoleOf[Content(r, i)]
  /\ phase[r] \in {"texts", "record", "equivalence"} /\ failure[r] = Nothing => Unanswered(r) = {}
  /\ phase[r] = "equivalence" => /\ AdmitPair(Analyses(r)).failure = Nothing
                                 /\ AdmitPair(Analyses(r)).diagnostics = {}
  /\ phase[r] # "done" => result[r] = NoResult

(* The three properties, of one result of a run. *)
Recordable(res) ==
  res.output # Nothing /\ res.state # "NOT_COMPARED" => Agrees(res.output, res.diagnostics, res.verdicts)

Paired(r, res) ==
  /\ DOMAIN res.verdicts # {} => OnePairAttached(r)
  /\ res.output # Nothing /\ res.output.reason \in {"WRONG_DOC_TYPE", "MISSING_ATTACHMENT"}
       => ~OnePairAttached(r)

Hopeless(r) ==
  \E i \in Docs(r) : \/ Kind[Content(r, i)] = "unreadable"
                     \/ read[r][i].at = "failed" /\ ~read[r][i].failure.retryable
                          /\ read[r][i].failure.code = "ungrounded_value"

Retried(r, res) ==
  (\E i \in Docs(r) : read[r][i].at = "failed") /\ res.state \notin {"ERROR", "REFUSED"} =>
    res.state = IF Hopeless(r) THEN "NEEDS_REVIEW" ELSE "PROVIDER_FAILED"

(* What a run may conclude. *)
Due(r, res) == Recordable(res) /\ (RoleBatch = 1 => Paired(r, res)) /\ Retried(r, res)

Phases == {"classify", "preflight", "scans", "roles", "texts", "record", "equivalence", "done"}

Typed ==
  /\ faults \in 0..MaxFaults /\ keys \in KeyCounts /\ wired \in BOOLEAN /\ subject \in Subjects
  /\ retired \subseteq Runs /\ phase \in [Runs -> Phases] /\ asked \in [Runs -> Nat]

(* What ComparisonProofs says of finitely many analyses holds of those of  *)
(* a run.                                                                  *)
LEMMA AnalysesAdmitted ==
  ASSUME AInv, NEW r \in Runs
  PROVE  /\ Admits(Analyses(r), AdmitPair(Analyses(r)))
         /\ IsFiniteSet(Docs(r)) /\ IsFiniteSet(Analyses(r))
<1>1. Attachments[subject[r]] \in Seq(Contents) BY AnalysisAssumption DEF AInv, Shape
<1>2. Len(Attachments[subject[r]]) \in Nat BY <1>1
<1>3. IsFiniteSet(Docs(r)) /\ Docs(r) \subseteq Nat BY <1>2, FS_Interval DEF Docs
<1>4. IsFiniteSet(Analyses(r))
  <2> DEFINE f == [i \in Docs(r) |-> Analysis(r, i)]
  <2>1. f \in Surjection(Docs(r), Analyses(r)) BY DEF Surjection, Analyses
  <2> HIDE DEF f
  <2> QED BY <1>3, <2>1, FS_Surjection
<1>5. \A a \in Analyses(r) : a.doc \in Nat BY <1>3 DEF Analyses, Analysis
<1> QED BY <1>3, <1>4, <1>5, PairAdmitted

(* A failed read fails its attachment, and only a read fails for a value   *)
(* that is not in the text.                                                *)
LEMMA FailureShown ==
  ASSUME AInv, NEW r \in Runs, NEW i \in Docs(r)
  PROVE  LET a == Analysis(r, i)
         IN  /\ read[r][i].at = "failed" => a.failure = read[r][i].failure /\ a.failure # Nothing
             /\ a.failure # Nothing /\ a.failure.code = "ungrounded_value" =>
                  read[r][i].at = "failed" /\ a.failure = read[r][i].failure /\ ~a.failure.retryable
<1> DEFINE a == Analysis(r, i)
<1>1. a.failure = IF failure[r] # Nothing /\ HasText(r, i) THEN failure[r] ELSE read[r][i].failure
  BY DEF Analysis
<1> HIDE DEF a
<1>2. read[r][i].failure \in ReadFailures \cup {Nothing} BY DEF AInv, Shape, Reads
<1>3. read[r][i].at = "failed" <=> read[r][i].failure # Nothing BY DEF AInv, Account
<1>4. ASSUME read[r][i].at = "failed"
      PROVE  a.failure = read[r][i].failure /\ a.failure # Nothing
  <2>1. ~(failure[r] # Nothing /\ HasText(r, i)) BY <1>4 DEF AInv, Order, HasText
  <2> QED BY <1>1, <1>3, <1>4, <2>1
<1>5. ASSUME a.failure # Nothing, a.failure.code = "ungrounded_value"
      PROVE  read[r][i].at = "failed" /\ a.failure = read[r][i].failure /\ ~a.failure.retryable
  <2>1. a.failure # failure[r]
    <3>1. failure[r] \in JevFailures \cup {Nothing} BY DEF AInv, Shape
    <3> QED BY <1>5, <3>1 DEF JevFailures, JevFailureCodes
  <2>2. a.failure = read[r][i].failure BY <1>1, <2>1
  <2> QED BY <1>2, <1>3, <1>5, <2>2 DEF ReadFailures
<1> QED BY <1>4, <1>5 DEF a

(* A file is unreadable exactly if its content is. *)
LEMMA UnreadShown ==
  ASSUME NEW r
  PROVE  (\E a \in Analyses(r) : a.status = "UNREADABLE") <=> \E i \in Docs(r) : Kind[Content(r, i)] = "unreadable"
<1>1. \A i \in Docs(r) : Analysis(r, i) \in Analyses(r) /\ Analysis(r, i).status = Status(Content(r, i))
  BY DEF Analyses, Analysis
<1>2. \A a \in Analyses(r) : \E i \in Docs(r) : a = Analysis(r, i) BY DEF Analyses
<1>3. \A c : Status(c) = "UNREADABLE" <=> Kind[c] = "unreadable" BY DEF Status
<1> QED BY <1>1, <1>2, <1>3

(* Once every attachment is read and answered, and each was asked about    *)
(* alone, the analyses make up one pair exactly when the attachments do.   *)
LEMMA RolesAttached ==
  ASSUME AInv, NEW r \in Runs, Progress(r), phase[r] \in {"record", "equivalence"}, RoleBatch = 1,
         \A a \in Analyses(r) : a.failure = Nothing, NEW x \in {"SI", "DRAFT_BL"}
  PROVE  OneOf(Analyses(r), x) <=>
           Cardinality({i \in Docs(r) : Kind[Content(r, i)] \in {"text", "scan"}
                                          /\ RoleOf[Content(r, i)] = x}) = 1
<1> DEFINE A == Analyses(r)
           D == {i \in Docs(r) : Kind[Content(r, i)] \in {"text", "scan"} /\ RoleOf[Content(r, i)] = x}
<1>1. IsFiniteSet(Docs(r)) BY AnalysesAdmitted
<1>2. IsFiniteSet(D) BY <1>1, FS_Subset
<1>3. ASSUME NEW i \in Docs(r) PROVE i \in D <=> Analysis(r, i) \in OfRole(A, x)
  <2>1. Analysis(r, i) \in A /\ Analysis(r, i).role = Decided(r, i) /\ Analysis(r, i).failure = Nothing
        /\ (failure[r] # Nothing /\ HasText(r, i) => Analysis(r, i).failure = failure[r])
    BY DEF Analyses, Analysis
  <2>2. read[r][i].at # "failed" BY <2>1, FailureShown
  <2>3. i \in D => Decided(r, i) = x
    <3> SUFFICES ASSUME i \in D PROVE Decided(r, i) = x OBVIOUS
    <3>1. HasText(r, i) BY <2>2 DEF Progress, Scanned, Finished, HasText
    <3>2. failure[r] = Nothing BY <2>1, <3>1
    <3>3. role[r][i] # Nothing BY <3>1, <3>2 DEF Progress, Unanswered, Texts
    <3> QED BY <3>3 DEF Progress, Decided
  <2>4. Decided(r, i) = x => i \in D
    <3>1. x # Nothing BY AnalysisAssumption DEF Roles
    <3> QED BY <3>1 DEF Progress, Decided
  <2> QED BY <2>1, <2>3, <2>4 DEF OfRole
<1>4. \A a \in OfRole(A, x) : \E i \in D : a = Analysis(r, i) BY <1>3 DEF OfRole, Analyses
<1>5. \A i, j : Analysis(r, i) = Analysis(r, j) => i = j BY DEF Analysis
<1>6. IsFiniteSet(OfRole(A, x))
  <2>1. IsFiniteSet(A) BY AnalysesAdmitted
  <2> QED BY <2>1, FS_Subset DEF OfRole
<1>7. D \subseteq Docs(r) OBVIOUS
<1> HIDE DEF D, A
<1>8. ASSUME OneOf(A, x) PROVE Cardinality(D) = 1
  <2>1. PICK a : OfRole(A, x) = {a} BY <1>6, <1>8, FS_Singleton DEF OneOf
  <2>2. PICK i \in D : a = Analysis(r, i) BY <1>4, <2>1
  <2>3. D = {i} BY <1>3, <1>5, <1>7, <2>1, <2>2
  <2> QED BY <2>3, FS_Singleton
<1>9. ASSUME Cardinality(D) = 1 PROVE OneOf(A, x)
  <2>1. PICK i : D = {i} BY <1>2, <1>9, FS_Singleton
  <2>2. OfRole(A, x) = {Analysis(r, i)} BY <1>3, <1>4, <1>7, <2>1
  <2> QED BY <2>2, FS_Singleton DEF OneOf
<1> QED BY <1>8, <1>9 DEF A, D

(* Before it concludes a run has no output, verdicts or diagnostics. *)
LEMMA NoResultIs ==
  /\ NoResult.output = Nothing /\ NoResult.verdicts = <<>> /\ NoResult.diagnostics = {}
  /\ DOMAIN NoResult.verdicts = {}
BY DEF NoResult

(* A run that records nothing concludes nothing wrong. *)
LEMMA NothingDue ==
  ASSUME NEW r, NEW res, res.output = Nothing, DOMAIN res.verdicts = {}, Retried(r, res)
  PROVE  Due(r, res)
BY DEF Due, Recordable, Paired

(* No read of a run that goes on to compare has failed. *)
LEMMA NoneFailed ==
  ASSUME AInv, NEW r \in Runs, AdmitPair(Analyses(r)).failure = Nothing,
         AdmitPair(Analyses(r)).diagnostics = {}
  PROVE  /\ \A a \in Analyses(r) : a.failure = Nothing
         /\ ~\E i \in Docs(r) : read[r][i].at = "failed"
<1>1. \A a \in Analyses(r) : a.failure = Nothing BY AnalysesAdmitted DEF Admits
<1>2. \A i \in Docs(r) : Analysis(r, i) \in Analyses(r) BY DEF Analyses
<1> QED BY <1>1, <1>2, FailureShown

(* A comparison of the pair is due, whatever the classifier says of its    *)
(* texts.                                                                  *)
LEMMA ComparedDue ==
  ASSUME AInv, NEW r \in Runs, Progress(r), phase[r] \in {"record", "equivalence"},
         AdmitPair(Analyses(r)).failure = Nothing, AdmitPair(Analyses(r)).diagnostics = {},
         NEW p, \A f \in EquivalenceQuestions(CompareFields(AdmitPair(Analyses(r)))) : p[f] \in Int
  PROVE  Due(r, Compared(AdmitPair(Analyses(r)), ResolveVerdicts(CompareFields(AdmitPair(Analyses(r))), p)))
<1> DEFINE pair == AdmitPair(Analyses(r))
           verdicts == ResolveVerdicts(CompareFields(pair), p)
           holds == ScanHolds(pair)
           res == Compared(pair, verdicts)
<1>1. Agrees(ComparisonOutput(verdicts), {}, verdicts) BY ComparedAgrees
<1>2. DOMAIN verdicts = ComparedFields /\ SnapshotAccepts(verdicts)
  BY VerdictsAgree DEF SnapshotAccepts
<1>3. ~\E i \in Docs(r) : read[r][i].at = "failed" BY NoneFailed
<1>4. Retried(r, res) BY <1>3 DEF Retried
<1>5. /\ res.output = IF holds = {} THEN ComparisonOutput(verdicts) ELSE StructuralOutput(holds)
      /\ res.diagnostics = holds /\ res.verdicts = verdicts
  BY DEF Compared
<1>6. Agrees(res.output, holds, verdicts)
  <2> HIDE DEF verdicts, res
  <2>1. CASE holds = {} BY <1>1, <1>5, <2>1
  <2>2. CASE holds # {} BY <1>2, <1>5, <2>2, HoldsAgree
  <2> QED BY <2>1, <2>2
<1>7. ASSUME RoleBatch = 1 PROVE Paired(r, res)
  <2>1. OneOf(Analyses(r), "SI") /\ OneOf(Analyses(r), "DRAFT_BL") BY AnalysesAdmitted DEF Admits
  <2>2. \A a \in Analyses(r) : a.failure = Nothing BY NoneFailed
  <2>3. OnePairAttached(r) BY <1>7, <2>1, <2>2, RolesAttached DEF OnePairAttached
  <2>4. res.output.reason \in {Nothing, "UNREADABLE"}
    <3>1. CASE holds = {}
      <4>1. ComparisonOutput(verdicts).reason = Nothing BY DEF ComparisonOutput, Output
      <4> QED BY <1>5, <3>1, <4>1
    <3>2. CASE holds # {}
      <4>1. \A d \in holds : d.reason = "UNREADABLE" BY DEF ScanHolds, UnreadableDocument, Diagnostic
      <4>2. Reasoned(holds) BY <4>1 DEF Reasoned, Reasons
      <4>3. \E d \in holds : d.reason = ReviewReason(holds) BY <3>2, <4>2, ReasonShown
      <4>4. StructuralOutput(holds).reason = ReviewReason(holds) BY DEF StructuralOutput, Output
      <4> QED BY <1>5, <3>2, <4>1, <4>3, <4>4
    <3> QED BY <3>1, <3>2
  <2>5. res.output.reason \notin {"WRONG_DOC_TYPE", "MISSING_ATTACHMENT"}
    BY <2>4, ComparisonAssumption
  <2> QED BY <2>3, <2>5 DEF Paired
<1> HIDE DEF res
<1>8. Recordable(res) BY <1>5, <1>6 DEF Recordable
<1>9. Due(r, res) BY <1>4, <1>7, <1>8 DEF Due
<1> QED BY <1>9 DEF res

(* So is a case held for what its diagnostics say. *)
LEMMA StructuralDue ==
  ASSUME NEW r, NEW D, NEW f, D # {}, Reasoned(D), Retried(r, Structural(D, f)),
         ReviewReason(D) \in {"WRONG_DOC_TYPE", "MISSING_ATTACHMENT"} /\ RoleBatch = 1 => ~OnePairAttached(r)
  PROVE  Due(r, Structural(D, f))
<1> DEFINE res == Structural(D, f)
<1>1. /\ res.output = StructuralOutput(D) /\ res.diagnostics = D /\ res.verdicts = <<>>
  BY DEF Structural, NoResult
<1>2. StructuralOutput(D).reason = ReviewReason(D) BY DEF StructuralOutput, Output
<1>3. DOMAIN <<>> = {} OBVIOUS
<1>4. Agrees(StructuralOutput(D), D, <<>>) BY StructuralAgrees
<1> HIDE DEF res
<1>5. Recordable(res) BY <1>1, <1>4 DEF Recordable
<1>6. RoleBatch = 1 => Paired(r, res)
  <2>1. DOMAIN res.verdicts = {} BY <1>1, <1>3
  <2> QED BY <1>1, <1>2, <2>1 DEF Paired
<1> QED BY <1>5, <1>6 DEF Due, res

(* What a run decides of its analyses without comparing them. *)
LEMMA DecidedDue ==
  ASSUME AInv, NEW r \in Runs, Progress(r), phase[r] = "record"
  PROVE  LET pair == AdmitPair(Analyses(r))
             unreadable == Escalated(Analyses(r))
         IN  /\ pair.failure # Nothing /\ unreadable = {} => Due(r, ProviderFailed(pair.failure))
             /\ pair.failure # Nothing /\ unreadable # {} =>
                  Due(r, Structural({UnreadableDocument(a) : a \in unreadable}, First(unreadable).failure))
             /\ pair.failure = Nothing /\ pair.diagnostics # {} => Due(r, Structural(pair.diagnostics, Nothing))
<1> DEFINE A == Analyses(r)
           pair == AdmitPair(A)
           unreadable == Escalated(A)
           unread == \E a \in A : a.status = "UNREADABLE"
<1>1. Admits(A, pair) BY AnalysesAdmitted
<1>2. unread <=> \E i \in Docs(r) : Kind[Content(r, i)] = "unreadable" BY UnreadShown
<1>3. \A i \in Docs(r) : Analysis(r, i) \in A BY DEF Analyses
<1>4. \A a \in A : \E i \in Docs(r) : a = Analysis(r, i) BY DEF Analyses
<1>5. unreadable # {} <=> \E i \in Docs(r) : read[r][i].at = "failed" /\ ~read[r][i].failure.retryable
                                               /\ read[r][i].failure.code = "ungrounded_value"
  <2>1. ASSUME NEW a \in unreadable
        PROVE  \E i \in Docs(r) : read[r][i].at = "failed" /\ ~read[r][i].failure.retryable
                                    /\ read[r][i].failure.code = "ungrounded_value"
    <3>1. a \in A /\ a.failure # Nothing /\ a.failure.code = "ungrounded_value" BY DEF Escalated, Failing
    <3>2. PICK i \in Docs(r) : a = Analysis(r, i) BY <1>4, <3>1
    <3> QED BY <3>1, <3>2, FailureShown
  <2>2. ASSUME NEW i \in Docs(r), read[r][i].at = "failed", read[r][i].failure.code = "ungrounded_value"
        PROVE  Analysis(r, i) \in unreadable
    BY <1>3, <2>2, FailureShown DEF Escalated, Failing
  <2> QED BY <2>1, <2>2
<1>6. pair.failure # Nothing <=> (\E a \in A : a.failure # Nothing) /\ ~unread BY <1>1 DEF Admits
<1>7. (\E i \in Docs(r) : read[r][i].at = "failed") => \E a \in A : a.failure # Nothing
  BY <1>3, FailureShown
<1>8. ASSUME pair.failure # Nothing, unreadable = {}
      PROVE  Due(r, ProviderFailed(pair.failure))
  <2> DEFINE res == ProviderFailed(pair.failure)
  <2>1. ~Hopeless(r) BY <1>2, <1>5, <1>6, <1>8 DEF Hopeless
  <2>2. res.state = "PROVIDER_FAILED" /\ res.output = Nothing /\ DOMAIN res.verdicts = {}
    BY DEF ProviderFailed, NoResult
  <2> HIDE DEF res
  <2>3. Due(r, res) BY <2>1, <2>2, NothingDue DEF Retried
  <2> QED BY <2>3 DEF res
<1>9. \A D, f : Structural(D, f).state = "NEEDS_REVIEW" BY DEF Structural, NoResult
<1>10. ASSUME pair.failure # Nothing, unreadable # {}
       PROVE  Due(r, Structural({UnreadableDocument(a) : a \in unreadable}, First(unreadable).failure))
  <2> DEFINE D == {UnreadableDocument(a) : a \in unreadable}
             f == First(unreadable).failure
  <2>1. \A d \in D : d.reason = "UNREADABLE" BY DEF UnreadableDocument, Diagnostic
  <2>2. D # {} BY <1>10
  <2>3. Hopeless(r) BY <1>5, <1>10 DEF Hopeless
  <2> HIDE DEF D, f
  <2>4. Reasoned(D) BY <2>1 DEF Reasoned, Reasons
  <2>5. ReviewReason(D) = "UNREADABLE" BY <2>1, <2>2, <2>4, ReasonShown
  <2>6. Retried(r, Structural(D, f)) BY <1>9, <2>3 DEF Retried
  <2>7. Due(r, Structural(D, f)) BY <2>2, <2>4, <2>5, <2>6, StructuralDue
  <2> QED BY <2>7 DEF D, f
<1>11. ASSUME pair.failure = Nothing, pair.diagnostics # {}
       PROVE  Due(r, Structural(pair.diagnostics, Nothing))
  <2> DEFINE D == pair.diagnostics
  <2>1. Reasoned(D) BY <1>1 DEF Admits
  <2>2. Retried(r, Structural(D, Nothing))
    <3>1. (\E i \in Docs(r) : read[r][i].at = "failed") => Hopeless(r)
      BY <1>2, <1>6, <1>7, <1>11 DEF Hopeless
    <3> QED BY <1>9, <3>1 DEF Retried
  <2>3. ASSUME RoleBatch = 1, OnePairAttached(r)
        PROVE  ReviewReason(D) \notin {"WRONG_DOC_TYPE", "MISSING_ATTACHMENT"}
    <3>1. CASE unread
      <4>1. Unreadable(D) BY <1>1, <3>1 DEF Admits
      <4>2. ReviewReason(D) = "UNREADABLE" BY <1>11, <2>1, <4>1, ReasonShown
      <4> QED BY <4>2
    <3>2. CASE ~unread
      <4>1. \A a \in A : a.failure = Nothing BY <1>6, <1>11, <3>2
      <4>2. OneOf(A, "SI") /\ OneOf(A, "DRAFT_BL") BY <2>3, <4>1, RolesAttached DEF OnePairAttached
      <4>3. \A d \in D : d.reason = "MISSING_VALUE" BY <1>1, <3>2, <4>1, <4>2 DEF Admits
      <4>4. \E d \in D : d.reason = ReviewReason(D) BY <1>11, <2>1, ReasonShown
      <4> QED BY <4>3, <4>4
    <3> QED BY <3>1, <3>2
  <2> HIDE DEF D
  <2>4. D # {} BY <1>11 DEF D
  <2>5. Due(r, Structural(D, Nothing)) BY <2>1, <2>2, <2>3, <2>4, StructuralDue
  <2> QED BY <2>5 DEF D
<1> QED BY <1>8, <1>10, <1>11

-----------------------------------------------------------------------------
(* Steps of a run, for the second invariant *)

(* A run that no read, role or failure of its own changes. *)
RunSame(r) ==
  /\ UNCHANGED subject
  /\ read'[r] = read[r] /\ role'[r] = role[r] /\ failure'[r] = failure[r]

(* A step that leaves a run alone leaves what it has analysed alone. *)
LEMMA SameAnalyses ==
  ASSUME NEW r, RunSame(r)
  PROVE  /\ Analyses(r)' = Analyses(r) /\ Unanswered(r)' = Unanswered(r)
         /\ Docs(r)' = Docs(r) /\ Scanned(r)' = Scanned(r)
         /\ \A i : Content(r, i)' = Content(r, i) /\ (Finished(r, i)' <=> Finished(r, i))
         /\ (OnePairAttached(r)' <=> OnePairAttached(r)) /\ (Hopeless(r)' <=> Hopeless(r))
<1>1. Docs(r)' = Docs(r) /\ \A i : Content(r, i)' = Content(r, i) BY SameContent DEF RunSame
<1>2. \A i : (HasText(r, i)' <=> HasText(r, i)) /\ (Finished(r, i)' <=> Finished(r, i))
             /\ Decided(r, i)' = Decided(r, i)
  BY <1>1 DEF RunSame, HasText, Finished, Decided
<1>3. Unanswered(r)' = Unanswered(r) BY <1>1, <1>2 DEF RunSame, Unanswered, Texts
<1>4. ToRead(r)' = ToRead(r) BY <1>1, <1>2 DEF ToRead
<1>5. \A i : Route(r, i)' = Route(r, i) BY <1>1, <1>4 DEF Route
<1>6. \A i : Extracted(r, i)' = Extracted(r, i) BY <1>1, <1>2, <1>5 DEF RunSame, Extracted
<1>7. \A i : Analysis(r, i)' = Analysis(r, i) BY <1>1, <1>2, <1>5, <1>6 DEF RunSame, Analysis
<1>8. Analyses(r)' = Analyses(r) BY <1>1, <1>7 DEF Analyses
<1>9. Scanned(r)' = Scanned(r) BY <1>1 DEF Scanned
<1>10. OnePairAttached(r)' <=> OnePairAttached(r) BY <1>1 DEF OnePairAttached
<1>11. Hopeless(r)' <=> Hopeless(r) BY <1>1 DEF RunSame, Hopeless
<1> QED BY <1>1, <1>2, <1>3, <1>8, <1>9, <1>10, <1>11

(* The second invariant: every run is where its reads and answers let it   *)
(* be, and what it concluded is due.                                       *)
Sure(r) == Progress(r) /\ (phase[r] = "done" => Due(r, result[r]))

(* A run that goes on as another takes a step. *)
LEMMA SureStays ==
  ASSUME NEW r, RunSame(r), phase'[r] = phase[r], result'[r] = result[r], Sure(r)
  PROVE  Sure(r)'
<1>1. Progress(r)' BY SameAnalyses DEF RunSame, Sure, Progress
<1>2. phase'[r] = "done" => Due(r, result[r])'
  BY SameAnalyses DEF RunSame, Sure, Due, Recordable, Paired, Retried
<1> QED BY <1>1, <1>2 DEF Sure

(* A run that goes on to a place where it compares nothing. *)
LEMMA SureMoves ==
  ASSUME NEW r, RunSame(r), Progress(r), result'[r] = NoResult, phase'[r] \notin {"equivalence", "done"},
         phase'[r] \in {"roles", "texts", "record"} => \A i \in Scanned(r) : Finished(r, i),
         phase'[r] \in {"texts", "record"} /\ failure[r] = Nothing => Unanswered(r) = {}
  PROVE  Sure(r)'
BY SameAnalyses DEF RunSame, Sure, Progress

(* A run that ends with a result it may have. *)
LEMMA SureEnds ==
  ASSUME NEW r, RunSame(r), Progress(r), phase'[r] = "done", Due(r, result'[r])
  PROVE  Sure(r)'
<1>1. Progress(r)' BY SameAnalyses DEF RunSame, Progress
<1>2. Due(r, result[r])' BY SameAnalyses DEF RunSame, Due, Recordable, Paired, Retried
<1> QED BY <1>1, <1>2 DEF Sure

(* A run may conclude with what is due. *)
LEMMA SureConcludes ==
  ASSUME AInv, NEW r \in Runs, NEW res, RunSame(r), Progress(r), Conclude(r, res), Due(r, res)
  PROVE  Sure(r)'
BY Concludes, SureEnds

(* An error and a refusal are due at any time, *)
LEMMA ErrorDue ==
  ASSUME NEW r, NEW state \in {"ERROR", "REFUSED"}
  PROVE  Due(r, [NoResult EXCEPT !.state = state])
<1> DEFINE res == [NoResult EXCEPT !.state = state]
<1>1. res.output = Nothing /\ DOMAIN res.verdicts = {} /\ res.state = state BY DEF NoResult
<1> HIDE DEF res
<1>2. Due(r, res) BY <1>1, NothingDue DEF Retried
<1> QED BY <1>2 DEF res

(* and before the reads a failed provider, too, or a case that waits. *)
LEMMA EarlyDue ==
  ASSUME AInv, NEW r \in Runs, phase[r] \in Early
  PROVE  /\ \A f : Due(r, ProviderFailed(f))
         /\ Due(r, [NoResult EXCEPT !.state = "NOT_COMPARED", !.output = AwaitingOutput])
         /\ Due(r, [NoResult EXCEPT !.state = "AWAITING_DOCUMENTS", !.output = AwaitingOutput])
<1>1. ~\E i \in Docs(r) : read[r][i].at = "failed" BY DEF AInv, Order
<1>2. \A res : Retried(r, res) BY <1>1 DEF Retried
<1>3. \A f : ProviderFailed(f).output = Nothing /\ DOMAIN ProviderFailed(f).verdicts = {}
  BY DEF ProviderFailed, NoResult
<1>4. ASSUME NEW state
      PROVE  Due(r, [NoResult EXCEPT !.state = state, !.output = AwaitingOutput])
  <2> DEFINE res == [NoResult EXCEPT !.state = state, !.output = AwaitingOutput]
  <2>1. res.output = AwaitingOutput /\ res.diagnostics = {} /\ res.verdicts = <<>> /\ DOMAIN res.verdicts = {}
    BY DEF NoResult
  <2>2. AwaitingOutput.reason = Nothing BY DEF AwaitingOutput, Output
  <2> HIDE DEF res
  <2>3. Recordable(res) BY <2>1, AwaitingAgrees DEF Recordable
  <2>4. Paired(r, res) BY <2>1, <2>2, ComparisonAssumption DEF Paired
  <2>5. Due(r, res) BY <1>2, <2>3, <2>4 DEF Due
  <2> QED BY <2>5 DEF res
<1>5. \A f : Due(r, ProviderFailed(f)) BY <1>2, <1>3, NothingDue
<1> QED BY <1>4, <1>5

RInv == \A r \in Runs : Sure(r)

(* One document at a time is asked about when a batch is one document. *)
LEMMA NextAlone ==
  ASSUME AInv, NEW r \in Runs, RoleBatch = 1, NEW i \in NextBatch(r), NEW j \in Unanswered(r)
  PROVE  ~Before(r, j, i)
<1> DEFINE S == {k \in Unanswered(r) : Before(r, k, i)}
<1>1. IsFiniteSet(S) BY AnalysesAdmitted, FS_Subset DEF Unanswered, Texts
<1>2. Cardinality(S) < 1 BY DEF NextBatch
<1>3. S = {}
  <2> HIDE DEF S
  <2>1. Cardinality(S) \in Nat BY <1>1, FS_CardinalityType
  <2> QED BY <1>1, <1>2, <2>1, FS_EmptySet
<1> QED BY <1>3

(* What an answer leaves of the request. *)
LEMMA Answers ==
  ASSUME AInv, NEW r \in Runs, Progress(r), RolesAnswered(r)
  PROVE  /\ \A i \in Docs(r) : role'[r][i] # Nothing =>
              /\ Kind[Content(r, i)] \in {"text", "scan"}
              /\ RoleBatch = 1 => role'[r][i].choice = RoleOf[Content(r, i)]
         /\ Unanswered(r) \ NextBatch(r) = {} => \A i \in Texts(r) : role'[r][i] # Nothing
<1>1. PICK first \in NextBatch(r) :
        /\ \A i \in NextBatch(r) \ {first} : Before(r, first, i)
        /\ role' = [role EXCEPT ![r] = [i \in Docs(r) |->
             IF i \in NextBatch(r) THEN Answer(RoleOf[Content(r, first)], Roles) ELSE role[r][i]]]
  BY DEF RolesAnswered
<1> DEFINE answer == Answer(RoleOf[Content(r, first)], Roles)
           new == [i \in Docs(r) |-> IF i \in NextBatch(r) THEN answer ELSE role[r][i]]
<1>2. NextBatch(r) \subseteq Unanswered(r) /\ Unanswered(r) \subseteq Texts(r) /\ Texts(r) \subseteq Docs(r)
  BY DEF NextBatch, Unanswered, Texts
<1>3. answer.choice = RoleOf[Content(r, first)] BY DEF Answer
<1>4. answer # Nothing
  <2>1. Content(r, first) \in Contents BY <1>2, ContentTyped DEF AInv
  <2>2. RoleOf[Content(r, first)] \in Roles BY <2>1, AnalysisAssumption
  <2> QED BY <2>2, AnswerAssumption
<1>5. role'[r] = new BY <1>1 DEF AInv, Shape
<1> HIDE DEF answer
<1>6. \A i \in Docs(r) : role'[r][i] = IF i \in NextBatch(r) THEN answer ELSE role[r][i] BY <1>5
<1>7. ASSUME NEW i \in Docs(r), role'[r][i] # Nothing
      PROVE  /\ Kind[Content(r, i)] \in {"text", "scan"}
             /\ RoleBatch = 1 => role'[r][i].choice = RoleOf[Content(r, i)]
  <2>1. CASE i \in NextBatch(r)
    <3>1. HasText(r, i) BY <1>2, <2>1 DEF Texts
    <3>2. RoleBatch = 1 => i = first BY <1>1, <1>2, <2>1, NextAlone
    <3> QED BY <1>3, <1>6, <2>1, <3>1, <3>2 DEF HasText
  <2>2. CASE i \notin NextBatch(r)
    BY <1>6, <1>7, <2>2 DEF Progress
  <2> QED BY <2>1, <2>2
<1>8. ASSUME Unanswered(r) \ NextBatch(r) = {}, NEW i \in Texts(r)
      PROVE  role'[r][i] # Nothing
  <2>1. i \in NextBatch(r) \/ role[r][i] # Nothing BY <1>8 DEF Unanswered
  <2> QED BY <1>2, <1>4, <1>6, <1>8, <2>1
<1> QED BY <1>7, <1>8

(* A step of a read keeps the second invariant, *)
LEMMA ReadSure ==
  ASSUME AInv, NEW r \in Runs, NEW i \in Docs(r), ReadStep(r, i), Sure(r)
  PROVE  Sure(r)' /\ \A q \in Runs : q # r => RunSame(q) /\ phase'[q] = phase[q] /\ result'[q] = result[q]
<1>1. UNCHANGED <<subject, role, failure>> /\ Reading(r, i) BY ReadFrame
<1>2. DOMAIN read = Runs /\ DOMAIN phase = Runs /\ DOMAIN result = Runs /\ DOMAIN read[r] = Docs(r)
  BY DEF AInv, Shape
<1>3. phase[r] \in {"scans", "texts"} BY <1>1 DEF Reading
<1>4. Docs(r)' = Docs(r) /\ \A j : Content(r, j)' = Content(r, j) BY <1>1, SameContent
<1>5. CASE CacheUnreachable(r, i)
  <2> DEFINE res == [NoResult EXCEPT !.state = "ERROR"]
  <2>1. Conclude(r, res) /\ read' = [read EXCEPT ![r] = [j \in Docs(r) |-> NoRead]]
    BY <1>5 DEF CacheUnreachable
  <2>2. phase'[r] = "done" /\ result'[r] = res
        /\ \A q \in Runs : q # r => phase'[q] = phase[q] /\ result'[q] = result[q]
    BY <2>1, Concludes
  <2>3. res.output = Nothing /\ DOMAIN res.verdicts = {} /\ res.state = "ERROR" BY DEF NoResult
  <2> HIDE DEF res
  <2>4. Due(r, result[r])' BY <2>2, <2>3 DEF Due, Recordable, Paired, Retried
  <2>5. Progress(r)' BY <1>1, <1>4, <2>2 DEF Sure, Progress
  <2> QED BY <1>1, <1>2, <2>1, <2>2, <2>4, <2>5 DEF Sure, RunSame
<1>6. CASE ~CacheUnreachable(r, i)
  <2>1. UNCHANGED <<phase, result>> BY <1>6, ReadFrame
  <2>2. PICK y : read' = [read EXCEPT ![r][i] = y] BY <1>6, ReadMoves DEF AInv, Moves
  <2>3. \A j \in Docs(r) : j # i => read'[r][j] = read[r][j] BY <1>2, <2>2
  <2>4. \A q \in Runs : q # r => read'[q] = read[q] BY <1>2, <2>2
  <2>5. ASSUME phase[r] = "texts"
        PROVE  (\A j \in Scanned(r)' : Finished(r, j)') /\ Unanswered(r)' = {}
    <3>1. Kind[Content(r, i)] = "text" BY <1>1, <2>5 DEF Reading, ToRead
    <3>2. Scanned(r)' = Scanned(r) /\ i \notin Scanned(r) BY <1>4, <3>1 DEF Scanned
    <3>3. \A j \in Docs(r) : HasText(r, j)' <=> HasText(r, j)
      <4> SUFFICES ASSUME NEW j \in Docs(r) PROVE HasText(r, j)' <=> HasText(r, j) OBVIOUS
      <4>1. CASE j = i BY <1>4, <3>1, <4>1 DEF HasText
      <4>2. CASE j # i BY <1>4, <2>3, <4>2 DEF HasText
      <4> QED BY <4>1, <4>2
    <3>4. Unanswered(r)' = Unanswered(r) BY <1>1, <1>4, <3>3 DEF Unanswered, Texts
    <3>5. failure[r] = Nothing BY <2>5 DEF AInv, Order
    <3> QED BY <2>3, <2>5, <3>2, <3>4, <3>5 DEF Sure, Progress, Scanned, Finished
  <2>6. Progress(r)' BY <1>1, <1>3, <1>4, <2>1, <2>5 DEF Sure, Progress
  <2>7. phase'[r] # "done" BY <1>3, <2>1
  <2> QED BY <1>1, <2>1, <2>4, <2>6, <2>7 DEF Sure, RunSame
<1> QED BY <1>5, <1>6

(* and so does a step of a run. *)
LEMMA RunSure ==
  ASSUME AInv, NEW r \in Runs, RunStep(r), Sure(r)
  PROVE  Sure(r)' /\ \A q \in Runs : q # r => RunSame(q) /\ phase'[q] = phase[q] /\ result'[q] = result[q]
<1> USE DEF calm, given
<1>1. /\ DOMAIN phase = Runs /\ DOMAIN result = Runs /\ DOMAIN role = Runs
      /\ failure \in [Runs -> JevFailures \cup {Nothing}] /\ Progress(r)
  BY DEF AInv, Shape, Sure
<1>2. phase[r] # "done" => result[r] = NoResult BY DEF Sure, Progress
<1>3. CASE \E i \in Docs(r) : ReadStep(r, i) BY <1>3, ReadSure
<1>4. CASE /\ UNCHANGED <<subject, read, role, failure>>
           /\ ~RolesAnswered(r) /\ ~RolesFail(r) /\ ~\E i \in Docs(r) : ReadStep(r, i)
  <2>1. \A q \in Runs : RunSame(q) BY <1>4 DEF RunSame
  <2> DEFINE others == \A q \in Runs : q # r => RunSame(q) /\ phase'[q] = phase[q] /\ result'[q] = result[q]
  <2>2. ASSUME NEW res, Conclude(r, res), Due(r, res) PROVE Sure(r)' /\ others
    BY <1>1, <2>1, <2>2, SureConcludes, Concludes
  <2>3. ASSUME NEW p, Goto(r, p), UNCHANGED result, phase[r] # "done", p \notin {"equivalence", "done"},
               p \in {"roles", "texts", "record"} => \A i \in Scanned(r) : Finished(r, i),
               p \in {"texts", "record"} /\ failure[r] = Nothing => Unanswered(r) = {}
        PROVE  Sure(r)' /\ others
    <3>1. phase'[r] = p BY <2>3, GoesTo
    <3> QED BY <1>1, <1>2, <2>1, <2>3, <3>1, GoesTo, SureMoves
  <2>4. CASE UNCHANGED <<phase, result>>
    <3>1. Sure(r)' BY <2>1, <2>4, SureStays
    <3> QED BY <2>1, <2>4, <3>1
  <2> HIDE DEF others
  <2>5. CASE ClassifyBatch(r)
    <3>1. phase[r] \in Early /\ phase[r] # "done" BY <2>5 DEF ClassifyBatch, Early
    <3>2. \/ UNCHANGED <<phase, result>>
          \/ Goto(r, "preflight") /\ UNCHANGED result
          \/ Conclude(r, [NoResult EXCEPT !.state = "NOT_COMPARED", !.output = AwaitingOutput])
      BY <2>5 DEF ClassifyBatch
    <3> QED BY <2>2, <2>3, <2>4, <3>1, <3>2, EarlyDue DEF others
  <2>6. CASE ClassifyFails(r)
    <3>1. phase[r] \in Early BY <2>6 DEF ClassifyFails, Early
    <3>2. PICK f : Conclude(r, ProviderFailed(f)) BY <2>6 DEF ClassifyFails
    <3> QED BY <2>2, <3>1, <3>2, EarlyDue DEF others
  <2>7. CASE Await(r)
    <3>1. phase[r] \in Early BY <2>7 DEF Await, Early
    <3> QED BY <2>2, <2>7, <3>1, EarlyDue DEF others, Await
  <2>8. CASE Preflight(r)
    BY <2>3, <2>8 DEF others, Preflight
  <2>9. CASE ScansDone(r)
    <3>1. /\ phase[r] = "scans" /\ UNCHANGED result /\ \A i \in Scanned(r) : Finished(r, i)
          /\ Goto(r, IF Texts(r) = {} THEN "record" ELSE "roles")
      BY <2>9 DEF ScansDone
    <3>2. Texts(r) = {} => Unanswered(r) = {} BY DEF Unanswered
    <3>3. CASE Texts(r) = {} BY <2>3, <3>1, <3>2, <3>3 DEF others
    <3>4. CASE Texts(r) # {} BY <2>3, <3>1, <3>4 DEF others
    <3> QED BY <3>3, <3>4
  <2>10. CASE TextsDone(r)
    BY <1>1, <2>3, <2>10 DEF others, TextsDone, Progress
  <2>11. CASE CallRaises(r)
    BY <2>2, <2>11, ErrorDue DEF others, CallRaises
  <2>12. CASE RecordNext(r)
    <3>1. \/ Conclude(r, [NoResult EXCEPT !.state = "REFUSED"])
          \/ Conclude(r, [NoResult EXCEPT !.state = "ERROR"])
          \/ UNCHANGED <<phase, result>>
      BY <2>12 DEF RecordNext
    <3> QED BY <2>2, <2>4, <3>1, ErrorDue DEF others
  <2>13. CASE Decide(r)
    <3> DEFINE pair == AdmitPair(Analyses(r))
               unreadable == Escalated(Analyses(r))
               drafts == CompareFields(pair)
    <3>1. phase[r] = "record" BY <2>13 DEF Decide
    <3>2. IF pair.failure # Nothing
          THEN Conclude(r, IF unreadable = {} THEN ProviderFailed(pair.failure)
                           ELSE Structural({UnreadableDocument(a) : a \in unreadable}, First(unreadable).failure))
          ELSE IF pair.diagnostics # {} THEN Conclude(r, Structural(pair.diagnostics, Nothing))
          ELSE IF EquivalenceQuestions(drafts) = {}
          THEN Conclude(r, Compared(pair, ResolveVerdicts(drafts, <<>>)))
          ELSE Goto(r, "equivalence") /\ UNCHANGED result
      BY <2>13 DEF Decide
    <3>3. CASE pair.failure # Nothing \/ pair.diagnostics # {}
      <4>1. /\ pair.failure # Nothing /\ unreadable = {} => Due(r, ProviderFailed(pair.failure))
            /\ pair.failure # Nothing /\ unreadable # {} =>
                 Due(r, Structural({UnreadableDocument(a) : a \in unreadable}, First(unreadable).failure))
            /\ pair.failure = Nothing /\ pair.diagnostics # {} => Due(r, Structural(pair.diagnostics, Nothing))
        BY <1>1, <3>1, DecidedDue
      <4> HIDE DEF pair, unreadable
      <4> QED BY <2>2, <3>2, <3>3, <4>1 DEF others
    <3>4. CASE pair.failure = Nothing /\ pair.diagnostics = {} /\ EquivalenceQuestions(drafts) = {}
      <4>1. Due(r, Compared(pair, ResolveVerdicts(drafts, <<>>)))
        BY <1>1, <3>1, <3>4, ComparedDue
      <4> HIDE DEF pair, drafts
      <4> QED BY <2>2, <3>2, <3>4, <4>1 DEF others
    <3>5. CASE pair.failure = Nothing /\ pair.diagnostics = {} /\ EquivalenceQuestions(drafts) # {}
      <4>1. Goto(r, "equivalence") /\ UNCHANGED result BY <3>2, <3>5
      <4>2. phase'[r] = "equivalence" BY <4>1, GoesTo
      <4>3. failure[r] = Nothing => Unanswered(r) = {} BY <1>1, <3>1 DEF Progress
      <4>4. \A i \in Scanned(r) : Finished(r, i) BY <1>1, <3>1 DEF Progress
      <4>5. Progress(r)'
        <5>1. RunSame(r) BY <2>1
        <5>2. Analyses(r)' = Analyses(r) BY <5>1, SameAnalyses
        <5>3. AdmitPair(Analyses(r))'.failure = Nothing /\ AdmitPair(Analyses(r))'.diagnostics = {}
          BY <3>5, <5>2
        <5>4. result'[r] = NoResult BY <1>2, <3>1, <4>1
        <5> QED BY <1>1, <4>2, <4>3, <4>4, <5>1, <5>3, <5>4, SameAnalyses DEF RunSame, Progress
      <4> QED BY <2>1, <4>1, <4>2, <4>5, GoesTo DEF others, Sure
    <3> QED BY <3>3, <3>4, <3>5
  <2>14. CASE EquivalenceAnswered(r)
    <3> DEFINE pair == AdmitPair(Analyses(r))
               drafts == CompareFields(pair)
    <3>1. phase[r] = "equivalence" BY <2>14 DEF EquivalenceAnswered
    <3>2. PICK p \in [EquivalenceQuestions(drafts) -> Probabilities] :
            Conclude(r, Compared(pair, ResolveVerdicts(drafts, p)))
      BY <2>14 DEF EquivalenceAnswered
    <3>3. \A f \in EquivalenceQuestions(drafts) : p[f] \in Int BY AnalysisAssumption
    <3>4. pair.failure = Nothing /\ pair.diagnostics = {} BY <1>1, <3>1 DEF Progress
    <3>5. Due(r, Compared(pair, ResolveVerdicts(drafts, p))) BY <1>1, <3>1, <3>3, <3>4, ComparedDue
    <3> QED BY <2>2, <3>2, <3>5 DEF others
  <2>15. CASE EquivalenceFails(r)
    <3>1. phase[r] = "equivalence" BY <2>15 DEF EquivalenceFails
    <3>2. PICK f : Conclude(r, ProviderFailed(f)) BY <2>15 DEF EquivalenceFails
    <3>3. ~\E i \in Docs(r) : read[r][i].at = "failed" BY <1>1, <3>1, NoneFailed DEF Progress
    <3>4. Due(r, ProviderFailed(f))
      <4> DEFINE res == ProviderFailed(f)
      <4>1. res.output = Nothing /\ DOMAIN res.verdicts = {} BY DEF ProviderFailed, NoResult
      <4>2. Retried(r, res) BY <3>3 DEF Retried
      <4> HIDE DEF res
      <4>3. Due(r, res) BY <4>1, <4>2, NothingDue
      <4> QED BY <4>3 DEF res
    <3> QED BY <2>2, <3>2, <3>4 DEF others
  <2> QED
    BY <1>4, <2>5, <2>6, <2>7, <2>8, <2>9, <2>10, <2>11, <2>12, <2>13, <2>14, <2>15
    DEF RunStep, others
<1>5. CASE RolesAnswered(r)
  <2>1. /\ phase[r] = "roles" /\ UNCHANGED <<subject, read, failure, result>>
        /\ IF Unanswered(r) \ NextBatch(r) = {} THEN Goto(r, "texts") ELSE UNCHANGED phase
    BY <1>5 DEF RolesAnswered
  <2>2. \A q \in Runs : q # r => role'[q] = role[q] BY <1>1, <1>5 DEF RolesAnswered
  <2>3. /\ phase'[r] = IF Unanswered(r) \ NextBatch(r) = {} THEN "texts" ELSE "roles"
        /\ \A q \in Runs : q # r => phase'[q] = phase[q]
    BY <2>1, GoesTo
  <2>4. /\ \A i \in Docs(r) : role'[r][i] # Nothing =>
             /\ Kind[Content(r, i)] \in {"text", "scan"}
             /\ RoleBatch = 1 => role'[r][i].choice = RoleOf[Content(r, i)]
        /\ phase'[r] = "texts" => \A i \in Texts(r) : role'[r][i] # Nothing
    BY <1>1, <1>5, <2>3, Answers
  <2>5. Docs(r)' = Docs(r) /\ \A i : Content(r, i)' = Content(r, i) BY <2>1, SameContent
  <2>6. Texts(r)' = Texts(r) /\ Scanned(r)' = Scanned(r) /\ \A i : Finished(r, i)' <=> Finished(r, i)
    BY <2>1, <2>5 DEF Texts, HasText, Scanned, Finished
  <2>7. phase'[r] = "texts" => Unanswered(r)' = {} BY <2>4, <2>6 DEF Unanswered
  <2>8. phase'[r] \in {"roles", "texts"} /\ result'[r] = NoResult BY <1>2, <2>1, <2>3
  <2>9. Progress(r)' BY <1>1, <2>1, <2>4, <2>5, <2>6, <2>7, <2>8 DEF Progress
  <2> QED BY <2>1, <2>2, <2>3, <2>8, <2>9 DEF RunSame, Sure
<1>6. CASE RolesFail(r)
  <2>1. PICK f \in CaseFailures({a \in BadAnswers : ~RoleAccepted(a)}) : failure' = [failure EXCEPT ![r] = f]
    BY <1>6 DEF RolesFail
  <2>2. f # Nothing BY <2>1, FailuresTyped, RequestFailuresTyped
  <2>3. /\ phase[r] = "roles" /\ role' = [role EXCEPT ![r] = [i \in Docs(r) |-> Nothing]]
        /\ Goto(r, "record") /\ UNCHANGED <<subject, read, result>>
    BY <1>6 DEF RolesFail
  <2>4. /\ failure'[r] # Nothing /\ \A i \in Docs(r) : role'[r][i] = Nothing
        /\ \A q \in Runs : q # r => failure'[q] = failure[q] /\ role'[q] = role[q]
    BY <1>1, <2>1, <2>2, <2>3
  <2>5. phase'[r] = "record" /\ \A q \in Runs : q # r => phase'[q] = phase[q] BY <2>3, GoesTo
  <2>6. Docs(r)' = Docs(r) BY <2>3, SameContent
  <2>7. Scanned(r)' = Scanned(r) /\ \A i : Finished(r, i)' <=> Finished(r, i)
    BY <2>3, SameContent DEF Scanned, Finished
  <2>8. Progress(r)' BY <1>1, <1>2, <2>3, <2>4, <2>5, <2>6, <2>7 DEF Progress
  <2> QED BY <2>3, <2>4, <2>5, <2>8 DEF RunSame, Sure
<1>7. CASE ~RolesAnswered(r) /\ ~RolesFail(r) /\ ~\E i \in Docs(r) : ReadStep(r, i)
  <2>1. UNCHANGED <<subject, read, role, failure>>
    BY <1>7 DEF RunStep, ClassifyBatch, ClassifyFails, Await, Preflight, ScansDone, TextsDone, CallRaises,
                RecordNext, Decide, EquivalenceAnswered, EquivalenceFails
  <2> QED BY <1>4, <1>7, <2>1
<1> QED BY <1>3, <1>5, <1>6, <1>7

-----------------------------------------------------------------------------
(* Theorems on the results and the types *)

(* The initial state satisfies the second invariant. *)
LEMMA SureStarts == Init => RInv
<1> SUFFICES ASSUME Init, NEW r \in Runs PROVE Sure(r) BY DEF RInv
<1>1. \A i \in Docs(r) : role[r][i] = Nothing BY DEF Init
<1>2. phase[r] = "classify" /\ result[r] = NoResult BY DEF Init
<1> QED BY <1>1, <1>2 DEF Sure, Progress

(* A step keeps the types. *)
LEMMA TypesKept ==
  ASSUME AInv, Typed, NEW r \in Runs, RunStep(r) \/ ResetAll(r)
  PROVE  Typed'
<1> USE DEF calm, given
<1>1. ASSUME NEW p \in Phases, Goto(r, p) PROVE phase' \in [Runs -> Phases]
  BY <1>1 DEF Typed, Goto
<1>2. \A res : Conclude(r, res) => phase' \in [Runs -> Phases] BY <1>1 DEF Conclude, Phases
<1>3. (Fault \/ UNCHANGED faults) => faults' \in 0..MaxFaults
  BY AnalysisAssumption DEF Typed, Fault
<1>4. CASE ClassifyBatch(r)
  <2> DEFINE batch == Batch(Mailbox[subject[r]], CategoryBatch, asked[r] + 1)
  <2>1. Len(batch) \in Nat
    <3>1. Mailbox[subject[r]] \in Seq(Emails) BY AnalysisAssumption DEF AInv, Shape
    <3>2. Len(Mailbox[subject[r]]) \in Nat /\ asked[r] \in Nat /\ CategoryBatch \in 1..16
      BY <3>1, AnalysisAssumption DEF Typed
    <3> DEFINE last == IF asked[r] + 1 + CategoryBatch - 1 <= Len(Mailbox[subject[r]])
                       THEN asked[r] + 1 + CategoryBatch - 1 ELSE Len(Mailbox[subject[r]])
    <3>3. batch = SubSeq(Mailbox[subject[r]], asked[r] + 1, last) BY DEF Batch
    <3>4. last \in Int /\ last <= Len(Mailbox[subject[r]]) BY <3>2
    <3> HIDE DEF last, batch
    <3>5. \A i \in (asked[r] + 1)..last : Mailbox[subject[r]][i] \in Emails BY <3>1, <3>2, <3>4
    <3>6. batch \in Seq(Emails) BY <3>2, <3>3, <3>4, <3>5, SubSeqProperties
    <3> QED BY <3>6
  <2>2. asked[r] + Len(batch) \in Nat BY <2>1 DEF Typed
  <2> HIDE DEF batch
  <2>3. asked' \in [Runs -> Nat] BY <1>4, <2>2 DEF Typed, ClassifyBatch, batch
  <2>4. phase' \in [Runs -> Phases]
    <3>1. UNCHANGED phase \/ Goto(r, "preflight") \/ \E res : Conclude(r, res) BY <1>4 DEF ClassifyBatch
    <3> QED BY <1>1, <1>2, <3>1 DEF Typed, Phases
  <2>5. UNCHANGED <<faults, keys, wired, subject, retired>> BY <1>4 DEF ClassifyBatch
  <2> QED BY <2>3, <2>4, <2>5 DEF Typed
<1>5. CASE \E i \in Docs(r) : ReadStep(r, i)
  <2>1. PICK i \in Docs(r) : ReadStep(r, i) BY <1>5
  <2>2. UNCHANGED <<keys, wired, subject, retired, asked>> /\ (Fault \/ UNCHANGED faults)
    BY <2>1 DEF ReadStep, CacheHits, CacheMisses, KeyAnswers, KeyGarbles, KeyLimited, KeyFails, CallTimesOut,
                NotConfigured, StoreResult, StoreFails, CacheUnreachable
  <2>3. UNCHANGED phase \/ \E res : Conclude(r, res) BY <2>1, ReadFrame DEF CacheUnreachable
  <2> QED BY <1>2, <1>3, <2>2, <2>3 DEF Typed
<1>6. CASE ResetAll(r)
  BY <1>3, <1>6 DEF Typed, ResetAll
<1>7. CASE /\ RunStep(r) /\ ~ClassifyBatch(r) /\ ~\E i \in Docs(r) : ReadStep(r, i)
  <2>1. UNCHANGED <<keys, wired, subject, retired, asked>> /\ (Fault \/ UNCHANGED faults)
    BY <1>7 DEF RunStep, ClassifyFails, Await, Preflight, ScansDone, RolesAnswered, RolesFail, TextsDone,
                CallRaises, RecordNext, Decide, EquivalenceAnswered, EquivalenceFails
  <2>2. \/ UNCHANGED phase \/ \E res : Conclude(r, res)
        \/ Goto(r, "scans") \/ Goto(r, "record") \/ Goto(r, "roles") \/ Goto(r, "texts") \/ Goto(r, "equivalence")
    BY <1>7 DEF RunStep, ClassifyFails, Await, Preflight, ScansDone, RolesAnswered, RolesFail, TextsDone,
                CallRaises, RecordNext, Decide, EquivalenceAnswered, EquivalenceFails
  <2>3. phase' \in [Runs -> Phases] BY <1>1, <1>2, <2>2 DEF Typed, Phases
  <2> QED BY <1>3, <2>1, <2>3 DEF Typed
<1> QED BY <1>4, <1>5, <1>6, <1>7

TInv == AInv /\ RInv /\ Typed

(* So the second invariant always holds. *)
LEMMA ResultsInvariance == Spec => []TInv
<1>1. Init => TInv
  <2>1. ASSUME Init PROVE Typed
    <3>1. 0 \in 0..MaxFaults BY AnalysisAssumption
    <3> QED BY <2>1, <3>1 DEF Init, Typed, Phases
  <2> QED BY <2>1, AnalysisStarts, SureStarts DEF TInv
<1>2. TInv /\ [Next]_vars => TInv'
  <2> SUFFICES ASSUME AInv, RInv, Typed, [Next]_vars PROVE TInv' BY DEF TInv
  <2>1. CASE UNCHANGED vars
    <3>1. AInv' BY <2>1, NothingKeeps DEF vars, calm, given
    <3>2. \A r \in Runs : RunSame(r) /\ phase'[r] = phase[r] /\ result'[r] = result[r]
      BY <2>1 DEF vars, calm, given, RunSame
    <3>3. RInv' BY <3>2, SureStays DEF RInv
    <3>4. Typed' BY <2>1 DEF vars, calm, given, Typed
    <3> QED BY <3>1, <3>3, <3>4 DEF TInv
  <2>2. ASSUME NEW r \in Runs, ResetAll(r) PROVE TInv'
    <3>1. AInv' BY <2>2, NothingKeeps DEF ResetAll, given
    <3>2. \A q \in Runs : RunSame(q) /\ phase'[q] = phase[q] /\ result'[q] = result[q]
      BY <2>2 DEF ResetAll, given, RunSame
    <3>3. RInv' BY <3>2, SureStays DEF RInv
    <3> QED BY <2>2, <3>1, <3>3, TypesKept DEF TInv
  <2>3. ASSUME NEW r \in Runs, RunStep(r) PROVE TInv'
    <3>1. AInv' BY <2>3, RunStepKeeps
    <3>2. Sure(r)' /\ \A q \in Runs : q # r => RunSame(q) /\ phase'[q] = phase[q] /\ result'[q] = result[q]
      BY <2>3, RunSure DEF RInv
    <3>3. \A q \in Runs : q # r => Sure(q)' BY <3>2, SureStays DEF RInv
    <3> QED BY <2>3, <3>1, <3>2, <3>3, TypesKept DEF TInv, RInv
  <2> QED BY <2>1, <2>2, <2>3 DEF Next, Finish
<1> QED BY <1>1, <1>2, PTL DEF Spec

(* Every variable keeps its type. *)
THEOREM TypesAlwaysKept == Spec => []TypeOK
<1>1. TInv => TypeOK
  <2> SUFFICES ASSUME TInv PROVE TypeOK OBVIOUS
  <2> USE DEF TInv
  <2>1. ASSUME NEW v \in Values PROVE DOMAIN v \subseteq ComparedFields
    <3>1. PICK c \in Contents, reading \in Readings : v = Found(c, reading) BY DEF Values
    <3>2. DOMAIN Printed[c] \subseteq ComparedFields /\ DOMAIN reading.fields \subseteq ComparedFields
      BY AnalysisAssumption
    <3> QED BY <3>1, <3>2 DEF Found
  <2>2. DOMAIN cache = Contents /\ \A c \in Contents : cache[c] # Nothing => DOMAIN cache[c] \subseteq ComparedFields
    BY <2>1 DEF AInv, Shape
  <2>3. ASSUME NEW r \in Runs, NEW i \in Docs(r)
        PROVE  /\ read[r][i].at \in {"none", "call", "store", "ok", "failed"}
               /\ read[r][i].at \in {"store", "ok"} => read[r][i].value # Nothing
               /\ read[r][i].at = "failed" <=> read[r][i].failure # Nothing
               /\ role[r][i] = Nothing \/ role[r][i].choice \in Roles
    BY DEF AInv, Shape, Reads, Account
  <2>4. Typed OBVIOUS
  <2> QED BY <2>2, <2>3, <2>4 DEF Typed, Phases, TypeOK
<1> QED BY <1>1, ResultsInvariance, PTL

(* _validate_case_evidence, EvaluatorOutput and _output_for_snapshot: on   *)
(* every path to a conclusion, whatever the providers answered, the case   *)
(* is accepted when it is recorded, and the batch publishes the row its    *)
(* reviewer saw.                                                           *)
THEOREM OutcomesAlwaysAgree == Spec => []OutcomeAgrees
<1>1. TInv => OutcomeAgrees
  <2> SUFFICES ASSUME TInv, NEW r \in Runs, result[r].output # Nothing, result[r].state # "NOT_COMPARED"
               PROVE  Agrees(result[r].output, result[r].diagnostics, result[r].verdicts)
    BY Zenon DEF OutcomeAgrees, Agrees
  <2>1. phase[r] = "done" BY NoResultIs DEF TInv, RInv, Sure, Progress
  <2> QED BY <2>1 DEF TInv, RInv, Sure, Due, Recordable
<1> QED BY <1>1, ResultsInvariance, PTL

(* run_case: a case whose read failed is held for a reviewer exactly when  *)
(* no retry can help, and waits for a retry otherwise, whichever reads     *)
(* and requests failed with it.                                            *)
THEOREM AlwaysRetryOrReview == Spec => []RetryOrReview
<1>1. TInv => RetryOrReview
  <2> SUFFICES ASSUME TInv, NEW r \in Runs, Ended(r), \E i \in Docs(r) : read[r][i].at = "failed",
                      result[r].state \notin {"ERROR", "REFUSED"}
               PROVE  result[r].state = IF Hopeless(r) THEN "NEEDS_REVIEW" ELSE "PROVIDER_FAILED"
    BY Zenon DEF RetryOrReview, Hopeless
  <2> QED BY DEF TInv, RInv, Sure, Due, Retried, Ended
<1> QED BY <1>1, ResultsInvariance, PTL

(* JevDocumentRoleClient and admit_pair: with each document asked about    *)
(* alone, the batch size the client is built with, a case is compared only *)
(* over exactly one Shipping Instruction and one draft BL, and an email    *)
(* with one pair is never held for a wrong or a missing document.          *)
THEOREM AlwaysComparesThePair ==
  ASSUME RoleBatch = 1
  PROVE  Spec => []ComparesThePair
<1>1. TInv => ComparesThePair
  <2> SUFFICES ASSUME TInv, NEW r \in Runs PROVE Paired(r, result[r])
    BY Zenon DEF ComparesThePair, Paired
  <2>1. CASE phase[r] = "done" BY <2>1 DEF TInv, RInv, Sure, Due
  <2>2. CASE phase[r] # "done" BY <2>2, NoResultIs DEF TInv, RInv, Sure, Progress, Paired
  <2> QED BY <2>1, <2>2
<1> QED BY <1>1, ResultsInvariance, PTL

=============================================================================
