----------------------------- MODULE GraphChat -----------------------------
(***************************************************************************)
(* The control graph at work.  The prepared demo is built by the process   *)
(* as it starts, or by the first request that finds it missing             *)
(* (load_seed_catalog): one at a time, and not again for a while after a   *)
(* build failed.  Within a build Gate 2 reconciles the ledger (GateTwo);   *)
(* from its results comes the graph (ControlGraph), of which the canvas is *)
(* served a slice, and chats ask a language model about it                 *)
(* (GraphChatService.answer).  A chat waits for one of a few slots, sends  *)
(* what it retrieved, tries each key and retries while its budget lasts,   *)
(* and believes the model only where it cites what it was sent.            *)
(*                                                                         *)
(* Each call of the provider, each pause between two of them, each timeout *)
(* and each step of a build is a step of its own.  Operators named         *)
(* "Mutant..." are plausible bugs; no specification uses them.             *)
(***************************************************************************)
EXTENDS ControlGraph

CONSTANTS
  Startup,        \* the process as it starts (lifespan)
  Nobody,         \* no one holds the lock
  Chats,          \* requests of the route /api/graph/chat
  Asked(_),       \* questions the chats may ask about a ledger
  Keys(_),        \* numbers of configured Gemini keys to check a ledger with
  Invalid,        \* questions, with their history, that are too long or empty
  Score,          \* [questions -> [kinds of nodes -> how well they match]]
  Answers,        \* answers of the model: [refused, plain, cites, marks]
  Slots,          \* max_concurrent_graph_chats
  MaxRetries,     \* max_retries of generate_with_backoff
  OverviewLimit,  \* OVERVIEW_NODE_LIMIT
  SubsetLimit,    \* SUBSET_NODE_LIMIT
  SubgraphLimit   \* CHAT_SUBGRAPH_NODE_LIMIT

ASSUME ChatAssumption ==
  /\ Nobody # Startup /\ {Startup, Nobody} \cap Chats = {}
  /\ \A l \in Ledgers : Keys(l) \subseteq 0..2 /\ Asked(l) \subseteq DOMAIN Score
  /\ Slots \in Nat \ {0} /\ MaxRetries \in Nat
  /\ OverviewLimit \in Nat /\ SubsetLimit \in Nat /\ SubgraphLimit \in Nat

VARIABLES
  lock,     \* who holds _catalog_lock, and builds
  failed,   \* the last build failed (_catalog_failed)
  cooling,  \* ... less than SEED_REBUILD_COOLDOWN ago
  graph,    \* the corpus of the catalog, once that is built
  keys,     \* number of configured keys
  free,     \* slots no chat holds
  chat      \* the state of each chat

seedVars == <<lock, failed, cooling, graph>>
vars == <<gateVars, seedVars, keys, free, chat>>

NoGraph == [none |-> TRUE]

Reply(code) == [code |-> code, cites |-> {}, marks |-> {}, highlight |-> <<>>, drawn |-> {}]

(* attempts: the keys tried, in one list for all retries; key, retries:    *)
(* the key in use, and the retries made.                                   *)
Idle == [phase |-> "idle", question |-> Absent, attempts |-> <<>>, key |-> 1, retries |-> 0,
         reply |-> Reply("none")]

Built == graph # NoGraph

Sent(k) == Retrieve(graph, Score[chat[k].question], SubsetLimit)

-----------------------------------------------------------------------------
(* The answer *)

(* An answer is garbage where it does not fit its schema. *)
Garbage == [garbage |-> TRUE]

ASSUME AnswersAssumption ==
  \A answer \in Answers \ {Garbage} :
    answer.cites \in Seq(ToSet(answer.cites)) /\ \A c \in ToSet(answer.cites) : c.ref \in Int

MutantFault(answer, sent) ==
  \/ ~answer.plain \/ answer.cites = <<>>
  \/ \E i, j \in DOMAIN answer.cites : i # j /\ answer.cites[i].ref = answer.cites[j].ref
  \/ \E c \in ToSet(answer.cites) :
       \/ c.on \notin {"node", "edge"}
       \/ c.on = "node" /\ c.id \notin Ids(graph)
       \/ c.on = "edge" /\ c.id \notin {e.id : e \in ToSet(graph.edges)}
  \/ ~(answer.marks \subseteq {c.ref : c \in ToSet(answer.cites)})

(* Why an answer cannot be trusted (_grounding_fault): it is not plain     *)
(* prose, uses a number twice, cites both or neither of a node and an edge *)
(* or what it was not sent, cites nothing, or marks what it does not cite. *)
Fault(answer, sent) ==
  \/ ~answer.plain \/ answer.cites = <<>>
  \/ \E i, j \in DOMAIN answer.cites : i # j /\ answer.cites[i].ref = answer.cites[j].ref
  \/ \E c \in ToSet(answer.cites) :
       \/ c.on \notin {"node", "edge"}
       \/ c.on = "node" /\ c.id \notin Ids(sent)
       \/ c.on = "edge" /\ c.id \notin {e.id : e \in ToSet(sent.edges)}
  \/ ~(answer.marks \subseteq {c.ref : c \in ToSet(answer.cites)})

(* Citations by their numbers, of which there are no two alike. *)
InOrder(cites) ==
  LET upto(c) == {d \in ToSet(cites) : d.ref <= c.ref}
  IN  [i \in DOMAIN cites |-> CHOOSE c \in ToSet(cites) : Cardinality(upto(c)) = i]

(* A cited node, or the two ends of a cited edge, in the order of refs. *)
Highlighted(answer, sent) ==
  LET ends(c) ==
        IF c.on = "node" THEN <<c.id>>
        ELSE LET e == CHOOSE x \in ToSet(sent.edges) : x.id = c.id IN <<e.source, e.target>>
  IN  Distinct(FlattenSeq(Mapped(InOrder(answer.cites), ends)))

(* Nothing of an answer that cannot be trusted is returned, and of a       *)
(* refusal nothing but its words.                                          *)
Response(answer, sent) ==
  IF answer = Garbage \/ answer.refused \/ Fault(answer, sent) THEN Reply("ungrounded")
  ELSE [code |-> "answered", cites |-> ToSet(answer.cites), marks |-> answer.marks,
        highlight |-> Highlighted(answer, sent),
        drawn |-> ToSet(CitedSubgraph(graph, Highlighted(answer, sent), SubgraphLimit).ids)]

-----------------------------------------------------------------------------
Init ==
  /\ GateInit
  /\ lock = Startup /\ failed = FALSE /\ cooling = FALSE
  /\ graph = NoGraph
  /\ keys \in Keys(ledger)
  /\ free = Slots
  /\ chat = [k \in Chats |-> Idle]

Answered(k, code) ==
  chat' = [chat EXCEPT ![k].phase = "done", ![k].reply = Reply(code)]

(* The checks of a question come after the catalog is there. *)
Admitted(k, q) ==
  chat' = [chat EXCEPT ![k].question = q,
                       ![k].phase = IF q \in Invalid THEN "done" ELSE "waiting",
                       ![k].reply = IF q \in Invalid THEN Reply("invalid_request") ELSE @]

-----------------------------------------------------------------------------
(* The catalog *)

Reconcile ==
  /\ lock # Nobody
  /\ GateStep
  /\ UNCHANGED <<seedVars, keys, free, chat>>

BuildSucceeds ==
  /\ lock # Nobody /\ stage = "done"
  /\ graph' = BuildCorpus
  /\ lock' = Nobody /\ failed' = FALSE /\ cooling' = FALSE
  /\ IF lock \in Chats THEN Admitted(lock, chat[lock].question) ELSE UNCHANGED chat
  /\ UNCHANGED <<gateVars, keys, free>>

MutantBuildFails ==
  /\ lock # Nobody /\ stage \in {"match", "done"} /\ group = {} /\ pending = {}
  /\ stage = "match" => visited = {}
  /\ lock' = (IF lock = Startup THEN Nobody ELSE lock) /\ failed' = TRUE /\ cooling' = TRUE
  /\ stage' = "match" /\ visited' = {} /\ results' = {}
  /\ IF lock \in Chats THEN Answered(lock, "seed_unavailable") ELSE UNCHANGED chat
  /\ UNCHANGED <<ledger, pending, group, claimed, graph, keys, free>>

(* The bundle or the decisions cannot be read, or a result is refused by   *)
(* its model; nothing of the build is kept.                                *)
BuildFails ==
  /\ lock # Nobody /\ stage \in {"match", "done"} /\ group = {} /\ pending = {}
  /\ stage = "match" => visited = {}
  /\ lock' = Nobody /\ failed' = TRUE /\ cooling' = TRUE
  /\ stage' = "match" /\ visited' = {} /\ results' = {}
  /\ IF lock \in Chats THEN Answered(lock, "seed_unavailable") ELSE UNCHANGED chat
  /\ UNCHANGED <<ledger, pending, group, claimed, graph, keys, free>>

CooldownEnds ==
  /\ cooling
  /\ cooling' = FALSE
  /\ UNCHANGED <<gateVars, lock, failed, graph, keys, free, chat>>

(* The process serves requests when its own build is over. *)
Ask(k, q) ==
  /\ lock # Startup /\ chat[k].phase = "idle" /\ q \in Asked(ledger)
  /\ \/ Built /\ Admitted(k, q)
     \/ ~Built /\ cooling /\ Answered(k, "seed_unavailable")
     \/ ~Built /\ ~cooling
          /\ chat' = [chat EXCEPT ![k].question = q, ![k].phase = "locking"]
  /\ UNCHANGED <<gateVars, seedVars, keys, free>>

MutantTakeLock(k) ==
  /\ chat[k].phase = "locking" /\ lock = Nobody
  /\ lock' = k /\ chat' = [chat EXCEPT ![k].phase = "building"]
  /\ UNCHANGED <<gateVars, failed, cooling, graph, keys, free>>

(* The first look may be stale by now: both checks are made again. *)
TakeLock(k) ==
  /\ chat[k].phase = "locking" /\ lock = Nobody
  /\ \/ Built /\ Admitted(k, chat[k].question) /\ UNCHANGED lock
     \/ ~Built /\ cooling /\ Answered(k, "seed_unavailable") /\ UNCHANGED lock
     \/ ~Built /\ ~cooling
          /\ lock' = k /\ chat' = [chat EXCEPT ![k].phase = "building"]
  /\ UNCHANGED <<gateVars, failed, cooling, graph, keys, free>>

(* What the readiness probe says of the catalog, without waiting for it. *)
SeedStatus == IF Built THEN "ready" ELSE IF failed THEN "error" ELSE "building"

-----------------------------------------------------------------------------
(* A chat *)

HasSlot(k) == chat[k].phase \in {"calling", "pausing"}

(* Every way out of a chat gives its slot back. *)
End(k, attempts, reply) ==
  /\ chat' = [chat EXCEPT ![k].phase = "done", ![k].attempts = attempts, ![k].reply = reply]
  /\ free' = free + 1

MutantTakeSlot(k) ==
  /\ chat[k].phase = "waiting"
  /\ chat' = [chat EXCEPT ![k].phase = "calling"]
  /\ free' = free - 1
  /\ UNCHANGED <<gateVars, seedVars, keys>>

TakeSlot(k) ==
  /\ chat[k].phase = "waiting" /\ free > 0
  /\ chat' = [chat EXCEPT ![k].phase = "calling"]
  /\ free' = free - 1
  /\ UNCHANGED <<gateVars, seedVars, keys>>

(* No slot in five seconds. *)
Busy(k) ==
  /\ chat[k].phase = "waiting"
  /\ Answered(k, "chat_busy")
  /\ UNCHANGED <<gateVars, seedVars, keys, free>>

Unconfigured(k) ==
  /\ chat[k].phase = "calling" /\ keys = 0
  /\ End(k, <<>>, Reply("unconfigured"))
  /\ UNCHANGED <<gateVars, seedVars, keys>>

Attempt(k, outcome) == Append(chat[k].attempts, [key |-> chat[k].key, outcome |-> outcome])

KeyAnswers(k, answer) ==
  /\ chat[k].phase = "calling" /\ keys > 0
  /\ End(k, Attempt(k, "SUCCEEDED"), Response(answer, Sent(k)))
  /\ UNCHANGED <<gateVars, seedVars, keys>>

(* A call failed for good: it is tried again after a pause if its status   *)
(* is transient, a retry is left, and the pause ends within the budget.    *)
CallFails(k, attempts, transient) ==
  \/ /\ transient /\ chat[k].retries < MaxRetries
     /\ chat' = [chat EXCEPT ![k].phase = "pausing", ![k].attempts = attempts]
     /\ UNCHANGED free
  \/ End(k, attempts, Reply(IF transient THEN "at_capacity" ELSE "provider_failed"))

(* A 429 moves the call to the next key; on the last key it is a failure. *)
KeyLimited(k) ==
  /\ chat[k].phase = "calling" /\ keys > 0
  /\ IF chat[k].key < keys
     THEN /\ chat' = [chat EXCEPT ![k].key = @ + 1, ![k].attempts = Attempt(k, "RATE_LIMITED")]
          /\ UNCHANGED free
     ELSE CallFails(k, Attempt(k, "RATE_LIMITED"), TRUE)
  /\ UNCHANGED <<gateVars, seedVars, keys>>

KeyFails(k, transient) ==
  /\ chat[k].phase = "calling" /\ keys > 0
  /\ CallFails(k, Attempt(k, IF transient THEN "UNAVAILABLE" ELSE "FAILED"), transient)
  /\ UNCHANGED <<gateVars, seedVars, keys>>

(* After the pause the call starts again at the first key. *)
Retry(k) ==
  /\ chat[k].phase = "pausing"
  /\ chat' = [chat EXCEPT ![k].phase = "calling", ![k].key = 1, ![k].retries = @ + 1]
  /\ UNCHANGED <<gateVars, seedVars, keys, free>>

(* The budget of the whole chat ends, in a call or in a pause. *)
TimesOut(k) ==
  /\ HasSlot(k) /\ keys > 0
  /\ End(k, chat[k].attempts, Reply("late"))
  /\ UNCHANGED <<gateVars, seedVars, keys>>

Build == Reconcile \/ BuildFails \/ BuildSucceeds

(* What a chat waits for no longer than its timeout. *)
Advance(k) ==
  TakeLock(k) \/ TakeSlot(k) \/ Busy(k) \/ Unconfigured(k) \/ TimesOut(k)

Call(k) ==
  \/ \E answer \in Answers : KeyAnswers(k, answer)
  \/ KeyLimited(k) \/ \E transient \in BOOLEAN : KeyFails(k, transient)
  \/ Retry(k)

Next ==
  \/ Build \/ CooldownEnds
  \/ \E k \in Chats : Advance(k) \/ Call(k) \/ \E q \in Asked(ledger) : Ask(k, q)

Spec == Init /\ [][Next]_vars

(* The event loop runs what is ready, and the wait for a slot and the      *)
(* calls with their pauses have a timeout.  Nobody has to ask, and the     *)
(* provider does not have to answer.                                       *)
Fairness == WF_vars(Build) /\ \A k \in Chats : WF_vars(Advance(k))

FairSpec == Spec /\ Fairness

-----------------------------------------------------------------------------
(* Properties *)

(* Every variable keeps its type; no more slots are held than there are.   *)
TypeOK ==
  /\ GateTypeOK
  /\ lock \in Chats \cup {Startup, Nobody} /\ failed \in BOOLEAN /\ cooling \in BOOLEAN
  /\ keys \in 0..2 /\ free \in 0..Slots
  /\ \A k \in Chats :
       /\ chat[k].phase \in {"idle", "locking", "building", "waiting", "calling", "pausing", "done"}
       /\ chat[k].key \in 1..2 /\ chat[k].retries \in 0..MaxRetries
       /\ chat[k].reply.code \in
            {"none", "seed_unavailable", "invalid_request", "chat_busy", "unconfigured", "answered", "ungrounded",
             "at_capacity", "provider_failed", "late"}

Kinds(kinds) == {n \in ToSet(graph.nodes) : n.kind \in kinds}
Flags == Kinds({"mismatch", "exception"})
Ends(Test(_)) == {i \in DOMAIN graph.edges : Test(graph.edges[i])}
FlaggedBy(flag) == {graph.edges[i].target : i \in Ends(LAMBDA e : e.source = flag.id)}
FlagsOf(id) ==
  LET sources == {graph.edges[i].source : i \in Ends(LAMBDA e : e.target = id)}
  IN  {flag \in Flags : flag.id \in sources}

(* What Gate 1 found in an email: flags named after it, and not for how    *)
(* Gate 2 ended.                                                           *)
FoundIn(e) == {flag \in Flags : flag.id[2][1] = e /\ flag.id[2][2] \notin Outcomes}

(* The graph is whole (build_corpus): its names are unique and its edges   *)
(* have both ends; every result of Gate 2 that is not a cleared shipment   *)
(* has a flag that is about exactly its shipments and emails, and an email *)
(* has one more for each of its diagnostics; only a cleared shipment shows *)
(* as matched; and a party or port shows the worst of its flags.  An email *)
(* that was compared shows as matched exactly if the submission says OK of *)
(* it, and exactly if no flag tells of it; and one that waits for a person *)
(* is one with an exception (seed_catalog._comparison_case).               *)
GraphWhole ==
  Built =>
    /\ Cardinality(Ids(graph)) = Len(graph.nodes)
    /\ Cardinality({graph.edges[i].id : i \in DOMAIN graph.edges}) = Len(graph.edges)
    /\ {graph.edges[i].source : i \in DOMAIN graph.edges} \subseteq Ids(graph)
    /\ {graph.edges[i].target : i \in DOMAIN graph.edges} \subseteq Ids(graph)
    /\ \A r \in {x \in results : x.outcome # "CASE_PRESENT"} :
         \E flag \in Flags :
           FlaggedBy(flag) = {<<"shipment", s>> : s \in r.shipments} \cup {<<"email", c>> : c \in r.cases}
    /\ \A e \in Emails :
         Cardinality(FlagsOf(<<"email", e>>)) =
           Cardinality(SeedCase[e].diagnostics)
             + Cardinality({r \in results : e \in r.cases /\ r.outcome # "CASE_PRESENT"})
    /\ \A n \in Kinds({"email"}) :
         LET e == n.id[2]
         IN  /\ n.state # "neutral" =>
                  /\ n.state = "match" <=> SubmissionRow(e).status = "OK"
                  /\ n.state = "match" <=> FoundIn(e) = {}
             /\ SeedCase[e].inReview <=> \E flag \in FoundIn(e) : flag.kind = "exception"
    /\ \A n \in Kinds({"shipment"}) :
         n.state = "match" <=> \E r \in results : r.outcome = "CASE_PRESENT" /\ n.id[2] \in r.shipments
    /\ \A n \in Kinds({"party", "port"}) :
         /\ n.state = "mismatch" <=> \E flag \in FlagsOf(n.id) : flag.kind = "mismatch"
         /\ n.state = "match" <=> FlagsOf(n.id) = {}

(* The overview (corpus_overview) keeps its limit; a shipment that went    *)
(* wrong is left out only when the slice is full, and then no shipment     *)
(* that went right is in it.  A flag is drawn with all it is about, or as  *)
(* a neighbour of a shipment it is about: then that shipment is drawn too. *)
OverviewFair ==
  Built =>
    LET drawn == Ids(CorpusOverview(graph, OverviewLimit))
        Ships(right) == {n.id : n \in {x \in Kinds({"shipment"}) : (x.state = "match") = right}}
    IN  /\ Cardinality(drawn) <= OverviewLimit
        /\ ~(Ships(FALSE) \subseteq drawn) =>
             Cardinality(drawn) = OverviewLimit /\ Ships(TRUE) \cap drawn = {}
        /\ \A flag \in Flags :
             flag.id \in drawn =>
               \/ FlaggedBy(flag) \subseteq drawn
               \/ \E s \in Shipments : <<"shipment", s>> \in FlaggedBy(flag) \cap drawn

(* "No flag is drawn severed from what it flags" (the docstring of         *)
(* corpus_overview): whatever the overview draws, a flag in it comes with  *)
(* everything it marks.                                                    *)
NoFlagSevered ==
  Built =>
    LET drawn == Ids(CorpusOverview(graph, OverviewLimit))
    IN  \A flag \in Flags : flag.id \in drawn => FlaggedBy(flag) \subseteq drawn

(* Every answer that is called grounded cites what is in the graph and     *)
(* tells of its question, among the few that tell most of it, marks only   *)
(* what it cites and draws all of it; of any other answer nothing is cited *)
(* or drawn (retrieve, _response).                                         *)
AnswersGrounded ==
  \A k \in Chats :
    LET reply    == chat[k].reply
        score(i) == Score[chat[k].question][graph.nodes[i].kind]
        telling  == {i \in DOMAIN graph.nodes : score(i) > 0}
        ahead(i) == {j \in telling : score(j) > score(i) \/ (score(j) = score(i) /\ j < i)}
        found    == {graph.nodes[i].id : i \in {j \in telling : Cardinality(ahead(j)) < SubsetLimit}}
        near(id) == ToSet(Adjacent(graph, id)) \cup {id}
    IN  IF reply.code = "answered"
        THEN /\ reply.cites # {} /\ reply.marks \subseteq {c.ref : c \in reply.cites}
             /\ \A c, d \in reply.cites : c.ref = d.ref => c = d
             /\ \A c \in reply.cites :
                  IF c.on = "node" THEN c.id \in found \cap reply.drawn
                  ELSE \E e \in ToSet(graph.edges) :
                         e.id = c.id /\ {e.source, e.target} \subseteq found \cap reply.drawn
             /\ reply.drawn \subseteq (UNION {near(id) : id \in ToSet(reply.highlight)}) \cap Ids(graph)
             /\ \/ Cardinality(reply.drawn) <= SubgraphLimit
                \/ reply.drawn = ToSet(reply.highlight)
        ELSE reply.cites = {} /\ reply.drawn = {}

(* Only who holds the lock builds, no one once the catalog is there, and a *)
(* chat that was refused for it leaves no probe that still says            *)
(* "building"; a chat that was let through has a catalog.                  *)
(* A chat holds a slot exactly while it calls or pauses, on every way out; *)
(* its calls are counted across its retries, and the second key was tried  *)
(* only after the first was limited; and a chat is answered, with or       *)
(* without grounds, exactly if its last call succeeded                     *)
(* (load_seed_catalog, GraphChatService._slot, generate_with_backoff).     *)
ChatsAccounted ==
  /\ \A k \in Chats : chat[k].phase = "building" <=> lock = k
  /\ Built => lock = Nobody
  /\ (\E k \in Chats : chat[k].reply.code = "seed_unavailable") => SeedStatus # "building"
  /\ \A k \in Chats :
       ~Built => /\ ~HasSlot(k) /\ chat[k].phase # "waiting"
                 /\ chat[k].reply.code \in {"none", "seed_unavailable"}
  /\ free + Cardinality({k \in Chats : HasSlot(k)}) = Slots
  /\ \A k \in Chats :
       LET tried == chat[k].attempts
       IN  /\ Len(tried) <= keys * (MaxRetries + 1)
           /\ \A i \in DOMAIN tried :
                /\ tried[i].key = 2 =>
                     i > 1 /\ tried[i - 1] = [key |-> 1, outcome |-> "RATE_LIMITED"]
                /\ tried[i].outcome = "SUCCEEDED" <=>
                     i = Len(tried) /\ chat[k].reply.code \in {"answered", "ungrounded"}
           /\ chat[k].reply.code = "at_capacity" =>
                tried[Len(tried)].outcome \in {"RATE_LIMITED", "UNAVAILABLE"}

(* Every chat that asks is answered, whoever builds the catalog or holds   *)
(* the slots, and however often the builds and the calls fail.             *)
ChatsEnd == \A k \in Chats : chat[k].phase # "idle" ~> chat[k].phase = "done"

=============================================================================
