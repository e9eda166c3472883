-------------------------- MODULE GraphChatProofs --------------------------
(***************************************************************************)
(* Proofs about GraphChat, for any chats, slots, retries, ledgers, mail:   *)
(* the build of the catalog implements Gate 2, whoever builds and however  *)
(* often a build fails, and every chat is accounted for: slots are         *)
(* conserved, keys are tried in order, a chat is answered exactly if its   *)
(* last call succeeded.  The inductive invariant adds what a chat has      *)
(* behind it in each of its phases (Tried) and bounds its calls by the     *)
(* retries and the key it has come to (Counted).                           *)
(*                                                                         *)
(* The catalog, once built, is sound (ControlGraphProofs), and what chats  *)
(* and the overview show of it follows: every answer cites what its        *)
(* question asks about and draws what it cites, and the overview leaves no *)
(* wrong shipment out for one that is right.  For the answers the lemmas   *)
(* follow a question through Retrieve and Response; for the overview they  *)
(* go along its anchors, with an invariant of their own (Overview).  Last, *)
(* a catalog that is there is the one that was built (BuiltInv), so that   *)
(* what holds of what a build makes holds of it (GraphWhole).              *)
(***************************************************************************)
EXTENDS GraphChat, ControlGraphProofs

Phases == {"idle", "locking", "building", "waiting", "calling", "pausing", "done"}
Early == {"idle", "locking", "building", "waiting"}
Codes ==
  {"none", "seed_unavailable", "invalid_request", "chat_busy", "unconfigured", "answered", "ungrounded",
   "at_capacity", "provider_failed", "late"}
Attempts == [key : 1..2, outcome : {"SUCCEEDED", "RATE_LIMITED", "UNAVAILABLE", "FAILED"}]

IsChat(c) ==
  c = [phase |-> c.phase, question |-> c.question, attempts |-> c.attempts,
       key |-> c.key, retries |-> c.retries, reply |-> c.reply]

(* A chat is a record of a known shape. *)
Shaped(k) ==
  /\ IsChat(chat[k])
  /\ chat[k].phase \in Phases /\ chat[k].attempts \in Seq(Attempts)
  /\ chat[k].key \in 1..2 /\ chat[k].retries \in 0..MaxRetries /\ chat[k].reply.code \in Codes

(* Before it holds a slot a chat has tried nothing, and only a chat that   *)
(* is over has a reply.                                                    *)
Placed(k) ==
  /\ chat[k].phase \in Early => chat[k].attempts = <<>> /\ chat[k].key = 1 /\ chat[k].retries = 0
  /\ chat[k].phase # "done" <=> chat[k].reply.code = "none"
  /\ chat[k].phase = "building" <=> lock = k
  /\ ~Built => /\ chat[k].phase \notin {"waiting", "calling", "pausing"}
               /\ chat[k].reply.code \in {"none", "seed_unavailable"}
  /\ chat[k].reply.code = "seed_unavailable" => Built \/ failed

LastTried(k) == chat[k].attempts[Len(chat[k].attempts)]

(* How many calls a chat made, by the retries and the key it has come to. *)
Counted(k) ==
  /\ keys = 0 => chat[k].attempts = <<>> /\ chat[k].key = 1 /\ chat[k].phase # "pausing"
  /\ keys # 0 => chat[k].key <= keys
  /\ chat[k].phase = "calling" /\ keys # 0 => Len(chat[k].attempts) <= keys * chat[k].retries + chat[k].key - 1
  /\ chat[k].phase = "pausing" =>
       chat[k].retries < MaxRetries /\ Len(chat[k].attempts) <= keys * chat[k].retries + keys
  /\ Len(chat[k].attempts) <= keys * (MaxRetries + 1)

(* A key follows the one that was limited, and a success ends the chat. *)
Tried(k) ==
  /\ \A i \in 1..Len(chat[k].attempts) :
       /\ chat[k].attempts[i].key = 2 =>
            i > 1 /\ chat[k].attempts[i - 1] = [key |-> 1, outcome |-> "RATE_LIMITED"]
       /\ chat[k].attempts[i].outcome = "SUCCEEDED" <=>
            i = Len(chat[k].attempts) /\ chat[k].reply.code \in {"answered", "ungrounded"}
  /\ chat[k].phase = "calling" /\ chat[k].key = 2 =>
       chat[k].attempts # <<>> /\ LastTried(k) = [key |-> 1, outcome |-> "RATE_LIMITED"]
  /\ chat[k].reply.code = "at_capacity" => LastTried(k).outcome \in {"RATE_LIMITED", "UNAVAILABLE"}

ChatInv(k) == Shaped(k) /\ Placed(k) /\ Counted(k) /\ Tried(k)

Holding == {k \in Chats : HasSlot(k)}

SlotsCounted == IsFiniteSet(Holding) /\ free \in Nat /\ free + Cardinality(Holding) = Slots

(* Who builds, and what a failed build leaves. *)
Seeded ==
  /\ ledger \in Ledgers /\ keys \in 0..2 /\ DOMAIN chat = Chats
  /\ lock \in Chats \cup {Startup, Nobody} /\ failed \in BOOLEAN /\ cooling \in BOOLEAN
  /\ Built => lock = Nobody
  /\ cooling => failed

(* The inductive invariant. *)
GraphInv == GateInv /\ Seeded /\ SlotsCounted /\ \A k \in Chats : ChatInv(k)

-----------------------------------------------------------------------------
(* Steps *)

ChatStep(k) ==
  \/ \E q \in Asked(ledger) : Ask(k, q)
  \/ TakeLock(k) \/ TakeSlot(k) \/ Busy(k) \/ Unconfigured(k) \/ TimesOut(k) \/ Call(k)

(* A step is one of a chat or of the build, or the cool-down ends. *)
LEMMA WhoSteps ==
  ASSUME [Next]_vars
  PROVE  \/ \E k \in Chats : ChatStep(k)
         \/ Build \/ CooldownEnds \/ UNCHANGED vars
  BY DEF Next, ChatStep, Advance

(* A graph that was built is told from none. *)
LEMMA GraphIsBuilt == BuildCorpus # NoGraph
  BY DEF BuildCorpus, NoGraph

(* A response is an answer or ungrounded. *)
LEMMA AnswerCodes ==
  ASSUME NEW answer, NEW sent
  PROVE  Response(answer, sent).code \in {"answered", "ungrounded"}
  BY DEF Response, Reply

(* What the step of a chat leaves alone. *)
LEMMA OneMoves ==
  ASSUME GraphInv, NEW k \in Chats, ChatStep(k)
  PROVE  /\ UNCHANGED <<gateVars, failed, cooling, graph, keys>>
         /\ DOMAIN chat' = Chats
         /\ \A j \in Chats \ {k} : chat'[j] = chat[j]
<1>1. DOMAIN chat = Chats BY DEF GraphInv, Seeded
<1> USE <1>1 DEF seedVars
<1>2. CASE \E q \in Asked(ledger) : Ask(k, q) BY <1>2 DEF Ask, Admitted, Answered
<1>3. CASE TakeLock(k) BY <1>3 DEF TakeLock, Admitted, Answered
<1>4. CASE TakeSlot(k) BY <1>4 DEF TakeSlot
<1>5. CASE Busy(k) BY <1>5 DEF Busy, Answered
<1>6. CASE Unconfigured(k) BY <1>6 DEF Unconfigured, End
<1>7. CASE TimesOut(k) BY <1>7 DEF TimesOut, End
<1>8. CASE \E answer \in Answers : KeyAnswers(k, answer) BY <1>8 DEF KeyAnswers, End
<1>9. CASE KeyLimited(k) BY <1>9 DEF KeyLimited, CallFails, End
<1>10. CASE \E transient \in BOOLEAN : KeyFails(k, transient) BY <1>10 DEF KeyFails, CallFails, End
<1>11. CASE Retry(k) BY <1>11 DEF Retry
<1> QED
  BY <1>2, <1>3, <1>4, <1>5, <1>6, <1>7, <1>8, <1>9, <1>10, <1>11 DEF ChatStep, Call

-----------------------------------------------------------------------------
(* Slots *)

(* A step takes a slot, gives one back, or does neither. *)
LEMMA SlotMoves ==
  ASSUME GraphInv, NEW k \in Chats, ChatStep(k)
  PROVE  \/ ~HasSlot(k) /\ HasSlot(k)' /\ free > 0 /\ free' = free - 1
         \/ HasSlot(k) /\ ~HasSlot(k)' /\ free' = free + 1
         \/ (HasSlot(k) <=> HasSlot(k)') /\ free' = free
<1>1. DOMAIN chat = Chats /\ Shaped(k) BY DEF GraphInv, Seeded, ChatInv
<1> USE <1>1 DEF HasSlot, Shaped, IsChat
<1>2. CASE \E q \in Asked(ledger) : Ask(k, q) BY <1>2 DEF Ask, Admitted, Answered
<1>3. CASE TakeLock(k) BY <1>3 DEF TakeLock, Admitted, Answered
<1>4. CASE TakeSlot(k) BY <1>4 DEF TakeSlot
<1>5. CASE Busy(k) BY <1>5 DEF Busy, Answered
<1>6. CASE Unconfigured(k) BY <1>6 DEF Unconfigured, End
<1>7. CASE TimesOut(k) BY <1>7 DEF TimesOut, End
<1>8. CASE \E answer \in Answers : KeyAnswers(k, answer) BY <1>8 DEF KeyAnswers, End
<1>9. CASE KeyLimited(k) BY <1>9 DEF KeyLimited, CallFails, End
<1>10. CASE \E transient \in BOOLEAN : KeyFails(k, transient) BY <1>10 DEF KeyFails, CallFails, End
<1>11. CASE Retry(k) BY <1>11 DEF Retry
<1> QED
  BY <1>2, <1>3, <1>4, <1>5, <1>6, <1>7, <1>8, <1>9, <1>10, <1>11 DEF ChatStep, Call

(* A build gives or takes no slot: who builds holds none. *)
LEMMA BuildMoves ==
  ASSUME GraphInv, Build
  PROVE  /\ UNCHANGED <<ledger, keys, free>> /\ DOMAIN chat' = Chats
         /\ \A k \in Chats : k # lock => chat'[k] = chat[k]
         /\ \A k \in Chats : HasSlot(k)' <=> HasSlot(k)
<1>1. DOMAIN chat = Chats /\ \A k \in Chats : Shaped(k) /\ Placed(k) BY DEF GraphInv, Seeded, ChatInv
<1>2. CASE Reconcile
  BY <1>1, <1>2 DEF Reconcile, GateStep, StartGroup, Visit, CloseGroup, AllMatched, Rest, HasSlot
<1>3. CASE BuildFails BY <1>1, <1>3 DEF BuildFails, Answered, HasSlot, Shaped, IsChat, Placed
<1>4. CASE BuildSucceeds BY <1>1, <1>4 DEF BuildSucceeds, Admitted, HasSlot, Shaped, IsChat, Placed, gateVars
<1> QED BY <1>2, <1>3, <1>4 DEF Build

(* No step loses a slot. *)
LEMMA SlotsStayCounted ==
  ASSUME GraphInv, [Next]_vars
  PROVE  SlotsCounted'
<1>1. /\ IsFiniteSet(Holding) /\ free + Cardinality(Holding) = Slots
      /\ free \in Nat /\ Slots \in Nat /\ Cardinality(Holding) \in Nat
  BY FS_CardinalityType, ChatAssumption DEF GraphInv, SlotsCounted
<1>2. ASSUME NEW k \in Chats, ChatStep(k) PROVE SlotsCounted'
  <2>1. \A j \in Chats \ {k} : HasSlot(j)' <=> HasSlot(j) BY <1>2, OneMoves DEF HasSlot
  <2>2. CASE ~HasSlot(k) /\ HasSlot(k)' /\ free > 0 /\ free' = free - 1
    <3>1. Holding' = Holding \cup {k} /\ k \notin Holding BY <2>1, <2>2 DEF Holding
    <3>2. IsFiniteSet(Holding') /\ Cardinality(Holding') = Cardinality(Holding) + 1
      BY <1>1, <3>1, FS_AddElement
    <3> QED BY <1>1, <2>2, <3>2 DEF SlotsCounted
  <2>3. CASE HasSlot(k) /\ ~HasSlot(k)' /\ free' = free + 1
    <3>1. Holding' = Holding \ {k} /\ k \in Holding BY <2>1, <2>3 DEF Holding
    <3>2. IsFiniteSet(Holding') /\ Cardinality(Holding') = Cardinality(Holding) - 1
      BY <1>1, <3>1, FS_RemoveElement
    <3> QED BY <1>1, <2>3, <3>2 DEF SlotsCounted
  <2>4. CASE (HasSlot(k) <=> HasSlot(k)') /\ free' = free
    <3>1. Holding' = Holding BY <2>1, <2>4 DEF Holding
    <3> QED BY <1>1, <2>4, <3>1 DEF SlotsCounted
  <2> QED BY <1>2, <2>2, <2>3, <2>4, SlotMoves
<1>3. CASE Build
  <2>1. Holding' = Holding /\ free' = free BY <1>3, BuildMoves DEF Holding
  <2> QED BY <1>1, <2>1 DEF SlotsCounted
<1>4. CASE CooldownEnds BY <1>1, <1>4 DEF CooldownEnds, SlotsCounted, Holding, HasSlot
<1>5. CASE UNCHANGED vars BY <1>1, <1>5 DEF vars, SlotsCounted, Holding, HasSlot
<1> QED BY <1>2, <1>3, <1>4, <1>5, WhoSteps

-----------------------------------------------------------------------------
(* The catalog *)

(* A failed build leaves nothing of its search; any other step of the      *)
(* build is a step of Gate 2.                                              *)
LEMMA GateStays ==
  ASSUME GraphInv, [Next]_vars
  PROVE  GateInv'
<1>1. GateInv /\ ledger \in Ledgers BY DEF GraphInv, Seeded
<1>2. CASE [GateNext]_gateVars BY <1>1, <1>2, InvKept
<1>3. CASE BuildFails
  <2>1. claimed = {} BY <1>1, <1>3 DEF BuildFails, GateInv, Searching, Claims
  <2>2. GateInit' BY <1>1, <1>3, <2>1 DEF BuildFails, GateInit
  <2>3. GateInit' => GateInv' BY InvHolds, PTL
  <2> QED BY <2>2, <2>3
<1>4. CASE UNCHANGED gateVars BY <1>2, <1>4
<1>5. CASE \E k \in Chats : ChatStep(k) BY <1>4, <1>5, OneMoves
<1>6. CASE Reconcile BY <1>2, <1>6 DEF Reconcile, GateNext
<1>7. CASE BuildSucceeds \/ CooldownEnds \/ UNCHANGED vars
  BY <1>4, <1>7 DEF BuildSucceeds, CooldownEnds, vars
<1> QED BY <1>3, <1>5, <1>6, <1>7, WhoSteps DEF Build

(* Who takes the lock finds no catalog; who leaves it, or a failure, or a  *)
(* catalog.                                                                *)
LEMMA SeededStays ==
  ASSUME GraphInv, [Next]_vars
  PROVE  Seeded'
<1> USE DEF GraphInv, Seeded, Built
<1>1. ASSUME NEW k \in Chats, ChatStep(k) PROVE Seeded'
  <2>1. UNCHANGED <<ledger, failed, cooling, graph, keys>> /\ DOMAIN chat' = Chats
    BY <1>1, OneMoves DEF gateVars
  <2>2. lock' = lock \/ (~Built /\ lock' = k)
    BY <1>1 DEF ChatStep, Call, Ask, TakeLock, TakeSlot, Busy, Unconfigured, TimesOut, KeyAnswers,
                KeyLimited, KeyFails, Retry, seedVars, Admitted, Answered
  <2> QED BY <2>1, <2>2
<1>2. CASE Build
  <2>1. UNCHANGED <<ledger, keys>> /\ DOMAIN chat' = Chats BY <1>2, BuildMoves
  <2>2. CASE Reconcile BY <2>1, <2>2 DEF Reconcile, seedVars
  <2>3. CASE BuildFails BY <2>1, <2>3 DEF BuildFails
  <2>4. CASE BuildSucceeds BY <2>1, <2>4 DEF BuildSucceeds
  <2> QED BY <1>2, <2>2, <2>3, <2>4 DEF Build
<1>3. CASE CooldownEnds BY <1>3 DEF CooldownEnds, gateVars
<1>4. CASE UNCHANGED vars BY <1>4 DEF vars, seedVars, gateVars
<1> QED BY <1>1, <1>2, <1>3, <1>4, WhoSteps

-----------------------------------------------------------------------------
(* Chats *)

(* A chat that does not move may see the catalog built, or fail, or the    *)
(* lock taken by another.                                                  *)
LEMMA OthersStay ==
  ASSUME GraphInv, NEW j \in Chats, chat'[j] = chat[j], keys' = keys,
         lock' = j <=> lock = j, Built' \/ (graph' = graph /\ (failed => failed'))
  PROVE  ChatInv(j)'
<1> USE DEF GraphInv, ChatInv, Built
<1>1. Shaped(j)' BY DEF Shaped, IsChat
<1>2. Placed(j)' BY DEF Placed
<1>3. Counted(j)' /\ Tried(j)' BY DEF Counted, Tried, LastTried
<1> QED BY <1>1, <1>2, <1>3

(* A chat that has tried nothing yet, and moves on without a call. *)
LEMMA Untried ==
  ASSUME GraphInv, NEW k \in Chats, chat[k].phase \in Early,
         UNCHANGED keys, Built => Built', failed => failed' \/ Built',
         IsChat(chat'[k]), chat'[k].attempts = chat[k].attempts, chat'[k].key = chat[k].key,
         chat'[k].retries = chat[k].retries,
         chat'[k].phase \in Phases, chat'[k].phase # "pausing", chat'[k].phase = "building" <=> lock' = k,
         chat'[k].reply.code \in Codes, chat'[k].phase # "done" <=> chat'[k].reply.code = "none",
         chat'[k].reply.code \notin {"answered", "ungrounded", "at_capacity"},
         Built' \/ chat'[k].phase \in {"locking", "building"} \/ chat'[k].reply.code = "seed_unavailable",
         chat'[k].reply.code = "seed_unavailable" => Built' \/ failed'
  PROVE  ChatInv(k)'
<1> USE DEF Phases, Early, Codes
<1>0. Shaped(k) /\ Placed(k) /\ Counted(k) /\ Tried(k) /\ DOMAIN chat = Chats /\ keys \in 0..2
  BY DEF GraphInv, Seeded, ChatInv
<1>1. Shaped(k)' BY <1>0 DEF Shaped, IsChat
<1>2. Placed(k)' BY <1>0 DEF Placed
<1>3. chat'[k].attempts = <<>> /\ chat'[k].key = 1 /\ chat'[k].retries = 0 BY <1>0 DEF Placed
<1>4. Counted(k)' BY <1>0, <1>3, ChatAssumption DEF Counted
<1>5. Tried(k)' BY <1>0, <1>3 DEF Tried, LastTried
<1> QED BY <1>1, <1>2, <1>4, <1>5 DEF ChatInv

(* A chat that asks, waits for the catalog or waits for a slot. *)
LEMMA EarlySteps ==
  ASSUME GraphInv, NEW k \in Chats
  PROVE  /\ \A q \in Asked(ledger) : Ask(k, q) => ChatInv(k)'
         /\ TakeLock(k) => ChatInv(k)'
         /\ TakeSlot(k) => ChatInv(k)'
         /\ Busy(k) => ChatInv(k)'
<1> USE DEF Phases, Early, Codes
<1>0. /\ Shaped(k) /\ Placed(k) /\ Counted(k) /\ Tried(k) /\ DOMAIN chat = Chats /\ keys \in 0..2
      /\ Built => lock = Nobody
      /\ cooling => failed
  BY DEF GraphInv, Seeded, ChatInv
<1>1. ASSUME chat[k].phase \in Early, UNCHANGED <<graph, failed, keys>>,
             IsChat(chat'[k]), chat'[k].attempts = chat[k].attempts, chat'[k].key = chat[k].key,
             chat'[k].retries = chat[k].retries,
             chat'[k].phase \in Phases, chat'[k].phase # "pausing", chat'[k].phase = "building" <=> lock' = k,
             chat'[k].reply.code \in Codes, chat'[k].phase # "done" <=> chat'[k].reply.code = "none",
             chat'[k].reply.code \notin {"answered", "ungrounded", "at_capacity"},
             Built \/ chat'[k].phase \in {"locking", "building"} \/ chat'[k].reply.code = "seed_unavailable",
             chat'[k].reply.code = "seed_unavailable" => Built \/ failed
      PROVE  ChatInv(k)'
  <2>1. (Built' <=> Built) /\ failed' = failed BY <1>1 DEF Built
  <2> QED BY <1>1, <2>1, Untried
<1>2. ASSUME NEW q, chat[k].phase \in Early, Admitted(k, q), Built, UNCHANGED <<seedVars, keys>>
      PROVE  ChatInv(k)'
  <2>1. chat[k].reply.code = "none" /\ lock' # k BY <1>0, <1>2, ChatAssumption DEF Placed, seedVars
  <2>2. CASE q \in Invalid
    <3>1. /\ chat'[k].phase = "done" /\ chat'[k].reply.code = "invalid_request"
          /\ chat'[k].attempts = chat[k].attempts /\ chat'[k].key = chat[k].key
          /\ chat'[k].retries = chat[k].retries
          /\ IsChat(chat'[k])
      BY <1>0, <1>2, <2>2 DEF Admitted, Shaped, IsChat, Reply
    <3> QED BY <1>1, <1>2, <2>1, <3>1 DEF seedVars
  <2>3. CASE q \notin Invalid
    <3>1. /\ chat'[k].phase = "waiting" /\ chat'[k].reply.code = "none"
          /\ chat'[k].attempts = chat[k].attempts /\ chat'[k].key = chat[k].key
          /\ chat'[k].retries = chat[k].retries
          /\ IsChat(chat'[k])
      BY <1>0, <1>2, <2>1, <2>3 DEF Admitted, Shaped, IsChat
    <3> QED BY <1>1, <1>2, <2>1, <3>1 DEF seedVars
  <2> QED BY <2>2, <2>3
<1>3. ASSUME NEW code \in {"seed_unavailable", "chat_busy"}, chat[k].phase \in Early \ {"building"},
             Answered(k, code), UNCHANGED <<seedVars, keys>>,
             Built \/ code = "seed_unavailable", code = "seed_unavailable" => Built \/ failed
      PROVE  ChatInv(k)'
  <2>1. lock # k BY <1>0, <1>3 DEF Placed
  <2>2. /\ chat'[k].phase = "done" /\ chat'[k].reply.code = code
        /\ chat'[k].attempts = chat[k].attempts /\ chat'[k].key = chat[k].key
        /\ chat'[k].retries = chat[k].retries
        /\ IsChat(chat'[k])
    BY <1>0, <1>3 DEF Answered, Shaped, IsChat, Reply
  <2>3. chat'[k].phase \in Phases /\ chat'[k].reply.code \in Codes /\ lock' # k
    BY <1>3, <2>1, <2>2 DEF seedVars
  <2> QED BY <1>1, <1>3, <2>2, <2>3 DEF seedVars
<1>4. ASSUME NEW q \in Asked(ledger), Ask(k, q) PROVE ChatInv(k)'
  <2>1. CASE ~Built /\ ~cooling
    <3>1. chat[k].phase = "idle" /\ chat[k].reply.code = "none" /\ lock # k
      BY <1>0, <1>4, <2>1 DEF Ask, Placed
    <3>2. /\ chat'[k].phase = "locking" /\ chat'[k].reply.code = "none"
          /\ chat'[k].attempts = chat[k].attempts /\ chat'[k].key = chat[k].key
          /\ chat'[k].retries = chat[k].retries
          /\ IsChat(chat'[k])
      BY <1>0, <1>4, <2>1, <3>1 DEF Ask, Shaped, IsChat
    <3>3. UNCHANGED <<lock, graph, failed, keys>> BY <1>4 DEF Ask, seedVars
    <3> QED BY <1>1, <3>1, <3>2, <3>3
  <2>2. CASE Built BY <1>2, <1>4, <2>2 DEF Ask
  <2>3. CASE ~Built /\ cooling BY <1>0, <1>3, <1>4, <2>3 DEF Ask
  <2> QED BY <2>1, <2>2, <2>3
<1>5. ASSUME TakeLock(k) PROVE ChatInv(k)'
  <2>1. CASE ~Built /\ ~cooling
    <3>1. chat[k].phase = "locking" /\ chat[k].reply.code = "none" BY <1>0, <1>5 DEF TakeLock, Placed
    <3>2. /\ chat'[k].phase = "building" /\ chat'[k].reply.code = "none"
          /\ chat'[k].attempts = chat[k].attempts /\ chat'[k].key = chat[k].key
          /\ chat'[k].retries = chat[k].retries
          /\ IsChat(chat'[k])
      BY <1>0, <1>5, <2>1, <3>1 DEF TakeLock, Shaped, IsChat
    <3>3. lock' = k /\ UNCHANGED <<graph, failed, keys>> BY <1>5, <2>1 DEF TakeLock
    <3> QED BY <1>1, <3>1, <3>2, <3>3
  <2>2. CASE Built BY <1>2, <1>5, <2>2 DEF TakeLock, seedVars
  <2>3. CASE ~Built /\ cooling BY <1>0, <1>3, <1>5, <2>3 DEF TakeLock, seedVars
  <2> QED BY <2>1, <2>2, <2>3
<1>6. ASSUME TakeSlot(k) PROVE ChatInv(k)'
  <2>1. chat[k].phase = "waiting" /\ chat[k].reply.code = "none" /\ Built /\ lock # k
    BY <1>0, <1>6 DEF TakeSlot, Placed
  <2>2. /\ chat'[k].phase = "calling" /\ chat'[k].reply.code = "none"
        /\ chat'[k].attempts = chat[k].attempts /\ chat'[k].key = chat[k].key
        /\ chat'[k].retries = chat[k].retries
        /\ IsChat(chat'[k])
    BY <1>0, <1>6, <2>1 DEF TakeSlot, Shaped, IsChat
  <2>3. UNCHANGED <<lock, graph, failed, keys>> BY <1>6 DEF TakeSlot, seedVars
  <2> QED BY <1>1, <2>1, <2>2, <2>3
<1>7. ASSUME Busy(k) PROVE ChatInv(k)'
  <2>1. chat[k].phase = "waiting" /\ Built BY <1>0, <1>7 DEF Busy, Placed
  <2> QED BY <1>3, <1>7, <2>1 DEF Busy
<1> QED BY <1>4, <1>5, <1>6, <1>7

(* What a chat that holds a slot has behind it. *)
LEMMA AtWork ==
  ASSUME GraphInv, NEW k \in Chats, HasSlot(k)
  PROVE  /\ Built /\ lock # k /\ chat[k].reply.code = "none" /\ ChatInv(k) /\ keys \in 0..2
         /\ DOMAIN chat = Chats
         /\ \A i \in 1..Len(chat[k].attempts) : chat[k].attempts[i].outcome # "SUCCEEDED"
  BY DEF GraphInv, Seeded, ChatInv, Placed, Tried, HasSlot

(* The bound of the calls, for one key and for two. *)
LEMMA Bounds ==
  ASSUME NEW n \in Nat, NEW m \in 1..2, NEW key \in 1..m, NEW r \in Nat, NEW max \in Nat, r <= max
  PROVE  /\ n <= m * r + key - 1 => n + 1 <= m * r + m /\ n + 1 <= m * (max + 1) /\ n + 1 <= m * r + (key + 1) - 1
         /\ n <= m * r + m /\ r < max => n <= m * (r + 1) + 1 - 1 /\ n <= m * (max + 1)
<1>1. CASE m = 1 BY <1>1
<1>2. CASE m = 2 BY <1>2
<1> QED BY <1>1, <1>2

(* What is common to the steps of a chat that holds a slot. *)
LEMMA WorkStays ==
  ASSUME GraphInv, NEW k \in Chats, HasSlot(k), UNCHANGED <<lock, graph, failed, keys>>,
         IsChat(chat'[k]), chat'[k].attempts \in Seq(Attempts),
         chat'[k].key \in 1..2, chat'[k].retries \in 0..MaxRetries,
         chat'[k].phase \in {"calling", "pausing", "done"}, chat'[k].reply.code \in Codes,
         chat'[k].phase # "done" <=> chat'[k].reply.code = "none", chat'[k].reply.code # "seed_unavailable"
  PROVE  Shaped(k)' /\ Placed(k)'
<1>1. Built /\ lock # k BY AtWork
<1>2. Shaped(k)' BY DEF Shaped, IsChat, Phases
<1>3. Placed(k)' BY <1>1 DEF Placed, Built, Early
<1> QED BY <1>2, <1>3

(* A chat that ends without another call. *)
LEMMA GivesUp ==
  ASSUME GraphInv, NEW k \in Chats, HasSlot(k), UNCHANGED <<lock, graph, failed, keys>>,
         NEW code \in {"unconfigured", "late"}, End(k, chat[k].attempts, Reply(code))
  PROVE  ChatInv(k)'
<1>1. Shaped(k) /\ Counted(k) /\ Tried(k) /\ DOMAIN chat = Chats
      /\ \A i \in 1..Len(chat[k].attempts) : chat[k].attempts[i].outcome # "SUCCEEDED"
  BY AtWork DEF ChatInv
<1>2. /\ chat'[k].phase = "done" /\ chat'[k].reply.code = code
      /\ chat'[k].attempts = chat[k].attempts /\ chat'[k].key = chat[k].key
      /\ chat'[k].retries = chat[k].retries
      /\ IsChat(chat'[k])
  BY <1>1 DEF End, Reply, Shaped, IsChat
<1>3. Shaped(k)' /\ Placed(k)' BY <1>1, <1>2, WorkStays DEF Codes, Shaped, IsChat
<1>4. Counted(k)' BY <1>1, <1>2 DEF Counted
<1>5. Tried(k)' BY <1>1, <1>2 DEF Tried, LastTried
<1> QED BY <1>3, <1>4, <1>5 DEF ChatInv

(* A chat that made one call more, whatever came of it. *)
LEMMA CallMade ==
  ASSUME GraphInv, NEW k \in Chats, chat[k].phase = "calling", keys > 0,
         UNCHANGED <<lock, graph, failed, keys>>,
         NEW outcome \in {"SUCCEEDED", "RATE_LIMITED", "UNAVAILABLE", "FAILED"},
         IsChat(chat'[k]), chat'[k].attempts = Attempt(k, outcome), chat'[k].retries = chat[k].retries,
         chat'[k].phase \in {"calling", "pausing", "done"}, chat'[k].reply.code \in Codes,
         chat'[k].phase # "done" <=> chat'[k].reply.code = "none", chat'[k].reply.code # "seed_unavailable",
         outcome = "SUCCEEDED" <=> chat'[k].reply.code \in {"answered", "ungrounded"},
         chat'[k].reply.code = "at_capacity" => outcome \in {"RATE_LIMITED", "UNAVAILABLE"},
         chat'[k].phase = "pausing" => chat[k].retries < MaxRetries,
         IF chat'[k].phase = "calling"
         THEN chat'[k].key = chat[k].key + 1 /\ chat'[k].key <= keys /\ outcome = "RATE_LIMITED"
         ELSE chat'[k].key = chat[k].key
  PROVE  ChatInv(k)'
<1> DEFINE tried == chat[k].attempts
           last == [key |-> chat[k].key, outcome |-> outcome]
<1>0. HasSlot(k) BY DEF HasSlot
<1>1. /\ Shaped(k) /\ Counted(k) /\ Tried(k) /\ keys \in 1..2
      /\ \A i \in 1..Len(tried) : tried[i].outcome # "SUCCEEDED"
  BY <1>0, AtWork DEF ChatInv
<1>2. /\ tried \in Seq(Attempts) /\ last \in Attempts /\ Len(tried) \in Nat
      /\ chat[k].key \in 1..keys /\ chat[k].retries \in 0..MaxRetries
  BY <1>1 DEF Shaped, IsChat, Counted, Attempts
<1>3. /\ Attempt(k, outcome) \in Seq(Attempts) /\ Len(Attempt(k, outcome)) = Len(tried) + 1
      /\ \A i \in 1..Len(tried) : Attempt(k, outcome)[i] = tried[i]
      /\ Attempt(k, outcome)[Len(tried) + 1] = last
  BY <1>2 DEF Attempt
<1>4. Shaped(k)' /\ Placed(k)'
  <2>1. chat'[k].key \in 1..2 /\ chat'[k].retries \in 0..MaxRetries /\ chat'[k].attempts \in Seq(Attempts)
    BY <1>1, <1>2, <1>3
  <2> QED BY <1>0, <2>1, WorkStays
<1>5. Counted(k)'
  <2>1. Len(tried) <= keys * chat[k].retries + chat[k].key - 1 BY <1>1 DEF Counted
  <2>2. /\ Len(tried) + 1 <= keys * chat[k].retries + keys
        /\ Len(tried) + 1 <= keys * (MaxRetries + 1)
        /\ Len(tried) + 1 <= keys * chat[k].retries + (chat[k].key + 1) - 1
    <3>1. MaxRetries \in Nat /\ chat[k].retries \in Nat /\ chat[k].retries <= MaxRetries
      BY <1>2, ChatAssumption
    <3> HIDE DEF tried
    <3> QED BY <1>1, <1>2, <2>1, <3>1, Bounds
  <2>3. chat'[k].key <= keys BY <1>2
  <2> QED BY <1>1, <1>3, <2>2, <2>3 DEF Counted
<1>6. Tried(k)'
  <2>1. ASSUME NEW i \in 1..(Len(tried) + 1)
        PROVE  /\ Attempt(k, outcome)[i].key = 2 =>
                    i > 1 /\ Attempt(k, outcome)[i - 1] = [key |-> 1, outcome |-> "RATE_LIMITED"]
               /\ Attempt(k, outcome)[i].outcome = "SUCCEEDED" <=>
                    i = Len(tried) + 1 /\ chat'[k].reply.code \in {"answered", "ungrounded"}
    <3>1. CASE i \in 1..Len(tried)
      <4>1. Attempt(k, outcome)[i] = tried[i] /\ i # Len(tried) + 1 BY <1>2, <1>3, <3>1
      <4>2. i > 1 => i - 1 \in 1..Len(tried) BY <1>2, <3>1
      <4>3. i > 1 => Attempt(k, outcome)[i - 1] = tried[i - 1] BY <1>3, <4>2
      <4> QED BY <1>1, <3>1, <4>1, <4>3 DEF Tried
    <3>2. CASE i = Len(tried) + 1
      <4>1. chat[k].key = 2 => tried # <<>> /\ tried[Len(tried)] = [key |-> 1, outcome |-> "RATE_LIMITED"]
        BY <1>1 DEF Tried, LastTried
      <4>2. tried # <<>> => Len(tried) \in 1..Len(tried) BY <1>2
      <4>3. i - 1 = Len(tried) BY <1>2, <3>2
      <4>4. chat[k].key = 2 => Attempt(k, outcome)[i - 1] = tried[Len(tried)] BY <1>3, <4>1, <4>2, <4>3
      <4>5. chat[k].key = 2 => i > 1 BY <1>2, <3>2, <4>1, <4>2
      <4> QED BY <1>3, <3>2, <4>1, <4>4, <4>5
    <3>3. i \in 1..Len(tried) \/ i = Len(tried) + 1 BY <1>2
    <3> QED BY <3>1, <3>2, <3>3
  <2>2. chat'[k].attempts # <<>> /\ LastTried(k)' = last BY <1>2, <1>3 DEF LastTried
  <2>3. chat'[k].phase = "calling" /\ chat'[k].key = 2 => last = [key |-> 1, outcome |-> "RATE_LIMITED"] BY <1>2
  <2> QED BY <1>3, <2>1, <2>2, <2>3 DEF Tried
<1> QED BY <1>4, <1>5, <1>6 DEF ChatInv

(* The steps of a chat that holds a slot keep what is said of it, *)
LEMMA LateSteps ==
  ASSUME GraphInv, NEW k \in Chats
  PROVE  /\ Unconfigured(k) => ChatInv(k)'
         /\ TimesOut(k) => ChatInv(k)'
         /\ Call(k) => ChatInv(k)'
<1>1. ASSUME Unconfigured(k) PROVE ChatInv(k)'
  <2>1. HasSlot(k) BY <1>1 DEF Unconfigured, HasSlot
  <2>2. chat[k].attempts = <<>> BY <1>1, <2>1, AtWork DEF Unconfigured, ChatInv, Counted
  <2> QED BY <1>1, <2>1, <2>2, GivesUp DEF Unconfigured, seedVars
<1>2. ASSUME TimesOut(k) PROVE ChatInv(k)' BY <1>2, GivesUp DEF TimesOut, seedVars
<1>3. ASSUME NEW attempts, NEW reply, End(k, attempts, reply), Shaped(k), DOMAIN chat = Chats
      PROVE  /\ chat'[k].phase = "done" /\ chat'[k].reply = reply /\ chat'[k].attempts = attempts
             /\ chat'[k].key = chat[k].key /\ chat'[k].retries = chat[k].retries
             /\ IsChat(chat'[k])
  BY <1>3 DEF End, Shaped, IsChat
<1>4. ASSUME chat[k].phase = "calling", keys > 0, UNCHANGED <<seedVars, keys>>
      PROVE  /\ Shaped(k) /\ DOMAIN chat = Chats /\ chat[k].reply.code = "none"
             /\ chat[k].key \in 1..2 /\ UNCHANGED <<lock, graph, failed, keys>>
  BY <1>4, AtWork DEF HasSlot, ChatInv, Shaped, IsChat, seedVars
<1>5. ASSUME NEW answer \in Answers, KeyAnswers(k, answer) PROVE ChatInv(k)'
  <2>1. Response(answer, Sent(k)).code \in {"answered", "ungrounded"} BY AnswerCodes
  <2> QED BY <1>3, <1>4, <1>5, <2>1, CallMade DEF KeyAnswers, Codes
<1>6. ASSUME NEW transient \in BOOLEAN, NEW outcome \in {"RATE_LIMITED", "UNAVAILABLE", "FAILED"},
             transient => outcome # "FAILED", chat[k].phase = "calling", keys > 0,
             CallFails(k, Attempt(k, outcome), transient), UNCHANGED <<seedVars, keys>>
      PROVE  ChatInv(k)'
  <2>1. CASE transient /\ chat[k].retries < MaxRetries
             /\ chat' = [chat EXCEPT ![k].phase = "pausing", ![k].attempts = Attempt(k, outcome)]
    <3>1. /\ chat'[k].phase = "pausing" /\ chat'[k].reply.code = "none"
          /\ chat'[k].attempts = Attempt(k, outcome)
          /\ chat'[k].key = chat[k].key /\ chat'[k].retries = chat[k].retries
          /\ IsChat(chat'[k])
      BY <1>4, <1>6, <2>1 DEF Shaped, IsChat
    <3> QED BY <1>4, <1>6, <2>1, <3>1, CallMade DEF Codes
  <2>2. CASE End(k, Attempt(k, outcome), Reply(IF transient THEN "at_capacity" ELSE "provider_failed"))
    <3>1. /\ chat'[k].phase = "done" /\ chat'[k].attempts = Attempt(k, outcome)
          /\ chat'[k].reply.code = (IF transient THEN "at_capacity" ELSE "provider_failed")
          /\ chat'[k].key = chat[k].key /\ chat'[k].retries = chat[k].retries
          /\ IsChat(chat'[k])
      BY <1>3, <1>4, <1>6, <2>2 DEF Reply
    <3> QED BY <1>4, <1>6, <3>1, CallMade DEF Codes
  <2> QED BY <1>6, <2>1, <2>2 DEF CallFails
<1>7. ASSUME KeyLimited(k) PROVE ChatInv(k)'
  <2>1. CASE chat[k].key < keys
    <3>1. /\ chat'[k].phase = "calling" /\ chat'[k].reply.code = "none"
          /\ chat'[k].attempts = Attempt(k, "RATE_LIMITED")
          /\ chat'[k].key = chat[k].key + 1 /\ chat'[k].retries = chat[k].retries
          /\ IsChat(chat'[k])
      BY <1>4, <1>7, <2>1 DEF KeyLimited, Shaped, IsChat
    <3>2. keys \in 0..2 BY DEF GraphInv, Seeded
    <3>3. chat'[k].key \in 1..2 /\ chat'[k].key <= keys
      BY <1>4, <1>7, <2>1, <3>1, <3>2 DEF KeyLimited
    <3>4. /\ chat[k].phase = "calling" /\ keys > 0 /\ UNCHANGED <<lock, graph, failed, keys>>
          /\ chat'[k].reply.code \in Codes
      BY <1>4, <1>7, <3>1 DEF KeyLimited, Codes
    <3> QED BY <3>1, <3>3, <3>4, CallMade
  <2>2. CASE ~(chat[k].key < keys) BY <1>6, <1>7, <2>2 DEF KeyLimited
  <2> QED BY <2>1, <2>2
<1>8. ASSUME NEW transient \in BOOLEAN, KeyFails(k, transient) PROVE ChatInv(k)'
  <2>1. CASE transient BY <1>6, <1>8, <2>1 DEF KeyFails
  <2>2. CASE ~transient BY <1>6, <1>8, <2>2 DEF KeyFails
  <2> QED BY <2>1, <2>2
<1>9. ASSUME Retry(k) PROVE ChatInv(k)'
  <2>0. HasSlot(k) BY <1>9 DEF Retry, HasSlot
  <2>1. /\ Shaped(k) /\ Counted(k) /\ Tried(k) /\ DOMAIN chat = Chats /\ chat[k].reply.code = "none"
        /\ keys \in 0..2
    BY <2>0, AtWork DEF ChatInv
  <2>2. /\ chat'[k].phase = "calling" /\ chat'[k].reply.code = "none"
        /\ chat'[k].attempts = chat[k].attempts
        /\ chat'[k].key = 1 /\ chat'[k].retries = chat[k].retries + 1
        /\ IsChat(chat'[k])
    BY <1>9, <2>1 DEF Retry, Shaped, IsChat
  <2>3. UNCHANGED <<lock, graph, failed, keys>> BY <1>9 DEF Retry, seedVars
  <2>4. /\ keys \in 1..2 /\ chat[k].retries < MaxRetries /\ chat[k].retries \in 0..MaxRetries
        /\ Len(chat[k].attempts) \in Nat /\ chat[k].attempts \in Seq(Attempts)
        /\ Len(chat[k].attempts) <= keys * chat[k].retries + keys
    BY <1>9, <2>1 DEF Retry, Counted, Shaped, IsChat
  <2>5. chat[k].retries + 1 \in 0..MaxRetries BY <2>4, ChatAssumption
  <2>6. Shaped(k)' /\ Placed(k)'
    <3>1. chat'[k].key \in 1..2 /\ chat'[k].reply.code \in Codes /\ chat'[k].retries \in 0..MaxRetries
      BY <2>2, <2>5 DEF Codes
    <3> QED BY <2>0, <2>2, <2>3, <2>4, <3>1, WorkStays
  <2>7. /\ Len(chat[k].attempts) <= keys * (chat[k].retries + 1) + 1 - 1
        /\ Len(chat[k].attempts) <= keys * (MaxRetries + 1)
    BY <2>4, Bounds, ChatAssumption
  <2>8. Counted(k)' BY <2>2, <2>3, <2>4, <2>7 DEF Counted
  <2>9. Tried(k)' BY <2>1, <2>2 DEF Tried, LastTried
  <2> QED BY <2>6, <2>8, <2>9 DEF ChatInv
<1> QED BY <1>1, <1>2, <1>5, <1>7, <1>8, <1>9 DEF Call

(* The chat that builds is admitted or turned away. *)
LEMMA BuilderEnds ==
  ASSUME GraphInv, NEW k \in Chats, lock = k, BuildFails \/ BuildSucceeds
  PROVE  ChatInv(k)'
<1>1. /\ Shaped(k) /\ DOMAIN chat = Chats /\ ~Built
      /\ chat[k].phase = "building" /\ chat[k].reply.code = "none"
  BY ChatAssumption DEF GraphInv, Seeded, ChatInv, Placed
<1>2. UNCHANGED keys /\ lock' # k BY ChatAssumption DEF BuildFails, BuildSucceeds
<1>3. ASSUME IsChat(chat'[k]), chat'[k].attempts = chat[k].attempts, chat'[k].key = chat[k].key,
             chat'[k].retries = chat[k].retries, chat'[k].phase \in {"waiting", "done"},
             chat'[k].reply.code \in {"none", "seed_unavailable", "invalid_request"},
             chat'[k].phase # "done" <=> chat'[k].reply.code = "none",
             Built' \/ (failed' /\ chat'[k].reply.code = "seed_unavailable")
      PROVE  ChatInv(k)'
  BY <1>1, <1>2, <1>3, Untried DEF Phases, Early, Codes
<1>4. CASE BuildFails
  <2>1. failed' = TRUE BY <1>4 DEF BuildFails
  <2>2. /\ chat'[k].phase = "done" /\ chat'[k].reply.code = "seed_unavailable"
        /\ chat'[k].attempts = chat[k].attempts /\ chat'[k].key = chat[k].key
        /\ chat'[k].retries = chat[k].retries
        /\ IsChat(chat'[k])
    BY <1>1, <1>4 DEF BuildFails, Answered, Shaped, IsChat, Reply
  <2> QED BY <1>3, <2>1, <2>2
<1>5. CASE BuildSucceeds
  <2>1. Built' BY <1>5, GraphIsBuilt DEF BuildSucceeds, Built, NoGraph
  <2>2. /\ IF chat[k].question \in Invalid
           THEN chat'[k].phase = "done" /\ chat'[k].reply.code = "invalid_request"
           ELSE chat'[k].phase = "waiting" /\ chat'[k].reply.code = "none"
        /\ chat'[k].attempts = chat[k].attempts /\ chat'[k].key = chat[k].key
        /\ chat'[k].retries = chat[k].retries
        /\ IsChat(chat'[k])
    BY <1>1, <1>5 DEF BuildSucceeds, Admitted, Shaped, IsChat, Reply
  <2> QED BY <1>3, <2>1, <2>2
<1> QED BY <1>4, <1>5

(* and so does every step. *)
LEMMA ChatsStay ==
  ASSUME GraphInv, [Next]_vars, NEW j \in Chats
  PROVE  ChatInv(j)'
<1>1. ASSUME NEW k \in Chats, ChatStep(k) PROVE ChatInv(j)'
  <2>1. CASE j = k
    BY <1>1, <2>1, EarlySteps, LateSteps DEF ChatStep
  <2>2. CASE j # k
    <3>1. UNCHANGED <<keys, graph, failed>> /\ chat'[j] = chat[j] BY <1>1, <2>2, OneMoves
    <3>2. lock' = lock \/ (lock = Nobody /\ lock' = k)
      BY <1>1 DEF ChatStep, Call, Ask, TakeLock, TakeSlot, Busy, Unconfigured, TimesOut, KeyAnswers,
                  KeyLimited, KeyFails, Retry, seedVars, Admitted, Answered
    <3>3. lock' = j <=> lock = j BY <2>2, <3>2, ChatAssumption
    <3> QED BY <3>1, <3>3, OthersStay
  <2> QED BY <2>1, <2>2
<1>2. CASE Reconcile BY <1>2, OthersStay DEF Reconcile, seedVars
<1>3. CASE BuildFails \/ BuildSucceeds
  <2>1. CASE j = lock BY <1>3, <2>1, BuilderEnds
  <2>2. CASE j # lock
    <3>1. chat'[j] = chat[j] /\ keys' = keys BY <1>3, <2>2, BuildMoves DEF Build
    <3>2. lock' # j BY <1>3, ChatAssumption DEF BuildFails, BuildSucceeds
    <3>3. Built' \/ (graph' = graph /\ failed')
      BY <1>3, GraphIsBuilt DEF BuildFails, BuildSucceeds, Built, NoGraph
    <3> QED BY <2>2, <3>1, <3>2, <3>3, OthersStay
  <2> QED BY <2>1, <2>2
<1>4. CASE CooldownEnds BY <1>4, OthersStay DEF CooldownEnds
<1>5. CASE UNCHANGED vars BY <1>5, OthersStay DEF vars, seedVars
<1> QED BY <1>1, <1>2, <1>3, <1>4, <1>5, WhoSteps DEF Build

-----------------------------------------------------------------------------
(* The invariant *)

(* The invariant holds at the start, *)
LEMMA GraphInvHolds == Init => GraphInv
<1> SUFFICES ASSUME Init PROVE GraphInv OBVIOUS
<1>1. GateInv /\ ledger \in Ledgers BY InvHolds DEF Init, GateInit
<1>2. keys \in 0..2 /\ ~Built /\ lock # Nobody /\ lock \notin Chats
  BY <1>1, ChatAssumption DEF Init, Built
<1>3. Seeded BY <1>1, <1>2 DEF Init, Seeded
<1>4. Holding = {} BY DEF Init, Holding, HasSlot, Idle
<1>5. SlotsCounted BY <1>4, FS_EmptySet, ChatAssumption DEF Init, SlotsCounted
<1>6. ASSUME NEW k \in Chats PROVE ChatInv(k)
  <2>1. chat[k] = Idle BY DEF Init
  <2>2. Shaped(k) BY <2>1, ChatAssumption DEF Shaped, IsChat, Idle, Reply, Phases, Codes
  <2>3. Placed(k) BY <1>2, <2>1 DEF Placed, Idle, Reply, Early
  <2>4. Counted(k) BY <1>2, <2>1, ChatAssumption DEF Counted, Idle
  <2>5. Tried(k) BY <2>1 DEF Tried, Idle, Reply
  <2> QED BY <2>2, <2>3, <2>4, <2>5 DEF ChatInv
<1> QED BY <1>1, <1>3, <1>5, <1>6 DEF GraphInv

(* so it always holds. *)
LEMMA GraphInvAlways == Spec => []GraphInv
<1>1. GraphInv /\ [Next]_vars => GraphInv'
  BY GateStays, SeededStays, SlotsStayCounted, ChatsStay DEF GraphInv
<1> QED BY <1>1, GraphInvHolds, PTL DEF Spec

-----------------------------------------------------------------------------
(* What follows from the invariant *)

(* Whatever a build searches, whoever waits and however often a build      *)
(* fails, every variable keeps its type.                                   *)
THEOREM ChatTypeCorrect == Spec => []TypeOK
<1>1. GraphInv => TypeOK
  <2> SUFFICES ASSUME GraphInv PROVE TypeOK OBVIOUS
  <2>1. free \in 0..Slots
    BY FS_CardinalityType, ChatAssumption DEF GraphInv, SlotsCounted
  <2>2. GateTypeOK BY DEF GraphInv, GateInv
  <2> QED BY <2>1, <2>2 DEF GraphInv, Seeded, ChatInv, Shaped, IsChat, Phases, Codes, TypeOK
<1> QED BY <1>1, GraphInvAlways, PTL

(* A build that ends, whoever runs it and however many failed before, has  *)
(* reconciled the ledger as Gate 2 promises.                               *)
THEOREM BuildReconciles == Spec => []Reconciled
<1>1. GraphInv => Reconciled BY InvReconciles DEF GraphInv
<1> QED BY <1>1, GraphInvAlways, PTL

(* However many chats race for the catalog and the slots, one builds at a  *)
(* time, slots are conserved, keys are tried in order and a chat is        *)
(* answered exactly if its last call succeeded.                            *)
THEOREM ChatsAlwaysAccounted == Spec => []ChatsAccounted
<1>1. GraphInv => ChatsAccounted
  <2> SUFFICES ASSUME GraphInv PROVE ChatsAccounted OBVIOUS
  <2>1. /\ \A k \in Chats : chat[k].phase = "building" <=> lock = k
        /\ Built => lock = Nobody
        /\ \A k \in Chats :
             ~Built => /\ ~HasSlot(k) /\ chat[k].phase # "waiting"
                       /\ chat[k].reply.code \in {"none", "seed_unavailable"}
    BY DEF GraphInv, Seeded, ChatInv, Placed, HasSlot
  <2>2. (\E k \in Chats : chat[k].reply.code = "seed_unavailable") => SeedStatus # "building"
    BY DEF GraphInv, ChatInv, Placed, SeedStatus
  <2>3. free + Cardinality({k \in Chats : HasSlot(k)}) = Slots BY DEF GraphInv, SlotsCounted, Holding
  <2>4. ASSUME NEW k \in Chats
        PROVE  LET tried == chat[k].attempts
               IN  /\ Len(tried) <= keys * (MaxRetries + 1)
                   /\ \A i \in DOMAIN tried :
                        /\ tried[i].key = 2 =>
                             i > 1 /\ tried[i - 1] = [key |-> 1, outcome |-> "RATE_LIMITED"]
                        /\ tried[i].outcome = "SUCCEEDED" <=>
                             i = Len(tried) /\ chat[k].reply.code \in {"answered", "ungrounded"}
                   /\ chat[k].reply.code = "at_capacity" =>
                        tried[Len(tried)].outcome \in {"RATE_LIMITED", "UNAVAILABLE"}
    <3>1. ChatInv(k) BY DEF GraphInv
    <3>2. DOMAIN chat[k].attempts = 1..Len(chat[k].attempts) BY <3>1 DEF ChatInv, Shaped, IsChat
    <3> QED BY <3>1, <3>2 DEF ChatInv, Counted, Tried, LastTried
  <2> QED BY <2>1, <2>2, <2>3, <2>4 DEF ChatsAccounted
<1> QED BY <1>1, GraphInvAlways, PTL

-----------------------------------------------------------------------------
(* Slices of a graph *)

(* What Within cuts out of a graph. *)
LEMMA WithinIs ==
  ASSUME NEW g, Lists(g.nodes, ToSet(g.nodes)), Lists(g.edges, ToSet(g.edges)), NEW ids
  PROVE  /\ ToSet(Within(g, ids).nodes) = {n \in ToSet(g.nodes) : n.id \in ids}
         /\ ToSet(Within(g, ids).edges) = {e \in ToSet(g.edges) : {e.source, e.target} \subseteq ids}
         /\ Ids(Within(g, ids)) = Ids(g) \cap ids
<1> DEFINE N == {n \in ToSet(g.nodes) : n.id \in ids}
           E == {e \in ToSet(g.edges) : {e.source, e.target} \subseteq ids}
<1>1. Within(g, ids).nodes = Kept(g.nodes, N) /\ Within(g, ids).edges = Kept(g.edges, E) BY DEF Within
<1>2. ToSet(Kept(g.nodes, N)) = ToSet(g.nodes) \cap N
  <2> HIDE DEF N
  <2> QED BY ListsKept DEF Lists
<1>3. ToSet(Kept(g.edges, E)) = ToSet(g.edges) \cap E
  <2> HIDE DEF E
  <2> QED BY ListsKept DEF Lists
<1>4. ToSet(Within(g, ids).nodes) = N BY <1>1, <1>2
<1>5. ToSet(Within(g, ids).edges) = E BY <1>1, <1>3
<1>6. Ids(Within(g, ids)) = Ids(g) \cap ids BY <1>4 DEF Ids
<1> QED BY <1>4, <1>5, <1>6

(* The neighbours of a node. *)
Near(g, id) ==
  {e.target : e \in {x \in ToSet(g.edges) : x.source = id}}
    \cup {e.source : e \in {x \in ToSet(g.edges) : x.target = id}}

(* Adjacent lists them. *)
LEMMA AdjacentIs ==
  ASSUME NEW g, Lists(g.edges, ToSet(g.edges)), NEW id
  PROVE  Lists(Adjacent(g, id), Near(g, id))
<1> DEFINE S == ToSet(g.edges)
           s == g.edges
           seq == [e \in S |-> (IF e.source = id THEN <<e.target>> ELSE <<>>)
                                \o (IF e.target = id THEN <<e.source>> ELSE <<>>)]
           set == [e \in S |-> (IF e.source = id THEN {e.target} ELSE {})
                                \cup (IF e.target = id THEN {e.source} ELSE {})]
<1>1. Lists(s, S) OBVIOUS
<1>2. ASSUME NEW e \in S PROVE Lists(seq[e], set[e])
  <2> DEFINE a == IF e.source = id THEN <<e.target>> ELSE <<>>
             A == IF e.source = id THEN {e.target} ELSE {}
             b == IF e.target = id THEN <<e.source>> ELSE <<>>
             B == IF e.target = id THEN {e.source} ELSE {}
  <2>1. Lists(a, A) /\ Lists(b, B) BY ListsOne, ListsEmpty
  <2>2. seq[e] = a \o b /\ set[e] = A \cup B OBVIOUS
  <2> HIDE DEF a, A, b, B, seq, set
  <2> QED BY <2>1, <2>2, ListsBoth
<1>3. Lists(FlattenSeq([i \in DOMAIN s |-> seq[s[i]]]), UNION {set[e] : e \in S})
  <2> HIDE DEF s, S, seq, set
  <2> QED BY <1>1, <1>2, ListsAll
<1>4. \A i \in DOMAIN s : s[i] \in S BY DEF ToSet
<1>5. Adjacent(g, id) = FlattenSeq([i \in DOMAIN s |-> seq[s[i]]]) BY <1>4 DEF Adjacent, Mapped
<1>6. UNION {set[e] : e \in S} = Near(g, id)
  <2>1. ASSUME NEW x \in UNION {set[e] : e \in S} PROVE x \in Near(g, id)
    <3>1. PICK e \in S : x \in set[e] OBVIOUS
    <3>2. (e.source = id /\ x = e.target) \/ (e.target = id /\ x = e.source) BY <3>1
    <3> HIDE DEF set
    <3> QED BY <3>2 DEF Near
  <2>2. ASSUME NEW x \in Near(g, id) PROVE x \in UNION {set[e] : e \in S}
    <3>1. PICK e \in S : (e.source = id /\ x = e.target) \/ (e.target = id /\ x = e.source) BY DEF Near
    <3>2. x \in set[e] BY <3>1
    <3> QED BY <3>2
  <2> QED BY <2>1, <2>2
<1> HIDE DEF s, S, seq, set
<1> QED BY <1>3, <1>5, <1>6

(* They are nodes of a sound graph. *)
LEMMA NearWithin ==
  ASSUME NEW g, Sound(g), NEW id
  PROVE  Near(g, id) \subseteq Ids(g)
BY DEF Near, Sound, EdgeSound

(* What a sequence lists is no more than its length. *)
LEMMA FewListed ==
  ASSUME NEW s, NEW S, Lists(s, S)
  PROVE  IsFiniteSet(S) /\ Cardinality(S) <= Len(s)
<1> DEFINE n == Len(s)
<1>1. n \in Nat /\ DOMAIN s = 1..n /\ \A i \in 1..n : s[i] \in S BY ListsDomain
<1>2. \A x \in S : \E i \in 1..n : s[i] = x BY ListsDomain
<1> DEFINE f == [i \in 1..n |-> s[i]]
<1>3. f \in Surjection(1..n, S) BY <1>1, <1>2 DEF Surjection
<1>4. IsFiniteSet(1..n) /\ Cardinality(1..n) = n BY <1>1, FS_Interval
<1> HIDE DEF n, f
<1>5. IsFiniteSet(S) /\ Cardinality(S) <= Cardinality(1..n) BY <1>3, <1>4, FS_Surjection
<1> QED BY <1>4, <1>5 DEF n

(* CitedSubgraph adds the neighbours of what is cited, one by one, while   *)
(* there is room.                                                          *)
Added(selected, id, limit) ==
  IF Len(selected) >= limit \/ Contains(selected, id) THEN selected ELSE Append(selected, id)

AddedUp(acc, cited, near, limit) ==
  acc[0] = cited /\ \A i \in 1..Len(near) : acc[i] = Added(acc[i - 1], near[i], limit)

Nearby(g, cited) == FlattenSeq(Mapped(cited, LAMBDA id : Adjacent(g, id)))

(* What CitedSubgraph draws is what they are added up to. *)
LEMMA AddAll ==
  ASSUME NEW T, NEW g, NEW cited \in Seq(T), Nearby(g, cited) \in Seq(T), NEW limit
  PROVE  \E acc \in [0..Len(Nearby(g, cited)) -> Seq(T)] :
           /\ AddedUp(acc, cited, Nearby(g, cited), limit)
           /\ CitedSubgraph(g, cited, limit).ids = acc[Len(Nearby(g, cited))]
<1> DEFINE near == Nearby(g, cited)
           n == Len(near)
           S == 1..n
           step == [p \in S \X Seq(T) |-> Added(p[2], near[p[1]], limit)]
           top == [s \in SUBSET S |-> Max(s)]
           iter == CHOOSE h : h = [s \in SUBSET S |->
                     IF s = {} THEN cited ELSE Added(h[s \ {Max(s)}], near[Max(s)], limit)]
<1>1. n \in Nat /\ DOMAIN near = 1..n /\ \A i \in 1..n : near[i] \in T BY LenProperties, ElementOfSeq
<1>2. \A s \in Seq(T), x \in T : Added(s, x, limit) \in Seq(T) BY AppendProperties DEF Added
<1>3. step \in [S \X Seq(T) -> Seq(T)] BY <1>1, <1>2
<1>4. PICK f \in [SUBSET S -> Seq(T)] : TakenApart(f, S, cited, step, top)
  <2> HIDE DEF n, step
  <2> QED BY <1>1, <1>3, Recursion
<1>5. PICK acc \in [0..n -> Seq(T)] : Carried(acc, n, cited, step)
  <2> HIDE DEF n, step
  <2> QED BY <1>1, <1>3, Along
<1>6. \A i \in S, s \in Seq(T) : step[<<i, s>>] = Added(s, near[i], limit)
  <2> HIDE DEF S
  <2> QED OBVIOUS
<1> HIDE DEF step
<1>7. f = [s \in SUBSET S |-> IF s = {} THEN cited ELSE Added(f[s \ {Max(s)}], near[Max(s)], limit)]
  <2>1. f[{}] = cited BY <1>4 DEF TakenApart
  <2>2. ASSUME NEW s \in SUBSET S, s # {} PROVE f[s] = Added(f[s \ {Max(s)}], near[Max(s)], limit)
    <3>1. Max(s) \in S BY <1>1, <2>2, MaxIn
    <3>2. f[s \ {Max(s)}] \in Seq(T) OBVIOUS
    <3>3. f[s] = step[<<Max(s), f[s \ {Max(s)}]>>]
      <4>1. top[s] = Max(s) OBVIOUS
      <4> HIDE DEF top
      <4> QED BY <1>4, <2>2, <4>1 DEF TakenApart
    <3> HIDE DEF S
    <3> QED BY <1>6, <3>1, <3>2, <3>3
  <2> HIDE DEF S
  <2> QED BY <2>1, <2>2
<1>8. iter = [s \in SUBSET S |-> IF s = {} THEN cited ELSE Added(iter[s \ {Max(s)}], near[Max(s)], limit)]
  <2> HIDE DEF S
  <2> QED BY <1>7
<1>9. CitedSubgraph(g, cited, limit).ids = iter[S]
  BY <1>1 DEF CitedSubgraph, FoldLeft, MapThenFoldSet, Added, Nearby
<1> HIDE DEF iter, near
<1>10. AddedUp(acc, cited, near, limit)
  <2>1. acc[0] = cited BY <1>5 DEF Carried
  <2>2. ASSUME NEW i \in 1..n PROVE acc[i] = Added(acc[i - 1], near[i], limit)
    <3>1. i - 1 \in 0..n BY <1>1
    <3>2. acc[i - 1] \in Seq(T) BY <3>1
    <3>3. acc[i] = step[<<i, acc[i - 1]>>] BY <1>5 DEF Carried
    <3> QED BY <1>6, <3>2, <3>3
  <2> QED BY <2>1, <2>2 DEF AddedUp
<1>11. iter[{}] = cited BY <1>8
<1>12. \A s \in SUBSET S : s # {} /\ iter[s \ {Max(s)}] \in Seq(T) =>
             iter[s] = step[<<Max(s), iter[s \ {Max(s)}]>>]
  <2>1. SUFFICES ASSUME NEW s \in SUBSET S, s # {}, iter[s \ {Max(s)}] \in Seq(T)
                 PROVE  iter[s] = step[<<Max(s), iter[s \ {Max(s)}]>>]
    OBVIOUS
  <2>2. Max(s) \in S BY <1>1, <2>1, MaxIn
  <2> HIDE DEF S
  <2>3. iter[s] = Added(iter[s \ {Max(s)}], near[Max(s)], limit) BY <1>8, <2>1
  <2> QED BY <1>6, <2>1, <2>2, <2>3
<1>13. iter[S] = acc[n]
  <2>1. acc \in [0..n -> Seq(T)] /\ Carried(acc, n, cited, step) BY <1>5
  <2>2. n \in Nat BY <1>1
  <2>3. FoldedUp(iter, n, Seq(T), cited, step) BY <1>11, <1>12 DEF FoldedUp
  <2> HIDE DEF n
  <2> QED BY ONLY <2>1, <2>2, <2>3, Unfolded
<1> QED BY <1>9, <1>10, <1>13 DEF near

(* The neighbours of some nodes. *)
Around(g, C) == UNION {Near(g, id) : id \in C}

(* Nearby lists them. *)
LEMMA AroundListed ==
  ASSUME NEW g, Lists(g.edges, ToSet(g.edges)), NEW C, NEW cited, Lists(cited, C)
  PROVE  Lists(Nearby(g, cited), Around(g, C))
<1> DEFINE seq == [id \in C |-> Adjacent(g, id)]
           set == [id \in C |-> Near(g, id)]
<1>1. \A id \in C : Lists(seq[id], set[id]) BY AdjacentIs
<1>2. \A i \in DOMAIN cited : cited[i] \in C BY DEF Lists, ToSet
<1>3. Mapped(cited, LAMBDA id : Adjacent(g, id)) = [i \in DOMAIN cited |-> seq[cited[i]]] BY <1>2 DEF Mapped
<1>4. UNION {set[id] : id \in C} = Around(g, C) BY DEF Around
<1> HIDE DEF seq, set
<1>5. Lists(FlattenSeq([i \in DOMAIN cited |-> seq[cited[i]]]), UNION {set[id] : id \in C}) BY <1>1, ListsAll
<1> QED BY <1>3, <1>4, <1>5 DEF Nearby

(* What is cited is drawn whatever the limit; the rest are neighbours, and *)
(* only within it.                                                         *)
LEMMA CitedDrawn ==
  ASSUME NEW g, Lists(g.edges, ToSet(g.edges)), NEW C, NEW cited, Lists(cited, C), NEW limit \in Nat
  PROVE  LET drawn == ToSet(CitedSubgraph(g, cited, limit).ids)
         IN  /\ C \subseteq drawn /\ drawn \subseteq C \cup Around(g, C)
             /\ Cardinality(drawn) <= limit \/ drawn = C
<1> DEFINE near == Nearby(g, cited)
           T == C \cup Around(g, C)
           ids == CitedSubgraph(g, cited, limit).ids
           n == Len(near)
<1>1. Lists(near, Around(g, C)) BY AroundListed
<1>2. cited \in Seq(T) /\ near \in Seq(T)
  <2>1. cited \in Seq(C) /\ near \in Seq(Around(g, C)) BY <1>1 DEF Lists
  <2>2. C \subseteq T /\ Around(g, C) \subseteq T OBVIOUS
  <2> HIDE DEF near, T
  <2> QED BY <2>1, <2>2
<1>4. PICK acc \in [0..n -> Seq(T)] : AddedUp(acc, cited, near, limit) /\ ids = acc[n]
  <2> HIDE DEF T
  <2> QED BY <1>2, AddAll
<1>5. n \in Nat BY <1>1, ListsDomain
<1>6. \A i \in 1..n : near[i] \in Around(g, C) BY <1>1, ListsDomain
<1> HIDE DEF near, ids
<1> DEFINE Fine(s) == /\ Lists(s, ToSet(s)) /\ C \subseteq ToSet(s) /\ ToSet(s) \subseteq T
                      /\ s = cited \/ Len(s) <= limit
           good == {k \in Nat : k \in 0..n => Fine(acc[k])}
<1>7. 0 \in good
  <2>1. acc[0] = cited BY <1>4 DEF AddedUp
  <2>2. ToSet(cited) = C BY DEF Lists
  <2> QED BY <2>1, <2>2
<1>8. ASSUME NEW s \in Seq(T), Fine(s), NEW x \in Around(g, C) PROVE Fine(Added(s, x, limit))
  <2>1. CASE Len(s) >= limit \/ Contains(s, x) BY <1>8, <2>1 DEF Added
  <2>2. CASE ~(Len(s) >= limit \/ Contains(s, x))
    <3>1. Added(s, x, limit) = Append(s, x) BY <2>2 DEF Added
    <3> DEFINE S == ToSet(s)
               a == Append(s, x)
    <3>2. Lists(s, S) BY <1>8
    <3>3. Lists(a, S \cup {x}) /\ Len(a) = Len(s) + 1
      <4> HIDE DEF S
      <4> QED BY <3>2, ListsAppend
    <3>4. ToSet(a) = S \cup {x} BY <3>3 DEF Lists
    <3>5. Len(s) \in Nat BY <3>2, ListsDomain
    <3>6. Len(a) <= limit BY <2>2, <3>3, <3>5
    <3>7. C \subseteq S /\ S \subseteq T /\ x \in T BY <1>8
    <3> HIDE DEF S, a
    <3>8. Lists(a, ToSet(a)) /\ C \subseteq ToSet(a) /\ ToSet(a) \subseteq T BY <3>3, <3>4, <3>7
    <3> QED BY <3>1, <3>6, <3>8 DEF a
  <2> QED BY <2>1, <2>2
<1>9. ASSUME NEW k \in good PROVE k + 1 \in good
  <2>0. k \in Nat /\ (k \in 0..n => Fine(acc[k])) OBVIOUS
  <2> HIDE DEF good, Fine
  <2> SUFFICES ASSUME k + 1 \in 0..n PROVE Fine(acc[k + 1]) BY <2>0 DEF good
  <2>1. k \in 0..n /\ k + 1 \in 1..n /\ (k + 1) - 1 = k
    <3>1. k \in Nat BY <2>0
    <3> QED BY ONLY <1>5, <3>1, k + 1 \in 0..n
  <2> DEFINE j == k + 1
  <2>2. acc[j] = Added(acc[j - 1], near[j], limit) BY <1>4, <2>1 DEF AddedUp
  <2>3. acc[k] \in Seq(T) /\ Fine(acc[k]) /\ near[j] \in Around(g, C)
    <3> HIDE DEF T
    <3> QED BY <1>4, <1>6, <2>0, <2>1
  <2> QED BY <1>8, <2>1, <2>2, <2>3
<1>10. good = Nat
  <2>1. good \in SUBSET Nat OBVIOUS
  <2> HIDE DEF good
  <2> QED BY ONLY <1>7, <1>9, <2>1, Induction
<1>11. Fine(ids)
  <2>1. n \in good /\ n \in 0..n BY <1>5, <1>10
  <2> QED BY <1>4, <2>1
<1>12. Cardinality(ToSet(ids)) <= limit \/ ToSet(ids) = C
  <2>1. CASE ids = cited BY <2>1 DEF Lists
  <2>2. CASE Len(ids) <= limit
    <3> DEFINE S == ToSet(ids)
    <3>1. Lists(ids, S) /\ Len(ids) \in Nat BY <1>11, ListsDomain
    <3> HIDE DEF S
    <3>2. IsFiniteSet(S) /\ Cardinality(S) <= Len(ids) BY <3>1, FewListed
    <3>3. Cardinality(S) \in Nat BY <3>2, FS_CardinalityType
    <3> QED BY <2>2, <3>1, <3>2, <3>3 DEF S
  <2> QED BY <1>11, <2>1, <2>2
<1>13. C \subseteq ToSet(ids) /\ ToSet(ids) \subseteq C \cup Around(g, C) BY <1>11
<1> QED BY <1>12, <1>13 DEF ids

-----------------------------------------------------------------------------
(* Answers *)

(* Citations have numbers, and no two the same. *)
Numbered(cites) ==
  /\ cites \in Seq(ToSet(cites)) /\ \A c \in ToSet(cites) : c.ref \in Int
  /\ \A i, j \in DOMAIN cites : i # j => cites[i].ref # cites[j].ref

(* InOrder lists them in the order of their numbers. *)
LEMMA InOrderListed ==
  ASSUME NEW cites, Numbered(cites)
  PROVE  /\ Lists(InOrder(cites), ToSet(cites))
         /\ \A c, d \in ToSet(cites) : c.ref = d.ref => c = d
<1> DEFINE C == ToSet(cites)
           n == Len(cites)
           upto(c) == {d \in C : d.ref <= c.ref}
           rank == [c \in C |-> Cardinality(upto(c))]
<1>1. Lists(cites, C) BY DEF Numbered, Lists
<1>2. /\ n \in Nat /\ DOMAIN cites = 1..n
      /\ \A i \in 1..n : cites[i] \in C
      /\ \A x \in C : \E i \in 1..n : cites[i] = x
  <2> HIDE DEF C
  <2> QED BY <1>1, ListsDomain
<1>3. \A c \in C : c.ref \in Int BY DEF Numbered
<1>4. \A c, d \in C : c.ref = d.ref => c = d BY <1>2 DEF Numbered
<1>5. IsFiniteSet(C) /\ Cardinality(C) = n
  <2> DEFINE f == [i \in 1..n |-> cites[i]]
  <2>1. f \in Surjection(1..n, C) BY <1>2 DEF Surjection
  <2>2. f \in Injection(1..n, C) BY <1>2, <2>1 DEF Surjection, Injection, IsInjective, Numbered
  <2>3. IsFiniteSet(1..n) /\ Cardinality(1..n) = n BY <1>2, FS_Interval
  <2> HIDE DEF f, C, n
  <2> QED BY <2>1, <2>2, <2>3, FS_Surjection
<1>6. ASSUME NEW c \in C PROVE IsFiniteSet(upto(c)) /\ rank[c] = Cardinality(upto(c)) /\ rank[c] \in 1..n
  <2> DEFINE U == upto(c)
  <2>1. U \in SUBSET C /\ c \in U BY <1>3
  <2>2. rank[c] = Cardinality(U) OBVIOUS
  <2> HIDE DEF U, C, rank
  <2>3. IsFiniteSet(U) /\ Cardinality(U) <= n BY <1>5, <2>1, FS_Subset
  <2>4. Cardinality(U) \in Nat /\ Cardinality(U) # 0 BY <2>1, <2>3, FS_CardinalityType, FS_EmptySet
  <2>5. Cardinality(U) \in 1..n BY <1>2, <2>3, <2>4
  <2> QED BY <2>2, <2>3, <2>5 DEF U
<1>7. ASSUME NEW c \in C, NEW d \in C, c.ref < d.ref PROVE rank[c] # rank[d]
  <2> DEFINE U == upto(c)
             V == upto(d)
  <2>1. U \in SUBSET V /\ d \in V /\ d \notin U BY <1>3, <1>7
  <2>2. IsFiniteSet(V) /\ rank[c] = Cardinality(U) /\ rank[d] = Cardinality(V) BY <1>6
  <2> HIDE DEF U, V, rank
  <2> QED BY <2>1, <2>2, FS_Subset
<1>8. rank \in Injection(C, 1..n)
  <2>1. \A c, d \in C : rank[c] = rank[d] => c = d
    <3> SUFFICES ASSUME NEW c \in C, NEW d \in C, rank[c] = rank[d] PROVE c = d OBVIOUS
    <3>1. c.ref \in Int /\ d.ref \in Int BY <1>3
    <3>2. ~(c.ref < d.ref) /\ ~(d.ref < c.ref) BY <1>7
    <3>3. c.ref = d.ref BY <3>1, <3>2
    <3> QED BY <1>4, <3>3
  <2>2. rank \in [C -> 1..n]
    <3>1. \A c \in C : rank[c] \in 1..n BY <1>6
    <3>2. rank = [c \in C |-> rank[c]] OBVIOUS
    <3> HIDE DEF rank
    <3> QED BY <3>1, <3>2
  <2> HIDE DEF rank
  <2> QED BY <2>1, <2>2 DEF Injection, IsInjective
<1>9. rank \in Surjection(C, 1..n)
  <2>1. IsFiniteSet(1..n) /\ Cardinality(1..n) = n BY <1>2, FS_Interval
  <2> HIDE DEF C, n, rank
  <2> QED BY <1>5, <1>8, <2>1, FS_Injection
<1> DEFINE s == InOrder(cites)
<1>10. s = [i \in 1..n |-> CHOOSE c \in C : Cardinality(upto(c)) = i] BY <1>2 DEF InOrder
<1>11. \A i \in 1..n : s[i] = CHOOSE c \in C : Cardinality(upto(c)) = i BY <1>10
<1>12. ASSUME NEW i \in 1..n PROVE s[i] \in C /\ rank[s[i]] = i
  <2>1. \E c \in C : rank[c] = i BY <1>9 DEF Surjection
  <2>2. \E c \in C : Cardinality(upto(c)) = i BY <1>6, <2>1
  <2>3. s[i] \in C /\ Cardinality(upto(s[i])) = i BY <1>11, <2>2
  <2> QED BY <1>6, <2>3
<1>13. ASSUME NEW c \in C PROVE \E i \in 1..n : s[i] = c
  <2>1. rank[c] \in 1..n BY <1>6
  <2>2. s[rank[c]] \in C /\ rank[s[rank[c]]] = rank[c] BY <1>12, <2>1
  <2>3. s[rank[c]] = c BY <1>8, <2>2 DEF Injection, IsInjective
  <2> QED BY <2>1, <2>3
<1>14. s = [i \in 1..n |-> s[i]] BY <1>10
<1>15. Lists(s, C)
  <2> HIDE DEF s, C, n, rank
  <2> QED BY <1>2, <1>12, <1>13, <1>14, ListsMade
<1> QED BY <1>4, <1>15

(* A pair lists its two values. *)
LEMMA ListsTwo == ASSUME NEW x, NEW y PROVE Lists(<<x, y>>, {x} \cup {y})
<1> DEFINE s == <<x, y>>
           S == {x} \cup {y}
<1>1. s[1] = x /\ s[2] = y /\ s = [i \in 1..2 |-> s[i]] OBVIOUS
<1>2. 1..2 = {1, 2} OBVIOUS
<1>3. \A i \in 1..2 : s[i] \in S BY <1>1, <1>2
<1>4. \A z \in S : \E i \in 1..2 : s[i] = z BY <1>1, <1>2
<1> HIDE DEF s, S
<1>5. Lists(s, S) BY <1>1, <1>3, <1>4, ListsMade
<1> QED BY <1>5 DEF s, S

(* What a citation points at. *)
EndsOf(c, g) ==
  IF c.on = "node" THEN {c.id}
  ELSE LET e == CHOOSE x \in ToSet(g.edges) : x.id = c.id IN {e.source} \cup {e.target}

(* Highlighted lists what the citations point at. *)
LEMMA HighlightedListed ==
  ASSUME NEW answer, NEW sent, Numbered(answer.cites)
  PROVE  Lists(Highlighted(answer, sent), UNION {EndsOf(c, sent) : c \in ToSet(answer.cites)})
<1> DEFINE C == ToSet(answer.cites)
           s == InOrder(answer.cites)
           seq == [c \in C |-> IF c.on = "node" THEN <<c.id>>
                               ELSE LET e == CHOOSE x \in ToSet(sent.edges) : x.id = c.id
                                     IN  <<e.source, e.target>>]
           set == [c \in C |-> EndsOf(c, sent)]
<1>1. Lists(s, C) BY InOrderListed
<1>2. ASSUME NEW c \in C PROVE Lists(seq[c], set[c])
  <2>1. CASE c.on = "node"
    <3>1. seq[c] = <<c.id>> /\ set[c] = {c.id} BY <2>1 DEF EndsOf
    <3> HIDE DEF seq, set
    <3> QED BY <3>1, ListsOne
  <2>2. CASE c.on # "node"
    <3>1. PICK x, y : seq[c] = <<x, y>> /\ set[c] = {x} \cup {y} BY <2>2 DEF EndsOf
    <3> HIDE DEF seq, set
    <3> QED BY <3>1, ListsTwo
  <2> QED BY <2>1, <2>2
<1>3. Lists(FlattenSeq([i \in DOMAIN s |-> seq[s[i]]]), UNION {set[c] : c \in C})
  <2> HIDE DEF s, C, seq, set
  <2> QED BY <1>1, <1>2, ListsAll
<1>4. \A i \in DOMAIN s : s[i] \in C BY <1>1 DEF Lists, ToSet
<1>5. Highlighted(answer, sent) = Distinct(FlattenSeq([i \in DOMAIN s |-> seq[s[i]]]))
  <2> DEFINE ends(c) ==
               IF c.on = "node" THEN <<c.id>>
               ELSE LET e == CHOOSE x \in ToSet(sent.edges) : x.id = c.id IN <<e.source, e.target>>
  <2>1. \A i \in DOMAIN s : seq[s[i]] = ends(s[i])
    <3> HIDE DEF s
    <3> QED BY <1>4
  <2>2. [i \in DOMAIN s |-> seq[s[i]]] = [i \in DOMAIN s |-> ends(s[i])]
    <3> HIDE DEF s, seq, ends
    <3> QED BY <2>1
  <2>3. Highlighted(answer, sent) = Distinct(FlattenSeq([i \in DOMAIN s |-> ends(s[i])]))
    BY DEF Highlighted, Mapped
  <2> HIDE DEF s, seq, ends
  <2> QED BY <2>2, <2>3
<1>6. UNION {set[c] : c \in C} = UNION {EndsOf(c, sent) : c \in C} OBVIOUS
<1> HIDE DEF s, seq, set
<1> QED BY <1>3, <1>5, <1>6, ListsDistinct

(* The nodes of the kinds a question asks about, those ahead of another,   *)
(* and the few that are ahead of the others.                               *)
Telling(g, score) == {i \in DOMAIN g.nodes : score[g.nodes[i].kind] > 0}

Ahead(g, score, i) ==
  {j \in Telling(g, score) :
     \/ score[g.nodes[j].kind] > score[g.nodes[i].kind]
     \/ score[g.nodes[j].kind] = score[g.nodes[i].kind] /\ j < i}

Foremost(g, score) == {i \in Telling(g, score) : Cardinality(Ahead(g, score, i)) < SubsetLimit}

Relevant(g, score) == {g.nodes[i].id : i \in Foremost(g, score)}

(* They are nodes of the graph. *)
LEMMA RelevantWithin ==
  ASSUME NEW g, NEW score
  PROVE  Relevant(g, score) \subseteq Ids(g)
BY DEF Relevant, Foremost, Telling, Ids, ToSet

(* Nothing else is retrieved. *)
LEMMA RetrievedRelevant ==
  ASSUME NEW g, Lists(g.nodes, ToSet(g.nodes)), Lists(g.edges, ToSet(g.edges)), NEW score
  PROVE  LET sent == Retrieve(g, score, SubsetLimit)
         IN  /\ Ids(sent) \subseteq Relevant(g, score)
             /\ \A e \in ToSet(sent.edges) :
                  e \in ToSet(g.edges) /\ {e.source, e.target} \subseteq Relevant(g, score)
<1> DEFINE scored == {i \in DOMAIN g.nodes : score[g.nodes[i].kind] > 0}
           before(j, i) == LET a == score[g.nodes[j].kind]
                               b == score[g.nodes[i].kind]
                           IN  a > b \/ (a = b /\ j < i)
           best == {k \in scored : Cardinality({j \in scored : before(j, k)}) < SubsetLimit}
           ids == {g.nodes[i].id : i \in best}
<1>1. Retrieve(g, score, SubsetLimit) = Within(g, ids) BY DEF Retrieve
<1>2. ids = Relevant(g, score) BY DEF Relevant, Foremost, Ahead, Telling
<1> HIDE DEF ids
<1>3. /\ ToSet(Within(g, ids).edges) = {e \in ToSet(g.edges) : {e.source, e.target} \subseteq ids}
      /\ Ids(Within(g, ids)) = Ids(g) \cap ids
  BY WithinIs
<1> QED BY <1>1, <1>2, <1>3

(* AnswersGrounded, of one reply. *)
Grounded(g, score, reply) ==
  IF reply.code = "answered"
  THEN /\ reply.cites # {} /\ reply.marks \subseteq {c.ref : c \in reply.cites}
       /\ \A c, d \in reply.cites : c.ref = d.ref => c = d
       /\ \A c \in reply.cites :
            IF c.on = "node" THEN c.id \in Relevant(g, score) \cap reply.drawn
            ELSE \E e \in ToSet(g.edges) :
                   e.id = c.id /\ {e.source, e.target} \subseteq Relevant(g, score) \cap reply.drawn
       /\ reply.drawn \subseteq
            (UNION {ToSet(Adjacent(g, id)) \cup {id} : id \in ToSet(reply.highlight)}) \cap Ids(g)
       /\ \/ Cardinality(reply.drawn) <= SubgraphLimit
          \/ reply.drawn = ToSet(reply.highlight)
  ELSE reply.cites = {} /\ reply.drawn = {}

(* A reply that is no answer cites nothing. *)
LEMMA NothingCited == ASSUME NEW g, NEW score, NEW code, code # "answered" PROVE Grounded(g, score, Reply(code))
BY DEF Grounded, Reply

(* A response to what was retrieved from a sound graph is grounded in that *)
(* graph.                                                                  *)
LEMMA ResponseGrounded ==
  ASSUME Sound(graph), NEW score, NEW answer \in Answers
  PROVE  Grounded(graph, score, Response(answer, Retrieve(graph, score, SubsetLimit)))
<1> DEFINE sent == Retrieve(graph, score, SubsetLimit)
           reply == Response(answer, sent)
           C == ToSet(answer.cites)
           H == UNION {EndsOf(c, sent) : c \in C}
           shown == Highlighted(answer, sent)
           drawn == ToSet(CitedSubgraph(graph, shown, SubgraphLimit).ids)
<1>1. CASE answer = Garbage \/ answer.refused \/ Fault(answer, sent)
  <2>1. reply = Reply("ungrounded") BY <1>1 DEF Response
  <2> HIDE DEF reply
  <2> QED BY <2>1, NothingCited DEF reply
<1>2. CASE ~(answer = Garbage \/ answer.refused \/ Fault(answer, sent))
  <2>1. /\ reply.code = "answered" /\ reply.cites = C /\ reply.marks = answer.marks
        /\ reply.highlight = shown /\ reply.drawn = drawn
    BY <1>2 DEF Response
  <2>2. /\ answer.cites # <<>> /\ answer.marks \subseteq {c.ref : c \in C}
        /\ \A i, j \in DOMAIN answer.cites : i # j => answer.cites[i].ref # answer.cites[j].ref
        /\ \A c \in C : /\ c.on \in {"node", "edge"}
                        /\ c.on = "node" => c.id \in Ids(sent)
                        /\ c.on = "edge" => c.id \in {e.id : e \in ToSet(sent.edges)}
    <3> HIDE DEF sent
    <3> QED BY <1>2 DEF Fault
  <2>3. answer.cites \in Seq(C) /\ \A c \in C : c.ref \in Int BY <1>2, AnswersAssumption
  <2>4. Numbered(answer.cites) BY <2>2, <2>3 DEF Numbered
  <2>5. \A c, d \in C : c.ref = d.ref => c = d BY <2>4, InOrderListed
  <2>6. Lists(shown, H)
    <3> HIDE DEF sent
    <3> QED BY <2>4, HighlightedListed
  <2>7. Lists(graph.nodes, ToSet(graph.nodes)) /\ Lists(graph.edges, ToSet(graph.edges)) BY DEF Sound
  <2>8. /\ Ids(sent) \subseteq Relevant(graph, score)
        /\ \A e \in ToSet(sent.edges) :
             e \in ToSet(graph.edges) /\ {e.source, e.target} \subseteq Relevant(graph, score)
    BY <2>7, RetrievedRelevant
  <2>9. SubgraphLimit \in Nat BY ChatAssumption
  <2>10. /\ H \subseteq drawn /\ drawn \subseteq H \cup Around(graph, H)
         /\ Cardinality(drawn) <= SubgraphLimit \/ drawn = H
    <3> HIDE DEF H, shown
    <3> QED BY <2>6, <2>7, <2>9, CitedDrawn
  <2>11. ToSet(shown) = H BY <2>6 DEF Lists
  <2> HIDE DEF drawn, shown, sent, reply
  <2>12. ASSUME NEW c \in C
         PROVE  IF c.on = "node" THEN c.id \in Relevant(graph, score) \cap drawn
                ELSE \E e \in ToSet(graph.edges) :
                       e.id = c.id /\ {e.source, e.target} \subseteq Relevant(graph, score) \cap drawn
    <3>1. EndsOf(c, sent) \subseteq drawn BY <2>10
    <3>2. CASE c.on = "node" BY <2>2, <2>8, <3>1, <3>2 DEF EndsOf
    <3>3. CASE c.on # "node"
      <4> DEFINE e == CHOOSE x \in ToSet(sent.edges) : x.id = c.id
      <4>1. \E x \in ToSet(sent.edges) : x.id = c.id BY <2>2, <3>3
      <4>2. e \in ToSet(sent.edges) /\ e.id = c.id BY <4>1
      <4>3. EndsOf(c, sent) = {e.source} \cup {e.target} BY <3>3 DEF EndsOf
      <4> HIDE DEF e
      <4>4. e \in ToSet(graph.edges) /\ {e.source, e.target} \subseteq Relevant(graph, score) \cap drawn
        BY <2>8, <3>1, <4>2, <4>3
      <4> QED BY <3>3, <4>2, <4>4
    <3> QED BY <3>2, <3>3
  <2>13. \A id : ToSet(Adjacent(graph, id)) = Near(graph, id) BY <2>7, AdjacentIs DEF Lists
  <2>14. H \cup Around(graph, H) = UNION {ToSet(Adjacent(graph, id)) \cup {id} : id \in H}
    <3> HIDE DEF H
    <3> QED BY <2>13 DEF Around
  <2>15. drawn \subseteq Ids(graph)
    <3>1. H \subseteq Ids(graph)
      <4>1. Relevant(graph, score) \subseteq Ids(graph) BY RelevantWithin
      <4>2. ASSUME NEW c \in C PROVE EndsOf(c, sent) \subseteq Relevant(graph, score)
        <5>1. CASE c.on = "node" BY <2>2, <2>8, <5>1 DEF EndsOf
        <5>2. CASE c.on # "node"
          <6> DEFINE e == CHOOSE x \in ToSet(sent.edges) : x.id = c.id
          <6>1. \E x \in ToSet(sent.edges) : x.id = c.id BY <2>2, <5>2
          <6>2. e \in ToSet(sent.edges) BY <6>1
          <6>3. EndsOf(c, sent) = {e.source} \cup {e.target} BY <5>2 DEF EndsOf
          <6> HIDE DEF e
          <6> QED BY <2>8, <6>2, <6>3
        <5> QED BY <5>1, <5>2
      <4> QED BY <4>1, <4>2
    <3>2. Around(graph, H) \subseteq Ids(graph) BY NearWithin DEF Around
    <3> HIDE DEF H
    <3> QED BY <2>10, <3>1, <3>2
  <2>16. C # {}
    <3> DEFINE s == answer.cites
    <3>1. s \in Seq(C) /\ s # <<>> /\ ToSet(s) = C BY <2>2, <2>3
    <3> HIDE DEF s, C
    <3>2. Len(s) \in Nat /\ DOMAIN s = 1..Len(s) /\ Len(s) # 0 BY <3>1, LenProperties, EmptySeq
    <3>3. 1 \in 1..Len(s) BY <3>2
    <3>4. s[1] \in C BY <3>1, <3>2, <3>3 DEF ToSet
    <3> QED BY <3>4
  <2> HIDE DEF H, C
  <2>17. Grounded(graph, score, reply)
    <3>1. reply.cites # {} /\ reply.marks \subseteq {c.ref : c \in reply.cites} BY <2>1, <2>2, <2>16
    <3>2. \A c, d \in reply.cites : c.ref = d.ref => c = d BY <2>1, <2>5
    <3>3. \A c \in reply.cites :
            IF c.on = "node" THEN c.id \in Relevant(graph, score) \cap reply.drawn
            ELSE \E e \in ToSet(graph.edges) :
                   e.id = c.id /\ {e.source, e.target} \subseteq Relevant(graph, score) \cap reply.drawn
      BY <2>1, <2>12
    <3>4. reply.drawn \subseteq (UNION {ToSet(Adjacent(graph, id)) \cup {id} : id \in ToSet(reply.highlight)})
                                 \cap Ids(graph)
      <4>1. drawn \subseteq (UNION {ToSet(Adjacent(graph, id)) \cup {id} : id \in H}) \cap Ids(graph)
        BY <2>10, <2>14, <2>15
      <4> QED BY <2>1, <2>11, <4>1
    <3>5. Cardinality(reply.drawn) <= SubgraphLimit \/ reply.drawn = ToSet(reply.highlight)
      BY <2>1, <2>10, <2>11
    <3> QED BY <2>1, <3>1, <3>2, <3>3, <3>4, <3>5 DEF Grounded
  <2> QED BY <2>17 DEF reply, sent
<1> QED BY <1>1, <1>2

(* A reply that is no answer. *)
Uncited(reply) == reply.code # "answered" /\ reply.cites = {} /\ reply.drawn = {}

(* A catalog that is there is sound, and every answer is grounded in it. *)
AnswerInv ==
  /\ Built => Sound(graph)
  /\ \A k \in Chats : Grounded(graph, Score[chat[k].question], chat[k].reply)

(* It is grounded in any graph. *)
LEMMA UncitedGrounded ==
  ASSUME NEW g, NEW score
  PROVE  /\ \A reply : Uncited(reply) => Grounded(g, score, reply)
         /\ \A reply : Grounded(g, score, reply) /\ reply.code # "answered" => Uncited(reply)
         /\ \A code : code # "answered" => Uncited(Reply(code))
BY DEF Uncited, Grounded, Reply

(* A chat that is not over cites nothing, and none does before there is a catalog. *)
LEMMA NotYetCited ==
  ASSUME GraphInv, AnswerInv, NEW k \in Chats, chat[k].phase # "done" \/ ~Built
  PROVE  Uncited(chat[k].reply)
<1>1. chat[k].reply.code # "answered" BY DEF GraphInv, ChatInv, Placed
<1> QED BY <1>1, UncitedGrounded DEF AnswerInv

(* A step that builds the catalog builds a sound one, and no other step    *)
(* changes it.                                                             *)
LEMMA BuiltSound ==
  ASSUME GraphInv, AnswerInv, [Next]_vars
  PROVE  (Built => Sound(graph))'
<1>1. CASE BuildSucceeds
  <2>1. stage = "done" /\ Reconciled /\ GateTypeOK /\ graph' = BuildCorpus
    BY <1>1, InvReconciles DEF BuildSucceeds, GraphInv, GateInv
  <2>2. Sound(BuildCorpus) BY <2>1, CorpusSound
  <2>3. Sound(graph') BY <2>1, <2>2
  <2> QED BY <2>3 DEF Sound, NodeSound, EdgeSound, Ids
<1>2. CASE graph' = graph BY <1>2 DEF AnswerInv, Built, Sound, NodeSound, EdgeSound, Ids
<1>3. CASE \E k \in Chats : ChatStep(k) BY <1>2, <1>3, OneMoves
<1>4. CASE Reconcile \/ BuildFails \/ CooldownEnds \/ UNCHANGED vars
  BY <1>2, <1>4 DEF Reconcile, BuildFails, CooldownEnds, vars, seedVars
<1> QED BY <1>1, <1>3, <1>4, WhoSteps DEF Build

(* A step of a chat leaves its reply grounded, *)
LEMMA ChatGrounded ==
  ASSUME GraphInv, AnswerInv, NEW k \in Chats, ChatStep(k)
  PROVE  Grounded(graph, Score[chat'[k].question], chat'[k].reply)
<1>1. DOMAIN chat = Chats /\ Shaped(k) BY DEF GraphInv, Seeded, ChatInv
<1> USE <1>1 DEF Shaped, IsChat
<1>2. \A code : code # "answered" => Uncited(Reply(code)) BY UncitedGrounded
<1>3. Uncited(chat'[k].reply) => Grounded(graph, Score[chat'[k].question], chat'[k].reply) BY UncitedGrounded
<1>4. chat[k].phase # "done" => Uncited(chat[k].reply) BY NotYetCited
<1>5. ASSUME NEW q \in Asked(ledger), Ask(k, q) PROVE Uncited(chat'[k].reply)
  BY <1>2, <1>4, <1>5 DEF Ask, Admitted, Answered
<1>6. CASE TakeLock(k) BY <1>2, <1>3, <1>4, <1>6 DEF TakeLock, Admitted, Answered
<1>7. CASE TakeSlot(k) BY <1>3, <1>4, <1>7 DEF TakeSlot
<1>8. CASE Busy(k) BY <1>2, <1>3, <1>8 DEF Busy, Answered
<1>9. CASE Unconfigured(k) BY <1>2, <1>3, <1>9 DEF Unconfigured, End
<1>10. CASE TimesOut(k) BY <1>2, <1>3, <1>10 DEF TimesOut, End
<1>11. ASSUME NEW answer \in Answers, KeyAnswers(k, answer)
       PROVE  Grounded(graph, Score[chat'[k].question], chat'[k].reply)
  <2>1. Built BY <1>11 DEF KeyAnswers, GraphInv, ChatInv, Placed
  <2>2. chat'[k].question = chat[k].question /\ chat'[k].reply = Response(answer, Sent(k))
    BY <1>11 DEF KeyAnswers, End
  <2>3. Sound(graph) BY <2>1 DEF AnswerInv
  <2>4. Grounded(graph, Score[chat[k].question], Response(answer, Sent(k))) BY <2>3, ResponseGrounded DEF Sent
  <2> QED BY <2>2, <2>4
<1>12. CASE KeyLimited(k) BY <1>2, <1>3, <1>4, <1>12 DEF KeyLimited, CallFails, End
<1>13. ASSUME NEW transient \in BOOLEAN, KeyFails(k, transient) PROVE Uncited(chat'[k].reply)
  BY <1>2, <1>4, <1>13 DEF KeyFails, CallFails, End
<1>14. CASE Retry(k) BY <1>3, <1>4, <1>14 DEF Retry
<1> QED
  BY <1>3, <1>5, <1>6, <1>7, <1>8, <1>9, <1>10, <1>11, <1>12, <1>13, <1>14 DEF ChatStep, Call

(* and so does any step of every reply. *)
LEMMA AnswersStay ==
  ASSUME GraphInv, AnswerInv, [Next]_vars, NEW j \in Chats
  PROVE  Grounded(graph', Score[chat'[j].question], chat'[j].reply)
<1>1. ASSUME graph' = graph, chat'[j] = chat[j] PROVE Grounded(graph', Score[chat'[j].question], chat'[j].reply)
  BY <1>1 DEF AnswerInv
<1>2. ASSUME NEW k \in Chats, ChatStep(k) PROVE Grounded(graph', Score[chat'[j].question], chat'[j].reply)
  <2>1. graph' = graph BY <1>2, OneMoves
  <2>2. CASE j = k BY <1>2, <2>1, <2>2, ChatGrounded
  <2>3. CASE j # k BY <1>1, <1>2, <2>1, <2>3, OneMoves
  <2> QED BY <2>2, <2>3
<1>3. CASE Reconcile \/ CooldownEnds \/ UNCHANGED vars
  BY <1>1, <1>3 DEF Reconcile, CooldownEnds, vars, seedVars
<1>4. CASE BuildFails \/ BuildSucceeds
  <2>1. ~Built /\ DOMAIN chat = Chats /\ Shaped(j)
    BY <1>4 DEF BuildFails, BuildSucceeds, GraphInv, Seeded, ChatInv
  <2>2. Uncited(chat[j].reply) BY <2>1, NotYetCited
  <2>3. \A code : code # "answered" => Uncited(Reply(code)) BY UncitedGrounded
  <2>4. Uncited(chat'[j].reply)
    <3>1. CASE BuildFails BY <2>1, <2>2, <2>3, <3>1 DEF BuildFails, Answered, Shaped, IsChat
    <3>2. CASE BuildSucceeds BY <2>1, <2>2, <2>3, <3>2 DEF BuildSucceeds, Admitted, Shaped, IsChat
    <3> QED BY <1>4, <3>1, <3>2
  <2> QED BY <2>4, UncitedGrounded
<1> QED BY <1>2, <1>3, <1>4, WhoSteps DEF Build

(* So this is an invariant. *)
LEMMA AnswerInvAlways == Spec => [](GraphInv /\ AnswerInv)
<1>1. Init => AnswerInv
  <2> SUFFICES ASSUME Init PROVE AnswerInv OBVIOUS
  <2>1. ~Built BY DEF Init, Built
  <2>2. ASSUME NEW k \in Chats PROVE Grounded(graph, Score[chat[k].question], chat[k].reply)
    <3>1. chat[k].reply = Reply("none") BY DEF Init, Idle
    <3> QED BY <3>1, UncitedGrounded
  <2> QED BY <2>1, <2>2 DEF AnswerInv
<1>2. GraphInv /\ AnswerInv /\ [Next]_vars => AnswerInv'
  <2> SUFFICES ASSUME GraphInv, AnswerInv, [Next]_vars PROVE AnswerInv' OBVIOUS
  <2>1. (Built => Sound(graph))' BY BuiltSound
  <2>2. \A k \in Chats : Grounded(graph', Score[chat'[k].question], chat'[k].reply) BY AnswersStay
  <2> QED BY <2>1, <2>2 DEF AnswerInv, Grounded, Relevant, Foremost, Ahead, Telling, Ids, Adjacent, Mapped
<1> QED BY <1>1, <1>2, GraphInvAlways, PTL DEF Spec

(* Whatever the model answers, every answer cites nodes and edges its      *)
(* question asks about, among the few it asks most about, each drawn and   *)
(* under one number (AnswersGrounded).                                     *)
THEOREM AnswersAlwaysGrounded == Spec => []AnswersGrounded
<1>1. AnswerInv => AnswersGrounded
  BY DEF AnswerInv, Grounded, Relevant, Foremost, Ahead, Telling, AnswersGrounded
<1> QED BY <1>1, AnswerInvAlways, PTL

-----------------------------------------------------------------------------
(* The overview *)

(* Shipments that went wrong, those that did not, and the flags. *)
WrongShips(g) == {n.id : n \in {x \in ToSet(g.nodes) : x.kind = "shipment" /\ x.state # "match"}}
ClearShips(g) == {n.id : n \in {x \in ToSet(g.nodes) : x.kind = "shipment" /\ x.state = "match"}}
WrongSeq(g) == IdsOf(g, "shipment", DOMAIN Rank \ {"match"})
ClearSeq(g) == IdsOf(g, "shipment", {"match"})
FlagSeq(g) == Alternating(IdsOf(g, "mismatch", DOMAIN Rank), IdsOf(g, "exception", DOMAIN Rank))

(* A sound graph is finite. *)
LEMMA IdsFinite == ASSUME NEW g, Sound(g) PROVE IsFiniteSet(Ids(g))
<1> DEFINE N == ToSet(g.nodes)
           f == [n \in N |-> n.id]
<1>1. Lists(g.nodes, N) BY DEF Sound
<1>2. IsFiniteSet(N)
  <2> HIDE DEF N
  <2> QED BY <1>1, FewListed
<1>3. IsFiniteSet({f[n] : n \in N})
  <2> HIDE DEF N, f
  <2> QED BY <1>2, FiniteImage
<1>4. {f[n] : n \in N} = Ids(g) BY DEF Ids
<1> QED BY <1>3, <1>4

(* IdsOf lists the nodes of a kind in certain states. *)
LEMMA IdsOfListed ==
  ASSUME NEW g, Lists(g.nodes, ToSet(g.nodes)), NEW kind, NEW states
  PROVE  Lists(IdsOf(g, kind, states), {n.id : n \in {x \in ToSet(g.nodes) : x.kind = kind /\ x.state \in states}})
<1> DEFINE N == ToSet(g.nodes)
           K == {n \in N : n.kind = kind /\ n.state \in states}
           s == Kept(g.nodes, K)
           f == [n \in K |-> n.id]
<1>1. Lists(s, K)
  <2>1. Lists(g.nodes, N) /\ N \cap K = K OBVIOUS
  <2>2. Lists(Kept(g.nodes, K), N \cap K)
    <3> HIDE DEF N, K
    <3> QED BY <2>1, ListsKept
  <2> HIDE DEF N, K
  <2> QED BY <2>1, <2>2
<1>2. Lists([i \in DOMAIN s |-> f[s[i]]], {f[n] : n \in K})
  <2> HIDE DEF s, K, f
  <2> QED BY <1>1, ListsMapped
<1>3. \A i \in DOMAIN s : s[i] \in K
  <2> HIDE DEF s, K
  <2> QED BY <1>1, ListsDomain
<1>4. IdsOf(g, kind, states) = [i \in DOMAIN s |-> s[i].id] BY DEF IdsOf, Mapped
<1>5. [i \in DOMAIN s |-> f[s[i]]] = [i \in DOMAIN s |-> s[i].id]
  <2> HIDE DEF s
  <2> QED BY <1>3
<1>6. {f[n] : n \in K} = {n.id : n \in {x \in ToSet(g.nodes) : x.kind = kind /\ x.state \in states}} OBVIOUS
<1> HIDE DEF s, f, K
<1> QED BY <1>2, <1>4, <1>5, <1>6

(* Alternating lists what both sequences list. *)
LEMMA AlternatingListed ==
  ASSUME NEW s, NEW S, Lists(s, S), NEW t, NEW T, Lists(t, T)
  PROVE  Lists(Alternating(s, t), S \cup T)
<1> DEFINE n == Len(s) + Len(t)
           a == [i \in 1..n |-> IF i <= Len(s) THEN <<s[i]>> ELSE <<>>]
           A == [i \in 1..n |-> IF i <= Len(s) THEN {s[i]} ELSE {}]
           b == [i \in 1..n |-> IF i <= Len(t) THEN <<t[i]>> ELSE <<>>]
           B == [i \in 1..n |-> IF i <= Len(t) THEN {t[i]} ELSE {}]
           both == [i \in 1..n |-> a[i] \o b[i]]
           sets == [i \in 1..n |-> A[i] \cup B[i]]
<1>1. Len(s) \in Nat /\ Len(t) \in Nat BY ListsDomain
<1>2. n \in Nat BY <1>1
<1>3. \A i \in 1..n : Lists(a[i], A[i]) /\ Lists(b[i], B[i]) BY ListsOne, ListsEmpty
<1>4. ASSUME NEW i \in 1..n PROVE Lists(both[i], sets[i])
  <2>1. both[i] = a[i] \o b[i] /\ sets[i] = A[i] \cup B[i] OBVIOUS
  <2>2. Lists(a[i], A[i]) /\ Lists(b[i], B[i]) BY <1>3
  <2> HIDE DEF n, a, b, A, B, both, sets
  <2>3. Lists(a[i] \o b[i], A[i] \cup B[i]) BY <2>2, ListsBoth
  <2> QED BY <2>1, <2>3
<1>5. both = [i \in 1..n |-> both[i]] OBVIOUS
<1>6. Lists(FlattenSeq(both), UNION {sets[i] : i \in 1..n})
  <2> HIDE DEF n, both, sets
  <2> QED BY <1>2, <1>4, <1>5, ListsFlat
<1>7. UNION {sets[i] : i \in 1..n} = S \cup T
  <2>1. \A i \in 1..Len(s) : s[i] \in S BY ListsDomain
  <2>2. \A x \in S : \E i \in 1..Len(s) : s[i] = x BY ListsDomain
  <2>3. \A i \in 1..Len(t) : t[i] \in T BY ListsDomain
  <2>4. \A x \in T : \E i \in 1..Len(t) : t[i] = x BY ListsDomain
  <2>5. ASSUME NEW i \in 1..n PROVE sets[i] \subseteq S \cup T
    <3>1. i <= Len(s) => s[i] \in S BY <1>1, <2>1
    <3>2. i <= Len(t) => t[i] \in T BY <1>1, <2>3
    <3> QED BY <3>1, <3>2
  <2>6. ASSUME NEW x \in S PROVE \E i \in 1..n : x \in sets[i]
    <3>1. PICK i \in 1..Len(s) : s[i] = x BY <2>2
    <3>2. i \in 1..n /\ i <= Len(s) BY <1>1
    <3>3. x \in sets[i] BY <3>1, <3>2
    <3> QED BY <3>2, <3>3
  <2>7. ASSUME NEW x \in T PROVE \E i \in 1..n : x \in sets[i]
    <3>1. PICK i \in 1..Len(t) : t[i] = x BY <2>4
    <3>2. i \in 1..n /\ i <= Len(t) BY <1>1
    <3>3. x \in sets[i] BY <3>1, <3>2
    <3> QED BY <3>2, <3>3
  <2> HIDE DEF sets, n
  <2> QED BY <2>5, <2>6, <2>7
<1>8. Alternating(s, t) = FlattenSeq(both) BY DEF Alternating
<1> HIDE DEF both, sets
<1> QED BY <1>6, <1>7, <1>8

(* What the overview goes through, and in which order. *)
LEMMA AnchorsListed ==
  ASSUME NEW g, Sound(g)
  PROVE  /\ Lists(WrongSeq(g), WrongShips(g)) /\ Lists(ClearSeq(g), ClearShips(g))
         /\ \E F : Lists(FlagSeq(g), F) /\ F \subseteq Ids(g) /\ \A id \in F : id[1] \in FlagKinds
         /\ WrongShips(g) \cap ClearShips(g) = {}
         /\ WrongShips(g) \cup ClearShips(g) \subseteq Ids(g)
         /\ \A id \in WrongShips(g) \cup ClearShips(g) : \E s \in Shipments : id = ShipmentId(s)
<1>1. Lists(g.nodes, ToSet(g.nodes)) /\ \A n \in ToSet(g.nodes) : NodeSound(n) BY DEF Sound
<1>2. \A n \in ToSet(g.nodes) : n.kind = "shipment" => n.state \in DOMAIN Rank BY <1>1 DEF NodeSound
<1>3. Lists(WrongSeq(g), WrongShips(g))
  <2>1. {x \in ToSet(g.nodes) : x.kind = "shipment" /\ x.state \in DOMAIN Rank \ {"match"}}
          = {x \in ToSet(g.nodes) : x.kind = "shipment" /\ x.state # "match"}
    BY <1>2
  <2> QED BY <1>1, <2>1, IdsOfListed DEF WrongSeq, WrongShips
<1>4. Lists(ClearSeq(g), ClearShips(g))
  <2>1. {x \in ToSet(g.nodes) : x.kind = "shipment" /\ x.state \in {"match"}}
          = {x \in ToSet(g.nodes) : x.kind = "shipment" /\ x.state = "match"}
    OBVIOUS
  <2> QED BY <1>1, <2>1, IdsOfListed DEF ClearSeq, ClearShips
<1>5. \E F : Lists(FlagSeq(g), F) /\ F \subseteq Ids(g) /\ \A id \in F : id[1] \in FlagKinds
  <2> DEFINE M(kind) == {n.id : n \in {x \in ToSet(g.nodes) : x.kind = kind /\ x.state \in DOMAIN Rank}}
  <2>1. /\ Lists(IdsOf(g, "mismatch", DOMAIN Rank), M("mismatch"))
        /\ Lists(IdsOf(g, "exception", DOMAIN Rank), M("exception"))
    BY <1>1, IdsOfListed
  <2>2. ASSUME NEW kind \in FlagKinds PROVE M(kind) \subseteq Ids(g) /\ \A id \in M(kind) : id[1] \in FlagKinds
    BY <1>1 DEF Ids, NodeSound
  <2>3. "mismatch" \in FlagKinds /\ "exception" \in FlagKinds BY DEF FlagKinds
  <2>4. /\ M("mismatch") \cup M("exception") \subseteq Ids(g)
        /\ \A id \in M("mismatch") \cup M("exception") : id[1] \in FlagKinds
    <3>1. M("mismatch") \subseteq Ids(g) /\ \A id \in M("mismatch") : id[1] \in FlagKinds BY <2>2, <2>3
    <3>2. M("exception") \subseteq Ids(g) /\ \A id \in M("exception") : id[1] \in FlagKinds BY <2>2, <2>3
    <3> HIDE DEF M
    <3> QED BY <3>1, <3>2
  <2> HIDE DEF M
  <2>5. Lists(FlagSeq(g), M("mismatch") \cup M("exception")) BY <2>1, AlternatingListed DEF FlagSeq
  <2> QED BY <2>4, <2>5
<1>6. WrongShips(g) \cap ClearShips(g) = {}
  <2> SUFFICES ASSUME NEW id \in WrongShips(g), id \in ClearShips(g) PROVE FALSE OBVIOUS
  <2>1. PICK m \in ToSet(g.nodes) : m.kind = "shipment" /\ m.state # "match" /\ m.id = id BY DEF WrongShips
  <2>2. PICK n \in ToSet(g.nodes) : n.kind = "shipment" /\ n.state = "match" /\ n.id = id BY DEF ClearShips
  <2> QED BY <2>1, <2>2 DEF Sound
<1>7. WrongShips(g) \cup ClearShips(g) \subseteq Ids(g) BY DEF WrongShips, ClearShips, Ids
<1>8. \A id \in WrongShips(g) \cup ClearShips(g) : \E s \in Shipments : id = ShipmentId(s)
  BY <1>1 DEF WrongShips, ClearShips, NodeSound
<1> QED BY <1>3, <1>4, <1>5, <1>6, <1>7, <1>8

(* The anchors of the overview, in order, and what one of them adds. *)
Order(g) == WrongSeq(g) \o FlagSeq(g) \o ClearSeq(g)

Step(g, selected, anchor, limit) == DrawnWith(g, selected, anchor, Contains(WrongSeq(g), anchor), limit)

DrawnUp(acc, g, limit) ==
  acc[0] = {} /\ \A i \in 1..Len(Order(g)) : acc[i] = Step(g, acc[i - 1], Order(g)[i], limit)

(* It adds nodes of the graph. *)
LEMMA StepWithin ==
  ASSUME NEW g, Sound(g), NEW selected \in SUBSET Ids(g), NEW anchor \in Ids(g), NEW limit
  PROVE  Step(g, selected, anchor, limit) \in SUBSET Ids(g)
<1>1. ToSet(Adjacent(g, anchor)) = Near(g, anchor) BY AdjacentIs DEF Sound, Lists
<1>2. Near(g, anchor) \subseteq Ids(g) BY NearWithin
<1> QED BY <1>1, <1>2 DEF Step, DrawnWith

(* The anchors are nodes of the graph. *)
LEMMA OrderListed ==
  ASSUME NEW g, Sound(g)
  PROVE  Order(g) \in Seq(Ids(g))
<1>1. PICK F : Lists(FlagSeq(g), F) /\ F \subseteq Ids(g) BY AnchorsListed
<1>2. Lists(WrongSeq(g), WrongShips(g)) /\ Lists(ClearSeq(g), ClearShips(g)) BY AnchorsListed
<1>3. Lists(WrongSeq(g) \o FlagSeq(g), WrongShips(g) \cup F) BY <1>1, <1>2, ListsBoth
<1>4. Lists(Order(g), WrongShips(g) \cup F \cup ClearShips(g)) BY <1>2, <1>3, ListsBoth DEF Order
<1>5. WrongShips(g) \cup F \cup ClearShips(g) \subseteq Ids(g) BY <1>1, AnchorsListed
<1> QED BY <1>4, <1>5 DEF Lists

(* What CorpusOverview shows is what the anchors add up to. *)
LEMMA DrawAll ==
  ASSUME NEW g, Sound(g), NEW limit
  PROVE  \E acc \in [0..Len(Order(g)) -> SUBSET Ids(g)] :
           DrawnUp(acc, g, limit) /\ CorpusOverview(g, limit) = Within(g, acc[Len(Order(g))])
<1> DEFINE order == Order(g)
           D == SUBSET Ids(g)
           n == Len(order)
           S == 1..n
           step == [p \in S \X D |-> Step(g, p[2], order[p[1]], limit)]
           top == [s \in SUBSET S |-> Max(s)]
           iter == CHOOSE h : h = [s \in SUBSET S |->
                     IF s = {} THEN {} ELSE Step(g, h[s \ {Max(s)}], order[Max(s)], limit)]
<1>1. n \in Nat /\ DOMAIN order = 1..n /\ \A i \in 1..n : order[i] \in Ids(g)
  BY OrderListed, LenProperties, ElementOfSeq
<1>2. \A s \in D, x \in Ids(g) : Step(g, s, x, limit) \in D BY StepWithin
<1>0. {} \in D OBVIOUS
<1> HIDE DEF D
<1>3. step \in [S \X D -> D] BY <1>1, <1>2
<1>4. PICK f \in [SUBSET S -> D] : TakenApart(f, S, {}, step, top)
  <2> HIDE DEF n, step
  <2> QED BY <1>0, <1>1, <1>3, Recursion
<1>5. PICK acc \in [0..n -> D] : Carried(acc, n, {}, step)
  <2> HIDE DEF n, step
  <2> QED BY <1>0, <1>1, <1>3, Along
<1>6. \A i \in S, s \in D : step[<<i, s>>] = Step(g, s, order[i], limit)
  <2> HIDE DEF S
  <2> QED OBVIOUS
<1> HIDE DEF step
<1>7. f = [s \in SUBSET S |-> IF s = {} THEN {} ELSE Step(g, f[s \ {Max(s)}], order[Max(s)], limit)]
  <2>1. f[{}] = {} BY <1>4 DEF TakenApart
  <2>2. ASSUME NEW s \in SUBSET S, s # {} PROVE f[s] = Step(g, f[s \ {Max(s)}], order[Max(s)], limit)
    <3>1. Max(s) \in S BY <1>1, <2>2, MaxIn
    <3>2. f[s \ {Max(s)}] \in D OBVIOUS
    <3>3. f[s] = step[<<Max(s), f[s \ {Max(s)}]>>]
      <4>1. top[s] = Max(s) OBVIOUS
      <4> HIDE DEF top
      <4> QED BY <1>4, <2>2, <4>1 DEF TakenApart
    <3> HIDE DEF S
    <3> QED BY <1>6, <3>1, <3>2, <3>3
  <2> HIDE DEF S
  <2> QED BY <2>1, <2>2
<1>8. iter = [s \in SUBSET S |-> IF s = {} THEN {} ELSE Step(g, iter[s \ {Max(s)}], order[Max(s)], limit)]
  <2> HIDE DEF S
  <2> QED BY <1>7
<1>9. CorpusOverview(g, limit) = Within(g, iter[S])
  BY <1>1 DEF CorpusOverview, FoldLeft, MapThenFoldSet, Step, Order, WrongSeq, FlagSeq, ClearSeq
<1> HIDE DEF iter, order
<1>10. DrawnUp(acc, g, limit)
  <2>1. acc[0] = {} BY <1>5 DEF Carried
  <2>2. ASSUME NEW i \in 1..n PROVE acc[i] = Step(g, acc[i - 1], order[i], limit)
    <3>1. i - 1 \in 0..n BY <1>1
    <3>2. acc[i - 1] \in D BY <3>1
    <3>3. acc[i] = step[<<i, acc[i - 1]>>] BY <1>5 DEF Carried
    <3> QED BY <1>6, <3>2, <3>3
  <2> QED BY <2>1, <2>2 DEF DrawnUp, order
<1>11. iter[{}] = {} BY <1>8
<1>12. \A s \in SUBSET S : s # {} /\ iter[s \ {Max(s)}] \in D => iter[s] = step[<<Max(s), iter[s \ {Max(s)}]>>]
  <2>1. SUFFICES ASSUME NEW s \in SUBSET S, s # {}, iter[s \ {Max(s)}] \in D
                 PROVE  iter[s] = step[<<Max(s), iter[s \ {Max(s)}]>>]
    OBVIOUS
  <2>2. Max(s) \in S BY <1>1, <2>1, MaxIn
  <2> HIDE DEF S
  <2>3. iter[s] = Step(g, iter[s \ {Max(s)}], order[Max(s)], limit) BY <1>8, <2>1
  <2> QED BY <1>6, <2>1, <2>2, <2>3
<1>13. iter[S] = acc[n]
  <2>1. acc \in [0..n -> D] /\ Carried(acc, n, {}, step) BY <1>5
  <2>2. n \in Nat BY <1>1
  <2>3. FoldedUp(iter, n, D, {}, step) BY <1>11, <1>12 DEF FoldedUp
  <2> HIDE DEF n
  <2> QED BY ONLY <2>1, <2>2, <2>3, Unfolded
<1> QED BY <1>9, <1>10, <1>13 DEF order, D

(* What a step of the overview does to what is drawn so far. *)
LEMMA StepDraws ==
  ASSUME NEW g, Sound(g), NEW selected \in SUBSET Ids(g), NEW anchor \in Ids(g), NEW limit \in Nat,
         Cardinality(selected) <= limit
  PROVE  LET new == Step(g, selected, anchor, limit)
         IN  /\ new \in SUBSET Ids(g) /\ Cardinality(new) <= limit
             /\ selected \subseteq new /\ new \subseteq selected \cup {anchor} \cup Near(g, anchor)
             /\ Cardinality(selected) = limit => new = selected
             /\ Cardinality(selected) # limit /\ Contains(WrongSeq(g), anchor) => anchor \in new
             /\ \/ new = selected \/ {anchor} \cup Near(g, anchor) \subseteq new
                \/ Contains(WrongSeq(g), anchor) /\ new = selected \cup {anchor}
<1> DEFINE region == selected \cup {anchor} \cup Near(g, anchor)
           alone == Contains(WrongSeq(g), anchor)
           new == Step(g, selected, anchor, limit)
<1>1. ToSet(Adjacent(g, anchor)) = Near(g, anchor) BY AdjacentIs DEF Sound, Lists
<1>2. new = IF Cardinality(region) <= limit THEN region
            ELSE IF alone /\ Cardinality(selected) < limit THEN selected \cup {anchor} ELSE selected
  BY <1>1 DEF Step, DrawnWith
<1>3. region \in SUBSET Ids(g)
  <2>1. Near(g, anchor) \subseteq Ids(g) BY NearWithin
  <2> QED BY <2>1
<1>4. IsFiniteSet(Ids(g)) BY IdsFinite
<1> DEFINE more == selected \cup {anchor}
<1>5. /\ IsFiniteSet(selected) /\ Cardinality(selected) \in Nat
      /\ IsFiniteSet(region) /\ Cardinality(region) \in Nat
      /\ IsFiniteSet(more) /\ Cardinality(more) \in Nat /\ Cardinality(more) <= Cardinality(selected) + 1
  <2>1. IsFiniteSet(selected) /\ Cardinality(selected) \in Nat BY <1>4, FS_Subset, FS_CardinalityType
  <2>2. IsFiniteSet(region) /\ Cardinality(region) \in Nat
    <3> HIDE DEF region
    <3> QED BY <1>3, <1>4, FS_Subset, FS_CardinalityType
  <2>3. /\ IsFiniteSet(more)
        /\ Cardinality(more) = Cardinality(selected) \/ Cardinality(more) = Cardinality(selected) + 1
    BY <2>1, FS_AddElement
  <2> HIDE DEF region, more
  <2> QED BY <2>1, <2>2, <2>3
<1>6. more \in SUBSET Ids(g) /\ selected \in SUBSET region OBVIOUS
<1>7. ASSUME Cardinality(selected) = limit, Cardinality(region) <= limit PROVE region = selected
  <2>1. /\ Cardinality(selected) <= Cardinality(region)
        /\ Cardinality(region) = Cardinality(selected) => region = selected
    <3> HIDE DEF region
    <3> QED BY <1>5, <1>6, FS_Subset
  <2> QED BY <1>5, <1>7, <2>1
<1>8. new = region \/ new = more \/ new = selected BY <1>2
<1>9. new \in SUBSET Ids(g) /\ selected \subseteq new /\ new \subseteq region BY <1>3, <1>6, <1>8
<1> HIDE DEF new, region, more, alone
<1>10. Cardinality(new) <= limit BY <1>2, <1>5 DEF more
<1>11. Cardinality(selected) = limit => new = selected BY <1>2, <1>5, <1>7
<1>12. Cardinality(selected) # limit /\ alone => anchor \in new
  <2> SUFFICES ASSUME Cardinality(selected) # limit, alone PROVE anchor \in new OBVIOUS
  <2>1. Cardinality(selected) < limit BY <1>5
  <2> QED BY <1>2, <2>1 DEF region
<1>13. new = selected \/ {anchor} \cup Near(g, anchor) \subseteq new \/ (alone /\ new = selected \cup {anchor})
  BY <1>2 DEF region
<1> QED BY <1>9, <1>10, <1>11, <1>12, <1>13 DEF new, region, alone

(* What a flag is about. *)
Marks(g, id) == {e.target : e \in {x \in ToSet(g.edges) : x.source = id}}

(* A flag is drawn with all it marks, or beside a drawn shipment it marks. *)
FlagsDrawn(g, selected) ==
  \A id \in selected : id[1] \in FlagKinds =>
    Marks(g, id) \subseteq selected \/ \E s \in Shipments : ShipmentId(s) \in Marks(g, id) \cap selected

(* An anchor leaves it so. *)
LEMMA FlagsStayDrawn ==
  ASSUME NEW g, Sound(g), NEW selected \in SUBSET Ids(g), NEW anchor \in Ids(g), NEW limit \in Nat,
         Cardinality(selected) <= limit, FlagsDrawn(g, selected),
         \/ anchor[1] \in FlagKinds /\ ~Contains(WrongSeq(g), anchor)
         \/ \E s \in Shipments : anchor = ShipmentId(s)
  PROVE  FlagsDrawn(g, Step(g, selected, anchor, limit))
<1> DEFINE new == Step(g, selected, anchor, limit)
<1>1. /\ selected \subseteq new /\ new \subseteq selected \cup {anchor} \cup Near(g, anchor)
      /\ \/ new = selected \/ {anchor} \cup Near(g, anchor) \subseteq new
         \/ Contains(WrongSeq(g), anchor) /\ new = selected \cup {anchor}
  BY StepDraws
<1> HIDE DEF new
<1>2. SUFFICES ASSUME NEW id \in new, id[1] \in FlagKinds
               PROVE  \/ Marks(g, id) \subseteq new
                      \/ \E s \in Shipments : ShipmentId(s) \in Marks(g, id) \cap new
  BY DEF FlagsDrawn, new
<1>3. CASE id \in selected BY <1>1, <1>2, <1>3 DEF FlagsDrawn
<1>4. \A e \in ToSet(g.edges) : e.target[1] \notin FlagKinds /\ e.source[1] # "shipment" BY DEF Sound, EdgeSound
<1>5. Marks(g, id) \subseteq Near(g, id) BY DEF Marks, Near
<1>6. CASE id \notin selected /\ anchor[1] \in FlagKinds /\ ~Contains(WrongSeq(g), anchor)
  <2>1. id = anchor
    <3>1. id \notin Near(g, anchor) BY <1>2, <1>4, <1>6 DEF Near
    <3> QED BY <1>1, <1>6, <3>1
  <2> QED BY <1>1, <1>2, <1>5, <1>6, <2>1
<1>7. CASE id \notin selected /\ \E s \in Shipments : anchor = ShipmentId(s)
  <2>1. PICK s \in Shipments : anchor = ShipmentId(s) BY <1>7
  <2>2. anchor[1] = "shipment" BY <2>1, NamesTell
  <2>3. id # anchor BY <1>2, <2>2 DEF FlagKinds
  <2>4. id \in Near(g, anchor) BY <1>1, <1>7, <2>3
  <2>5. PICK e \in ToSet(g.edges) : (e.source = anchor /\ id = e.target) \/ (e.target = anchor /\ id = e.source)
    BY <2>4 DEF Near
  <2>6. e.target = anchor /\ id = e.source BY <1>4, <2>2, <2>5
  <2>7. anchor \in new BY <1>1, <1>7
  <2>8. ShipmentId(s) \in Marks(g, id) \cap new BY <2>1, <2>6, <2>7 DEF Marks
  <2> QED BY <2>8
<1> QED BY <1>3, <1>6, <1>7

(* The invariant of the overview, k anchors into its order: while the      *)
(* wrong shipments come, those behind it are drawn or there is no room,    *)
(* and no clear one is drawn; from then on this stays so.                  *)
Overview(g, k, selected, limit) ==
  /\ selected \in SUBSET Ids(g) /\ Cardinality(selected) <= limit
  /\ FlagsDrawn(g, selected)
  /\ k <= Len(WrongSeq(g)) => ClearShips(g) \cap selected = {}
  /\ \/ \A i \in 1..Len(WrongSeq(g)) : i <= k => WrongSeq(g)[i] \in selected
     \/ Cardinality(selected) = limit /\ ClearShips(g) \cap selected = {}

(* Which anchor comes at which place. *)
LEMMA OrderPlaces ==
  ASSUME NEW g, Sound(g), NEW i \in 1..Len(Order(g))
  PROVE  /\ Len(WrongSeq(g)) \in Nat /\ Order(g)[i] \in Ids(g)
         /\ i <= Len(WrongSeq(g)) => Order(g)[i] = WrongSeq(g)[i] /\ Order(g)[i] \in WrongShips(g)
         /\ Contains(WrongSeq(g), Order(g)[i]) <=> Order(g)[i] \in WrongShips(g)
         /\ \/ Order(g)[i][1] \in FlagKinds /\ ~Contains(WrongSeq(g), Order(g)[i])
            \/ \E s \in Shipments : Order(g)[i] = ShipmentId(s)
<1>1. PICK F : Lists(FlagSeq(g), F) /\ F \subseteq Ids(g) /\ \A id \in F : id[1] \in FlagKinds BY AnchorsListed
<1>2. /\ Lists(WrongSeq(g), WrongShips(g)) /\ Lists(ClearSeq(g), ClearShips(g))
      /\ WrongShips(g) \cup ClearShips(g) \subseteq Ids(g)
      /\ \A id \in WrongShips(g) \cup ClearShips(g) : \E s \in Shipments : id = ShipmentId(s)
  BY AnchorsListed
<1> DEFINE w == WrongSeq(g)
           W == WrongShips(g)
           t == FlagSeq(g)
           c == ClearSeq(g)
           C == ClearShips(g)
           x == Order(g)[i]
<1>3. Lists(w, W) /\ Lists(t, F) /\ Lists(c, C) BY <1>1, <1>2
<1>4. Order(g) = w \o t \o c BY DEF Order
<1> HIDE DEF w, W, t, c, C
<1>5. Lists(w \o t, W \cup F) BY <1>3, ListsBoth
<1>6. Lists(Order(g), W \cup F \cup C) BY <1>3, <1>4, <1>5, ListsBoth
<1>7. x \in W \cup F \cup C BY <1>6, ListsDomain
<1>8. /\ Len(w) \in Nat /\ Len(t) \in Nat /\ Len(c) \in Nat /\ \A j \in 1..Len(w) : w[j] \in W
      /\ \A y \in W : \E j \in 1..Len(w) : w[j] = y
  BY <1>3, ListsDomain
<1>9. i <= Len(w) => x = w[i] /\ x \in W
  <2> SUFFICES ASSUME i <= Len(w) PROVE x = w[i] /\ x \in W OBVIOUS
  <2>1. i \in 1..Len(w)
    <3>1. Len(Order(g)) \in Nat BY <1>6, ListsDomain
    <3> QED BY <1>8, <3>1
  <2> DEFINE U == W \cup F \cup C
  <2>2. w \in Seq(U) /\ t \in Seq(U) /\ c \in Seq(U)
    <3>1. w \in Seq(W) /\ t \in Seq(F) /\ c \in Seq(C) BY <1>3 DEF Lists
    <3>2. W \subseteq U /\ F \subseteq U /\ C \subseteq U OBVIOUS
    <3> HIDE DEF U
    <3> QED BY <3>1, <3>2
  <2> HIDE DEF U
  <2>3. w \o t \in Seq(U) /\ Len(w \o t) = Len(w) + Len(t) /\ (w \o t)[i] = w[i]
    BY <1>8, <2>1, <2>2, ConcatProperties
  <2>4. i \in 1..Len(w \o t) BY <1>8, <2>1, <2>3
  <2> DEFINE wt == w \o t
  <2>5. wt \in Seq(U) /\ i \in 1..Len(wt) BY <2>3, <2>4
  <2> HIDE DEF wt
  <2>6. (wt \o c)[i] = wt[i] BY <2>2, <2>5, ConcatProperties
  <2>7. x = w[i] BY <1>4, <2>3, <2>6 DEF wt
  <2> QED BY <1>8, <2>1, <2>7
<1>10. \A y : Contains(w, y) <=> y \in W BY <1>8 DEF Contains
<1>11. \A s : ShipmentId(s)[1] = "shipment" BY NamesTell
<1>12. CASE x \in F
  <2>1. x[1] \in FlagKinds BY <1>1, <1>12
  <2>2. x \notin W BY <1>2, <1>11, <2>1 DEF W, FlagKinds
  <2> QED BY <1>1, <1>8, <1>9, <1>10, <1>12, <2>1, <2>2 DEF w, W
<1>13. CASE x \in W \cup C BY <1>2, <1>8, <1>9, <1>10, <1>13 DEF w, W, C
<1> QED BY <1>7, <1>12, <1>13

(* Each anchor keeps the invariant. *)
LEMMA OverviewStep ==
  ASSUME NEW g, Sound(g), NEW limit \in Nat, NEW k \in Nat, NEW selected, Overview(g, k, selected, limit),
         k + 1 \in 1..Len(Order(g))
  PROVE  Overview(g, k + 1, Step(g, selected, Order(g)[k + 1], limit), limit)
<1> DEFINE j == k + 1
           anchor == Order(g)[j]
           new == Step(g, selected, anchor, limit)
           w == WrongSeq(g)
<1>1. /\ Len(w) \in Nat /\ anchor \in Ids(g)
      /\ j <= Len(w) => anchor = w[j] /\ anchor \in WrongShips(g)
      /\ Contains(w, anchor) <=> anchor \in WrongShips(g)
      /\ \/ anchor[1] \in FlagKinds /\ ~Contains(w, anchor)
         \/ \E s \in Shipments : anchor = ShipmentId(s)
  BY OrderPlaces
<1>2. selected \in SUBSET Ids(g) /\ Cardinality(selected) <= limit /\ FlagsDrawn(g, selected) BY DEF Overview
<1> HIDE DEF j, anchor
<1>3. /\ new \in SUBSET Ids(g) /\ Cardinality(new) <= limit
      /\ selected \subseteq new /\ new \subseteq selected \cup {anchor} \cup Near(g, anchor)
      /\ Cardinality(selected) = limit => new = selected
      /\ Cardinality(selected) # limit /\ Contains(w, anchor) => anchor \in new
  BY <1>1, <1>2, StepDraws
<1>4. FlagsDrawn(g, new) BY <1>1, <1>2, FlagsStayDrawn
<1> HIDE DEF new, w
<1>5. ASSUME j <= Len(w) PROVE ClearShips(g) \cap new = {}
  <2>1. k <= Len(w) BY <1>1, <1>5 DEF j
  <2>2. ClearShips(g) \cap selected = {} BY <2>1 DEF Overview, w
  <2>3. anchor \in WrongShips(g) /\ WrongShips(g) \cap ClearShips(g) = {} BY <1>1, <1>5, AnchorsListed
  <2>4. PICK s \in Shipments : anchor = ShipmentId(s) BY <2>3, AnchorsListed
  <2>5. anchor[1] = "shipment" BY <2>4, NamesTell
  <2>6. \A id \in ClearShips(g) : id[1] = "shipment" BY AnchorsListed, NamesTell
  <2>7. \A e \in ToSet(g.edges) : e.source[1] # "shipment" BY DEF Sound, EdgeSound
  <2>8. Near(g, anchor) \cap ClearShips(g) = {} BY <2>5, <2>6, <2>7 DEF Near
  <2> QED BY <1>3, <2>2, <2>3, <2>8
<1>6. \/ \A i \in 1..Len(w) : i <= j => w[i] \in new
      \/ Cardinality(new) = limit /\ ClearShips(g) \cap new = {}
  <2>1. CASE Cardinality(selected) = limit /\ ClearShips(g) \cap selected = {} BY <1>3, <2>1
  <2>2. CASE \A i \in 1..Len(w) : i <= k => w[i] \in selected
    <3>1. CASE ~(j <= Len(w))
      <4>1. \A i \in 1..Len(w) : i <= k BY <1>1, <3>1 DEF j
      <4> QED BY <1>3, <2>2, <4>1
    <3>2. CASE j <= Len(w) /\ Cardinality(selected) = limit
      <4>1. k <= Len(w) BY <1>1, <3>2 DEF j
      <4>2. ClearShips(g) \cap selected = {} BY <4>1 DEF Overview, w
      <4> QED BY <1>3, <3>2, <4>2
    <3>3. CASE j <= Len(w) /\ Cardinality(selected) # limit
      <4>1. anchor = w[j] /\ anchor \in new BY <1>1, <1>3, <3>3
      <4>2. \A i \in 1..Len(w) : i <= j => i <= k \/ i = j BY <1>1 DEF j
      <4> QED BY <1>3, <2>2, <4>1, <4>2
    <3> QED BY <3>1, <3>2, <3>3
  <2> QED BY <2>1, <2>2 DEF Overview, w
<1>7. Overview(g, j, new, limit) BY <1>3, <1>4, <1>5, <1>6 DEF Overview, w
<1> QED BY <1>7 DEF j, anchor, new

(* The wrong shipments are among the anchors. *)
LEMMA OrderLonger ==
  ASSUME NEW g, Sound(g)
  PROVE  Len(WrongSeq(g)) <= Len(Order(g))
<1>1. PICK F : Lists(FlagSeq(g), F) BY AnchorsListed
<1> DEFINE w == WrongSeq(g)
           t == FlagSeq(g)
           c == ClearSeq(g)
           W == WrongShips(g)
           C == ClearShips(g)
           T == W \cup F \cup C
<1>2. Lists(w, W) /\ Lists(c, C) BY AnchorsListed
<1>3. Order(g) = (w \o t) \o c BY DEF Order
<1> HIDE DEF w, t, c, W, C
<1>4. w \in Seq(T) /\ t \in Seq(T) /\ c \in Seq(T)
  <2>1. w \in Seq(W) /\ t \in Seq(F) /\ c \in Seq(C) BY <1>1, <1>2 DEF Lists, t
  <2>2. W \subseteq T /\ F \subseteq T /\ C \subseteq T OBVIOUS
  <2> HIDE DEF T
  <2> QED BY <2>1, <2>2
<1> HIDE DEF T
<1>5. w \o t \in Seq(T) /\ Len(w \o t) = Len(w) + Len(t) BY <1>4, ConcatProperties
<1>6. Len((w \o t) \o c) = Len(w \o t) + Len(c) BY <1>4, <1>5, ConcatProperties
<1>7. Len(w) \in Nat /\ Len(t) \in Nat /\ Len(c) \in Nat BY <1>4, LenProperties
<1> QED BY <1>3, <1>5, <1>6, <1>7 DEF w

(* What the overview of a sound graph shows. *)
LEMMA OverviewShows ==
  ASSUME NEW g, Sound(g), NEW limit \in Nat
  PROVE  LET drawn == Ids(CorpusOverview(g, limit))
         IN  /\ Cardinality(drawn) <= limit /\ FlagsDrawn(g, drawn)
             /\ WrongShips(g) \subseteq drawn \/ (Cardinality(drawn) = limit /\ ClearShips(g) \cap drawn = {})
<1> DEFINE n == Len(Order(g))
<1>1. PICK acc \in [0..n -> SUBSET Ids(g)] : DrawnUp(acc, g, limit) /\ CorpusOverview(g, limit) = Within(g, acc[n])
  BY DrawAll
<1>2. n \in Nat BY OrderListed, LenProperties
<1> HIDE DEF n
<1> DEFINE good == {k \in Nat : k \in 0..n => Overview(g, k, acc[k], limit)}
<1>3. Lists(WrongSeq(g), WrongShips(g)) BY AnchorsListed
<1>4. 0 \in good
  <2>1. acc[0] = {} BY <1>1 DEF DrawnUp
  <2>2. Cardinality({}) = 0 BY FS_EmptySet
  <2>3. Overview(g, 0, {}, limit) BY <2>2 DEF Overview, FlagsDrawn
  <2> QED BY <2>1, <2>3
<1>5. ASSUME NEW k \in good PROVE k + 1 \in good
  <2>0. k \in Nat /\ (k \in 0..n => Overview(g, k, acc[k], limit)) OBVIOUS
  <2> HIDE DEF good
  <2> SUFFICES ASSUME k + 1 \in 0..n PROVE Overview(g, k + 1, acc[k + 1], limit) BY <2>0 DEF good
  <2>1. k \in 0..n /\ k + 1 \in 1..n /\ (k + 1) - 1 = k
    <3>1. k \in Nat BY <2>0
    <3> QED BY ONLY <1>2, <3>1, k + 1 \in 0..n
  <2> DEFINE j == k + 1
  <2>2. acc[j] = Step(g, acc[j - 1], Order(g)[j], limit) BY <1>1, <2>1 DEF DrawnUp, n
  <2>3. acc[j] = Step(g, acc[k], Order(g)[j], limit) BY <2>1, <2>2
  <2>4. Overview(g, k, acc[k], limit) BY <2>0, <2>1
  <2>5. Overview(g, j, Step(g, acc[k], Order(g)[j], limit), limit) BY <2>0, <2>1, <2>4, OverviewStep DEF n
  <2> QED BY <2>3, <2>5
<1>6. good = Nat
  <2>1. good \in SUBSET Nat OBVIOUS
  <2> HIDE DEF good
  <2> QED BY ONLY <1>4, <1>5, <2>1, Induction
<1>7. Overview(g, n, acc[n], limit)
  <2>1. n \in good /\ n \in 0..n BY <1>2, <1>6
  <2> QED BY <2>1
<1> DEFINE sel == acc[n]
<1>8. Ids(CorpusOverview(g, limit)) = sel
  <2>1. Ids(Within(g, sel)) = Ids(g) \cap sel BY WithinIs DEF Sound
  <2> QED BY <1>1, <1>7, <2>1 DEF Overview
<1>9. WrongShips(g) \subseteq sel \/ (Cardinality(sel) = limit /\ ClearShips(g) \cap sel = {})
  <2>1. CASE Cardinality(sel) = limit /\ ClearShips(g) \cap sel = {} BY <2>1
  <2>2. CASE \A i \in 1..Len(WrongSeq(g)) : i <= n => WrongSeq(g)[i] \in sel
    <3>1. Len(WrongSeq(g)) \in Nat /\ \A x \in WrongShips(g) : \E i \in 1..Len(WrongSeq(g)) : WrongSeq(g)[i] = x
      BY <1>3, ListsDomain
    <3>2. Len(WrongSeq(g)) <= n BY OrderLonger DEF n
    <3>3. \A i \in 1..Len(WrongSeq(g)) : i <= n BY <1>2, <3>1, <3>2
    <3> QED BY <2>2, <3>1, <3>3
  <2> QED BY <1>7, <2>1, <2>2 DEF Overview
<1> HIDE DEF sel
<1>10. Cardinality(sel) <= limit /\ FlagsDrawn(g, sel) BY <1>7 DEF Overview, sel
<1> QED BY <1>8, <1>9, <1>10

(* Whatever was received and however the ledger was reconciled, the        *)
(* overview is fair.                                                       *)
THEOREM OverviewAlwaysFair == Spec => []OverviewFair
<1>1. AnswerInv => OverviewFair
  <2> SUFFICES ASSUME AnswerInv, Built PROVE OverviewFair BY DEF OverviewFair
  <2>1. Sound(graph) BY DEF AnswerInv
  <2>2. OverviewLimit \in Nat BY ChatAssumption
  <2> DEFINE drawn == Ids(CorpusOverview(graph, OverviewLimit))
             Ships(right) == {n.id : n \in {x \in Kinds({"shipment"}) : (x.state = "match") = right}}
  <2>3. /\ Cardinality(drawn) <= OverviewLimit /\ FlagsDrawn(graph, drawn)
        /\ \/ WrongShips(graph) \subseteq drawn
           \/ (Cardinality(drawn) = OverviewLimit /\ ClearShips(graph) \cap drawn = {})
    BY <2>1, <2>2, OverviewShows
  <2>4. Ships(FALSE) = WrongShips(graph) /\ Ships(TRUE) = ClearShips(graph) BY DEF Kinds, WrongShips, ClearShips
  <2>5. ASSUME NEW flag \in Flags, flag.id \in drawn
        PROVE  \/ FlaggedBy(flag) \subseteq drawn
               \/ \E s \in Shipments : <<"shipment", s>> \in FlaggedBy(flag) \cap drawn
    <3>1. flag.id[1] \in FlagKinds BY <2>1, <2>5 DEF Flags, Kinds, FlagKinds, Sound, NodeSound
    <3>2. FlaggedBy(flag) = Marks(graph, flag.id)
      BY DEF FlaggedBy, Ends, Marks, ToSet
    <3>3. \/ Marks(graph, flag.id) \subseteq drawn
          \/ \E s \in Shipments : ShipmentId(s) \in Marks(graph, flag.id) \cap drawn
      BY <2>3, <2>5, <3>1 DEF FlagsDrawn
    <3> QED BY <3>2, <3>3 DEF ShipmentId
  <2> HIDE DEF drawn, Ships
  <2>6. ~(Ships(FALSE) \subseteq drawn) => Cardinality(drawn) = OverviewLimit /\ Ships(TRUE) \cap drawn = {}
    BY <2>3, <2>4
  <2> QED BY <2>3, <2>5, <2>6 DEF OverviewFair, drawn, Ships
<1> QED BY <1>1, AnswerInvAlways, PTL

-----------------------------------------------------------------------------
(* The catalog is whole. *)

(* A catalog that is there is what Gate 2 left to build. *)
BuiltWell == graph = BuildCorpus /\ stage = "done" /\ Reconciled /\ GateTypeOK /\ OneResultEach

(* The graph that is there holds these nodes and edges, once each, by names that tell. *)
LEMMA GraphRead ==
  ASSUME BuiltWell
  PROVE  /\ ToSet(graph.nodes) = AllNodes /\ ToSet(graph.edges) = AllEdges
         /\ Cardinality(Ids(graph)) = Len(graph.nodes)
         /\ Cardinality({graph.edges[i].id : i \in DOMAIN graph.edges}) = Len(graph.edges)
         /\ {graph.edges[i].source : i \in DOMAIN graph.edges} \subseteq Ids(graph)
         /\ {graph.edges[i].target : i \in DOMAIN graph.edges} \subseteq Ids(graph)
<1>1. /\ stage = "done" /\ Reconciled /\ GateTypeOK /\ OneResultEach
      /\ BuildCorpus.nodes = graph.nodes /\ BuildCorpus.edges = graph.edges
  BY DEF BuiltWell
<1>2. Told(graph.nodes, AllNodes) /\ Told(graph.edges, AllEdges) BY <1>1, CorpusTold
<1>3. ToSet(graph.nodes) = AllNodes /\ ToSet(graph.edges) = AllEdges BY <1>2 DEF Told, Counts, Lists
<1>4. Cardinality(Ids(graph)) = Len(graph.nodes) BY <1>2, <1>3, NamesToldCounted DEF Ids
<1>5. {graph.edges[i].id : i \in DOMAIN graph.edges} = {x.id : x \in AllEdges} BY <1>3 DEF ToSet
<1>6. Cardinality({graph.edges[i].id : i \in DOMAIN graph.edges}) = Len(graph.edges)
  BY <1>2, <1>5, NamesToldCounted
<1>7. Sound(graph) BY <1>1, CorpusSound DEF BuiltWell
<1>8. \A i \in DOMAIN graph.edges : graph.edges[i] \in ToSet(graph.edges) BY DEF ToSet
<1>9. \A i \in DOMAIN graph.edges : {graph.edges[i].source, graph.edges[i].target} \subseteq Ids(graph)
  BY <1>7, <1>8 DEF Sound, EdgeSound
<1> QED BY <1>3, <1>4, <1>6, <1>9

(* The flags, and what they are about. *)
LEMMA FlagsRead ==
  ASSUME BuiltWell
  PROVE  /\ \A n : n \in Flags <=> IsFlag(n)
         /\ \A flag, t : t \in FlaggedBy(flag) <=> Linked(flag.id, t)
         /\ \A flag, id : flag \in FlagsOf(id) <=> IsFlag(flag) /\ Linked(flag.id, id)
<1>1. ToSet(graph.nodes) = AllNodes /\ ToSet(graph.edges) = AllEdges BY GraphRead
<1>2. ASSUME NEW n PROVE n \in Flags <=> IsFlag(n)
  BY <1>1, NodesAre, KindsTell DEF Flags, Kinds, FlagKinds
<1>3. ASSUME NEW flag, NEW t PROVE t \in FlaggedBy(flag) <=> Linked(flag.id, t)
  <2>1. FlaggedBy(flag) = {graph.edges[i].target : i \in {j \in DOMAIN graph.edges : graph.edges[j].source = flag.id}}
    BY DEF FlaggedBy, Ends
  <2> QED BY <1>1, <2>1 DEF Linked, ToSet
<1>4. ASSUME NEW flag, NEW id PROVE flag \in FlagsOf(id) <=> IsFlag(flag) /\ Linked(flag.id, id)
  <2>1. FlagsOf(id) = {x \in Flags : x.id \in
           {graph.edges[i].source : i \in {j \in DOMAIN graph.edges : graph.edges[j].target = id}}}
    BY DEF FlagsOf, Ends
  <2>2. flag.id \in {graph.edges[i].source : i \in {j \in DOMAIN graph.edges : graph.edges[j].target = id}}
          <=> Linked(flag.id, id)
    BY <1>1 DEF Linked, ToSet
  <2> QED BY <1>2, <2>1, <2>2
<1> QED BY <1>2, <1>3, <1>4

(* A result that is not a cleared shipment has a flag about all it names.  *)
LEMMA ResultFlagged ==
  ASSUME BuiltWell, NEW r \in WrongResults
  PROVE  /\ ResultNode(r) \in Flags
         /\ FlaggedBy(ResultNode(r)) = {<<"shipment", s>> : s \in r.shipments} \cup {<<"email", c>> : c \in r.cases}
<1>1. stage = "done" /\ Reconciled /\ OneResultEach BY DEF BuiltWell
<1>2. ResultNode(r) \in Flags BY FlagsRead DEF IsFlag, IsResult
<1>3. FlaggedBy(ResultNode(r)) = ResultTargets(r) BY <1>1, FlagsRead, FlagNodesAre, ResultAbout
<1> QED BY <1>2, <1>3 DEF ResultTargets, ShipmentId, EmailId

(* those of its diagnostics and of its results. *)
LEMMA EmailFlagged ==
  ASSUME BuiltWell, NEW e \in Emails
  PROVE  FlagsOf(EmailId(e)) = FaultNodes(e) \cup ResultNodes(e)
<1>1. stage = "done" /\ Reconciled /\ OneResultEach BY DEF BuiltWell
<1>2. ASSUME NEW flag, IsVerdict(flag) PROVE ~Linked(flag.id, EmailId(e))
  <2>1. PICK g \in Emails : \E f \in DOMAIN SeedCase[g].verdicts : Flagged(g, f) /\ flag = FlagNode(g, f)
    BY <1>2 DEF IsVerdict
  <2>2. PICK f \in DOMAIN SeedCase[g].verdicts : Flagged(g, f) /\ flag = FlagNode(g, f) BY <2>1
  <2> QED BY <1>1, <2>2, FlagNodesAre, VerdictAbout, EmailAbout
<1>3. ASSUME NEW g \in Emails, NEW n \in DOMAIN Diagnostics(g)
      PROVE  Linked(FaultNode(g, n).id, EmailId(e)) <=> g = e
  BY <1>1, FlagNodesAre, FaultAbout, EmailAbout
<1>4. ASSUME NEW r \in WrongResults PROVE Linked(ResultNode(r).id, EmailId(e)) <=> e \in r.cases
  BY <1>1, FlagNodesAre, ResultAbout, EmailAbout
<1>5. ASSUME NEW flag PROVE flag \in FlagsOf(EmailId(e)) <=> flag \in FaultNodes(e) \cup ResultNodes(e)
  <2>1. flag \in FlagsOf(EmailId(e)) <=> (IsFault(flag) \/ IsResult(flag)) /\ Linked(flag.id, EmailId(e))
    BY <1>2, FlagsRead DEF IsFlag
  <2>2. IsFault(flag) /\ Linked(flag.id, EmailId(e)) <=> flag \in FaultNodes(e)
    BY <1>3 DEF IsFault, FaultNodes
  <2>3. IsResult(flag) /\ Linked(flag.id, EmailId(e)) <=> flag \in ResultNodes(e)
    BY <1>4 DEF IsResult, ResultNodes, WrongOf, WrongResults
  <2> QED BY <2>1, <2>2, <2>3
<1> QED BY <1>5

(* And so many they are. *)
LEMMA EmailCounted ==
  ASSUME BuiltWell, NEW e \in Emails
  PROVE  Cardinality(FlagsOf(EmailId(e))) = Cardinality(SeedCase[e].diagnostics) + Cardinality(WrongOf(e))
<1>1. stage = "done" /\ Reconciled /\ OneResultEach BY DEF BuiltWell
<1>2. \A r \in WrongOf(e) : r \in results /\ r \in WrongResults /\ r.outcome \in Outcomes
  BY <1>1, ResultsShaped DEF WrongOf, WrongResults
<1>3. IsFiniteSet(FaultNodes(e)) /\ Cardinality(FaultNodes(e)) = Cardinality(SeedCase[e].diagnostics)
  <2> DEFINE D == DOMAIN Diagnostics(e)
             f == [n \in D |-> FaultNode(e, n)]
             m == Cardinality(SeedCase[e].diagnostics)
  <2>1. D = 1..m /\ m \in Nat BY DiagnosticsListed, ListsDomain
  <2>2. IsFiniteSet(D) /\ Cardinality(D) = m
    <3> HIDE DEF D, m
    <3> QED BY <2>1, FS_Interval
  <2>3. ASSUME NEW n \in D, NEW k \in D, f[n] = f[k] PROVE n = k
    <3>1. DiagnosticFlag(e, n) = DiagnosticFlag(e, k) BY <2>3, FlagNodesAre
    <3> QED BY <3>1, FaultFlagsTold
  <2>4. {f[n] : n \in D} = FaultNodes(e) BY DEF FaultNodes
  <2>5. IsFiniteSet({f[n] : n \in D}) /\ Cardinality({f[n] : n \in D}) = m
    <3> HIDE DEF D, f, m
    <3> QED BY <2>2, <2>3, NamesCounted
  <2> HIDE DEF D, f
  <2> QED BY <2>4, <2>5
<1>4. IsFiniteSet(ResultNodes(e)) /\ Cardinality(ResultNodes(e)) = Cardinality(WrongOf(e))
  <2> DEFINE S == WrongOf(e)
             f == [r \in S |-> ResultNode(r)]
  <2>1. IsFiniteSet(S) BY <1>1, ResultsFinite, FS_Subset DEF WrongOf
  <2>2. ASSUME NEW q \in S, NEW r \in S, f[q] = f[r] PROVE q = r
    <3>1. ResultFlag(q) = ResultFlag(r) BY <2>2, FlagNodesAre
    <3> QED BY <1>1, <1>2, <3>1, ResultFlagsTold
  <2>3. {f[r] : r \in S} = ResultNodes(e) BY DEF ResultNodes
  <2>4. IsFiniteSet({f[r] : r \in S}) /\ Cardinality({f[r] : r \in S}) = Cardinality(S)
    <3> HIDE DEF S, f
    <3> QED BY <2>1, <2>2, NamesCounted
  <2> HIDE DEF f
  <2> QED BY <2>3, <2>4
<1>5. FaultNodes(e) \cap ResultNodes(e) = {}
  <2> SUFFICES ASSUME NEW x \in FaultNodes(e), x \in ResultNodes(e) PROVE FALSE OBVIOUS
  <2>1. PICK n \in DOMAIN Diagnostics(e) : x.id = DiagnosticFlag(e, n) BY FlagNodesAre DEF FaultNodes
  <2>2. PICK r \in WrongOf(e) : x.id = ResultFlag(r) BY FlagNodesAre DEF ResultNodes
  <2> QED BY <1>2, <2>1, <2>2, FlagsApart
<1> DEFINE F == FaultNodes(e)
           R == ResultNodes(e)
<1>6. FlagsOf(EmailId(e)) = F \cup R BY EmailFlagged
<1>7. Cardinality(F \cup R) = Cardinality(F) + Cardinality(R)
  <2> HIDE DEF F, R
  <2>1. IsFiniteSet(F) /\ IsFiniteSet(R) /\ F \cap R = {} BY <1>3, <1>4, <1>5 DEF F, R
  <2>2. Cardinality(F) \in Nat /\ Cardinality(R) \in Nat /\ Cardinality(F \cap R) = 0
    BY <2>1, FS_CardinalityType, FS_EmptySet
  <2>3. Cardinality(F \cup R) = Cardinality(F) + Cardinality(R) - Cardinality(F \cap R) BY <2>1, FS_Union
  <2> QED BY <2>2, <2>3
<1> QED BY <1>3, <1>4, <1>6, <1>7

(* What Gate 1 found in an email: the verdicts it flags, and its diagnostics. *)
LEMMA FoundIs ==
  ASSUME BuiltWell, NEW e \in Emails
  PROVE  FoundIn(e) = FlaggedNodes(e) \cup FaultNodes(e)
<1>1. stage = "done" /\ Reconciled BY DEF BuiltWell
<1> DEFINE Named(x) == x.id[2][1] = e /\ x.id[2][2] \notin Outcomes
<1>2. ASSUME NEW x PROVE IsVerdict(x) /\ Named(x) <=> x \in FlaggedNodes(e)
  <2>1. ASSUME NEW g \in Emails, NEW f \in DOMAIN SeedCase[g].verdicts PROVE Named(FlagNode(g, f)) <=> g = e
    <3>1. f \notin Outcomes BY VerdictFields, FieldsApart
    <3>2. FlagNode(g, f).id = VerdictFlag(g, f) BY FlagNodesAre
    <3>3. VerdictFlag(g, f)[2][1] = g /\ VerdictFlag(g, f)[2][2] = f BY FlagTells
    <3> QED BY <3>1, <3>2, <3>3
  <2> HIDE DEF Named
  <2> QED BY <2>1 DEF IsVerdict, FlaggedNodes
<1>3. ASSUME NEW x PROVE IsFault(x) /\ Named(x) <=> x \in FaultNodes(e)
  <2>1. ASSUME NEW g \in Emails, NEW n \in DOMAIN Diagnostics(g) PROVE Named(FaultNode(g, n)) <=> g = e
    <3>1. FaultNode(g, n).id = DiagnosticFlag(g, n) BY FlagNodesAre
    <3>2. DiagnosticFlag(g, n)[2][1] = g /\ DiagnosticFlag(g, n)[2][2] \in Reasons BY FlagTells
    <3> QED BY <3>1, <3>2, FieldsApart
  <2> HIDE DEF Named
  <2> QED BY <2>1 DEF IsFault, FaultNodes
<1>4. ASSUME NEW x, IsResult(x) PROVE ~Named(x)
  <2>1. PICK r \in WrongResults : x = ResultNode(r) BY <1>4 DEF IsResult
  <2>2. r.outcome \in Outcomes BY <1>1, ResultsShaped DEF WrongResults
  <2>3. x.id = ResultFlag(r) /\ ResultFlag(r)[2][2] = r.outcome BY <2>1, FlagNodesAre, FlagTells
  <2> QED BY <2>2, <2>3
<1>5. \A x : x \in FoundIn(e) <=> IsFlag(x) /\ Named(x) BY FlagsRead DEF FoundIn
<1> HIDE DEF Named
<1>6. ASSUME NEW x PROVE x \in FoundIn(e) <=> x \in FlaggedNodes(e) \cup FaultNodes(e)
  BY <1>2, <1>3, <1>4, <1>5 DEF IsFlag
<1> QED BY <1>6

(* It says of a case what the case says. *)
LEMMA FoundTells ==
  ASSUME BuiltWell, NEW e \in Emails
  PROVE  /\ FoundIn(e) = {} <=> Clean(e)
         /\ SeedCase[e].inReview <=> \E flag \in FoundIn(e) : flag.kind = "exception"
<1> DEFINE D == SeedCase[e].diagnostics
           V == DOMAIN SeedCase[e].verdicts
<1>1. FaultNodes(e) = {} <=> D = {}
  <2>1. DOMAIN Diagnostics(e) = {} <=> D = {} BY DiagnosticsListed, ListsDomain
  <2> QED BY <2>1 DEF FaultNodes
<1>2. FlaggedNodes(e) = {} <=> \A f \in V : ~Flagged(e, f) BY DEF FlaggedNodes
<1>3. FoundIn(e) = {} <=> Clean(e) BY <1>1, <1>2, FoundIs DEF Clean
<1>4. \A x \in FaultNodes(e) : x.kind = "exception" BY FlagNodesAre DEF FaultNodes
<1>5. ASSUME NEW f PROVE FlagNode(e, f).kind = "exception" <=> VerdictState(e, f) # "mismatch"
  <2>1. FlagNode(e, f).kind = VerdictFlag(e, f)[1] BY FlagNodesAre
  <2>2. VerdictFlag(e, f) = IF VerdictState(e, f) = "mismatch" THEN <<"mismatch", <<e, f>>>>
                            ELSE <<"exception", <<e, f, "review">>>>
    BY DEF VerdictFlag
  <2> QED BY <2>1, <2>2
<1>6. (\E x \in FlaggedNodes(e) : x.kind = "exception") <=> \E f \in V : VerdictState(e, f) = "held"
  BY <1>5, VerdictStateIs DEF FlaggedNodes, Flagged
<1>7. (\E x \in FoundIn(e) : x.kind = "exception") <=> D # {} \/ \E f \in V : VerdictState(e, f) = "held"
  BY <1>1, <1>4, <1>6, FoundIs
<1>8. SeedCase[e].inReview <=> D # {} \/ \E f \in V : VerdictState(e, f) = "held" BY CaseTold DEF CaseTells
<1> QED BY <1>3, <1>7, <1>8

(* So does the node of an email. *)
LEMMA EmailsTell ==
  ASSUME BuiltWell, NEW n \in Kinds({"email"})
  PROVE  LET e == n.id[2]
         IN  /\ n.state # "neutral" =>
                  /\ n.state = "match" <=> SubmissionRow(e).status = "OK"
                  /\ n.state = "match" <=> FoundIn(e) = {}
             /\ SeedCase[e].inReview <=> \E flag \in FoundIn(e) : flag.kind = "exception"
<1>1. n \in AllNodes /\ n.kind = "email" BY GraphRead DEF Kinds
<1>2. IsEmail(n) BY <1>1, KindsTell
<1>3. PICK e \in Emails : n = Node(EmailId(e), "email", EmailState(e)) BY <1>2 DEF IsEmail
<1>4. n.id = EmailId(e) /\ n.state = EmailState(e) BY <1>3, NodeIs
<1>5. n.id[2] = e BY <1>4 DEF EmailId
<1>6. /\ FoundIn(e) = {} <=> Clean(e)
      /\ SeedCase[e].inReview <=> \E flag \in FoundIn(e) : flag.kind = "exception"
  BY FoundTells
<1>7. n.state # "neutral" => /\ n.state = "match" <=> SubmissionRow(e).status = "OK"
                             /\ n.state = "match" <=> Clean(e)
  BY <1>4, EmailStateTells
<1> QED BY <1>5, <1>6, <1>7

(* The state of a shipment tells how Gate 2 ended with it. *)
LEMMA ShipmentsTell ==
  ASSUME BuiltWell, NEW n \in Kinds({"shipment"})
  PROVE  n.state = "match" <=> \E r \in results : r.outcome = "CASE_PRESENT" /\ n.id[2] \in r.shipments
<1>1. n \in AllNodes /\ n.kind = "shipment" BY GraphRead DEF Kinds
<1>2. IsShipment(n) BY <1>1, KindsTell
<1>3. PICK s \in Shipments : n = ShipmentNode(s) BY <1>2 DEF IsShipment
<1>4. n.id = ShipmentId(s) /\ n.state = ShipmentState(s) BY <1>3, NodeIs DEF ShipmentNode
<1>5. n.id[2] = s BY <1>4 DEF ShipmentId
<1>6. \A outcome : OutcomeState(outcome) = "match" <=> outcome = "CASE_PRESENT" BY DEF OutcomeState
<1>7. CASE \E r \in results : s \in r.shipments
  <2> DEFINE q == CHOOSE r \in results : s \in r.shipments
  <2>1. q \in results /\ s \in q.shipments BY <1>7
  <2>2. ShipmentState(s) = OutcomeState(q.outcome) BY <1>7 DEF ShipmentState
  <2> HIDE DEF q
  <2>3. \A r \in results : s \in r.shipments => r = q BY <2>1 DEF BuiltWell, OneResultEach
  <2> QED BY <1>4, <1>5, <1>6, <2>1, <2>2, <2>3
<1>8. CASE ~\E r \in results : s \in r.shipments
  <2>1. ShipmentState(s) = "held" BY <1>8 DEF ShipmentState
  <2> QED BY <1>4, <1>5, <1>8, <2>1
<1> QED BY <1>7, <1>8

(* A party or a port shows the worst of its flags. *)
LEMMA ValuesTell ==
  ASSUME BuiltWell, NEW n \in Kinds({"party", "port"})
  PROVE  /\ n.state = "mismatch" <=> \E flag \in FlagsOf(n.id) : flag.kind = "mismatch"
         /\ n.state = "match" <=> FlagsOf(n.id) = {}
<1> DEFINE id == n.id
<1>0. stage = "done" /\ Reconciled /\ OneResultEach BY DEF BuiltWell
<1>1. n \in AllNodes /\ n.kind \in {"party", "port"} BY GraphRead DEF Kinds
<1>2. IsValue(n) BY <1>1, KindsTell
<1>3. n.state = Worst(id) /\ id[1] \in {"party", "port"} BY <1>2, KindsAre
<1>4. \E e \in Emails : \E f \in DOMAIN SeedCase[e].verdicts : Draws(e, f, id)
  BY <1>2, NodeIs DEF IsValue, ValueNode, Draws
<1>5. Worst(id) = WorstOf(StatesOf(id))
  <2>1. \A e \in Emails : \A f : ToSet(Drawn(e, f)) = Shown(e, f) BY DrawnListed DEF Lists
  <2> DEFINE All == UNION {{<<e, f>> : f \in DOMAIN SeedCase[e].verdicts} : e \in Emails}
  <2>2. \A q \in All : q[1] \in Emails OBVIOUS
  <2> HIDE DEF All
  <2>3. {q \in All : \E side \in ToSet(Drawn(q[1], q[2])) : ValueId(q[1], q[2], side) = id}
          = {q \in All : Draws(q[1], q[2], id)}
    BY <2>1, <2>2 DEF Draws
  <2>4. Worst(id) = WorstOf({VerdictState(p[1], p[2]) :
             p \in {q \in All : \E side \in ToSet(Drawn(q[1], q[2])) : ValueId(q[1], q[2], side) = id}})
    BY DEF Worst, All
  <2> QED BY <2>3, <2>4 DEF StatesOf, All
<1> HIDE DEF id
<1>6. ASSUME NEW e \in Emails, NEW f \in DOMAIN SeedCase[e].verdicts
      PROVE  id \in VerdictTargets(e, f) <=> Draws(e, f, id)
  <2>1. \A role : id # SideId(e, role)
    <3>1. \A role : SideId(e, role)[1] = "document" BY NamesTell DEF SideId
    <3> QED BY <1>3, <3>1
  <2>2. ToSet(Drawn(e, f)) = Shown(e, f) BY DrawnListed DEF Lists
  <2> QED BY <2>1, <2>2 DEF VerdictTargets, Draws
<1>7. ASSUME NEW x, IsFault(x) \/ IsResult(x) PROVE ~Linked(x.id, id)
  <2>0. /\ \A e : EmailId(e) # id /\ \A a : DocumentId(a) # id
        /\ \A e, role : ExpectedId(e, role) # id /\ \A s : ShipmentId(s) # id
    BY <1>3, NamesTell
  <2>1. CASE IsFault(x)
    <3>1. PICK e \in Emails : \E i \in DOMAIN Diagnostics(e) : x = FaultNode(e, i) BY <2>1 DEF IsFault
    <3>2. PICK i \in DOMAIN Diagnostics(e) : x = FaultNode(e, i) BY <3>1
    <3>3. id \notin DiagnosticTargets(e, Diagnostics(e)[i]) BY <2>0 DEF DiagnosticTargets
    <3> QED BY <1>0, <3>2, <3>3, FlagNodesAre, FaultAbout
  <2>2. CASE IsResult(x)
    <3>1. PICK r \in WrongResults : x = ResultNode(r) BY <2>2 DEF IsResult
    <3>2. id \notin ResultTargets(r) BY <2>0 DEF ResultTargets
    <3> QED BY <1>0, <3>1, <3>2, FlagNodesAre, ResultAbout
  <2> QED BY <1>7, <2>1, <2>2
<1>8. ASSUME NEW x
      PROVE  x \in FlagsOf(id) <=>
               \E e \in Emails : \E f \in DOMAIN SeedCase[e].verdicts :
                 Flagged(e, f) /\ Draws(e, f, id) /\ x = FlagNode(e, f)
  <2>1. x \in FlagsOf(id) <=> IsVerdict(x) /\ Linked(x.id, id) BY <1>7, FlagsRead DEF IsFlag
  <2>2. ASSUME NEW e \in Emails, NEW f \in DOMAIN SeedCase[e].verdicts, Flagged(e, f)
        PROVE  Linked(FlagNode(e, f).id, id) <=> Draws(e, f, id)
    BY <1>0, <1>6, <2>2, FlagNodesAre, VerdictAbout
  <2> QED BY <2>1, <2>2 DEF IsVerdict
<1>9. ASSUME NEW e, NEW f
      PROVE  /\ Flagged(e, f) <=> VerdictState(e, f) # "match"
             /\ VerdictState(e, f) \in {"mismatch", "held", "match"}
             /\ FlagNode(e, f).kind = "mismatch" <=> VerdictState(e, f) = "mismatch"
  <2>1. FlagNode(e, f).kind = VerdictFlag(e, f)[1] BY FlagNodesAre
  <2>2. VerdictFlag(e, f) = IF VerdictState(e, f) = "mismatch" THEN <<"mismatch", <<e, f>>>>
                            ELSE <<"exception", <<e, f, "review">>>>
    BY DEF VerdictFlag
  <2>3. FlagNode(e, f).kind = "mismatch" <=> VerdictState(e, f) = "mismatch" BY <2>1, <2>2
  <2> QED BY <2>3, VerdictStateIs DEF Flagged
<1>10. StatesOf(id) \subseteq {"mismatch", "held", "match"} /\ StatesOf(id) # {}
  <2>1. ASSUME NEW state \in StatesOf(id) PROVE state \in {"mismatch", "held", "match"}
    <3>1. PICK e \in Emails : \E f \in DOMAIN SeedCase[e].verdicts : Draws(e, f, id) /\ state = VerdictState(e, f)
      BY <2>1, StatesAre
    <3>2. PICK f \in DOMAIN SeedCase[e].verdicts : state = VerdictState(e, f) BY <3>1
    <3> QED BY <1>9, <3>2
  <2>2. PICK e \in Emails : \E f \in DOMAIN SeedCase[e].verdicts : Draws(e, f, id) BY <1>4
  <2>3. PICK f \in DOMAIN SeedCase[e].verdicts : Draws(e, f, id) BY <2>2
  <2>4. VerdictState(e, f) \in StatesOf(id) BY <2>3, StatesAre
  <2> QED BY <2>1, <2>4
<1>11. (\E x \in FlagsOf(id) : x.kind = "mismatch") <=> "mismatch" \in StatesOf(id)
  <2>1. (\E x \in FlagsOf(id) : x.kind = "mismatch") <=>
          \E e \in Emails : \E f \in DOMAIN SeedCase[e].verdicts :
            Flagged(e, f) /\ Draws(e, f, id) /\ FlagNode(e, f).kind = "mismatch"
    BY <1>8
  <2> QED BY <1>9, <2>1, StatesAre
<1>12. FlagsOf(id) = {} <=> StatesOf(id) = {"match"}
  <2>1. FlagsOf(id) = {} <=>
          \A e \in Emails : \A f \in DOMAIN SeedCase[e].verdicts : Draws(e, f, id) => VerdictState(e, f) = "match"
    BY <1>8, <1>9
  <2>2. (\A state \in StatesOf(id) : state = "match") <=>
          \A e \in Emails : \A f \in DOMAIN SeedCase[e].verdicts : Draws(e, f, id) => VerdictState(e, f) = "match"
    BY StatesAre
  <2> QED BY <1>10, <2>1, <2>2
<1>13. /\ WorstOf(StatesOf(id)) = "mismatch" <=> "mismatch" \in StatesOf(id)
       /\ WorstOf(StatesOf(id)) = "match" <=> StatesOf(id) = {"match"}
  BY <1>10, WorstIs
<1> QED BY <1>3, <1>5, <1>11, <1>12, <1>13 DEF id

(* A step leaves a catalog that is there as it was built. *)
BuiltInv == Built => graph = BuildCorpus /\ stage = "done"

(* What would be built depends on the results of Gate 2 alone. *)
LEMMA CorpusSame ==
  ASSUME results' = results
  PROVE  BuildCorpus' = BuildCorpus
<1>1. Wrong' = Wrong
  <2> DEFINE W == {r \in results : r.outcome # "CASE_PRESENT"}
  <2>1. W' = W OBVIOUS
  <2>2. Wrong = EachOf(W) BY DEF Wrong
  <2>3. Wrong' = EachOf(W)' BY DEF Wrong
  <2> QED BY <2>1, <2>2, <2>3
<1>2. ASSUME NEW s PROVE ShipmentState(s)' = ShipmentState(s) BY DEF ShipmentState, OutcomeState
<1>3. Mapped(Wrong, LAMBDA r : Node(ResultFlag(r), "exception", OutcomeState(r.outcome)))'
        = Mapped(Wrong, LAMBDA r : Node(ResultFlag(r), "exception", OutcomeState(r.outcome)))
  BY <1>1 DEF Mapped
<1>4. Mapped(EachOf(Shipments), LAMBDA s : Node(ShipmentId(s), "shipment", ShipmentState(s)))'
        = Mapped(EachOf(Shipments), LAMBDA s : Node(ShipmentId(s), "shipment", ShipmentState(s)))
  BY <1>2 DEF Mapped
<1>5. Mapped(EachOf(results), LAMBDA r :
                    EachOf(Joined(r))
                      \o (IF r.outcome = "CASE_PRESENT" THEN <<>>
                          ELSE FlagEdges(ResultFlag(r), ResultTargets(r))))'
      = Mapped(EachOf(results), LAMBDA r :
                    EachOf(Joined(r))
                      \o (IF r.outcome = "CASE_PRESENT" THEN <<>>
                          ELSE FlagEdges(ResultFlag(r), ResultTargets(r))))
  BY DEF Mapped
<1> QED BY <1>3, <1>4, <1>5 DEF BuildCorpus

(* No step of a chat, a build or a restart touches it. *)
LEMMA BuiltStays ==
  ASSUME GraphInv, BuiltInv, [Next]_vars
  PROVE  BuiltInv'
<1>1. ASSUME UNCHANGED gateVars, graph' = graph PROVE BuiltInv'
  <2>1. BuildCorpus' = BuildCorpus BY <1>1, CorpusSame DEF gateVars
  <2>2. stage' = stage BY <1>1 DEF gateVars
  <2> QED BY <1>1, <2>1, <2>2 DEF BuiltInv, Built
<1>2. CASE BuildSucceeds
  <2>1. stage = "done" /\ graph' = BuildCorpus /\ UNCHANGED gateVars BY <1>2 DEF BuildSucceeds
  <2>2. BuildCorpus' = BuildCorpus BY <2>1, CorpusSame DEF gateVars
  <2>3. stage' = "done" BY <2>1 DEF gateVars
  <2> QED BY <2>1, <2>2, <2>3 DEF BuiltInv
<1>3. CASE Reconcile \/ BuildFails
  <2>1. ~Built /\ graph' = graph BY <1>3 DEF Reconcile, BuildFails, GraphInv, Seeded, seedVars
  <2> QED BY <2>1 DEF BuiltInv, Built
<1>4. CASE \E k \in Chats : ChatStep(k) BY <1>1, <1>4, OneMoves
<1>5. CASE CooldownEnds \/ UNCHANGED vars BY <1>1, <1>5 DEF CooldownEnds, vars, seedVars
<1> QED BY <1>2, <1>3, <1>4, <1>5, WhoSteps DEF Build

(* So a catalog that is there is the one that Gate 2 left to build. *)
LEMMA BuiltInvAlways == Spec => [](GraphInv /\ BuiltInv)
<1>1. Init => BuiltInv BY DEF Init, BuiltInv, Built
<1>2. GraphInv /\ BuiltInv /\ [Next]_vars => BuiltInv' BY BuiltStays
<1> QED BY <1>1, <1>2, GraphInvAlways, PTL DEF Spec

(* Whoever built it and whatever was asked of it since: the graph names    *)
(* every node and edge once and leads nowhere else, each result that is    *)
(* wrong has a flag on exactly what it names, an email has as many flags   *)
(* as things were found wrong with it, and the state of every email,       *)
(* shipment, party and port says what its flags say (build_corpus_graph).  *)
THEOREM GraphAlwaysWhole == Spec => []GraphWhole
<1>1. GraphInv /\ BuiltInv => GraphWhole
  <2> SUFFICES ASSUME GraphInv, BuiltInv, Built PROVE GraphWhole BY DEF GraphWhole
  <2>1. BuiltWell BY InvReconciles, InvClaimsOnce DEF BuiltInv, BuiltWell, GraphInv, GateInv
  <2>2. \A r \in {x \in results : x.outcome # "CASE_PRESENT"} :
          \E flag \in Flags :
            FlaggedBy(flag) = {<<"shipment", s>> : s \in r.shipments} \cup {<<"email", c>> : c \in r.cases}
    BY <2>1, ResultFlagged DEF WrongResults
  <2>3. \A e \in Emails :
          Cardinality(FlagsOf(<<"email", e>>)) =
            Cardinality(SeedCase[e].diagnostics)
              + Cardinality({r \in results : e \in r.cases /\ r.outcome # "CASE_PRESENT"})
    BY <2>1, EmailCounted DEF EmailId, WrongOf
  <2>4. \A n \in Kinds({"email"}) :
          LET e == n.id[2]
          IN  /\ n.state # "neutral" =>
                   /\ n.state = "match" <=> SubmissionRow(e).status = "OK"
                   /\ n.state = "match" <=> FoundIn(e) = {}
              /\ SeedCase[e].inReview <=> \E flag \in FoundIn(e) : flag.kind = "exception"
    BY <2>1, EmailsTell
  <2>5. \A n \in Kinds({"shipment"}) :
          n.state = "match" <=> \E r \in results : r.outcome = "CASE_PRESENT" /\ n.id[2] \in r.shipments
    BY <2>1, ShipmentsTell
  <2>6. \A n \in Kinds({"party", "port"}) :
          /\ n.state = "mismatch" <=> \E flag \in FlagsOf(n.id) : flag.kind = "mismatch"
          /\ n.state = "match" <=> FlagsOf(n.id) = {}
    BY <2>1, ValuesTell
  <2>7. /\ Cardinality(Ids(graph)) = Len(graph.nodes)
        /\ Cardinality({graph.edges[i].id : i \in DOMAIN graph.edges}) = Len(graph.edges)
        /\ {graph.edges[i].source : i \in DOMAIN graph.edges} \subseteq Ids(graph)
        /\ {graph.edges[i].target : i \in DOMAIN graph.edges} \subseteq Ids(graph)
    BY <2>1, GraphRead
  <2> QED BY <2>2, <2>3, <2>4, <2>5, <2>6, <2>7, Zenon DEF GraphWhole
<1> QED BY <1>1, BuiltInvAlways, PTL

=============================================================================
