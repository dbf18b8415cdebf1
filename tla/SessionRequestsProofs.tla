------------------------- MODULE SessionRequestsProofs -------------------------
(***************************************************************************)
(* Approvals and questions, for any number of them, of signals and turns:  *)
(* what is shown is what is pending, an approval is the user's, the history *)
(* tells the truth about every question, and the end of a canceled turn     *)
(* waits for nobody who does not go on by itself.                           *)
(***************************************************************************)
EXTENDS SessionRequests, WellFoundedInduction, TLAPS

(* A pending approval has a place of its own in the queue, and nobody who   *)
(* waits for it has given up.                                               *)
QueueOK ==
  /\ \A r, x \in Approvals : InQueue(r) /\ queue[r] = queue[x] => r = x
  /\ \A r \in Approvals : queue[r] <= asks
  /\ turn.canceled => queue = EmptyQueue
  /\ \A r \in Approvals : InQueue(r) =>
       past.asked[r] = signals[r] /\ signals[r] \cap aborted = {}

ClicksOK == \A c \in clicks : c.decision = "approve" => c.request \in past.approved

ApprovalShown == IF Running THEN live.approval = HeadOf(queue) ELSE queue = EmptyQueue

ApprovalsInv == QueueOK /\ ClicksOK /\ ApprovalShown

(* A question: who sends its answer, and what of it is stored.  From the    *)
(* last word of the questions on, what is still pending only waits for the  *)
(* outcome of its answer.                                                   *)
QuestionOK(q) ==
  /\ question[q].turn <= turn.n
  /\ Sending(q) => q \in Async
  /\ question[q].state = "sent" <=> input.by = q
  /\ q \in saved => question[q].state \in {"acked", "settled"}
  /\ question[q].state = "acked" => q \in saved
  /\ turn.phase \in {"settling", "saving"} /\ Pending(q) => question[q].expired /\ ~Open(q)
  /\ turn.phase = "saving" => ~Pending(q)

(* The record of a question of this turn, and what is made of it.           *)
RecordOK(q) ==
  /\ Running /\ question[q].turn = turn.n =>
       (live.record[q] = "answered" <=> q \in saved /\ question[q].state # "acked")
  /\ question[q].turn = turn.n /\ turn.n > 0 /\ turn.phase \in {"saving", "idle"} =>
       (history[q] = "answered" <=> q \in saved)

QuestionsShown ==
  IF Running THEN live.questions = ShownOf(question) ELSE \A q \in Questions : ~Pending(q)

QuestionsInv == QuestionsShown /\ \A q \in Questions : QuestionOK(q) /\ RecordOK(q)

IInv == TypeOK /\ ApprovalsInv /\ QuestionsInv

-----------------------------------------------------------------------------
(* The head of the queue.                                                   *)

(* A set of numbers has a least one.                                        *)
LEMMA LeastNumber ==
  ASSUME NEW T, T \subseteq Nat, T # {}
  PROVE  \E x \in T : \A y \in T : x <= y
<1>. DEFINE R == OpToRel(<, Nat)
<1>1. IsWellFoundedOn(R, Nat)
  BY NatLessThanWellFounded
<1>2. \A x, y \in Nat : y < x => <<y, x>> \in R
  BY DEF OpToRel
<1>. HIDE DEF R
<1>3. PICK x \in T : \A y \in T : ~ (<<y, x>> \in R)
  BY <1>1, WFMin
<1>4. ASSUME NEW y \in T PROVE x <= y
  <2>1. x \in Nat /\ y \in Nat
    OBVIOUS
  <2>2. ~(y < x)
    BY <1>2, <1>3, <2>1
  <2>. QED  BY <2>1, <2>2
<1>. QED  BY <1>4

Queues == [Approvals -> Nat]
Distinct(q) == \A r, x \in Approvals : q[r] > 0 /\ q[r] = q[x] => r = x
First(q, h) == h \in Pendings(q) /\ \A x \in Pendings(q) : q[h] <= q[x]

(* The head is the pending request that came first.                         *)
LEMMA HeadIsFirst ==
  ASSUME NEW q \in Queues
  PROVE  /\ Pendings(q) = {} => HeadOf(q) = None
         /\ Pendings(q) # {} => First(q, HeadOf(q))
<1>. DEFINE T == {q[r] : r \in Pendings(q)}
<1>1. ASSUME Pendings(q) # {} PROVE \E h \in Pendings(q) : \A x \in Pendings(q) : q[h] <= q[x]
  <2>1. T \subseteq Nat /\ T # {}
    BY <1>1 DEF Pendings, Queues
  <2>2. PICK n \in T : \A m \in T : n <= m
    BY <2>1, LeastNumber
  <2>3. PICK h \in Pendings(q) : q[h] = n
    BY <2>2
  <2>. QED  BY <2>2, <2>3
<1>. QED  BY <1>1 DEF HeadOf, First

(* Nobody else is.                                                          *)
LEMMA FirstIsHead ==
  ASSUME NEW q \in Queues, Distinct(q), NEW h, First(q, h)
  PROVE  HeadOf(q) = h
<1>1. First(q, HeadOf(q))
  BY HeadIsFirst DEF First
<1>2. q[h] = q[HeadOf(q)] /\ h \in Approvals /\ HeadOf(q) \in Approvals /\ q[h] > 0
  BY <1>1 DEF First, Pendings, Queues
<1>. QED  BY <1>2 DEF Distinct

(* Whoever leaves the queue, the others keep their places.                  *)
LEMMA HeadStays ==
  ASSUME NEW q \in Queues, Distinct(q), NEW rs, HeadOf(q) \notin rs
  PROVE  HeadOf(Without(q, rs)) = HeadOf(q)
<1>. DEFINE w == Without(q, rs)
<1>1. w \in Queues /\ Distinct(w) /\ Pendings(w) = Pendings(q) \ rs
      /\ \A r \in Pendings(w) : w[r] = q[r]
  BY DEF Without, Queues, Distinct, Pendings
<1>2. CASE Pendings(q) = {}
  BY <1>1, <1>2, HeadIsFirst
<1>3. CASE Pendings(q) # {}
  <2>1. First(q, HeadOf(q))
    BY <1>3, HeadIsFirst
  <2>2. First(w, HeadOf(q))
    BY <1>1, <2>1 DEF First
  <2>. QED  BY <1>1, <2>2, FirstIsHead
<1>. QED  BY <1>2, <1>3

(* An empty queue has no head.                                              *)
LEMMA EmptyHead ==
  /\ EmptyQueue \in Queues /\ HeadOf(EmptyQueue) = None
  /\ \A q \in Queues : q = EmptyQueue <=> Pendings(q) = {}
<1>1. EmptyQueue \in Queues /\ Pendings(EmptyQueue) = {}
  BY DEF EmptyQueue, Queues, Pendings
<1>2. ASSUME NEW q \in Queues, Pendings(q) = {} PROVE q = EmptyQueue
  BY <1>2 DEF EmptyQueue, Queues, Pendings
<1>. QED  BY <1>1, <1>2, HeadIsFirst

-----------------------------------------------------------------------------
LiveType == [approval : Approvals \cup {None}, questions : SUBSET Questions,
             record : [Questions -> Statuses]]
AskedType == [state : {"none", "open", "hop", "sent", "acked", "failed", "settled"},
              expired : BOOLEAN, turn : 0..MaxTurns]
TurnType == [n : 0..MaxTurns, phase : {"idle", "running", "draining", "settling", "saving"},
             canceled : BOOLEAN, accepts : BOOLEAN]
InputType == [by : Questions \cup {"chat", None}, turn : 0..MaxTurns,
              stage : {"none", "preparing", "dispatched", "storing"}]

(* The types of the parts.                                                  *)
LEMMA Types ==
  ASSUME TypeOK
  PROVE  /\ queue \in Queues /\ asks \in Nat /\ turn \in TurnType /\ live \in LiveType
         /\ question \in [Questions -> AskedType] /\ input \in InputType
         /\ HeadOf(queue) \in Approvals \cup {None}
<1>1. queue \in Queues /\ asks \in Nat
  BY RequestsAssumption DEF TypeOK, Queues
<1>2. HeadOf(queue) \in Approvals \cup {None}
  BY <1>1, HeadIsFirst DEF First, Pendings
<1>. QED  BY <1>1, <1>2 DEF TypeOK, TurnType, LiveType, AskedType, InputType

(* The questions do not notice what the approvals do.                       *)
LEMMA QuestionsStay ==
  ASSUME QuestionsInv, UNCHANGED <<turn, question, input, saved, history>>,
         live'.questions = live.questions, live'.record = live.record
  PROVE  QuestionsInv'
<1>1. QuestionsShown'
  BY DEF QuestionsInv, QuestionsShown, Running, ShownOf, Pending, Open, Sending
<1>2. ASSUME NEW q \in Questions PROVE QuestionOK(q)' /\ RecordOK(q)'
  BY DEF QuestionsInv, QuestionOK, RecordOK, Running, Pending, Open, Sending
<1>. QED  BY <1>1, <1>2 DEF QuestionsInv

(* Nor the approvals what the questions do.                                 *)
LEMMA ApprovalsStay ==
  ASSUME ApprovalsInv, UNCHANGED <<queue, signals, aborted, clicks, asks, past>>,
         live'.approval = live.approval, Running' <=> Running, turn'.canceled = turn.canceled
  PROVE  ApprovalsInv'
<1>1. QueueOK'
  BY DEF ApprovalsInv, QueueOK, InQueue, EmptyQueue
<1>2. ClicksOK' /\ ApprovalShown'
  BY DEF ApprovalsInv, ClicksOK, ApprovalShown, HeadOf, Pendings, EmptyQueue
<1>. QED  BY <1>1, <1>2 DEF ApprovalsInv

-----------------------------------------------------------------------------
(* The steps of the approvals.                                              *)

(* Requests leave the queue.                                                *)
LEMMA SettlesKeeps ==
  ASSUME TypeOK, ApprovalsInv, NEW rs \in SUBSET Approvals, NEW d \in Decisions, Settles(rs, d),
         UNCHANGED turn, asks' \in {asks, asks + 1},
         \A r \in Approvals \ rs : InQueue(r) =>
            past'.asked[r] = past.asked[r] /\ signals[r] \cap aborted' = {}
  PROVE  /\ QueueOK' /\ ApprovalShown'
         /\ live' \in LiveType /\ live'.questions = live.questions /\ live'.record = live.record
         /\ queue' \in [Approvals -> 0..MaxAsks]
         /\ signals' \in [Approvals -> SUBSET Signals]
         /\ decision' \in [Approvals -> {"none", "waiting"} \cup Decisions]
<1>1. /\ queue \in Queues /\ asks \in Nat /\ live \in LiveType
      /\ queue \in [Approvals -> 0..MaxAsks] /\ 0 \in 0..MaxAsks
      /\ signals \in [Approvals -> SUBSET Signals]
      /\ decision \in [Approvals -> {"none", "waiting"} \cup Decisions]
  BY Types, RequestsAssumption DEF TypeOK
<1>2. queue' = Without(queue, rs) /\ queue' \in [Approvals -> 0..MaxAsks] /\ queue' \in Queues
  BY <1>1 DEF Settles, Without, Queues
<1>3. signals' \in [Approvals -> SUBSET Signals]
      /\ decision' \in [Approvals -> {"none", "waiting"} \cup Decisions]
  BY <1>1 DEF Settles
<1>4. \A r \in Approvals : IF r \in rs THEN queue'[r] = 0 ELSE queue'[r] = queue[r] /\ signals'[r] = signals[r]
  BY <1>1, <1>2 DEF Without, Settles
<1>5. Distinct(queue)
  BY DEF ApprovalsInv, QueueOK, InQueue, Distinct
<1>6. QueueOK'
  <2>1. \A r, x \in Approvals : InQueue(r)' /\ queue'[r] = queue'[x] => r = x
    BY <1>1, <1>4, <1>5 DEF InQueue, Distinct
  <2>2. \A r \in Approvals : queue'[r] <= asks'
    BY <1>1, <1>4 DEF ApprovalsInv, QueueOK, Queues
  <2>3. turn.canceled => queue' = EmptyQueue
    BY <1>2 DEF ApprovalsInv, QueueOK, EmptyQueue, Without
  <2>4. \A r \in Approvals : InQueue(r)' =>
          past'.asked[r] = signals'[r] /\ signals'[r] \cap aborted' = {}
    BY <1>1, <1>4 DEF ApprovalsInv, QueueOK, InQueue
  <2>. QED  BY <2>1, <2>2, <2>3, <2>4 DEF QueueOK, EmptyQueue
<1>7. HeadOf(queue') \in Approvals \cup {None}
  BY <1>2, HeadIsFirst DEF First, Pendings
<1>8. live' \in LiveType /\ live'.questions = live.questions /\ live'.record = live.record
  BY <1>1, <1>2, <1>7 DEF Settles, LiveType
<1>9. ApprovalShown'
  <2>1. CASE ~Running
    BY <1>2, <2>1 DEF ApprovalsInv, ApprovalShown, Running, EmptyQueue, Without
  <2>2. CASE Running /\ HeadOf(queue) \in rs
    <3>1. live'.approval = HeadOf(queue')
      BY <1>1, <1>2, <2>2 DEF Settles, LiveType
    <3>. QED  BY <2>2, <3>1 DEF ApprovalShown, Running, HeadOf, Pendings
  <2>3. CASE Running /\ HeadOf(queue) \notin rs
    <3>1. HeadOf(queue') = HeadOf(queue)
      BY <1>1, <1>2, <1>5, <2>3, HeadStays
    <3>2. live'.approval = HeadOf(queue')
      BY <2>3, <3>1 DEF Settles, ApprovalsInv, ApprovalShown
    <3>. QED  BY <2>3, <3>2 DEF ApprovalShown, Running, HeadOf, Pendings
  <2>. QED  BY <2>1, <2>2, <2>3
<1>. QED  BY <1>2, <1>3, <1>6, <1>8, <1>9

(* A callback asks for an approval.                                         *)
LEMMA AskApprovalKeeps ==
  ASSUME IInv, NEW r \in Approvals, NEW ss \in SUBSET Signals, AskApproval(r, ss)
  PROVE  IInv'
<1>1. /\ TypeOK /\ ApprovalsInv /\ QuestionsInv /\ queue \in Queues /\ asks \in Nat /\ live \in LiveType
      /\ queue \in [Approvals -> 0..MaxAsks] /\ asks + 1 \in 0..MaxAsks /\ Running
      /\ signals \in [Approvals -> SUBSET Signals]
      /\ decision \in [Approvals -> {"none", "waiting"} \cup Decisions]
      /\ past \in [approved : SUBSET Approvals, asked : [Approvals -> SUBSET Signals]]
      /\ "deny" \in Decisions
  BY Types, RequestsAssumption DEF IInv, TypeOK, AskApproval, MayAsk, Running, Decisions
<1>2. /\ past' \in [approved : SUBSET Approvals, asked : [Approvals -> SUBSET Signals]]
      /\ past'.approved = past.approved
      /\ past'.asked[r] = (IF InQueue(r) THEN past.asked[r] \cup ss ELSE ss)
      /\ \A x \in Approvals : x # r => past'.asked[x] = past.asked[x]
  BY <1>1 DEF AskApproval
<1>3. /\ UNCHANGED <<turn, aborted, clicks, question, input, saved, history>> /\ asks' = asks + 1
      /\ WaitForDecision(r, ss)
  BY DEF AskApproval
<1>4. ClicksOK'
  BY <1>1, <1>2, <1>3 DEF ApprovalsInv, ClicksOK
<1>5. \A x \in Approvals : InQueue(x) => past.asked[x] = signals[x] /\ signals[x] \cap aborted = {}
  BY <1>1 DEF ApprovalsInv, QueueOK
<1>6. SUFFICES /\ QueueOK' /\ ApprovalShown' /\ live' \in LiveType
               /\ live'.questions = live.questions /\ live'.record = live.record
               /\ queue' \in [Approvals -> 0..MaxAsks]
               /\ signals' \in [Approvals -> SUBSET Signals]
               /\ decision' \in [Approvals -> {"none", "waiting"} \cup Decisions]
  <2>1. TypeOK'
    BY <1>1, <1>2, <1>3, <1>6 DEF TypeOK, LiveType
  <2>2. QuestionsInv'
    BY <1>1, <1>3, <1>6, QuestionsStay
  <2>. QED  BY <1>4, <1>6, <2>1, <2>2 DEF IInv, ApprovalsInv
<1>7. CASE (ss \cap aborted # {} \/ turn.canceled) /\ InQueue(r)
  <2>1. Settles({r}, "deny")
    BY <1>3, <1>7 DEF WaitForDecision
  <2>. QED  BY <1>1, <1>2, <1>3, <1>5, <2>1, SettlesKeeps
<1>8. CASE (ss \cap aborted # {} \/ turn.canceled) /\ ~InQueue(r)
  <2>1. decision' = [decision EXCEPT ![r] = "deny"] /\ UNCHANGED <<queue, signals, live>>
    BY <1>3, <1>8 DEF WaitForDecision
  <2>2. QueueOK'
    BY <1>1, <1>2, <1>3, <1>5, <1>8, <2>1 DEF ApprovalsInv, QueueOK, InQueue, EmptyQueue, Queues
  <2>3. ApprovalShown'
    BY <1>1, <1>3, <2>1 DEF ApprovalsInv, ApprovalShown, Running, HeadOf, Pendings
  <2>. QED  BY <1>1, <2>1, <2>2, <2>3
<1>9. CASE ~(ss \cap aborted # {} \/ turn.canceled) /\ InQueue(r)
  <2>1. signals' = [signals EXCEPT ![r] = @ \cup ss] /\ UNCHANGED <<queue, decision, live>>
    BY <1>3, <1>9 DEF WaitForDecision, Shares
  <2>2. signals'[r] = signals[r] \cup ss /\ \A x \in Approvals : x # r => signals'[x] = signals[x]
    BY <1>1, <2>1
  <2>3. \A x \in Approvals : InQueue(x)' => past'.asked[x] = signals'[x] /\ signals'[x] \cap aborted' = {}
    BY <1>2, <1>3, <1>5, <1>9, <2>1, <2>2 DEF InQueue
  <2>4. QueueOK'
    BY <1>1, <1>3, <2>1, <2>3 DEF ApprovalsInv, QueueOK, InQueue, EmptyQueue, Queues
  <2>5. ApprovalShown'
    BY <1>1, <1>3, <2>1 DEF ApprovalsInv, ApprovalShown, Running, HeadOf, Pendings
  <2>. QED  BY <1>1, <2>1, <2>4, <2>5
<1>10. CASE ~(ss \cap aborted # {} \/ turn.canceled) /\ ~InQueue(r)
  <2>1. /\ queue' = [queue EXCEPT ![r] = asks + 1] /\ decision' = [decision EXCEPT ![r] = "waiting"]
        /\ signals' = [signals EXCEPT ![r] = ss]
        /\ live' = IF queue = EmptyQueue THEN [live EXCEPT !.approval = r] ELSE live
    BY <1>3, <1>10 DEF WaitForDecision, Waits
  <2>2. /\ queue'[r] = asks + 1 /\ signals'[r] = ss
        /\ \A x \in Approvals : x # r => queue'[x] = queue[x] /\ signals'[x] = signals[x]
        /\ queue' \in [Approvals -> 0..MaxAsks] /\ queue' \in Queues
    BY <1>1, <2>1 DEF Queues
  <2>3. \A x \in Approvals : queue[x] <= asks /\ queue[x] \in Nat
    BY <1>1 DEF ApprovalsInv, QueueOK, Queues
  <2>4. Distinct(queue) /\ Distinct(queue')
    <3>1. Distinct(queue)
      BY <1>1 DEF ApprovalsInv, QueueOK, InQueue, Distinct
    <3>. QED  BY <1>1, <2>2, <2>3, <3>1 DEF Distinct
  <2>5. QueueOK'
    <3>1. \A x \in Approvals : InQueue(x)' => past'.asked[x] = signals'[x] /\ signals'[x] \cap aborted' = {}
      BY <1>2, <1>3, <1>5, <1>10, <2>2 DEF InQueue
    <3>2. \A x \in Approvals : queue'[x] <= asks'
      BY <1>1, <1>3, <2>2, <2>3
    <3>. QED  BY <1>3, <1>10, <2>4, <3>1, <3>2 DEF QueueOK, InQueue, Distinct
  <2>6. ApprovalShown' /\ live' \in LiveType /\ live'.questions = live.questions /\ live'.record = live.record
    <3>1. CASE queue = EmptyQueue
      <4>1. First(queue', r)
        BY <1>1, <2>2, <3>1 DEF First, Pendings, EmptyQueue
      <4>2. HeadOf(queue') = r
        BY <2>2, <2>4, <4>1, FirstIsHead
      <4>3. live'.approval = r /\ live' \in LiveType /\ live'.questions = live.questions /\ live'.record = live.record
        BY <1>1, <2>1, <3>1 DEF LiveType
      <4>. QED  BY <1>1, <1>3, <4>2, <4>3 DEF ApprovalShown, Running, HeadOf, Pendings
    <3>2. CASE queue # EmptyQueue
      <4>1. Pendings(queue) # {}
        BY <1>1, <3>2, EmptyHead
      <4>2. First(queue, HeadOf(queue))
        BY <1>1, <4>1, HeadIsFirst
      <4>3. First(queue', HeadOf(queue))
        BY <1>1, <1>10, <2>2, <2>3, <4>2 DEF First, Pendings, InQueue
      <4>4. HeadOf(queue') = HeadOf(queue)
        BY <2>2, <2>4, <4>3, FirstIsHead
      <4>5. live' = live /\ live.approval = HeadOf(queue)
        BY <1>1, <2>1, <3>2 DEF ApprovalsInv, ApprovalShown
      <4>. QED  BY <1>1, <1>3, <4>4, <4>5 DEF ApprovalShown, Running, HeadOf, Pendings
    <3>. QED  BY <3>1, <3>2
  <2>. QED  BY <1>1, <2>1, <2>2, <2>5, <2>6
<1>. QED  BY <1>7, <1>8, <1>9, <1>10

(* A signal aborts.                                                         *)
LEMMA SignalAbortsKeeps ==
  ASSUME IInv, NEW ss \in SUBSET Signals, SignalAborts(ss)
  PROVE  IInv'
<1>. DEFINE rs == {r \in Approvals : signals[r] \cap ss # {}}
<1>1. TypeOK /\ ApprovalsInv /\ QuestionsInv /\ rs \in SUBSET Approvals /\ "deny" \in Decisions
  BY DEF IInv, Decisions
<1>2. /\ UNCHANGED <<turn, clicks, question, input, saved, history, asks, past>>
      /\ Settles(rs, "deny") /\ aborted' = aborted \cup ss
  BY DEF SignalAborts
<1>3. \A r \in Approvals \ rs : InQueue(r) =>
        past'.asked[r] = past.asked[r] /\ signals[r] \cap aborted' = {}
  BY <1>1, <1>2 DEF ApprovalsInv, QueueOK
<1>. HIDE DEF rs
<1>4. /\ QueueOK' /\ ApprovalShown'
      /\ live' \in LiveType /\ live'.questions = live.questions /\ live'.record = live.record
      /\ queue' \in [Approvals -> 0..MaxAsks]
      /\ signals' \in [Approvals -> SUBSET Signals]
      /\ decision' \in [Approvals -> {"none", "waiting"} \cup Decisions]
  BY <1>1, <1>2, <1>3, SettlesKeeps
<1>5. TypeOK'
  BY <1>1, <1>2, <1>4 DEF TypeOK, LiveType
<1>6. QuestionsInv'
  BY <1>1, <1>2, <1>4, QuestionsStay
<1>7. ClicksOK'
  BY <1>1, <1>2 DEF ApprovalsInv, ClicksOK
<1>. QED  BY <1>4, <1>5, <1>6, <1>7 DEF IInv, ApprovalsInv

(* The user decides what is shown.                                          *)
LEMMA ClickKeeps ==
  ASSUME IInv, NEW r \in Approvals, NEW d \in Decisions, Click(r, d)
  PROVE  IInv'
<1>1. /\ TypeOK /\ ApprovalsInv /\ QuestionsInv
      /\ past \in [approved : SUBSET Approvals, asked : [Approvals -> SUBSET Signals]]
  BY DEF IInv, TypeOK
<1>2. /\ UNCHANGED <<turn, queue, signals, decision, aborted, question, input, live, saved, history, asks>>
      /\ clicks' = clicks \cup {[request |-> r, decision |-> d]}
      /\ past' = IF d = "approve" THEN [past EXCEPT !.approved = @ \cup {r}] ELSE past
  BY DEF Click
<1>3. /\ past' \in [approved : SUBSET Approvals, asked : [Approvals -> SUBSET Signals]]
      /\ past'.asked = past.asked /\ past.approved \subseteq past'.approved
      /\ d = "approve" => r \in past'.approved
  BY <1>1, <1>2
<1>4. TypeOK'
  BY <1>1, <1>2, <1>3 DEF TypeOK
<1>5. QuestionsInv'
  BY <1>1, <1>2, QuestionsStay
<1>6. ClicksOK'
  BY <1>1, <1>2, <1>3 DEF ApprovalsInv, ClicksOK
<1>7. QueueOK' /\ ApprovalShown'
  BY <1>1, <1>2, <1>3 DEF ApprovalsInv, QueueOK, ApprovalShown, InQueue, EmptyQueue, Running,
     HeadOf, Pendings
<1>. QED  BY <1>4, <1>5, <1>6, <1>7 DEF IInv, ApprovalsInv

(* The decision arrives.                                                    *)
LEMMA ResolveApprovalKeeps ==
  ASSUME IInv, NEW c \in clicks, ResolveApproval(c)
  PROVE  IInv'
<1>1. /\ TypeOK /\ ApprovalsInv /\ QuestionsInv
      /\ c.request \in Approvals /\ c.decision \in Decisions
  BY DEF IInv, TypeOK
<1>2. /\ UNCHANGED <<turn, aborted, question, input, saved, history, asks, past>>
      /\ clicks' = clicks \ {c}
      /\ IF DecidesHead(c) THEN Settles({HeadOf(queue)}, c.decision)
         ELSE UNCHANGED <<queue, decision, signals, live>>
  BY DEF ResolveApproval
<1>3. ClicksOK'
  BY <1>1, <1>2 DEF ApprovalsInv, ClicksOK
<1>4. CASE DecidesHead(c)
  <2>1. {HeadOf(queue)} \in SUBSET Approvals /\ Settles({HeadOf(queue)}, c.decision)
    BY <1>1, <1>2, <1>4 DEF DecidesHead
  <2>2. \A r \in Approvals \ {HeadOf(queue)} : InQueue(r) =>
          past'.asked[r] = past.asked[r] /\ signals[r] \cap aborted' = {}
    BY <1>1, <1>2 DEF ApprovalsInv, QueueOK
  <2>3. /\ QueueOK' /\ ApprovalShown'
        /\ live' \in LiveType /\ live'.questions = live.questions /\ live'.record = live.record
        /\ queue' \in [Approvals -> 0..MaxAsks]
        /\ signals' \in [Approvals -> SUBSET Signals]
        /\ decision' \in [Approvals -> {"none", "waiting"} \cup Decisions]
    BY <1>1, <1>2, <2>1, <2>2, SettlesKeeps
  <2>4. TypeOK'
    BY <1>1, <1>2, <2>3 DEF TypeOK, LiveType
  <2>5. QuestionsInv'
    BY <1>1, <1>2, <2>3, QuestionsStay
  <2>. QED  BY <1>3, <2>3, <2>4, <2>5 DEF IInv, ApprovalsInv
<1>5. CASE ~DecidesHead(c)
  <2>1. UNCHANGED <<queue, decision, signals, live>>
    BY <1>2, <1>5
  <2>2. TypeOK'
    BY <1>1, <1>2, <2>1 DEF TypeOK
  <2>3. QuestionsInv'
    BY <1>1, <1>2, <2>1, QuestionsStay
  <2>4. QueueOK' /\ ApprovalShown'
    BY <1>1, <1>2, <2>1 DEF ApprovalsInv, QueueOK, ApprovalShown, InQueue, EmptyQueue, Running,
       HeadOf, Pendings
  <2>. QED  BY <1>3, <2>2, <2>3, <2>4 DEF IInv, ApprovalsInv
<1>. QED  BY <1>4, <1>5

-----------------------------------------------------------------------------
(* The steps of the questions.                                              *)

(* What expiry does to a question.                                          *)
LEMMA ExpiryFacts ==
  ASSUME TypeOK, NEW qs \in SUBSET Questions
  PROVE  /\ Expired(qs) \in [Questions -> AskedType] /\ ExpiredLive(qs) \in LiveType
         /\ ExpiredLive(qs).approval = live.approval
         /\ ExpiredLive(qs).questions = live.questions \ {q \in qs : Pending(q)}
         /\ \A q \in Questions :
              IF q \in qs /\ Pending(q)
              THEN /\ Expired(qs)[q].expired /\ Expired(qs)[q].turn = question[q].turn
                   /\ Expired(qs)[q].state = (IF Open(q) THEN "settled" ELSE question[q].state)
                   /\ ExpiredLive(qs).record[q] = "expired"
              ELSE Expired(qs)[q] = question[q] /\ ExpiredLive(qs).record[q] = live.record[q]
<1>1. question \in [Questions -> AskedType] /\ live \in LiveType
  BY Types
<1>2. Expired(qs) \in [Questions -> AskedType]
  <2>1. ASSUME NEW q \in Questions
        PROVE  [question[q] EXCEPT !.expired = TRUE, !.state = IF Open(q) THEN "settled" ELSE @] \in AskedType
    BY <1>1 DEF AskedType
  <2>. QED  BY <1>1, <2>1 DEF Expired
<1>3. ASSUME NEW gone \in SUBSET Questions
      PROVE  Records(gone, "expired") \in [Questions -> Statuses]
  BY <1>1 DEF Records, LiveType, Statuses
<1>4. /\ ExpiredLive(qs) \in LiveType /\ ExpiredLive(qs).approval = live.approval
      /\ ExpiredLive(qs).questions = live.questions \ {q \in qs : Pending(q)}
      /\ ExpiredLive(qs).record = Records({q \in qs : Pending(q)}, "expired")
  BY <1>1, <1>3 DEF ExpiredLive, LiveType
<1>5. ASSUME NEW q \in Questions
      PROVE  IF q \in qs /\ Pending(q)
             THEN /\ Expired(qs)[q].expired /\ Expired(qs)[q].turn = question[q].turn
                  /\ Expired(qs)[q].state = (IF Open(q) THEN "settled" ELSE question[q].state)
                  /\ ExpiredLive(qs).record[q] = "expired"
             ELSE Expired(qs)[q] = question[q] /\ ExpiredLive(qs).record[q] = live.record[q]
  BY <1>1, <1>4 DEF Expired, Records, AskedType
<1>. QED  BY <1>2, <1>4, <1>5

(* Expiry leaves what is known of the questions true, while a turn runs.    *)
LEMMA ExpiryKeeps ==
  ASSUME TypeOK, QuestionsInv, NEW qs \in SUBSET Questions, question' = Expired(qs),
         live'.questions = ExpiredLive(qs).questions, live'.record = ExpiredLive(qs).record,
         UNCHANGED <<input, saved, history>>, turn'.n = turn.n, Running, Running',
         turn'.phase = turn.phase \/ (qs = Questions /\ turn'.phase = "settling")
  PROVE  QuestionsInv'
<1>1. \A q \in Questions : QuestionOK(q) /\ RecordOK(q) /\ question[q] \in AskedType
  BY Types DEF QuestionsInv
<1>2. ASSUME NEW q \in Questions
      PROVE  /\ Pending(q)' => Pending(q)
             /\ q \in qs /\ Pending(q) => question'[q].expired /\ ~Open(q)' /\ live'.record[q] = "expired"
             /\ question'[q].turn = question[q].turn
             /\ ~(q \in qs /\ Pending(q)) => question'[q] = question[q] /\ live'.record[q] = live.record[q]
             /\ question'[q].state = question[q].state \/ (Open(q) /\ question'[q].state = "settled")
  BY <1>1, ExpiryFacts DEF Pending, Open, Sending
<1>3. ASSUME NEW q \in Questions PROVE QuestionOK(q)' /\ RecordOK(q)'
  <2>1. QuestionOK(q)'
    BY <1>1, <1>2 DEF QuestionOK, Pending, Open, Sending
  <2>2. RecordOK(q)'
    BY <1>1, <1>2 DEF QuestionOK, RecordOK, Pending, Open, Sending, Running
  <2>. QED  BY <2>1, <2>2
<1>4. live.questions = ShownOf(question)
  BY DEF QuestionsInv, QuestionsShown
<1>5. live'.questions = ShownOf(question')
  <2>1. live'.questions = live.questions \ {q \in qs : Pending(q)}
    BY ExpiryFacts
  <2>2. ASSUME NEW q \in Questions
        PROVE  q \in ShownOf(question') <=> q \in ShownOf(question) /\ ~(q \in qs /\ Pending(q))
    BY <1>1, <1>2 DEF ShownOf, Pending, Open, Sending
  <2>3. ShownOf(question) \subseteq Questions /\ ShownOf(question') \subseteq Questions
    BY DEF ShownOf
  <2>. QED  BY <1>4, <2>1, <2>2, <2>3
<1>. QED  BY <1>3, <1>5 DEF QuestionsInv, QuestionsShown, ShownOf

(* A step that concerns one question of a running turn.                     *)
LEMMA OneQuestion ==
  ASSUME QuestionsInv, Running, UNCHANGED <<turn, history>>, NEW q \in Questions,
         \A x \in Questions \ {q} :
            /\ question'[x] = question[x] /\ live'.record[x] = live.record[x]
            /\ x \in saved' <=> x \in saved
            /\ input'.by = x <=> input.by = x
            /\ x \in live'.questions <=> x \in live.questions,
         live'.questions \subseteq Questions, q \in live'.questions <=> q \in ShownOf(question'),
         QuestionOK(q)', RecordOK(q)'
  PROVE  QuestionsInv'
<1>1. ASSUME NEW x \in Questions \ {q} PROVE QuestionOK(x)' /\ RecordOK(x)'
  BY DEF QuestionsInv, QuestionOK, RecordOK, Running, Pending, Open, Sending
<1>2. live.questions = ShownOf(question)
  BY DEF QuestionsInv, QuestionsShown
<1>3. ASSUME NEW x \in Questions PROVE x \in live'.questions <=> x \in ShownOf(question')
  BY <1>2 DEF ShownOf
<1>4. live'.questions = ShownOf(question')
  BY <1>3 DEF ShownOf
<1>. QED  BY <1>1, <1>4 DEF QuestionsInv, QuestionsShown, Running, ShownOf

(* What is known of a question before a step.                               *)
LEMMA Known ==
  ASSUME IInv, NEW q \in Questions
  PROVE  /\ QuestionOK(q) /\ RecordOK(q) /\ question[q] \in AskedType
         /\ Pending(q) => Running
         /\ Running => live.questions = ShownOf(question)
BY Types DEF IInv, QuestionsInv, QuestionsShown

(* The provider asks.                                                       *)
LEMMA AskQuestionKeeps ==
  ASSUME IInv, NEW q \in Questions, AskQuestion(q)
  PROVE  IInv'
<1>1. /\ TypeOK /\ ApprovalsInv /\ QuestionsInv /\ live \in LiveType /\ turn \in TurnType
      /\ question \in [Questions -> AskedType]
  BY Types DEF IInv
<1>2. /\ UNCHANGED <<turn, queue, signals, decision, aborted, clicks, input, saved, history, asks, past>>
      /\ turn.phase = "running" /\ question[q].state = "none" /\ Running
  BY DEF AskQuestion, Running
<1>3. CASE turn.canceled
  <2>1. UNCHANGED <<question, live>>
    BY <1>3 DEF AskQuestion
  <2>2. TypeOK' /\ QuestionsInv' /\ ApprovalsInv'
    BY <1>1, <1>2, <2>1, QuestionsStay, ApprovalsStay DEF TypeOK, Running
  <2>. QED  BY <2>2 DEF IInv
<1>4. CASE ~turn.canceled
  <2>1. /\ question' = [question EXCEPT ![q] = [state |-> "open", expired |-> FALSE, turn |-> turn.n]]
        /\ live' = [live EXCEPT !.questions = @ \cup {q}, !.record = Records({q}, "pending")]
    BY <1>4 DEF AskQuestion
  <2>2. /\ question' \in [Questions -> AskedType]
        /\ question'[q] = [state |-> "open", expired |-> FALSE, turn |-> turn.n]
        /\ \A x \in Questions \ {q} : question'[x] = question[x]
    BY <1>1, <2>1 DEF AskedType, TurnType
  <2>3. /\ live' \in LiveType /\ live'.approval = live.approval
        /\ live'.questions = live.questions \cup {q} /\ live'.record[q] = "pending"
        /\ \A x \in Questions \ {q} : live'.record[x] = live.record[x]
    BY <1>1, <2>1 DEF LiveType, Records, Statuses
  <2>4. TypeOK'
    BY <1>1, <1>2, <2>2, <2>3 DEF TypeOK, LiveType, AskedType
  <2>5. ApprovalsInv'
    BY <1>1, <1>2, <2>3, ApprovalsStay DEF Running
  <2>6. QuestionOK(q)' /\ RecordOK(q)'
    BY <1>1, <1>2, <2>2, <2>3, Known DEF QuestionOK, RecordOK, Pending, Open, Sending, TurnType
  <2>7. live'.questions \subseteq Questions /\ (q \in live'.questions <=> q \in ShownOf(question'))
    BY <1>1, <2>2, <2>3 DEF ShownOf, LiveType
  <2>8. QuestionsInv'
    BY <1>1, <1>2, <2>2, <2>3, <2>6, <2>7, OneQuestion
  <2>. QED  BY <2>4, <2>5, <2>8 DEF IInv
<1>. QED  BY <1>3, <1>4

(* A question that is answered, refused or given up.                        *)
LEMMA SettlesQuestionKeeps ==
  ASSUME IInv, NEW q \in Questions, NEW status \in Statuses, Pending(q), SettlesQuestion(q, status),
         UNCHANGED <<turn, queue, signals, decision, aborted, clicks, input, history, asks, past>>,
         saved' \in {saved, saved \cup {q}}, question[q].state # "sent",
         status = "answered" <=> q \in saved'
  PROVE  IInv'
<1>1. /\ TypeOK /\ ApprovalsInv /\ QuestionsInv /\ live \in LiveType /\ turn \in TurnType
      /\ question \in [Questions -> AskedType]
  BY Types DEF IInv
<1>2. /\ question' \in [Questions -> AskedType]
      /\ question'[q].state = "settled" /\ question'[q].turn = question[q].turn
      /\ \A x \in Questions \ {q} : question'[x] = question[x]
  BY <1>1 DEF SettlesQuestion, AskedType
<1>3. /\ live' \in LiveType /\ live'.approval = live.approval
      /\ live'.questions = live.questions \ {q} /\ live'.record[q] = status
      /\ \A x \in Questions \ {q} : live'.record[x] = live.record[x]
  BY <1>1 DEF SettlesQuestion, LiveType, Records
<1>4. TypeOK'
  BY <1>1, <1>2, <1>3 DEF TypeOK, LiveType, AskedType
<1>5. ApprovalsInv'
  BY <1>1, <1>3, ApprovalsStay DEF Running
<1>6. Running /\ QuestionOK(q) /\ RecordOK(q)
  BY Known
<1>7. QuestionOK(q)' /\ RecordOK(q)'
  BY <1>1, <1>2, <1>3, <1>6 DEF QuestionOK, RecordOK, Pending, Open, Sending, Running
<1>8. live'.questions \subseteq Questions /\ (q \in live'.questions <=> q \in ShownOf(question'))
  BY <1>1, <1>2, <1>3 DEF ShownOf, LiveType
<1>9. QuestionsInv'
  BY <1>1, <1>2, <1>3, <1>6, <1>7, <1>8, OneQuestion
<1>. QED  BY <1>4, <1>5, <1>9 DEF IInv

(* A question whose answer goes one step further.                           *)
LEMMA MovesKeeps ==
  ASSUME IInv, NEW q \in Questions, Pending(q),
         NEW state \in {"open", "hop", "failed"}, question[q].state # "acked",
         question' = [question EXCEPT ![q].state = state],
         UNCHANGED <<turn, queue, signals, decision, aborted, clicks, live, saved, history, asks, past>>,
         state = "open" => turn.phase \notin {"settling", "saving"},
         state # "open" => q \in Async,
         input' \in InputType, input'.by # q, \A x \in Questions \ {q} : input'.by = x <=> input.by = x
  PROVE  IInv'
<1>1. /\ TypeOK /\ ApprovalsInv /\ QuestionsInv /\ live \in LiveType /\ turn \in TurnType
      /\ question \in [Questions -> AskedType]
  BY Types DEF IInv
<1>2. /\ question' \in [Questions -> AskedType]
      /\ question'[q].state = state /\ question'[q].turn = question[q].turn
      /\ question'[q].expired = question[q].expired
      /\ \A x \in Questions \ {q} : question'[x] = question[x]
  BY <1>1 DEF AskedType
<1>3. TypeOK'
  BY <1>1, <1>2 DEF TypeOK, AskedType, InputType
<1>4. ApprovalsInv'
  BY <1>1, ApprovalsStay DEF Running
<1>5. Running /\ QuestionOK(q) /\ RecordOK(q) /\ live.questions = ShownOf(question)
  BY Known
<1>6. QuestionOK(q)' /\ RecordOK(q)'
  BY <1>1, <1>2, <1>5 DEF QuestionOK, RecordOK, Pending, Open, Sending, Running
<1>7. live'.questions \subseteq Questions /\ (q \in live'.questions <=> q \in ShownOf(question'))
  BY <1>1, <1>2, <1>5 DEF ShownOf, LiveType, Pending, Open, Sending
<1>8. QuestionsInv'
  BY <1>1, <1>2, <1>5, <1>6, <1>7, OneQuestion
<1>. QED  BY <1>3, <1>4, <1>8 DEF IInv

(* The user answers or refuses.                                             *)
LEMMA ResolveQuestionKeeps ==
  ASSUME IInv, NEW q \in Questions, NEW status \in {"answered", "declined", "canceled"},
         ResolveQuestion(q, status)
  PROVE  IInv'
<1>1. /\ Open(q) /\ SettlesQuestion(q, status)
      /\ saved' = IF status = "answered" THEN saved \cup {q} ELSE saved
      /\ UNCHANGED <<turn, queue, signals, decision, aborted, clicks, input, history, asks, past>>
  BY DEF ResolveQuestion
<1>2. Pending(q) /\ question[q].state = "open" /\ status \in Statuses
  BY <1>1 DEF Pending, Open, Statuses
<1>3. q \notin saved
  BY <1>2, Known DEF QuestionOK
<1>. QED  BY <1>1, <1>2, <1>3, SettlesQuestionKeeps

(* The user's answer will go out as a message.                              *)
LEMMA AnswerAsyncKeeps ==
  ASSUME IInv, NEW q \in Questions, AnswerAsync(q)
  PROVE  IInv'
<1>1. /\ Open(q) /\ q \in Async /\ question' = [question EXCEPT ![q].state = "hop"]
      /\ UNCHANGED <<turn, queue, signals, decision, aborted, clicks, input, live, saved, history, asks, past>>
  BY DEF AnswerAsync
<1>2. Pending(q) /\ question[q].state = "open"
  BY <1>1 DEF Pending, Open
<1>3. input \in InputType /\ input.by # q
  BY <1>2, Known, Types DEF QuestionOK, IInv
<1>. QED  BY <1>1, <1>2, <1>3, MovesKeeps

(* The answer goes out, or is refused.                                      *)
LEMMA SendAnswerKeeps ==
  ASSUME IInv, NEW q \in Questions, SendAnswer(q)
  PROVE  IInv'
<1>1. /\ question[q].state = "hop"
      /\ UNCHANGED <<turn, queue, signals, decision, aborted, clicks, live, saved, history, asks, past>>
  BY DEF SendAnswer
<1>2. /\ TypeOK /\ ApprovalsInv /\ QuestionsInv /\ live \in LiveType /\ turn \in TurnType
      /\ question \in [Questions -> AskedType] /\ input \in InputType
  BY Types DEF IInv
<1>3. Pending(q) /\ Running /\ QuestionOK(q) /\ RecordOK(q) /\ live.questions = ShownOf(question)
  BY <1>1, Known DEF Pending, Sending
<1>4. input.by # q /\ q \in Async
  BY <1>1, <1>3 DEF QuestionOK, Sending
<1>5. CASE question' = [question EXCEPT ![q].state = "failed"] /\ UNCHANGED input
  BY <1>1, <1>2, <1>3, <1>4, <1>5, MovesKeeps
<1>6. CASE /\ ~question[q].expired /\ input = NoInput
           /\ question' = [question EXCEPT ![q].state = "sent"]
           /\ input' = [by |-> q, turn |-> turn.n, stage |-> "preparing"]
  <2>1. /\ question' \in [Questions -> AskedType]
        /\ question'[q].state = "sent" /\ question'[q].turn = question[q].turn
        /\ question'[q].expired = question[q].expired
        /\ \A x \in Questions \ {q} : question'[x] = question[x]
    BY <1>2, <1>6 DEF AskedType
  <2>2. TypeOK'
    BY <1>1, <1>2, <1>6, <2>1 DEF TypeOK, AskedType, TurnType
  <2>3. ApprovalsInv'
    BY <1>1, <1>2, ApprovalsStay DEF Running
  <2>4. QuestionOK(q)' /\ RecordOK(q)'
    BY <1>1, <1>2, <1>3, <1>4, <1>6, <2>1 DEF QuestionOK, RecordOK, Pending, Open, Sending, Running
  <2>5. live'.questions \subseteq Questions /\ (q \in live'.questions <=> q \in ShownOf(question'))
    BY <1>1, <1>2, <1>3, <2>1 DEF ShownOf, LiveType
  <2>6. \A x \in Questions \ {q} : input'.by = x <=> input.by = x
    BY <1>6, RequestsAssumption DEF NoInput
  <2>7. QuestionsInv'
    BY <1>1, <1>2, <1>3, <2>1, <2>4, <2>5, <2>6, OneQuestion
  <2>. QED  BY <2>2, <2>3, <2>7 DEF IInv
<1>. QED  BY <1>5, <1>6 DEF SendAnswer

(* The answer could not be sent.                                            *)
LEMMA AnswerFailsKeeps ==
  ASSUME IInv, NEW q \in Questions, AnswerFails(q)
  PROVE  IInv'
<1>1. /\ question[q].state = "failed"
      /\ IF question[q].expired THEN SettlesQuestion(q, "expired")
         ELSE question' = [question EXCEPT ![q].state = "open"] /\ UNCHANGED live
      /\ UNCHANGED <<turn, queue, signals, decision, aborted, clicks, input, saved, history, asks, past>>
  BY DEF AnswerFails
<1>2. Pending(q) /\ QuestionOK(q) /\ input \in InputType
  BY <1>1, Known, Types DEF Pending, Sending, IInv
<1>3. q \notin saved /\ input.by # q
  BY <1>1, <1>2 DEF QuestionOK
<1>4. CASE question[q].expired
  <2>1. "expired" \in Statuses /\ SettlesQuestion(q, "expired")
    BY <1>1, <1>4 DEF Statuses
  <2>. QED  BY <1>1, <1>2, <1>3, <2>1, SettlesQuestionKeeps
<1>5. CASE ~question[q].expired
  <2>1. turn.phase \notin {"settling", "saving"}
    BY <1>2, <1>5 DEF QuestionOK
  <2>. QED  BY <1>1, <1>2, <1>3, <1>5, <2>1, MovesKeeps
<1>. QED  BY <1>4, <1>5

(* The answer was stored, and the question is over.                         *)
LEMMA AnswerSettlesKeeps ==
  ASSUME IInv, NEW q \in Questions, AnswerSettles(q)
  PROVE  IInv'
<1>1. /\ question[q].state = "acked" /\ SettlesQuestion(q, "answered")
      /\ UNCHANGED <<turn, queue, signals, decision, aborted, clicks, input, saved, history, asks, past>>
  BY DEF AnswerSettles
<1>2. Pending(q) /\ q \in saved /\ "answered" \in Statuses
  BY <1>1, Known DEF QuestionOK, Pending, Sending, Statuses
<1>. QED  BY <1>1, <1>2, SettlesQuestionKeeps

(* A native question is withdrawn.                                          *)
LEMMA QuestionAbortsKeeps ==
  ASSUME IInv, NEW q \in Questions, QuestionAborts(q)
  PROVE  IInv'
<1>1. /\ TypeOK /\ ApprovalsInv /\ QuestionsInv /\ Running /\ {q} \in SUBSET Questions
  BY Known DEF IInv, QuestionAborts
<1>2. /\ question' = Expired({q}) /\ live' = ExpiredLive({q})
      /\ UNCHANGED <<turn, queue, signals, decision, aborted, clicks, input, saved, history, asks, past>>
  BY DEF QuestionAborts
<1>3. question' \in [Questions -> AskedType] /\ live' \in LiveType /\ live'.approval = live.approval
  BY <1>1, <1>2, ExpiryFacts
<1>4. TypeOK'
  BY <1>1, <1>2, <1>3 DEF TypeOK, LiveType, AskedType
<1>5. ApprovalsInv'
  BY <1>1, <1>2, <1>3, ApprovalsStay DEF Running
<1>6. QuestionsInv'
  BY <1>1, <1>2, ExpiryKeeps DEF Running
<1>. QED  BY <1>4, <1>5, <1>6 DEF IInv

-----------------------------------------------------------------------------
(* The steps of the inputs.                                                 *)

(* An input that answers no question, or whose question waits on.           *)
LEMMA InputMovesKeeps ==
  ASSUME IInv, input' \in InputType, \A x \in Questions : input'.by = x <=> input.by = x,
         UNCHANGED <<turn, queue, signals, decision, aborted, clicks, question, live, saved, history,
                     asks, past>>
  PROVE  IInv'
<1>1. TypeOK /\ ApprovalsInv /\ QuestionsInv
  BY DEF IInv
<1>2. TypeOK'
  BY <1>1 DEF TypeOK, InputType
<1>3. ApprovalsInv'
  BY <1>1, ApprovalsStay DEF Running
<1>4. QuestionsShown'
  BY <1>1 DEF QuestionsInv, QuestionsShown, Running, ShownOf, Pending, Open, Sending
<1>5. ASSUME NEW q \in Questions PROVE QuestionOK(q)' /\ RecordOK(q)'
  BY <1>1 DEF QuestionsInv, QuestionOK, RecordOK, Running, Pending, Open, Sending
<1>. QED  BY <1>2, <1>3, <1>4, <1>5 DEF IInv, QuestionsInv

(* The user sends a message of the chat.                                    *)
LEMMA ChatInputKeeps ==
  ASSUME IInv, ChatInput
  PROVE  IInv'
<1>1. turn \in TurnType /\ input = NoInput /\ input' = [by |-> "chat", turn |-> turn.n, stage |-> "preparing"]
  BY Types DEF IInv, ChatInput
<1>2. input' \in InputType /\ \A x \in Questions : input'.by = x <=> input.by = x
  BY <1>1, RequestsAssumption DEF InputType, TurnType, NoInput
<1>. QED  BY <1>2, InputMovesKeeps DEF ChatInput

(* The input goes to the provider.                                          *)
LEMMA InputDispatchesKeeps ==
  ASSUME IInv, InputDispatches
  PROVE  IInv'
<1>1. input \in InputType /\ input' = [input EXCEPT !.stage = "dispatched"]
  BY Types DEF IInv, InputDispatches
<1>2. input' \in InputType /\ input'.by = input.by
  BY <1>1 DEF InputType
<1>. QED  BY <1>2, InputMovesKeeps DEF InputDispatches

(* The provider takes it.                                                   *)
LEMMA InputAcceptedKeeps ==
  ASSUME IInv, InputAccepted
  PROVE  IInv'
<1>1. input \in InputType /\ input' = [input EXCEPT !.stage = "storing"]
  BY Types DEF IInv, InputAccepted
<1>2. input' \in InputType /\ input'.by = input.by
  BY <1>1 DEF InputType
<1>. QED  BY <1>2, InputMovesKeeps DEF InputAccepted

(* No input is the input of no question.                                    *)
LEMMA NoInputFacts ==
  NoInput \in InputType /\ \A x \in Questions : NoInput.by # x
BY RequestsAssumption DEF NoInput, InputType

(* The input fails, and the question it answered learns it.                 *)
LEMMA InputFailsKeeps ==
  ASSUME IInv, InputFails
  PROVE  IInv'
<1>1. /\ input' = NoInput /\ InputOver("failed")
      /\ UNCHANGED <<turn, queue, signals, decision, aborted, clicks, live, saved, history, asks, past>>
  BY DEF InputFails, InputOver
<1>2. CASE input.by \notin Questions
  <2>1. UNCHANGED question
    BY <1>1, <1>2 DEF InputOver
  <2>. QED  BY <1>1, <1>2, <2>1, NoInputFacts, InputMovesKeeps
<1>3. CASE input.by \in Questions
  <2>. PICK q \in Questions : q = input.by
    BY <1>3
  <2>1. QuestionOK(q) /\ q \in Questions
    BY <1>3, Known
  <2>2. question[q].state = "sent" /\ Pending(q) /\ q \in Async
    BY <2>1 DEF QuestionOK, Pending, Sending
  <2>3. question' = [question EXCEPT ![q].state = "failed"]
    BY <1>1, <1>3, <2>2 DEF InputOver
  <2>4. /\ input' \in InputType /\ input'.by # q
        /\ \A x \in Questions \ {q} : input'.by = x <=> input.by = x
    BY <1>1, <1>3, NoInputFacts
  <2>. QED  BY <1>1, <2>1, <2>2, <2>3, <2>4, MovesKeeps
<1>. QED  BY <1>2, <1>3

(* The input is stored, and the question it answered learns it.             *)
LEMMA InputStoredKeeps ==
  ASSUME IInv, InputStored
  PROVE  IInv'
<1>1. /\ input' = NoInput /\ InputOver("acked")
      /\ saved' = IF input.by \in Questions THEN saved \cup {input.by} ELSE saved
      /\ UNCHANGED <<turn, queue, signals, decision, aborted, clicks, live, history, asks, past>>
  BY DEF InputStored, InputOver
<1>2. CASE input.by \notin Questions
  <2>1. UNCHANGED <<question, saved>>
    BY <1>1, <1>2 DEF InputOver
  <2>. QED  BY <1>1, <1>2, <2>1, NoInputFacts, InputMovesKeeps
<1>3. CASE input.by \in Questions
  <2>. PICK q \in Questions : q = input.by
    BY <1>3
  <2>1. /\ QuestionOK(q) /\ RecordOK(q) /\ q \in Questions
        /\ TypeOK /\ ApprovalsInv /\ QuestionsInv /\ live \in LiveType
        /\ question \in [Questions -> AskedType]
    BY <1>3, Known, Types DEF IInv
  <2>2. question[q].state = "sent" /\ Pending(q) /\ q \in Async /\ Running
        /\ live.questions = ShownOf(question)
    <3>1. question[q].state = "sent" /\ Pending(q) /\ q \in Async
      BY <2>1 DEF QuestionOK, Pending, Sending
    <3>. QED  BY <2>1, <3>1, Known
  <2>3. question' = [question EXCEPT ![q].state = "acked"] /\ saved' = saved \cup {q}
    BY <1>1, <1>3, <2>2 DEF InputOver
  <2>4. /\ input' \in InputType /\ input'.by # q
        /\ \A x \in Questions \ {q} : input'.by = x <=> input.by = x
    BY <1>1, <1>3, NoInputFacts
  <2>5. /\ question' \in [Questions -> AskedType]
        /\ question'[q].state = "acked" /\ question'[q].turn = question[q].turn
        /\ question'[q].expired = question[q].expired
        /\ \A x \in Questions \ {q} : question'[x] = question[x]
    BY <2>1, <2>3 DEF AskedType
  <2>6. TypeOK'
    BY <1>1, <2>1, <2>3, <2>4, <2>5 DEF TypeOK, AskedType, InputType
  <2>7. ApprovalsInv'
    BY <1>1, <2>1, ApprovalsStay DEF Running
  <2>8. QuestionOK(q)' /\ RecordOK(q)'
    BY <1>1, <2>1, <2>2, <2>3, <2>4, <2>5 DEF QuestionOK, RecordOK, Pending, Open, Sending, Running
  <2>9. live'.questions \subseteq Questions /\ (q \in live'.questions <=> q \in ShownOf(question'))
    BY <1>1, <2>1, <2>2, <2>5 DEF ShownOf, LiveType
  <2>10. QuestionsInv'
    BY <1>1, <2>1, <2>2, <2>3, <2>4, <2>5, <2>8, <2>9, OneQuestion
  <2>. QED  BY <2>6, <2>7, <2>10 DEF IInv
<1>. QED  BY <1>2, <1>3

-----------------------------------------------------------------------------
(* The steps of the turn.                                                   *)

(* A turn starts with nothing pending.                                      *)
LEMMA TurnStartsKeeps ==
  ASSUME IInv, TurnStarts
  PROVE  IInv'
<1>1. /\ TypeOK /\ ApprovalsInv /\ QuestionsInv /\ turn \in TurnType
      /\ question \in [Questions -> AskedType] /\ queue \in Queues
  BY Types DEF IInv
<1>2. /\ turn.phase = "idle" /\ turn.n < MaxTurns /\ input = NoInput
      /\ turn' = [n |-> turn.n + 1, phase |-> "running", canceled |-> FALSE, accepts |-> TRUE]
      /\ live' = [approval |-> None, questions |-> {}, record |-> NoRecord] /\ history' = NoRecord
      /\ UNCHANGED <<queue, signals, decision, aborted, clicks, question, input, saved, asks, past>>
  BY DEF TurnStarts
<1>3. turn' \in TurnType /\ ~Running /\ Running'
  BY <1>1, <1>2, RequestsAssumption DEF TurnType, Running
<1>4. NoRecord \in [Questions -> Statuses]
  BY DEF NoRecord, Statuses
<1>5. TypeOK'
  BY <1>1, <1>2, <1>3, <1>4 DEF TypeOK, TurnType
<1>6. queue = EmptyQueue /\ \A q \in Questions : ~Pending(q)
  BY <1>1, <1>3 DEF ApprovalsInv, ApprovalShown, QuestionsInv, QuestionsShown
<1>7. ApprovalsInv'
  <2>1. QueueOK'
    BY <1>1, <1>2, <1>6 DEF ApprovalsInv, QueueOK, InQueue, EmptyQueue
  <2>2. ClicksOK'
    BY <1>1, <1>2 DEF ApprovalsInv, ClicksOK
  <2>3. HeadOf(queue') = None /\ live'.approval = None
    BY <1>2, <1>6, EmptyHead
  <2>4. ApprovalShown'
    BY <1>3, <2>3 DEF ApprovalShown, HeadOf, Pendings, Running
  <2>. QED  BY <2>1, <2>2, <2>4 DEF ApprovalsInv
<1>8. QuestionsInv'
  <2>1. ASSUME NEW q \in Questions PROVE QuestionOK(q)' /\ RecordOK(q)'
    <3>1. /\ QuestionOK(q) /\ question[q].turn < turn'.n
          /\ question[q].turn \in Nat /\ turn'.n \in Nat
      BY <1>1, <1>2 DEF QuestionsInv, QuestionOK, TurnType, AskedType
    <3>. QED  BY <1>2, <1>6, <3>1 DEF QuestionOK, RecordOK, Pending, Open, Sending
  <2>2. ShownOf(question') = {}
    BY <1>1, <1>2, <1>6 DEF ShownOf, Pending, Open, Sending, AskedType
  <2>3. QuestionsShown'
    BY <1>2, <1>3, <2>2 DEF QuestionsShown, ShownOf, Running
  <2>. QED  BY <2>1, <2>3 DEF QuestionsInv
<1>. QED  BY <1>5, <1>7, <1>8 DEF IInv

(* Expiry of questions beside a step of the turn.                           *)
LEMMA TurnExpiresKeeps ==
  ASSUME IInv, NEW qs \in SUBSET Questions, question' = Expired(qs), live' = ExpiredLive(qs),
         UNCHANGED <<queue, signals, decision, aborted, clicks, input, saved, history, asks, past>>,
         turn' \in TurnType, turn'.n = turn.n, turn'.canceled = turn.canceled, Running, Running',
         turn'.phase = turn.phase \/ (qs = Questions /\ turn'.phase = "settling")
  PROVE  IInv'
<1>1. TypeOK /\ ApprovalsInv /\ QuestionsInv
  BY DEF IInv
<1>2. question' \in [Questions -> AskedType] /\ live' \in LiveType /\ live'.approval = live.approval
  BY <1>1, ExpiryFacts
<1>3. TypeOK'
  BY <1>1, <1>2 DEF TypeOK, LiveType, AskedType, TurnType
<1>4. ApprovalsInv'
  BY <1>1, <1>2, ApprovalsStay
<1>5. QuestionsInv'
  BY <1>1, ExpiryKeeps
<1>. QED  BY <1>3, <1>4, <1>5 DEF IInv

(* The provider has said its last word.                                     *)
LEMMA ProviderCompletesKeeps ==
  ASSUME IInv, ProviderCompletes
  PROVE  IInv'
<1>1. /\ turn \in TurnType /\ turn.phase = "running" /\ turn' = [turn EXCEPT !.accepts = FALSE]
      /\ question' = Expired(Async) /\ live' = ExpiredLive(Async)
      /\ UNCHANGED <<queue, signals, decision, aborted, clicks, input, saved, history, asks, past>>
  BY Types DEF IInv, ProviderCompletes
<1>2. /\ turn' \in TurnType /\ turn'.n = turn.n /\ turn'.canceled = turn.canceled
      /\ turn'.phase = turn.phase /\ Running /\ Running'
  BY <1>1 DEF TurnType, Running
<1>3. Async \in SUBSET Questions
  BY RequestsAssumption
<1>. QED  BY <1>1, <1>2, <1>3, TurnExpiresKeeps

(* The input that was dispatched is over, and no question is open.          *)
LEMMA DrainedKeeps ==
  ASSUME IInv, Drained
  PROVE  IInv'
<1>1. /\ turn \in TurnType /\ turn.phase = "draining" /\ turn' = [turn EXCEPT !.phase = "settling"]
      /\ question' = Expired(Questions) /\ live' = ExpiredLive(Questions)
      /\ UNCHANGED <<queue, signals, decision, aborted, clicks, input, saved, history, asks, past>>
  BY Types DEF IInv, Drained
<1>2. /\ turn' \in TurnType /\ turn'.n = turn.n /\ turn'.canceled = turn.canceled
      /\ turn'.phase = "settling" /\ Running /\ Running'
  BY <1>1 DEF TurnType, Running
<1>3. Questions \in SUBSET Questions
  OBVIOUS
<1>. QED  BY <1>1, <1>2, <1>3, TurnExpiresKeeps

(* The provider's promise is settled.                                       *)
LEMMA ProviderEndsKeeps ==
  ASSUME IInv, ProviderEnds
  PROVE  IInv'
<1>1. /\ TypeOK /\ ApprovalsInv /\ QuestionsInv
      /\ turn \in TurnType /\ turn.phase = "running"
      /\ turn' = [turn EXCEPT !.phase = "draining", !.accepts = FALSE]
      /\ UNCHANGED <<queue, signals, decision, aborted, clicks, question, input, live, saved, history,
                     asks, past>>
  BY Types DEF IInv, ProviderEnds
<1>2. /\ turn' \in TurnType /\ turn'.n = turn.n /\ turn'.canceled = turn.canceled
      /\ turn'.phase = "draining" /\ Running /\ Running'
  BY <1>1 DEF TurnType, Running
<1>3. TypeOK'
  BY <1>1, <1>2 DEF TypeOK, TurnType
<1>4. ApprovalsInv'
  BY <1>1, <1>2, ApprovalsStay
<1>5. QuestionsShown'
  BY <1>1, <1>2 DEF QuestionsInv, QuestionsShown, ShownOf, Running
<1>6. ASSUME NEW q \in Questions PROVE QuestionOK(q)' /\ RecordOK(q)'
  BY <1>1, <1>2 DEF QuestionsInv, QuestionOK, RecordOK, Running, Pending, Open, Sending
<1>. QED  BY <1>3, <1>4, <1>5, <1>6 DEF IInv, QuestionsInv

(* The queue of the approvals is emptied.                                   *)
LEMMA EmptiedKeeps ==
  ASSUME IInv, queue' = EmptyQueue, UNCHANGED <<aborted, clicks, asks, past>>,
         Running' => live'.approval = None,
         decision' = [r \in Approvals |-> IF InQueue(r) THEN "deny" ELSE decision[r]],
         signals' = [r \in Approvals |-> {}]
  PROVE  /\ ApprovalsInv'
         /\ queue' \in [Approvals -> 0..MaxAsks] /\ signals' \in [Approvals -> SUBSET Signals]
         /\ decision' \in [Approvals -> {"none", "waiting"} \cup Decisions]
<1>1. TypeOK /\ ApprovalsInv /\ asks \in Nat
  BY Types DEF IInv
<1>2. /\ queue' \in [Approvals -> 0..MaxAsks] /\ signals' \in [Approvals -> SUBSET Signals]
      /\ decision' \in [Approvals -> {"none", "waiting"} \cup Decisions]
  BY <1>1, RequestsAssumption DEF TypeOK, EmptyQueue, Decisions
<1>3. QueueOK'
  BY <1>1 DEF QueueOK, InQueue, EmptyQueue
<1>4. ClicksOK'
  BY <1>1 DEF ApprovalsInv, ClicksOK
<1>5. HeadOf(queue') = None
  BY EmptyHead
<1>6. ApprovalShown'
  BY <1>5 DEF ApprovalShown, HeadOf, Pendings, EmptyQueue
<1>. QED  BY <1>2, <1>3, <1>4, <1>6 DEF ApprovalsInv

(* The user cancels the turn.                                               *)
LEMMA CancelRunKeeps ==
  ASSUME IInv, CancelRun
  PROVE  IInv'
<1>1. TypeOK /\ QuestionsInv /\ turn \in TurnType /\ Questions \in SUBSET Questions
  BY Types DEF IInv
<1>2. /\ Running /\ turn' = [turn EXCEPT !.canceled = TRUE] /\ queue' = EmptyQueue
      /\ decision' = [r \in Approvals |-> IF InQueue(r) THEN "deny" ELSE decision[r]]
      /\ signals' = [r \in Approvals |-> {}]
      /\ question' = Expired(Questions)
      /\ live' = [ExpiredLive(Questions) EXCEPT !.approval = None]
      /\ UNCHANGED <<aborted, clicks, input, saved, history, asks, past>>
  BY DEF CancelRun
<1>3. /\ turn' \in TurnType /\ turn'.n = turn.n /\ turn'.phase = turn.phase /\ Running'
  BY <1>1, <1>2 DEF TurnType, Running
<1>4. /\ Expired(Questions) \in [Questions -> AskedType] /\ ExpiredLive(Questions) \in LiveType
  BY <1>1, ExpiryFacts
<1>5. /\ live' \in LiveType /\ live'.approval = None
      /\ live'.questions = ExpiredLive(Questions).questions
      /\ live'.record = ExpiredLive(Questions).record
  BY <1>2, <1>4 DEF LiveType
<1>6. /\ ApprovalsInv'
      /\ queue' \in [Approvals -> 0..MaxAsks] /\ signals' \in [Approvals -> SUBSET Signals]
      /\ decision' \in [Approvals -> {"none", "waiting"} \cup Decisions]
  BY <1>2, <1>5, EmptiedKeeps
<1>7. TypeOK'
  BY <1>1, <1>2, <1>3, <1>4, <1>5, <1>6 DEF TypeOK, LiveType, AskedType, TurnType
<1>8. QuestionsInv'
  BY <1>1, <1>2, <1>3, <1>5, ExpiryKeeps
<1>. QED  BY <1>6, <1>7, <1>8 DEF IInv

(* Every answer is known: the last message takes the records.               *)
LEMMA TurnSettlesKeeps ==
  ASSUME IInv, TurnSettles
  PROVE  IInv'
<1>1. /\ TypeOK /\ ApprovalsInv /\ QuestionsInv
      /\ turn \in TurnType /\ live \in LiveType /\ question \in [Questions -> AskedType]
      /\ turn.phase = "settling" /\ \A q \in Async : ~Pending(q)
      /\ turn' = [turn EXCEPT !.phase = "saving"] /\ history' = Terminal(live.record)
      /\ UNCHANGED <<queue, signals, decision, aborted, clicks, question, input, live, saved, asks, past>>
  BY Types DEF IInv, TurnSettles
<1>2. /\ turn' \in TurnType /\ turn'.n = turn.n /\ turn'.canceled = turn.canceled
      /\ turn'.phase = "saving" /\ Running /\ Running'
  BY <1>1 DEF TurnType, Running
<1>3. /\ history' \in [Questions -> Statuses]
      /\ \A q \in Questions : history'[q] = "answered" <=> live.record[q] = "answered"
  BY <1>1 DEF Terminal, LiveType, Statuses
<1>4. TypeOK'
  BY <1>1, <1>2, <1>3 DEF TypeOK, TurnType
<1>5. ApprovalsInv'
  BY <1>1, <1>2, ApprovalsStay
<1>6. QuestionsShown'
  BY <1>1, <1>2 DEF QuestionsInv, QuestionsShown, ShownOf, Running
<1>7. ASSUME NEW q \in Questions PROVE QuestionOK(q)' /\ RecordOK(q)'
  <2>1. QuestionOK(q) /\ RecordOK(q)
    BY <1>1 DEF QuestionsInv
  <2>2. ~Pending(q)
    BY <1>1, <2>1 DEF QuestionOK, Pending
  <2>3. QuestionOK(q)'
    BY <1>1, <1>2, <2>1, <2>2 DEF QuestionOK, Pending, Open, Sending
  <2>4. RecordOK(q)'
    BY <1>1, <1>2, <1>3, <2>1, <2>2 DEF RecordOK, Pending, Open, Sending, Running
  <2>. QED  BY <2>3, <2>4
<1>. QED  BY <1>4, <1>5, <1>6, <1>7 DEF IInv, QuestionsInv

(* The turn is over.                                                        *)
LEMMA TurnEndsKeeps ==
  ASSUME IInv, TurnEnds
  PROVE  IInv'
<1>1. /\ TypeOK /\ QuestionsInv /\ turn \in TurnType /\ Questions \in SUBSET Questions
      /\ question \in [Questions -> AskedType]
  BY Types DEF IInv
<1>2. /\ turn.phase = "saving" /\ turn' = [turn EXCEPT !.phase = "idle", !.canceled = FALSE]
      /\ queue' = EmptyQueue
      /\ decision' = [r \in Approvals |-> IF InQueue(r) THEN "deny" ELSE decision[r]]
      /\ signals' = [r \in Approvals |-> {}]
      /\ question' = Expired(Questions)
      /\ live' = [approval |-> None, questions |-> {}, record |-> NoRecord]
      /\ UNCHANGED <<aborted, clicks, input, saved, history, asks, past>>
  BY DEF TurnEnds
<1>3. /\ turn' \in TurnType /\ turn'.n = turn.n /\ turn'.phase = "idle" /\ ~Running'
  BY <1>1, <1>2 DEF TurnType, Running
<1>4. \A q \in Questions : QuestionOK(q) /\ RecordOK(q) /\ ~Pending(q)
  BY <1>1, <1>2 DEF QuestionsInv, QuestionOK
<1>5. question' \in [Questions -> AskedType] /\ \A q \in Questions : question'[q] = question[q]
  BY <1>1, <1>2, <1>4, ExpiryFacts
<1>6. /\ ApprovalsInv'
      /\ queue' \in [Approvals -> 0..MaxAsks] /\ signals' \in [Approvals -> SUBSET Signals]
      /\ decision' \in [Approvals -> {"none", "waiting"} \cup Decisions]
  BY <1>2, EmptiedKeeps
<1>7. NoRecord \in [Questions -> Statuses]
  BY DEF NoRecord, Statuses
<1>8. TypeOK'
  BY <1>1, <1>2, <1>3, <1>5, <1>6, <1>7 DEF TypeOK, AskedType, TurnType
<1>9. QuestionsShown'
  BY <1>3, <1>4, <1>5 DEF QuestionsShown, Pending, Open, Sending
<1>10. ASSUME NEW q \in Questions PROVE QuestionOK(q)' /\ RecordOK(q)'
  BY <1>2, <1>3, <1>4, <1>5 DEF QuestionOK, RecordOK, Pending, Open, Sending, Running
<1>. QED  BY <1>6, <1>8, <1>9, <1>10 DEF IInv, QuestionsInv

-----------------------------------------------------------------------------
(* The theorems.                                                            *)

(* Nothing is asked of the user before the first turn.                      *)
LEMMA InitOK == Init => IInv
<1>. SUFFICES ASSUME Init PROVE IInv
  OBVIOUS
<1>1. TypeOK
  BY RequestsAssumption DEF Init, TypeOK, EmptyQueue, NotAsked, NoInput, NoRecord, Statuses
<1>2. ApprovalsInv
  BY DEF Init, ApprovalsInv, QueueOK, ClicksOK, ApprovalShown, InQueue, EmptyQueue, Running
<1>3. \A q \in Questions : QuestionOK(q) /\ RecordOK(q) /\ ~Pending(q)
  BY NoInputFacts DEF Init, QuestionOK, RecordOK, NotAsked, Pending, Open, Sending, Running
<1>4. ~Running
  BY DEF Init, Running
<1>. QED  BY <1>1, <1>2, <1>3, <1>4 DEF IInv, QuestionsInv, QuestionsShown

(* Every step keeps what is known.                                          *)
LEMMA StepKeeps == IInv /\ [Next]_vars => IInv'
<1>. SUFFICES ASSUME IInv, [Next]_vars PROVE IInv'
  OBVIOUS
<1>1. CASE \E r \in Approvals : \E ss \in {{}} \cup {{s} : s \in Signals} : AskApproval(r, ss)
  BY <1>1, AskApprovalKeeps
<1>2. CASE \E r \in Approvals : \E d \in Decisions : Click(r, d)
  BY <1>2, ClickKeeps
<1>3. CASE \E ss \in SUBSET Signals : SignalAborts(ss)
  BY <1>3, SignalAbortsKeeps
<1>4. CASE \E c \in clicks : ResolveApproval(c)
  BY <1>4, ResolveApprovalKeeps
<1>5. CASE \E q \in Questions : AskQuestion(q) \/ QuestionAborts(q) \/ AnswerAsync(q)
  BY <1>5, AskQuestionKeeps, QuestionAbortsKeeps, AnswerAsyncKeeps
<1>6. CASE \E q \in Questions : AnswerStep(q)
  BY <1>6, SendAnswerKeeps, AnswerFailsKeeps, AnswerSettlesKeeps DEF AnswerStep
<1>7. CASE \E q \in Questions : \E status \in {"answered", "declined", "canceled"} : ResolveQuestion(q, status)
  BY <1>7, ResolveQuestionKeeps
<1>8. CASE ChatInput \/ InputStep
  BY <1>8, ChatInputKeeps, InputDispatchesKeeps, InputFailsKeeps, InputAcceptedKeeps, InputStoredKeeps
     DEF InputStep
<1>9. CASE TurnStarts \/ ProviderCompletes \/ CancelRun \/ EndStep
  BY <1>9, TurnStartsKeeps, ProviderCompletesKeeps, CancelRunKeeps, ProviderEndsKeeps, DrainedKeeps,
     TurnSettlesKeeps, TurnEndsKeeps DEF EndStep
<1>10. CASE UNCHANGED vars
  <2>1. TypeOK' /\ ApprovalsInv' /\ QuestionsInv'
    BY <1>10, ApprovalsStay, QuestionsStay DEF vars, IInv, TypeOK, Running
  <2>. QED  BY <2>1 DEF IInv
<1>. QED  BY <1>1, <1>2, <1>3, <1>4, <1>5, <1>6, <1>7, <1>8, <1>9, <1>10 DEF Next

(* What is known of the requests holds in every state.                      *)
THEOREM RequestsInvariant == Spec => []IInv
<1>1. Init => IInv
  BY InitOK
<1>2. IInv /\ [Next]_vars => IInv'
  BY StepKeeps
<1>. QED  BY <1>1, <1>2, PTL DEF Spec

(* The state has its type.                                                  *)
THEOREM RequestsTypes == Spec => []TypeOK
<1>1. IInv => TypeOK
  BY DEF IInv
<1>. QED  BY <1>1, RequestsInvariant, PTL

(* A running turn shows the user what is pending, and between turns nothing *)
(* is.                                                                      *)
THEOREM ShowsPending == Spec => []LiveShowsPending
<1>1. IInv => LiveShowsPending
  BY DEF IInv, ApprovalsInv, ApprovalShown, QuestionsInv, QuestionsShown, LiveShowsPending
<1>. QED  BY <1>1, RequestsInvariant, PTL

(* The history says of a question that it was answered exactly if it was.   *)
THEOREM HistoryTellsTheTruth == Spec => []HistoryIsTrue
<1>1. IInv => HistoryIsTrue
  BY DEF IInv, QuestionsInv, RecordOK, HistoryIsTrue
<1>. QED  BY <1>1, RequestsInvariant, PTL

(* Only the arrival of the user's decision approves a request.              *)
LEMMA ApprovesOnlyByClick ==
  ASSUME IInv, Next, NEW r \in Approvals, decision[r] # "approve", decision'[r] = "approve"
  PROVE  r \in past.approved /\ past.asked[r] \cap aborted = {} /\ ~turn.canceled
<1>1. /\ ApprovalsInv /\ queue \in Queues
      /\ decision \in [Approvals -> {"none", "waiting"} \cup Decisions]
      /\ clicks \in SUBSET [request : Approvals, decision : Decisions]
  BY Types DEF IInv, TypeOK
<1>2. CASE \E x \in Approvals : \E ss \in {{}} \cup {{s} : s \in Signals} : AskApproval(x, ss)
  BY <1>1, <1>2 DEF AskApproval, WaitForDecision, Settles, Shares, Waits
<1>3. CASE \E ss \in SUBSET Signals : SignalAborts(ss)
  BY <1>1, <1>3 DEF SignalAborts, Settles
<1>4. CASE \E c \in clicks : ResolveApproval(c)
  <2>1. PICK c \in clicks : ResolveApproval(c)
    BY <1>4
  <2>2. /\ DecidesHead(c) /\ Settles({HeadOf(queue)}, c.decision)
    BY <2>1 DEF ResolveApproval
  <2>3. r = HeadOf(queue) /\ InQueue(r) /\ c.decision = "approve"
    BY <1>1, <2>2 DEF Settles
  <2>4. c.request = r /\ r \in past.approved
    BY <1>1, <2>2, <2>3 DEF DecidesHead, ApprovalsInv, ClicksOK
  <2>5. past.asked[r] \cap aborted = {}
    BY <1>1, <2>3 DEF ApprovalsInv, QueueOK
  <2>6. ~turn.canceled
    BY <1>1, <2>3 DEF ApprovalsInv, QueueOK, InQueue, EmptyQueue
  <2>. QED  BY <2>4, <2>5, <2>6
<1>5. CASE CancelRun \/ TurnEnds
  BY <1>1, <1>5 DEF CancelRun, TurnEnds
<1>6. CASE \/ \E x \in Approvals : \E d \in Decisions : Click(x, d)
           \/ \E q \in Questions :
                \/ AskQuestion(q) \/ QuestionAborts(q) \/ AnswerAsync(q) \/ AnswerStep(q)
                \/ \E status \in {"answered", "declined", "canceled"} : ResolveQuestion(q, status)
           \/ ChatInput \/ InputStep \/ TurnStarts \/ ProviderCompletes
           \/ ProviderEnds \/ Drained \/ TurnSettles
  <2>1. decision' = decision
    BY <1>6 DEF Click, AskQuestion, QuestionAborts, AnswerAsync, AnswerStep, SendAnswer, AnswerFails,
       AnswerSettles, ResolveQuestion, ChatInput, InputStep, InputDispatches, InputFails, InputAccepted,
       InputStored, TurnStarts, ProviderCompletes, ProviderEnds, Drained, TurnSettles
  <2>. QED  BY <2>1
<1>. QED  BY <1>2, <1>3, <1>4, <1>5, <1>6 DEF Next, EndStep

(* An approval is the user's: of that request, while everybody who waits    *)
(* for it still does, and before the turn was canceled.                     *)
THEOREM ApprovalsAreTheUsers == Spec => ApprovalIsTheUsers
<1>. DEFINE A == \A r \in Approvals :
                   decision[r] # "approve" /\ decision'[r] = "approve" =>
                     r \in past.approved /\ past.asked[r] \cap aborted = {} /\ ~turn.canceled
<1>1. IInv /\ [Next]_vars => [A]_vars
  BY ApprovesOnlyByClick
<1>. QED  BY <1>1, RequestsInvariant, PTL DEF Spec, ApprovalIsTheUsers
-----------------------------------------------------------------------------
(* An input belongs to the turn it was registered in, one that may have     *)
(* reached the provider is over before the turn settles, and a cancellation *)
(* is over with its turn.                                                   *)
Dispatched == input.stage \in {"dispatched", "storing"}
InputOK ==
  /\ input # NoInput => input.turn = turn.n
  /\ Dispatched => turn.phase \in {"running", "draining"}
  /\ turn.canceled => Running

(* Every step keeps it.                                                     *)
LEMMA InputKept == IInv /\ InputOK /\ [Next]_vars => InputOK'
<1>. SUFFICES ASSUME IInv, InputOK, Next PROVE InputOK'
  BY DEF InputOK, Dispatched, Running, vars
<1>1. turn \in TurnType /\ input \in InputType /\ question \in [Questions -> AskedType]
  BY Types DEF IInv
<1>. USE DEF InputOK, Dispatched, Running, NoInput
(* The turn and its input do not move.                                      *)
<1>2. CASE UNCHANGED <<turn, input>>
  BY <1>2
(* The input moves.                                                         *)
<1>3. ASSUME NEW q \in Questions, SendAnswer(q) PROVE InputOK'
  BY <1>3 DEF SendAnswer
<1>4. CASE ChatInput
  BY <1>4 DEF ChatInput
<1>5. CASE InputDispatches \/ InputAccepted
  <2>1. /\ UNCHANGED turn
        /\ \E stage \in {"dispatched", "storing"} : input' = [input EXCEPT !.stage = stage]
        /\ input # NoInput /\ turn.phase \in {"running", "draining"}
    BY <1>5 DEF InputDispatches, InputMayGo, InputAccepted
  <2>. QED  BY <1>1, <2>1 DEF InputType
<1>6. CASE InputFails \/ InputStored
  BY <1>6 DEF InputFails, InputStored, InputOver
(* The turn moves.                                                          *)
<1>7. CASE TurnStarts
  BY <1>7 DEF TurnStarts
<1>8. CASE ProviderCompletes \/ CancelRun
  BY <1>1, <1>8 DEF ProviderCompletes, CancelRun, TurnType
<1>9. CASE ProviderEnds
  BY <1>1, <1>9 DEF ProviderEnds, TurnType
<1>10. CASE Drained
  BY <1>1, <1>10 DEF Drained, TurnType
<1>11. CASE TurnSettles \/ TurnEnds
  BY <1>1, <1>11 DEF TurnSettles, TurnEnds, TurnType
<1>12. ASSUME NEW r \in Approvals, NEW ss, AskApproval(r, ss) PROVE UNCHANGED <<turn, input>>
  BY <1>12 DEF AskApproval
<1>13. ASSUME NEW r \in Approvals, NEW d, Click(r, d) PROVE UNCHANGED <<turn, input>>
  BY <1>13 DEF Click
<1>14. ASSUME NEW ss, SignalAborts(ss) PROVE UNCHANGED <<turn, input>>
  BY <1>14 DEF SignalAborts
<1>15. ASSUME NEW c \in clicks, ResolveApproval(c) PROVE UNCHANGED <<turn, input>>
  BY <1>15 DEF ResolveApproval
<1>16. ASSUME NEW q \in Questions,
              \/ AskQuestion(q) \/ QuestionAborts(q) \/ AnswerAsync(q) \/ AnswerFails(q)
              \/ AnswerSettles(q) \/ \E status : ResolveQuestion(q, status)
       PROVE  UNCHANGED <<turn, input>>
  BY <1>16 DEF AskQuestion, QuestionAborts, AnswerAsync, AnswerFails, AnswerSettles, ResolveQuestion
<1>. QED  BY <1>2, <1>3, <1>4, <1>5, <1>6, <1>7, <1>8, <1>9, <1>10, <1>11, <1>12, <1>13, <1>14, <1>15,
             <1>16 DEF Next, AnswerStep, InputStep, EndStep

(* What the end of a canceled turn waits for: while it drains, an input of  *)
(* this turn that was handed to the provider; while it settles, answers     *)
(* that are being sent, each by an input of its own if it has left, and     *)
(* none that could still be handed to the provider was.                     *)
EndGoesOn ==
  turn.canceled =>
    /\ Running
    /\ turn.phase = "draining" /\ Dispatched => input.turn = turn.n
    /\ turn.phase \in {"settling", "saving"} => ~Dispatched
    /\ turn.phase = "settling" => \A q \in Questions : Pending(q) =>
         question[q].expired /\ Sending(q) /\ (question[q].state = "sent" => input.by = q)

(* A canceled turn waits for nobody but who goes on or fails by itself: not *)
(* for the user, and not for an input that is still being prepared          *)
(* (SessionRuntimeService: sendSessionInput, executeSessionTurn).  This is  *)
(* the part of CancelEndsTurn that does not rest on fairness.               *)
THEOREM CanceledTurnGoesOn == Spec => []EndGoesOn
<1>1. Init => InputOK
  BY DEF Init, InputOK, Dispatched, NoInput, Running
<1>2. IInv /\ InputOK => EndGoesOn
  <2>. SUFFICES ASSUME IInv, InputOK, turn.canceled PROVE EndGoesOn
    BY DEF EndGoesOn
  <2>1. ASSUME turn.phase = "settling", NEW q \in Questions, Pending(q)
        PROVE  question[q].expired /\ Sending(q) /\ (question[q].state = "sent" => input.by = q)
    BY <2>1 DEF IInv, QuestionsInv, QuestionOK, Pending
  <2>2. turn.phase = "draining" /\ Dispatched => input.turn = turn.n
    BY DEF InputOK, Dispatched, NoInput
  <2>. QED  BY <2>1, <2>2 DEF EndGoesOn, InputOK
<1>3. IInv /\ InputOK /\ [Next]_vars => InputOK'
  BY InputKept
<1>. QED  BY <1>1, <1>2, <1>3, RequestsInvariant, PTL DEF Spec
=============================================================================
