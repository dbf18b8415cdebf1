---------------------------- MODULE SessionRequests ----------------------------
(***************************************************************************)
(* What a provider asks of the user during the turns of one Session:       *)
(* SessionApprovalService (a FIFO queue of which only the head is shown)    *)
(* and SessionElicitationService (independent questions), between the       *)
(* provider's callbacks, the user's answers, which arrive late, the input   *)
(* of SessionRuntimeService that carries an answer to the running turn, and *)
(* the cancellation and the end of that turn.                               *)
(*                                                                         *)
(* The handlers of both services are synchronous: each is one action.  The  *)
(* asynchronous parts are the delivery of an answer and the end of a turn.  *)
(***************************************************************************)
EXTENDS Naturals, FiniteSets

CONSTANTS Approvals, Signals,   \* approval requests, and the signals of their callbacks
          Questions, Async,     \* an answer to those of Async is a user message
          None,
          MaxTurns, MaxAsks     \* turns, and callbacks that ask for an approval

ASSUME RequestsAssumption ==
  /\ Async \subseteq Questions
  /\ None \notin Approvals /\ None \notin Questions /\ "chat" \notin Questions
  /\ MaxTurns \in Nat /\ MaxAsks \in Nat

VARIABLES
  turn,      \* the turn of the Session, and its abort signal
  queue,     \* pendingRequests of the approvals: when each was asked for, 0 if it is not pending
  signals,   \* the signals of each pending approval
  decision,  \* what the promise of each approval resolved to
  aborted,   \* the individual signals that have aborted
  clicks,    \* the user's decisions that are under way
  question,  \* pendingRequests of the questions
  input,     \* pendingSessionInputs and dispatchedSessionInputs
  live,      \* liveSessionRun: the requests it shows, the records it keeps
  saved,     \* the answers confirmed to be stored, or given to the provider
  history,   \* the records handed to the storage with the turn's last message
  asks,      \* how many callbacks asked for an approval
  past       \* history: the requests the user approved, the signals that asked

vars == <<turn, queue, signals, decision, aborted, clicks, question, input, live, saved,
          history, asks, past>>

Decisions == {"approve", "deny"}
NoRecord == [q \in Questions |-> "none"]
NoInput == [by |-> None, turn |-> 0, stage |-> "none"]
EmptyQueue == [r \in Approvals |-> 0]
NotAsked == [state |-> "none", expired |-> FALSE, turn |-> 0]

Init ==
  /\ turn = [n |-> 0, phase |-> "idle", canceled |-> FALSE, accepts |-> FALSE]
  /\ queue = EmptyQueue
  /\ signals = [r \in Approvals |-> {}]
  /\ decision = [r \in Approvals |-> "none"]
  /\ aborted = {}
  /\ clicks = {}
  /\ question = [q \in Questions |-> NotAsked]
  /\ input = NoInput
  /\ live = [approval |-> None, questions |-> {}, record |-> NoRecord]
  /\ saved = {} /\ history = NoRecord
  /\ asks = 0
  /\ past = [approved |-> {}, asked |-> [r \in Approvals |-> {}]]

-----------------------------------------------------------------------------
(* The turn.  terminalSettled holds from "saving" on; finishingSessionTurns *)
(* holds the Session from "draining" on.                                    *)

Running == turn.phase # "idle"
MayAsk == turn.phase \in {"running", "draining", "settling"}

-----------------------------------------------------------------------------
(* SessionApprovalService                                                   *)

InQueue(r) == queue[r] > 0
Pendings(q) == {r \in Approvals : q[r] > 0}

(* pendingRequests[0]                                                       *)
HeadOf(q) ==
  IF Pendings(q) = {} THEN None
  ELSE CHOOSE r \in Pendings(q) : \A x \in Pendings(q) : q[r] <= q[x]

Without(q, rs) == [r \in Approvals |-> IF r \in rs THEN 0 ELSE q[r]]

(* settle, and the skipping of publishHead: the requests of rs are decided, *)
(* and the first that is left is shown if it is another one than before.    *)
Settles(rs, d) ==
  /\ queue' = Without(queue, rs)
  /\ decision' = [r \in Approvals |-> IF r \in rs /\ InQueue(r) THEN d ELSE decision[r]]
  /\ signals' = [r \in Approvals |-> IF r \in rs THEN {} ELSE signals[r]]
  /\ live' = IF Running /\ HeadOf(queue) \in rs
             THEN [live EXCEPT !.approval = HeadOf(Without(queue, rs))]
             ELSE live

Waits(r, ss) ==
  /\ queue' = [queue EXCEPT ![r] = asks + 1]
  /\ decision' = [decision EXCEPT ![r] = "waiting"]
  /\ signals' = [signals EXCEPT ![r] = ss]
  /\ live' = IF queue = EmptyQueue THEN [live EXCEPT !.approval = r] ELSE live

Shares(r, ss) ==
  /\ signals' = [signals EXCEPT ![r] = @ \cup ss]
  /\ UNCHANGED <<queue, decision, live>>

(* waitForLiveApprovalDecision                                              *)
WaitForDecision(r, ss) ==
  IF ss \cap aborted # {} \/ turn.canceled
  THEN IF InQueue(r) THEN Settles({r}, "deny")
       ELSE decision' = [decision EXCEPT ![r] = "deny"] /\ UNCHANGED <<queue, signals, live>>
  ELSE IF InQueue(r) THEN Shares(r, ss) ELSE Waits(r, ss)

(* onApprovalRequest: the signal of the turn counts beside the callback's.  *)
(* A callback after the last message was made is denied and changes nothing.*)
AskApproval(r, ss) ==
  /\ MayAsk /\ asks < MaxAsks
  /\ asks' = asks + 1
  /\ WaitForDecision(r, ss)
  /\ past' = [past EXCEPT !.asked[r] = IF InQueue(r) THEN @ \cup ss ELSE ss]
  /\ UNCHANGED <<turn, aborted, clicks, question, input, saved, history>>

SignalAborts(ss) ==
  /\ ss # {} /\ ss \cap aborted = {}
  /\ aborted' = aborted \cup ss
  /\ Settles({r \in Approvals : signals[r] \cap ss # {}}, "deny")
  /\ UNCHANGED <<turn, clicks, question, input, saved, history, asks, past>>

(* The user decides what is shown; the decision travels to the main process.*)
Click(r, d) ==
  /\ Running /\ live.approval = r
  /\ \A c \in clicks : c.request # r
  /\ clicks' = clicks \cup {[request |-> r, decision |-> d]}
  /\ past' = IF d = "approve" THEN [past EXCEPT !.approved = @ \cup {r}] ELSE past
  /\ UNCHANGED <<turn, queue, signals, decision, aborted, question, input, live, saved, history, asks>>

(* Mutant: the decision is taken for whatever is shown when it arrives.     *)
DecidesAnyHead(c) == queue # EmptyQueue

DecidesHead(c) == HeadOf(queue) = c.request

(* resolveLiveApproval: an error for the user unless the head is meant.     *)
ResolveApproval(c) ==
  /\ c \in clicks
  /\ clicks' = clicks \ {c}
  /\ IF DecidesHead(c) THEN Settles({HeadOf(queue)}, c.decision)
     ELSE UNCHANGED <<queue, decision, signals, live>>
  /\ UNCHANGED <<turn, aborted, question, input, saved, history, asks, past>>

-----------------------------------------------------------------------------
(* SessionElicitationService                                                *)

Open(q) == question[q].state = "open"
Sending(q) == question[q].state \in {"hop", "sent", "acked", "failed"}
Pending(q) == Open(q) \/ Sending(q)

(* What update() shows: the pending requests that have not expired.         *)
ShownOf(qs) == {q \in Questions : qs[q].state \notin {"none", "settled"} /\ ~qs[q].expired}

Records(qs, status) == [q \in Questions |-> IF q \in qs THEN status ELSE live.record[q]]

SettlesQuestion(q, status) ==
  /\ question' = [question EXCEPT ![q].state = "settled"]
  /\ live' = [live EXCEPT !.questions = @ \ {q}, !.record = Records({q}, status)]

(* Mutant: an answer that is being sent does not keep the question.         *)
ExpiredAtOnce(qs) ==
  [q \in Questions |->
     IF q \in qs /\ Pending(q)
     THEN [question[q] EXCEPT !.expired = TRUE, !.state = "settled"]
     ELSE question[q]]

(* expire: a question whose answer is being sent stays until it is known.   *)
Expired(qs) ==
  [q \in Questions |->
     IF q \in qs /\ Pending(q)
     THEN [question[q] EXCEPT !.expired = TRUE, !.state = IF Open(q) THEN "settled" ELSE @]
     ELSE question[q]]

(* Mutant: a question whose answer is being sent stays on the screen.       *)
ExpiredShowing(qs) ==
  LET gone == {q \in qs : Pending(q)}
  IN [live EXCEPT !.questions = @ \ {q \in qs : Open(q)}, !.record = Records(gone, "expired")]

ExpiredLive(qs) ==
  LET gone == {q \in qs : Pending(q)}
  IN [live EXCEPT !.questions = @ \ gone, !.record = Records(gone, "expired")]

(* onElicitationRequest and waitForLiveElicitationResponse.  An item is     *)
(* asked about once.  The runtime takes questions until the terminal save;  *)
(* the provider closes its interactions when it ends, and asks no more.     *)
AskQuestion(q) ==
  /\ turn.phase = "running" /\ turn.accepts
  /\ question[q].state = "none"
  /\ IF turn.canceled
     THEN UNCHANGED <<question, live>>
     ELSE /\ question' = [question EXCEPT ![q] = [state |-> "open", expired |-> FALSE, turn |-> turn.n]]
          /\ live' = [live EXCEPT !.questions = @ \cup {q}, !.record = Records({q}, "pending")]
  /\ UNCHANGED <<turn, queue, signals, decision, aborted, clicks, input, saved, history, asks, past>>

(* serverRequest/resolved: the signal of one native question aborts.        *)
QuestionAborts(q) ==
  /\ q \notin Async /\ Pending(q)
  /\ question' = Expired({q}) /\ live' = ExpiredLive({q})
  /\ UNCHANGED <<turn, queue, signals, decision, aborted, clicks, input, saved, history, asks, past>>

(* resolveLiveElicitation, when nothing has to be sent first                *)
ResolveQuestion(q, status) ==
  /\ Open(q)
  /\ status = "answered" => q \notin Async
  /\ SettlesQuestion(q, status)
  /\ saved' = IF status = "answered" THEN saved \cup {q} ELSE saved
  /\ UNCHANGED <<turn, queue, signals, decision, aborted, clicks, input, history, asks, past>>

(* ... and when it has: the answer goes out in a microtask of its own.      *)
AnswerAsync(q) ==
  /\ Open(q) /\ q \in Async
  /\ question' = [question EXCEPT ![q].state = "hop"]
  /\ UNCHANGED <<turn, queue, signals, decision, aborted, clicks, input, live, saved, history, asks, past>>

(* sendUserMessage, up to the registration of the input, or its refusal.    *)
SendAnswer(q) ==
  /\ question[q].state = "hop"
  /\ \/ /\ question[q].expired \/ input # NoInput
        /\ question' = [question EXCEPT ![q].state = "failed"]
        /\ UNCHANGED input
     \/ /\ ~question[q].expired /\ input = NoInput
        /\ question' = [question EXCEPT ![q].state = "sent"]
        /\ input' = [by |-> q, turn |-> turn.n, stage |-> "preparing"]
  /\ UNCHANGED <<turn, queue, signals, decision, aborted, clicks, live, saved, history, asks, past>>

(* Mutant: when the answer could not be sent, the form is open again.       *)
AnswerFailsOpen(q) ==
  /\ question[q].state = "failed"
  /\ question' = [question EXCEPT ![q].state = "open"]
  /\ UNCHANGED <<turn, queue, signals, decision, aborted, clicks, input, live, saved, history, asks,
                 past>>

(* The answer could not be sent: the form is open again, or has expired.    *)
AnswerFails(q) ==
  /\ question[q].state = "failed"
  /\ IF question[q].expired THEN SettlesQuestion(q, "expired")
     ELSE question' = [question EXCEPT ![q].state = "open"] /\ UNCHANGED live
  /\ UNCHANGED <<turn, queue, signals, decision, aborted, clicks, input, saved, history, asks, past>>

AnswerSettles(q) ==
  /\ question[q].state = "acked"
  /\ SettlesQuestion(q, "answered")
  /\ UNCHANGED <<turn, queue, signals, decision, aborted, clicks, input, saved, history, asks, past>>

-----------------------------------------------------------------------------
(* sendSessionInput: one input at a time, of a question or of the chat.     *)

ChatInput ==
  /\ turn.phase = "running" /\ input = NoInput
  /\ input' = [by |-> "chat", turn |-> turn.n, stage |-> "preparing"]
  /\ UNCHANGED <<turn, queue, signals, decision, aborted, clicks, question, live, saved, history, asks, past>>

(* The input is over, and the question it answered learns how it went.      *)
InputOver(outcome) ==
  /\ input' = NoInput
  /\ question' = IF input.by \in Questions /\ question[input.by].state = "sent"
                 THEN [question EXCEPT ![input.by].state = outcome] ELSE question

(* assertActiveTurn, and the turn the input is for                          *)
InputMayGo ==
  /\ turn.phase = "running" /\ turn.n = input.turn /\ ~turn.canceled /\ turn.accepts
  /\ input.by \in Questions => question[input.by].turn = turn.n

InputDispatches ==
  /\ input.stage = "preparing" /\ InputMayGo
  /\ input' = [input EXCEPT !.stage = "dispatched"]
  /\ UNCHANGED <<turn, queue, signals, decision, aborted, clicks, question, live, saved, history, asks, past>>

(* The preparation fails, the turn accepts no input any more, the provider  *)
(* refuses or does not confirm in time, or the storage of the message is    *)
(* not confirmed: it may be stored all the same, but then the code is not   *)
(* told, and the answer counts as one that failed.                          *)
InputFails ==
  /\ input # NoInput
  /\ InputOver("failed")
  /\ UNCHANGED <<turn, queue, signals, decision, aborted, clicks, live, saved, history, asks, past>>

InputAccepted ==
  /\ input.stage = "dispatched"
  /\ turn.phase # "idle" /\ turn.n = input.turn
  /\ input' = [input EXCEPT !.stage = "storing"]
  /\ UNCHANGED <<turn, queue, signals, decision, aborted, clicks, question, live, saved, history, asks, past>>

InputStored ==
  /\ input.stage = "storing"
  /\ saved' = IF input.by \in Questions THEN saved \cup {input.by} ELSE saved
  /\ InputOver("acked")
  /\ UNCHANGED <<turn, queue, signals, decision, aborted, clicks, live, history, asks, past>>

-----------------------------------------------------------------------------
(* The turn of the Session                                                  *)

(* isRunInFlight counts an input that is being sent.                        *)
TurnStarts ==
  /\ turn.phase = "idle" /\ turn.n < MaxTurns /\ input = NoInput
  /\ turn' = [n |-> turn.n + 1, phase |-> "running", canceled |-> FALSE, accepts |-> TRUE]
  /\ live' = [approval |-> None, questions |-> {}, record |-> NoRecord]
  /\ history' = NoRecord
  /\ UNCHANGED <<queue, signals, decision, aborted, clicks, question, input, saved, asks, past>>

(* The provider has said its last word: it takes no input any more, and the *)
(* signal of its asynchronous questions aborts.                             *)
ProviderCompletes ==
  /\ turn.phase = "running" /\ turn.accepts
  /\ turn' = [turn EXCEPT !.accepts = FALSE]
  /\ question' = Expired(Async) /\ live' = ExpiredLive(Async)
  /\ UNCHANGED <<queue, signals, decision, aborted, clicks, input, saved, history, asks, past>>

(* Mutant: the pending approvals are denied, what is shown stays.           *)
CancelRunShowing ==
  /\ Running /\ ~turn.canceled
  /\ turn' = [turn EXCEPT !.canceled = TRUE]
  /\ queue' = EmptyQueue
  /\ decision' = [r \in Approvals |-> IF InQueue(r) THEN "deny" ELSE decision[r]]
  /\ signals' = [r \in Approvals |-> {}]
  /\ question' = Expired(Questions)
  /\ live' = ExpiredLive(Questions)
  /\ UNCHANGED <<aborted, clicks, input, saved, history, asks, past>>

(* cancelRun: both services cancel what is pending, then the signal aborts. *)
CancelRun ==
  /\ Running /\ ~turn.canceled
  /\ turn' = [turn EXCEPT !.canceled = TRUE]
  /\ queue' = EmptyQueue
  /\ decision' = [r \in Approvals |-> IF InQueue(r) THEN "deny" ELSE decision[r]]
  /\ signals' = [r \in Approvals |-> {}]
  /\ question' = Expired(Questions)
  /\ live' = [ExpiredLive(Questions) EXCEPT !.approval = None]
  /\ UNCHANGED <<aborted, clicks, input, saved, history, asks, past>>

(* The provider's promise is settled, or the grace period after a           *)
(* cancellation is over; from here on the turn accepts no input.            *)
ProviderEnds ==
  /\ turn.phase = "running"
  /\ turn' = [turn EXCEPT !.phase = "draining", !.accepts = FALSE]
  /\ UNCHANGED <<queue, signals, decision, aborted, clicks, question, input, live, saved, history,
                 asks, past>>

(* An input that was dispatched is awaited, one that was not is not; then   *)
(* the questions are canceled.                                              *)
Drained ==
  /\ turn.phase = "draining"
  /\ input.stage \notin {"dispatched", "storing"}
  /\ turn' = [turn EXCEPT !.phase = "settling"]
  /\ question' = Expired(Questions) /\ live' = ExpiredLive(Questions)
  /\ UNCHANGED <<queue, signals, decision, aborted, clicks, input, saved, history, asks, past>>

(* terminalElicitationRecords: what is still pending counts as expired.     *)
Terminal(record) == [q \in Questions |-> IF record[q] = "pending" THEN "expired" ELSE record[q]]

(* elicitationResponses have all come: the last message takes the records.  *)
TurnSettles ==
  /\ turn.phase = "settling"
  /\ \A q \in Async : ~Pending(q)
  /\ turn' = [turn EXCEPT !.phase = "saving"]
  /\ history' = Terminal(live.record)
  /\ UNCHANGED <<queue, signals, decision, aborted, clicks, question, input, live, saved, asks, past>>

TurnEnds ==
  /\ turn.phase = "saving"
  /\ turn' = [turn EXCEPT !.phase = "idle", !.canceled = FALSE]
  /\ queue' = EmptyQueue
  /\ decision' = [r \in Approvals |-> IF InQueue(r) THEN "deny" ELSE decision[r]]
  /\ signals' = [r \in Approvals |-> {}]
  /\ question' = Expired(Questions)
  /\ live' = [approval |-> None, questions |-> {}, record |-> NoRecord]
  /\ UNCHANGED <<aborted, clicks, input, saved, history, asks, past>>

AnswerStep(q) == SendAnswer(q) \/ AnswerFails(q) \/ AnswerSettles(q)
InputStep == InputDispatches \/ InputFails \/ InputAccepted \/ InputStored
EndStep == ProviderEnds \/ Drained \/ TurnSettles \/ TurnEnds

Next ==
  \/ \E r \in Approvals :
       \/ \E ss \in {{}} \cup {{s} : s \in Signals} : AskApproval(r, ss)
       \/ \E d \in Decisions : Click(r, d)
  \/ \E ss \in SUBSET Signals : SignalAborts(ss)
  \/ \E c \in clicks : ResolveApproval(c)
  \/ \E q \in Questions :
       \/ AskQuestion(q) \/ QuestionAborts(q) \/ AnswerAsync(q) \/ AnswerStep(q)
       \/ \E status \in {"answered", "declined", "canceled"} : ResolveQuestion(q, status)
  \/ ChatInput \/ InputStep
  \/ TurnStarts \/ ProviderCompletes \/ CancelRun \/ EndStep

Spec == Init /\ [][Next]_vars

(* A provider whose turn was canceled ends, or the grace period does; every *)
(* await is answered: an input within the provider's request timeout.       *)
Fairness ==
  /\ WF_vars(turn.canceled /\ ProviderEnds)
  /\ WF_vars(Drained) /\ WF_vars(TurnSettles) /\ WF_vars(TurnEnds)
  /\ WF_vars(InputStep)
  /\ \A q \in Questions : WF_vars(AnswerStep(q))

FairSpec == Spec /\ Fairness

-----------------------------------------------------------------------------
Statuses == {"none", "pending", "answered", "declined", "canceled", "expired"}

TypeOK ==
  /\ turn \in [n : 0..MaxTurns, phase : {"idle", "running", "draining", "settling", "saving"},
               canceled : BOOLEAN, accepts : BOOLEAN]
  /\ queue \in [Approvals -> 0..MaxAsks]
  /\ signals \in [Approvals -> SUBSET Signals]
  /\ decision \in [Approvals -> {"none", "waiting"} \cup Decisions]
  /\ aborted \in SUBSET Signals
  /\ clicks \in SUBSET [request : Approvals, decision : Decisions]
  /\ question \in [Questions -> [state : {"none", "open", "hop", "sent", "acked", "failed", "settled"},
                                 expired : BOOLEAN, turn : 0..MaxTurns]]
  /\ input \in [by : Questions \cup {"chat", None}, turn : 0..MaxTurns,
                stage : {"none", "preparing", "dispatched", "storing"}]
  /\ live \in [approval : Approvals \cup {None}, questions : SUBSET Questions,
               record : [Questions -> Statuses]]
  /\ saved \in SUBSET Questions
  /\ history \in [Questions -> Statuses]
  /\ asks \in 0..MaxAsks
  /\ past \in [approved : SUBSET Approvals, asked : [Approvals -> SUBSET Signals]]

(* An approval reaches the provider only if the user approved that very     *)
(* request while it was shown, and nobody who shares the answer had given   *)
(* up before: however late the click, and whatever was shown meanwhile.     *)
(* A request is known by its id, under which one may be asked again.        *)
ApprovalIsTheUsers ==
  [][\A r \in Approvals :
       decision[r] # "approve" /\ decision'[r] = "approve" =>
         r \in past.approved /\ past.asked[r] \cap aborted = {} /\ ~turn.canceled]_vars

(* While a turn runs, what it shows is what is pending: the head of the     *)
(* approvals, whoever left the queue, and every question not yet expired;   *)
(* between turns nothing is pending.                                        *)
LiveShowsPending ==
  IF Running THEN live.approval = HeadOf(queue) /\ live.questions = ShownOf(question)
  ELSE queue = EmptyQueue /\ \A q \in Questions : ~Pending(q)

(* The history of a turn says of a question that it was answered exactly if *)
(* the answer was accepted and confirmed to be stored: an answer that was   *)
(* being sent when the turn ended is neither lost from the history nor      *)
(* added after it.                                                          *)
HistoryIsTrue ==
  \A q \in Questions : question[q].turn = turn.n /\ turn.n > 0 /\ turn.phase \in {"saving", "idle"} =>
    (history[q] = "answered" <=> q \in saved)

(* A canceled turn ends, although its end waits for the input that was      *)
(* dispatched and for every answer that is being sent.                      *)
CancelEndsTurn == turn.canceled ~> turn.phase = "idle"
=============================================================================
