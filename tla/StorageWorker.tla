---------------------------- MODULE StorageWorker ----------------------------
(***************************************************************************)
(* StorageWorkerClient in the main process and the storage worker thread   *)
(* behind it, for one generation: the client's pending and queued calls,   *)
(* the two message channels, and the worker's tail, resource lanes and     *)
(* conversation queries.                                                   *)
(*                                                                         *)
(* A continuation or a message handler of either thread is one action.     *)
(* The worker may die at any step; a request may be refused by             *)
(* postMessage.  Messages that change no state but diagnostics ("started", *)
(* "progress") are left out, and so are messages of another generation:    *)
(* each worker is told its client's generation when it is created.         *)
(***************************************************************************)
EXTENDS Naturals, Sequences

CONSTANTS
  Calls,   \* the calls that are made, each once
  Lanes,   \* the stores with a resource lane: character and mate
  NoKind   \* the kind of a call that was not made

Routes == {"tail", "query"} \cup Lanes

(* What a request tells the worker: where it is executed, and whether it    *)
(* writes.  Conversation queries never write.                               *)
Kinds == {k \in [route : Routes, mutation : BOOLEAN] : k.route = "query" => ~k.mutation}

Shutdown == "shutdown"  \* the shutdown request, in the inbox and in the tail

ASSUME CallsAssumption == Shutdown \notin Calls
ASSUME KindsAssumption == NoKind \notin Kinds
ASSUME LanesAssumption == Lanes \cap {"tail", "query"} = {}

VARIABLES
  kind,       \* the request of each call
  status,     \* pending: "queued" or "sent", and what the promise settled with
  queued,     \* queued
  ready,      \* ready
  closed,     \* closed
  faulted,    \* faulted
  terminated, \* terminationPromise is set
  closing,    \* closePromise: "no", "waiting", "done"
  exitSeen,   \* the exit event was handled
  inbox,      \* requests posted to the worker
  outbox,     \* messages posted to the client
  worker,     \* "starting", "running", "drained" (port closed), "exited"
  clean,      \* the exit code is 0
  stopping,   \* shuttingDown
  tail,       \* requests chained to tail, the first one being executed
  lane,       \* requests chained to each resource lane
  phase,      \* what the worker did with each call
  effect,     \* the writes of each call are committed
  made        \* history: the calls in the order they were made

clientVars == <<queued, ready, closed, faulted, terminated, closing, exitSeen>>
workerVars == <<worker, clean, stopping, tail, lane, phase, effect>>
vars == <<kind, status, clientVars, inbox, outbox, workerVars, made>>

(* How a promise settles: the value, an error of the store ("rejected"),    *)
(* an error that says nothing was executed, StorageWorkerUnknownOutcome-    *)
(* Error, or an error of the client itself ("failed").                      *)
Answers == {"result", "rejected", "notExecuted", "unknown", "failed"}

Pending == {c \in Calls : status[c] \in {"queued", "sent"}}

Ready == [type |-> "ready"]
ShutdownComplete == [type |-> "shutdownComplete"]
Answer(c, a) == [type |-> "answer", id |-> c, answer |-> a]

(* What the worker posts.                                                   *)
Messages == {Ready, ShutdownComplete} \cup {Answer(c, a) : c \in Calls, a \in Answers}

Elements(s) == {s[i] : i \in DOMAIN s}

-----------------------------------------------------------------------------
(* The client.                                                              *)

(* The error for a pending call the worker will not answer: its outcome is  *)
(* unknown if it writes and was sent.                                       *)
Unanswered(c, wasSent) == IF wasSent /\ kind[c].mutation THEN "unknown" ELSE "failed"

(* Mutant: only writes are rejected.                                        *)
RejectPendingWrites ==
  status' = [c \in Calls |->
               IF c \in Pending /\ kind[c].mutation
               THEN Unanswered(c, status[c] = "sent") ELSE status[c]]

RejectPending ==
  status' = [c \in Calls |->
               IF c \in Pending THEN Unanswered(c, status[c] = "sent") ELSE status[c]]

(* fail(), when requests in calls are pending and those in posted were sent *)
(* to the worker before it.                                                 *)
FailWith(calls, posted) ==
  /\ faulted' = TRUE /\ closed' = TRUE /\ ready' = FALSE /\ terminated' = TRUE
  /\ queued' = <<>>
  /\ status' = [c \in Calls |->
                  IF c \in calls THEN Unanswered(c, c \in posted) ELSE status[c]]

(* Mutant: whatever was pending failed.                                     *)
FailForgetsSent == IF faulted THEN UNCHANGED <<faulted, closed, ready, terminated, queued, status>>
                   ELSE FailWith(Pending, {})

Fail == IF faulted THEN UNCHANGED <<faulted, closed, ready, terminated, queued, status>>
        ELSE FailWith(Pending, {c \in Calls : status[c] = "sent"})

(* call().  postMessage delivers the request, finds that its payload cannot *)
(* be cloned, or throws something else.                                     *)
Call(c, k) ==
  /\ status[c] = "none"
  /\ kind' = [kind EXCEPT ![c] = k]
  /\ made' = Append(made, c)
  /\ \/ /\ closed \/ faulted
        /\ status' = [status EXCEPT ![c] = "failed"]
        /\ UNCHANGED <<clientVars, inbox>>
     \/ /\ ~closed /\ ~faulted /\ ~ready
        /\ status' = [status EXCEPT ![c] = "queued"]
        /\ queued' = Append(queued, c)
        /\ UNCHANGED <<ready, closed, faulted, terminated, closing, exitSeen, inbox>>
     \/ /\ ~closed /\ ~faulted /\ ready
        /\ \/ /\ status' = [status EXCEPT ![c] = "sent"]
              /\ inbox' = Append(inbox, c)
              /\ UNCHANGED clientVars
           \/ /\ status' = [status EXCEPT ![c] = "failed"]
              /\ UNCHANGED <<clientVars, inbox>>
           \/ /\ FailWith(Pending \cup {c}, {d \in Calls : status[d] = "sent"})
              /\ UNCHANGED <<closing, exitSeen, inbox>>
  /\ UNCHANGED <<outbox, workerVars>>

(* Mutant: with a faulted client there is nothing to wait for.              *)
ReturnsAtOnceFaulted == exitSeen \/ faulted

(* Mutant: the exit event is awaited although it has passed.                *)
ReturnsAtOnceNever == FALSE

(* terminate() of a worker that has exited returns at once.                 *)
ReturnsAtOnce == exitSeen

(* Mutant: queued requests stay queued, to be sent when the worker is ready.*)
CloseKeepsQueue ==
  /\ closing = "no"
  /\ closing' = IF ReturnsAtOnce THEN "done" ELSE "waiting"
  /\ IF faulted THEN UNCHANGED <<closed, inbox>>
     ELSE closed' = TRUE /\ inbox' = Append(inbox, Shutdown)
  /\ UNCHANGED <<kind, status, queued, ready, faulted, terminated, exitSeen, outbox,
                 workerVars, made>>

(* close().                                                                 *)
Close ==
  /\ closing = "no"
  /\ closing' = IF ReturnsAtOnce THEN "done" ELSE "waiting"
  /\ IF faulted THEN UNCHANGED <<closed, queued, status, inbox>>
     ELSE /\ closed' = TRUE
          /\ queued' = <<>>
          /\ status' = [c \in Calls |-> IF status[c] = "queued" THEN "failed" ELSE status[c]]
          /\ inbox' = Append(inbox, Shutdown)
  /\ UNCHANGED <<kind, ready, faulted, terminated, exitSeen, outbox, workerVars, made>>

(* The worker is ready: the queued requests are sent in their order, those  *)
(* that postMessage accepts.  After one at which it throws (broken) the     *)
(* loop goes on, although fail() has settled every call.                    *)
SendQueued(order, broken) ==
  LET accepted == [i \in DOMAIN order |-> queued[order[i]]]
      before   == {queued[order[i]] : i \in {j \in DOMAIN order : order[j] < broken}}
      sent     == {c \in Calls : status[c] = "sent"}
  IN /\ inbox' = inbox \o accepted
     /\ IF broken <= Len(queued)
        THEN FailWith(Pending, sent \cup before)
        ELSE /\ ready' = TRUE
             /\ queued' = <<>>
             /\ status' = [c \in Calls |-> IF status[c] # "queued" THEN status[c]
                                           ELSE IF c \in before THEN "sent" ELSE "failed"]
             /\ UNCHANGED <<closed, faulted, terminated>>

(* The positions of queued that are accepted, in order.                     *)
Selections(n) ==
  {order \in UNION {[1 .. m -> 1 .. n] : m \in 0 .. n} :
     \A i, j \in DOMAIN order : i < j => order[i] < order[j]}

HandleReady ==
  /\ outbox # <<>> /\ Head(outbox) = Ready
  /\ outbox' = Tail(outbox)
  /\ \E order \in Selections(Len(queued)), broken \in 1 .. Len(queued) + 1 :
       /\ \A i \in DOMAIN order : order[i] # broken
       /\ SendQueued(order, broken)
  /\ UNCHANGED <<kind, closing, exitSeen, workerVars, made>>

(* resolveMessage(): an answer to a call that is not pending is ignored.    *)
HandleAnswer ==
  /\ outbox # <<>> /\ Head(outbox).type = "answer"
  /\ outbox' = Tail(outbox)
  /\ LET m == Head(outbox) IN
       status' = IF m.id \in Pending THEN [status EXCEPT ![m.id] = m.answer] ELSE status
  /\ UNCHANGED <<kind, clientVars, inbox, workerVars, made>>

HandleShutdownComplete ==
  /\ outbox # <<>> /\ Head(outbox) = ShutdownComplete
  /\ outbox' = Tail(outbox)
  /\ RejectPending
  /\ UNCHANGED <<kind, clientVars, inbox, workerVars, made>>

(* The error event of a worker that died; it may precede messages the       *)
(* worker posted before, the exit event never does.                         *)
HandleError ==
  /\ worker = "exited" /\ ~clean /\ ~exitSeen
  /\ ~faulted
  /\ Fail
  /\ UNCHANGED <<kind, closing, exitSeen, inbox, outbox, workerVars, made>>

HandleExit ==
  /\ worker = "exited" /\ outbox = <<>> /\ ~exitSeen
  /\ exitSeen' = TRUE
  /\ closing' = IF closing = "waiting" THEN "done" ELSE closing
  /\ IF clean /\ closed
     THEN RejectPending /\ UNCHANGED <<faulted, closed, ready, terminated, queued>>
     ELSE Fail
  /\ UNCHANGED <<kind, inbox, outbox, workerVars, made>>

-----------------------------------------------------------------------------
(* The worker.  terminate() lets it finish no more than what it is doing:   *)
(* no further message or continuation is handled.                           *)

Alive == worker = "running" /\ ~terminated

Start ==
  /\ worker = "starting" /\ ~terminated
  /\ worker' = "running"
  /\ outbox' = Append(outbox, Ready)
  /\ UNCHANGED <<kind, status, clientVars, inbox, clean, stopping, tail, lane, phase,
                 effect, made>>

Receive(c) ==
  IF stopping
  THEN /\ outbox' = Append(outbox, Answer(c, "unknown"))
       /\ UNCHANGED <<stopping, tail, lane, phase>>
  ELSE LET route == kind[c].route IN
       /\ phase' = [phase EXCEPT ![c] = IF route = "query" THEN "executing" ELSE "waiting"]
       /\ tail' = IF route = "tail" THEN Append(tail, c) ELSE tail
       /\ lane' = [l \in Lanes |-> IF route = l THEN Append(lane[l], c) ELSE lane[l]]
       /\ UNCHANGED <<outbox, stopping>>

ReceiveShutdown ==
  /\ stopping' = TRUE
  /\ tail' = Append(tail, Shutdown)
  /\ UNCHANGED <<outbox, lane, phase>>

HandleRequest ==
  /\ Alive /\ inbox # <<>>
  /\ inbox' = Tail(inbox)
  /\ IF Head(inbox) = Shutdown THEN ReceiveShutdown ELSE Receive(Head(inbox))
  /\ UNCHANGED <<kind, status, clientVars, worker, clean, effect, made>>

(* Mutant: a request for a resource does not wait for the one before it.    *)
AtHeadUnlaned(c) ==
  \/ kind[c].route = "tail" /\ tail # <<>> /\ Head(tail) = c
  \/ kind[c].route \in Lanes

(* executeRequest(): the request at the head of its chain is dispatched.    *)
AtHead(c) ==
  \/ kind[c].route = "tail" /\ tail # <<>> /\ Head(tail) = c
  \/ kind[c].route \in Lanes /\ lane[kind[c].route] # <<>> /\ Head(lane[kind[c].route]) = c

Execute(c) ==
  /\ Alive
  /\ phase[c] = "waiting" /\ AtHead(c)
  /\ phase' = [phase EXCEPT ![c] = "executing"]
  /\ UNCHANGED <<kind, status, clientVars, inbox, outbox, worker, clean, stopping, tail,
                 lane, effect, made>>

(* The handler commits; a commit that runs is not interrupted by            *)
(* terminate().                                                             *)
Commit(c) ==
  /\ worker = "running"
  /\ phase[c] = "executing" /\ kind[c].mutation /\ ~effect[c]
  /\ effect' = [effect EXCEPT ![c] = TRUE]
  /\ UNCHANGED <<kind, status, clientVars, inbox, outbox, worker, clean, stopping, tail,
                 lane, phase, made>>

(* Mutant: an unexpected error has no outcome.                              *)
UnexpectedUnclassified(c) == "none"

(* Mutant: an unexpected error is one before the commit.                    *)
UnexpectedIsHarmless(c) == "notExecuted"

(* How a handler ends: it returns; it throws an error of the store's own    *)
(* before it commits (serializeStorageWorkerError knows it); or it throws   *)
(* anything, or its value cannot be cloned.                                 *)
Unexpected(c) == IF kind[c].mutation THEN "unknown" ELSE "notExecuted"

HandlerAnswers(c) ==
  (IF kind[c].mutation /\ ~effect[c] THEN {} ELSE {"result"})
    \cup (IF effect[c] THEN {} ELSE {"rejected", "notExecuted"})
    \cup {Unexpected(c)}

(* A query may end after the port was closed; its answer is lost.  After a  *)
(* fatal error of one chain the next request of it may run until            *)
(* setImmediate throws: here the worker may die or go on at any step.       *)
Finish(c) ==
  /\ worker \in {"running", "drained"} /\ ~terminated
  /\ phase[c] = "executing"
  /\ phase' = [phase EXCEPT ![c] = "done"]
  /\ \E a \in HandlerAnswers(c) :
       outbox' = IF worker = "running" THEN Append(outbox, Answer(c, a)) ELSE outbox
  /\ tail' = IF kind[c].route = "tail" THEN Tail(tail) ELSE tail
  /\ lane' = [l \in Lanes |-> IF kind[c].route = l THEN Tail(lane[l]) ELSE lane[l]]
  /\ UNCHANGED <<kind, status, clientVars, inbox, worker, clean, stopping, effect, made>>

(* Mutant: the shutdown does not wait for the resource lanes.               *)
LanesIgnored == TRUE

LanesEmpty == \A l \in Lanes : lane[l] = <<>>

(* The shutdown reaches the head of the tail: it waits for the lanes,       *)
(* closes the stores, says so and closes the port.                          *)
Drain ==
  /\ Alive
  /\ tail # <<>> /\ Head(tail) = Shutdown
  /\ LanesEmpty
  /\ worker' = "drained"
  /\ tail' = Tail(tail)
  /\ outbox' = Append(outbox, ShutdownComplete)
  /\ UNCHANGED <<kind, status, clientVars, inbox, clean, stopping, lane, phase, effect, made>>

Exit ==
  /\ worker = "drained"
  /\ worker' = "exited"
  /\ clean' = TRUE
  /\ UNCHANGED <<kind, status, clientVars, inbox, outbox, stopping, tail, lane, phase,
                 effect, made>>

(* An uncaught error, a fatal error of the chains, or terminate().          *)
Die ==
  /\ worker # "exited"
  /\ worker' = "exited"
  /\ UNCHANGED <<kind, status, clientVars, inbox, outbox, clean, stopping, tail, lane,
                 phase, effect, made>>

-----------------------------------------------------------------------------

Init ==
  /\ kind = [c \in Calls |-> NoKind]
  /\ status = [c \in Calls |-> "none"]
  /\ queued = <<>> /\ ready = FALSE /\ closed = FALSE /\ faulted = FALSE
  /\ terminated = FALSE /\ closing = "no" /\ exitSeen = FALSE
  /\ inbox = <<>> /\ outbox = <<>>
  /\ worker = "starting" /\ clean = FALSE /\ stopping = FALSE
  /\ tail = <<>> /\ lane = [l \in Lanes |-> <<>>]
  /\ phase = [c \in Calls |-> "none"]
  /\ effect = [c \in Calls |-> FALSE]
  /\ made = <<>>

Client == HandleReady \/ HandleAnswer \/ HandleShutdownComplete \/ HandleError \/ HandleExit
Worker == Start \/ HandleRequest \/ Drain \/ Exit \/ Die

Next ==
  \/ \E c \in Calls : (\E k \in Kinds : Call(c, k)) \/ Execute(c) \/ Commit(c) \/ Finish(c)
  \/ Close
  \/ Client
  \/ Worker

Spec == Init /\ [][Next]_vars

(* Both event loops run what they were given, the stores are opened or the  *)
(* worker dies, handlers end (they need not commit), a drained worker exits *)
(* and a terminated one dies.  Nobody has to call or close, and no worker   *)
(* has to die by itself.                                                    *)
Fairness ==
  /\ WF_vars(HandleReady \/ HandleAnswer \/ HandleShutdownComplete \/ HandleExit)
  /\ WF_vars(Start)
  /\ WF_vars(HandleRequest)
  /\ WF_vars(Drain)
  /\ WF_vars(Exit)
  /\ WF_vars(terminated /\ Die)
  /\ \A c \in Calls : WF_vars(Execute(c)) /\ WF_vars(Finish(c))

FairSpec == Spec /\ Fairness

-----------------------------------------------------------------------------
(* The states are those of StorageWorkerClient and of the worker's chains.  *)
TypeOK ==
  /\ kind \in [Calls -> Kinds \cup {NoKind}]
  /\ status \in [Calls -> {"none", "queued", "sent"} \cup Answers]
  /\ queued \in Seq(Calls)
  /\ ready \in BOOLEAN /\ closed \in BOOLEAN /\ faulted \in BOOLEAN
  /\ terminated \in BOOLEAN /\ exitSeen \in BOOLEAN
  /\ closing \in {"no", "waiting", "done"}
  /\ inbox \in Seq(Calls \cup {Shutdown})
  /\ outbox \in Seq(Messages)
  /\ worker \in {"starting", "running", "drained", "exited"}
  /\ clean \in BOOLEAN /\ stopping \in BOOLEAN
  /\ tail \in Seq(Calls \cup {Shutdown})
  /\ lane \in [Lanes -> Seq(Calls)]
  /\ phase \in [Calls -> {"none", "waiting", "executing", "done"}]
  /\ effect \in [Calls -> BOOLEAN]
  /\ made \in Seq(Calls)

(* What the caller is told of its write is so, whatever died in between: a  *)
(* result means that it is committed, and any error but the unknown outcome *)
(* that it is not, nor will be (fail, rejectPendingForWorkerExit and        *)
(* serializeStorageWorkerError).                                            *)
AnswerIsTruthful ==
  \A c \in Calls : kind[c] # NoKind /\ kind[c].mutation =>
    /\ status[c] = "result" => effect[c]
    /\ status[c] \in {"none", "queued", "failed", "rejected", "notExecuted"} => ~effect[c]

(* A read never has an unknown outcome, which would forbid its caller to    *)
(* repeat it.  The worker's answer to a request after a shutdown would be   *)
(* one, so no request may follow a shutdown.                                *)
ReadsAreNeverUnknown ==
  \A c \in Calls : status[c] = "unknown" => kind[c].mutation

(* Requests of the tail, and of one resource lane, are executed one after   *)
(* the other in the order in which they were called, through the wait for   *)
(* the worker, the channel and the chain: a service that does not await a   *)
(* write still reads it.                                                    *)
InOrder ==
  \A i, j \in DOMAIN made :
    LET c == made[i]
        d == made[j]
    IN i < j /\ kind[c].route = kind[d].route /\ kind[c].route # "query"
         /\ phase[d] \in {"executing", "done"}
       => phase[c] = "done" \/ (phase[c] = "none" /\ status[c] = "failed")

(* The stores are closed when no request is left that uses them, and when   *)
(* the client learns of it every write that was sent is answered: an        *)
(* orderly close makes no outcome unknown.                                  *)
CloseIsOrderly ==
  /\ worker = "drained" =>
       \A c \in Calls : phase[c] \in {"waiting", "executing"} => kind[c].route = "query"
  /\ outbox # <<>> /\ Head(outbox) = ShutdownComplete =>
       \A c \in Calls : status[c] = "sent" => ~kind[c].mutation

(* After close() returned nothing of this generation is committed: recreate *)
(* removes the database files next, and another worker opens them.          *)
ClosedIsQuiet == [][closing = "done" => UNCHANGED effect]_vars

(* The services may take the client and its worker for the storage of       *)
(* StorageCallContract.                                                     *)
Contract == INSTANCE StorageCallContract WITH
  status <- [c \in Calls |-> IF status[c] \in {"queued", "sent"} THEN "open" ELSE status[c]],
  writes <- {c \in Calls : kind[c] # NoKind /\ kind[c].mutation},
  lost <- faulted,
  over <- (closing = "done")

(* Every step of the client and of the worker is one the contract allows.   *)
ImplementsContract == Contract!Spec

(* Every call is answered, although the worker may die with it, the client  *)
(* may be closed before the worker is ready, or queries may be cut off.     *)
EveryCallAnswered ==
  \A c \in Calls : status[c] \in {"queued", "sent"} ~> status[c] \in Answers

(* close() returns, also after the client has failed.                       *)
CloseEnds == (closing = "waiting") ~> (closing = "done")

=============================================================================
