# A model of WithMate's execution core

WithMate is an Electron application in which a user talks to coding agents. The
main process runs one agent turn at a time per Session, keeps everything in a
SQLite database behind a storage worker thread, and must survive lost replies,
cancellations, provider cleanup that outlives its turn, crashes and restarts
without running a request twice or losing one. This directory models that core
in TLA+, model-checks it with TLC and proves its most important properties with
TLAPS.

`PROJECT.json` lists the components, the runs, the mutants, the code each
definition stands for (`map`), the hazards and the theorems.

## 1. Inventory

Paths are relative to `src/src-electron/` unless they say otherwise.

| Component | State | Operations | Talks to | Hard behaviour | Correct when |
|---|---|---|---|---|---|
| **Session turn queue** `session/session-turn-queue-service.ts`, `session-turn-queue-storage-v6.ts` | owners, blocked, edits, lastClaim, wakeRequested, running drains, one promise lock per Session; `session_turn_queue_v6` | enqueue, reconcileKnownReceipt, cancelQueued, begin/update/cancel/releaseQueuedEdit, reorderQueued, sendQueuedInput, releaseInterrupted, wake and drain, start, beginShutdown, resume, waitForPending | runtime (dispatch, sendInput, isRunInFlight, release observer), storage worker, windows and quit | lost replies of every transaction; wakes while the drain runs; checks several awaits before their use; crash at every await | a request is handed over at most once; one turn at a time; unknown outcomes hold followers; no wake is lost |
| **Session runtime** `session/session-runtime-service.ts` | in-flight runs, abort controllers, terminating runs, setup and provider promises, pending inputs | runQueuedSessionTurn, sendSessionInput, runSessionTurn, cancelRun, isRunInFlight, reset | queue, providers, Session storage, approvals | cancellation deadlines that detach work; input saved by a closure over the running Session; terminal answer before the guards are released | a run owns its turn until the answer is saved; cleanup of one turn never meets the next |
| **Session storage** `session/session-storage-v6.ts`, `session-turn-storage-v6.ts` | Session rows, messages, turns | appendRunningTurnStart, appendSessionSteer, appendSessionTerminal, checkpoints, CRUD | storage worker | owner and phase checks inside one transaction | message, turn, Session and receipt change together |
| **Startup and persistence facade** `app/main-session-persistence-facade.ts` | Session cache | recoverInterruptedSessions, save and append | queue, storage | crash between any two writes | running Sessions and receipts become interrupted before the queue starts |
| **Acceptance facade** `app/main-session-turn-queue-facade.ts` | acceptance lock per request | accept, getReceipt, edits, release | queue, storage, renderer | repeated submission of one request identity | a retry finds the receipt it made |
| **Approval and elicitation** `session/session-approval-service.ts`, `session-elicitation-service.ts` | a queue of requests per Session, the published head, questions with their answers under way | waitFor..., resolve..., cancelSession, reset | runtime (steering, end of a turn), providers, renderer | a decision that arrives after its request is over; an answer that is being sent when its turn ends | only what the user approved is approved; the history says what became of a question |
| **Storage worker and client** `storage/storage-worker-client.ts`, `storage-worker-entry.ts`, `storage-worker-dispatcher.ts` | pending and queued calls, generation, faulted and closed; the worker's tail and lanes | call, close, messages, exit | every storage user | exit with calls in flight, close before ready, answers of an old generation | an answer "not executed" is true, an unknown one says so, every call is answered |
| **Turn admission and settings changes** `session/session-turn-admission.ts`, `settings/settings-catalog-service.ts`, `providers/provider-runtime-operation-coordinator.ts` | in-flight sets, providers held by a change, rollback epoch, the exclusive line, layout write tail | admission, updateAppSettings with deferred cleanup and rollback, resetAppDatabase, updateChatLayoutPreference | runtime, queue, Session and settings storage, providers | each side looks at the other's reservation; a rollback decided after the line was left; settings and threads saved one by one | no turn runs on settings that are being replaced, or resumes a thread of other credentials; a reset stays |
| **Windows and quit** `windows/session-window-bridge.ts`, `main.ts` | open windows, quit state | close requests, quit, maintenance | queue, runtime | an answer used after an await | accepted work survives the last window, quit loses none silently |
| **Auxiliary sessions** `auxiliary/*` | drafts with revisions, auxiliary runs and queues | save and consume a draft, run, steer | storage, runtime | a draft saved while it is consumed | a draft is sent once and never resurrected |
| **Provider runtime** `providers/*` | bindings, owned processes | bind, run, cancel, release | runtime | processes that outlive their turn | a binding belongs to one turn |
| **Runtime discovery** `platform/runtime-discovery/*` | slots, staged and retired directories, the lock directory | publish, heartbeat, unpublish, maintain | other instances, CLI tools | crashes and file system errors inside the lock; a challenge that is old when it is acted on | an entry with a live lease is kept; a publication that fails leaves nothing unless two failures hit it; the lock comes back |
| **Conversation queries** `storage/conversation-query-coordinator.ts` | active queries, generations | request, cancel, invalidate, close | storage worker | mutation during a scan | a result is of one version of the history |
| **Memory and affect** `memory/*`, `character/character-affect-*` | entries, idempotency records | append, revise, correct, reset | own workers | repeated commands after lost replies | a key has one effect |
| **Session graph, glossary, Mate, characters, settings, files, terminal, notifications, skills, renderer, CLI** | records, files, processes | CRUD, I/O, views | storage, IPC | mostly data and I/O | see `components` for why they are left out |

## 2. The plan

1. *Done:* `TurnQueueStore` (transactions), `TurnQueue` (the services over
   them), `TurnQueueContract` (what callers are promised), their proofs.
2. *Done:* `StorageWorker` (client and worker with their message channels),
   `StorageCallContract` (what a storage call promises), their proofs. They
   justify the storage faults that `TurnQueue` takes as given.
3. *Done:* `SettingsChange`: changes of settings, resets and the admission of
   turns over the exclusive line they share, and its proofs.
4. *Done:* `SessionRequests`: approvals and questions of a Session, the steering
   by which questions are answered, and the end of the turn around them, and its
   proofs.
5. *Done:* `RuntimeDiscovery`: the registry that several processes share, and
   its proofs.
6. For an extension: the preflight of an acceptance and its retry
   (`TurnAcceptance`), drafts of auxiliary sessions, the coordinator of
   conversation queries, then Memory and affect.

## 3. The modules

| Module | What it is |
|---|---|
| `TurnQueueStore` | The receipts of one Session and the two facts of its row that the queue's transactions touch. One action per `BEGIN IMMEDIATE ... COMMIT`. |
| `TurnQueue` | `SessionTurnQueueService` for one Session and the part of `SessionRuntimeService` that a dispatch and an input depend on. EXTENDS the store; its actions are the store's transactions inside handlers. |
| `TurnQueueContract` | The promise: seven states of a request, when it is called, and which moves are ever allowed. `TurnQueue` instantiates it with a refinement mapping (`StatusOf`). |
| `MCTurnQueue` | Symmetry for TLC. |
| `StorageWorker` | `StorageWorkerClient` and the worker thread behind it, for one generation: the client's pending calls and flags, both channels, the worker's tail, lanes and queries. |
| `StorageCallContract` | The promise of a storage call: it is answered once, truthfully. `StorageWorker` instantiates it. |
| `MCStorageWorker` | Symmetry for TLC. |
| `SettingsChange` | `SettingsCatalogService` (changes with deferred cleanup and rollback, resets, layout checkpoints), `admitSessionTurn`, and the exclusive line of `ProviderRuntimeOperationCoordinator`, for the Sessions of some providers. |
| `SessionRequests` | `SessionApprovalService` and `SessionElicitationService` for one Session, with the parts of `SessionRuntimeService` they meet: cancelRun, sendSessionInput, and the end of a turn. |
| `RuntimeDiscovery` | The registry directory, its lock and the instances that use it. |
| `MCSettingsChange`, `MCSessionRequests`, `MCRuntimeDiscovery` | Values and symmetry for TLC. |
| `TurnQueueStoreProofs`, `TurnQueueProofs`, `TurnQueueClaimProofs`, `TurnQueueContractProofs`, `StorageWorkerProofs`, `SettingsChangeProofs`, `SessionRequestsProofs`, `RuntimeDiscoveryProofs` | Theorems. |

### State and code: the queue

`rcpt` is the table: per client request id the state, `queue_position`,
`input_turn_id`, whether a turn is recorded and whether `released_at` is set.
`runState` and `liveTurn` are the Session row and the latest turn in phase
`running`. `known`, `blocked`, `edit`, `lastClaim`, `wakeReq` and `lock` are the
service's maps for this Session; `drain`, `input`, `release` and `run` say where
each asynchronous operation is, one value per await at which another actor can
be scheduled. `sent` is a history variable that counts handing over to a
provider; `faults` and `crashes` count what went wrong.

An action is a handler between two awaits, with every call it makes: the wake at
the end of a handler, the release observer of the runtime and the end of a drain
that repeats a noted wake are parts of the actions, never steps of their own.

### State and code: the storage worker

`status` is the client's `pending` map and `queued` array seen from a call, and
afterwards what its promise settled with; `queued`, `ready`, `closed` and
`faulted` are the fields of those names, `terminated` says that
`terminationPromise` is set, `closing` is `closePromise`. `inbox` and `outbox`
are the two message channels. In the worker `stopping` is `shuttingDown`; `tail`
and `lane` are the promise chains as sequences of what is still chained, the
head being executed; `phase` and `effect` say what the worker did with a call
and whether its writes are committed. `made` is a history variable.

Each message or event handler of either thread, and each continuation of a
chain, is one action. A handler that commits has three: dispatched (`Execute`),
committed (`Commit`), ended (`Finish`); so the worker can die between any two of
them.

### State and code: settings and admission

`settings`, `layout`, `live` and `thread` are what is stored: the API key of each
provider, the saved chat layout, the Sessions, and the provider thread of each of
them, known by the key it was made under. `line` is the promise chain of
`ProviderRuntimeOperationCoordinator`, its head the operation that runs. `chg`
holds the locals of each call of `updateAppSettings`: where it is, the settings
before and after, the epoch and the owner it captured, the listed threads and
those it has emptied. `held` counts the changes that hold a provider
(`acquireProvider`), `epoch` is `rollbackEpoch`, `owner` the generation of the
storage owner, `tail` `chatLayoutWriteTail`, `reset` and `run` are
`resetAppDatabase` and the turn of each Session. `past` is history only.

A change asks for the line, reads, saves, empties the threads one by one and
leaves the line; its cleanup runs outside it and, when it fails, the rollback
asks for the line again. Each of these is an action, and each storage call can
fail or commit and lose its reply. A turn passes the line twice: it is reserved,
and after its provider was read it is checked.

### State and code: requests of a Session

`queue` and `signals` are the pending requests of `SessionApprovalService` with
the signals that wait for each; `queue` gives each its number of arrival, since
removal never changes the order of the rest. `decision` is what a promise
resolved to, `clicks` the decisions on their way from the renderer. `question`
is the pending map of `SessionElicitationService`: a question is open, its
answer waits for its microtask (`hop`), is being sent, was stored (`acked`) or
could not be sent (`failed`), and it may have expired meanwhile. `input` is the
one input of `sendSessionInput`, `turn` the turn with its abort signal, `live`
the live run that the renderer sees with the records of its questions, `history`
the records handed to the terminal save.

The handlers of both services are synchronous and each is one action. The end of
a turn has four steps, one per await: the provider ends, the dispatched input is
over, the answers that are being sent are known, the last message is saved.

### State and code: the registry

`active` is the slot directories with the entry in each; `staging` and `retired`
are the directories beside them; `lock` is `.registry-mutation.lock`, whose
`left` says that its release failed. `pc` and `work` are where each process is
and its locals: the listed records, the one it retires, its slot, and the slots
it takes for occupied, because something other than an entry is in them or it
was refused there. `faults` counts the failures that hit each process, one for
each call that fails (`Failures`, `Completes`, `Throws`). An action lies between two operations of the file system that
another process can come between. The rename that claims a slot has an action
for each way it may end: done (`PublishClaims`), reported as an error and not
done (`ClaimRefused`, `PublishCannot`), reported as an error, done and found by
the look-up (`ClaimFound`), done and not found because the look-up fails too
(`ClaimUnseen`), and tried again with nothing staged (`ClaimMissing`). What was read before the lock is read again
under it (`RetireReads`, `BeatReads`, `UnpublishReads`), and that is a step of
its own because the process may die, or the lock be taken over, after it.

### What is abstracted in the queue, and why that is sound

- *One Session of one incarnation, main turns only.* Receipts, locks and runs of
  different Sessions share nothing but the database; deletion of Sessions and
  auxiliary receipts are not modelled, so `isCurrentOwner` is always true once
  the owner is known.
- *Data.* Messages, reasons and timestamps other than `released_at` do not
  matter to any guard. Saving, canceling or abandoning an edit therefore is one
  action, `EndEdit`; a user operation that throws changes nothing and is no step.
- *A storage fault* is one outage: the call fails, or commits and loses its
  reply. Where the code reads again under the same lock after a lost reply, and
  the read answers, the outcome is that of the reply and is not a fault. Where
  the read is part of the same outage the branch says so (`InputClaim`).
- *One-call user operations* hold the Session lock across their single await, so
  nothing that needs the lock is between the call and its continuation; they are
  one step. Nor can anything between the awaits of the recovery of a failed input
  (`InputRecover`): the lock is held to its end, and what runs without the lock
  may as well come after it. The operations with two awaits that matter (`releaseInterrupted`, the
  claim of an input with its undoing, the drain) have their steps.
- *A look-up* reads and reconciles in one step. What it acts on, a terminal
  state, never changes (`TerminalIsFinal`), so a stale answer does the same.
- *The expected turn* of an input is identified by the request that owns the
  turn. `ClaimForInput` checks what the transaction checks, that some turn is
  running; `InputDispatch` checks what the runtime checks.
- *Convergence order.* `listActive` is ordered; the model releases the released
  receipts in any order. `Reorder` exchanges two positions; any permutation that
  `reorderQueued` saves is a sequence of exchanges, and the properties speak of
  single states or of transitions that no exchange makes.
- *The runtime.* Setup, start transaction, provider and terminal save are one
  step each with the cancellation checks between them. The runtime's own retry
  on a stale provider thread is inside "the provider works". Provider work left
  behind, by cancellation or `onCleanupPending`, is `lateWork`.
- *The application.* Quit and database maintenance both are `closing`; a
  provider that settings cleanup holds is `providerBusy`.

### What is abstracted in the storage worker, and why that is sound

- *One generation.* The client creates its worker with its own generation, so
  no frame of another one arrives; a replaced client has its own channels. What
  carries over from one generation to the next is the database, which
  `ClosedIsQuiet` and the contract are about.
- *Messages that settle nothing*, `started` and `progress`, are left out, as are
  malformed frames: the worker that the client creates posts none.
- *A kind* is where a request is executed and whether it writes. The reads that
  a conversation query chains to the tail are part of the query; queries never
  write, which is in the definition of `Kinds`.
- *A commit* is one step: a handler is one transaction as far as its caller is
  concerned. The errors the worker recognises are thrown before the transaction
  or inside it, and roll it back; that a rejection may be recorded is no write
  of the call. After a commit a handler returns, or throws something unexpected.
- *Death* may come at any step, from an uncaught error, a fatal error of a chain
  or `terminate()`. `terminate()` lets a commit that runs finish and handles no
  further message or continuation. Messages posted before a death are delivered
  before the exit event; the error event may precede them. After a fatal error of
  a chain the next request of it may run until `setImmediate` throws; here the
  worker dies, or goes on, at any step. The shutdown, which
  has no payload, can be posted always; a request may be refused as one that
  cannot be cloned, or with another exception, which ends the client.

The queue's storage faults are those of the contract: a call that failed did not
commit and never will (`failed`, `rejected`, `notExecuted`), and one that lost
its reply has an unknown outcome. A write that commits *after* its unknown
outcome was told belongs to a client that has failed and answers nothing any
more; so nobody who looks again and gets an answer sees the state change behind
its back, which is what `TurnQueue` assumes of a look-up.

### What is abstracted in settings and admission, and why that is sound

- *Settings* are the keys and the layout. A rollback compares the saved settings
  as JSON, all of them, so a layout checkpoint that comes during the cleanup
  cancels the rollback of the credentials; `RollbackIsCurrent` says so.
- *The listing* of the threads is one read. The code makes two, one after the
  other, before the save; a run that is admitted, works and ends between them
  and the save leaves a thread that is on no list. `ChangeIssuesSave` records
  such a provider as `strayed`, and so do a save, a restore or a crash that
  leaves the settings without their threads, and a reset of the settings alone:
  nothing in the code undoes those, and `NoStaleThread` excepts them by name.
- *An admitted turn* reads its settings and its thread in one step.
- *The cleanup* of a provider's sessions succeeds or fails; what the provider
  does in it is not modelled.
- *A reset* of all targets replaces the storage owner; a crash leaves nobody who
  captured the old one.

### What is abstracted in the requests, and why that is sound

- *One Session.* Both services keep their state per Session; `reset()` of all of
  them, and the deadline after which a run that does not end is detached, are
  left out: they happen when the application is maintained or the turn is lost,
  and are part of `TurnQueue`.
- *A turn* runs once. The internal retry of a provider, which is made only when
  it failed with nothing to show, is not modelled: it is assumed that such a
  provider has no approval pending.
- *An answer* is a message to the running turn. When its acknowledgement is lost
  the form opens again, and the user may send it twice: the code cannot know,
  and no property says otherwise. `saved` means accepted and confirmed to be
  stored. An append that commits and loses its reply counts as one that failed,
  as it does for the code, and `HistoryIsTrue` says nothing of it.
- *Questions* are taken by the runtime until the terminal save begins. The model
  asks them only while the provider runs: the Codex adapter closes its
  interactions before it ends.
- *A request* is known by its id. `past.approved` is kept when an id is asked for
  again, so `ApprovalIsTheUsers` does not tell two requests of one id apart.
- *Asynchronous questions* (`Async`) are those answered by a message; the others
  are answered in the provider's own protocol, at once.
- *Contents*, notifications and the setup before the provider is called are
  left out.

### What is abstracted in the registry, and why that is sound

- *Ages* of a lease are three: alive, old enough to be retired when no slot is
  free, past the retention. A listing is one atomic read.
- *A lock* may be taken over when its holder is dead or has stopped. The retries
  of an acquisition take 25 s and a lock is stale after 20 s, so an acquisition
  fails only when somebody else has got the lock in between. A living process
  that is suspended longer than 20 s inside the lock, and goes on afterwards, is
  not modelled: no property below would survive it, and no code handles it.
- *The legacy pointer file* is a callback that may fail. A rollback may fail to
  read back what it has to move, or to release the lock; what it moves it removes
  at once. A runtime that was retired alive does not publish again.
- *A failure* is one call of the file system that reports an error, done or not,
  or one entry that cannot be read: the code takes that for an entry that has
  changed, is another's, or is missing. `FailedLeavesNothing` is about
  publications that one failure hit. With two an entry can stay (section 6).
- *A withdrawal that is refused* leaves its entry until it is old; the caller
  reports it and goes on.

## 4. The runs

| Run | Instance | Question |
|---|---|---|
| `queue_faults` | 2 requests, 2 faults, 1 crash; about 750,000 states | Do the safety and action properties and the contract hold under every interleaving of the drain, the run, two inputs, a release, the user, shutdown, lost replies and a crash? |
| `queue_three` | 3 requests, 1 crash, no faults; about 2,600,000 states | Is a request still handed over at most once with a turn, two competing inputs or an input and a follower; and is the queue at rest only blocked for a reason a user can remove? |
| `queue_liveness` | 2 requests, 1 crash, fair | Does queued work run, does a claimed input end, does a shutdown end? |
| `cancel_leaves_idle` | 1 request, nothing goes wrong | A documented claim the code does not meet (section 6). |
| `storage_worker` | 3 calls of any kind, 1 lane; about 2,500,000 states up to symmetry | Is what callers are told true, does every chain keep its order, and is the contract met, whatever dies, is refused or is closed in between? |
| `storage_worker_liveness` | 2 calls, 1 lane, fair | Is every call answered, and does `close()` return? |
| `settings_change` | 2 overlapping changes, 2 providers, 1 Session, 1 reset, 1 checkpoint, 1 fault, 1 crash; about 3,800,000 states | Do changes and turns exclude each other, is no stale thread resumed, and does a reset stay, whatever fails and overlaps? |
| `settings_liveness` | 2 changes, 2 Sessions of one provider, 2 faults, fair; about 306,000 states | Is a change that was undone undone completely, are providers given back, and is every admission decided? |
| `credentials_switch_threads` | 2 changes, 1 Session, 1 reset, nothing goes wrong | A documented claim the code does not meet (section 6). |
| `requests_approvals` | 2 approvals asked for 4 times, 2 signals, 2 turns; about 190,000 states up to symmetry | Is what is shown what is pending, and only that approved which the user approved? |
| `requests_questions` | 3 questions, 2 of them answered by a message, 2 turns, fair; about 68,000 states | Is what is shown what is pending, does the history say what became of each question, and does a canceled turn end? |
| `runtime_discovery` | 2 processes, 2 slots, either of them possibly taken by something else, 1 renewal, 2 failures of one process and 1 of the other, any crash; about 463,000 states, fair | Whose entry may be removed, what does a failed publication leave, and does the lock come back? |

Two requests suffice for every conflict between a receipt and the one that holds
it; a third is needed only where an input meets an input during a turn. Two
faults let a call and the look-up that follows it both fail; a crash after a
restart is the crash of a queue in another state the first part already
reaches. Three calls are a write at the head of a chain, one behind it and one
that runs beside them or comes too late; the character and the mate lane differ
in nothing but their name, and one lane beside the tail shows what they do to
each other and to a shutdown. None of the bounds enters the theorems of
section 5.

Two changes are one that cleans up, or rolls back, while the other one holds the
same provider or another one; the second provider is there for the changes that
do not touch the Session. A reset, a checkpoint, a fault and a crash each meet a
change in all of its steps. `NoStaleThread` is checked, and proved, for one
failure only, for a reason: with three overlapping changes, two of whose cleanups
fail, the comparison of settings lets a rollback through although the settings
were changed and changed back in between, and the rollback restores threads of a
credential that another rollback then takes away (section 5). Two approvals are a head and the one
behind it, and the second turn and the repeated callbacks let a decision arrive
that was meant for an earlier request. Of the questions two wait for the one
input there can be, and the third is answered at once. When something else is
in one of the two slots, every publisher retires somebody; when nothing is, an
entry its publisher does not know and a free slot for its next attempt are there
at once. Two failures are what a claim needs to be lost from sight.

Deadlock is not checked where the system may stop: after the exit event a storage
client with no call left has nothing more to do; a settings run ends when its
changes, its reset and its turns are over and nobody asks for more; a Session
without turns left is at rest; an instance that has published, withdrawn or
crashed does nothing more.

*The properties of the queue.* `AtMostOnce`, `OneTurnClaimed`, `FollowersHeld`,
`OrderIsTotal`, `EditedStaysQueued`, `StartFindsIdleSession`, `RunOwnsTurn`,
`BlockedForAReason`; the action properties `TerminalIsFinal` and
`ClaimFindsNoRun`; the refinement `ImplementsContract`; the liveness properties
`QueueDrains`, `InputsEnd`, `ShutdownFinishes`. Each is stated in words above
its definition, and each has a mutant: a definition that stands before the one
it would replace, is used nowhere, and makes TLC find the property violated.

*The properties of the storage worker.* `AnswerIsTruthful`,
`ReadsAreNeverUnknown`, `InOrder`, `CloseIsOrderly`; the action property
`ClosedIsQuiet`; the refinement `ImplementsContract`; the liveness properties
`EveryCallAnswered` and `CloseEnds`.

*The properties of settings and admission.* `NoTurnDuringChange`,
`NoStaleThread`, `ResetStays`; the action property `RestoredExactly`; the
liveness properties `ProvidersReturn` and `AdmissionsEnd`.

*The properties of the requests.* `LiveShowsPending`, `HistoryIsTrue`; the action
property `ApprovalIsTheUsers`; the liveness property `CancelEndsTurn`.

*The properties of the registry.* `FailedLeavesNothing`; the action property
`FreshIsKept`; the liveness property `LockReturns`.

*Fairness of the queue.* The event loop runs every continuation, and storage calls, setup,
providers and their cleanup end: weak fairness of the drain, the run, the late
work, the release and each input. The Session lock is a chain of promises, first
come first served, so those that wait for it get it although others come and go:
strong fairness of `DrainEnter` and `InputRecover`. No fairness is assumed of
users, of faults, or of `Crash`. A restart is assumed after a crash, since what
is promised is about an application that runs. `QueueDrains` excludes, by
`HeldBack`, a user who takes queued requests as inputs for ever: each of those
can be refused and put back without end.

*Fairness of the storage worker.* Both event loops handle what they are given,
the stores are opened or the worker dies, handlers end (they need not commit), a
drained worker exits and a terminated one dies: weak fairness of each of those.
None of calls, of `close()`, of commits, or of a death by itself.

*Fairness of settings and admission.* Every await of a change, a reset, a
checkpoint and a turn is answered: weak fairness of the next step of each. Nobody
has to ask for anything. The line needs none of its own, it is first come first
served and the head always has a step.

*Fairness of the requests.* The provider of a canceled turn ends, since the grace
period is a timer; the steps of the end of a turn follow each other; an input
ends within the provider's request timeout of 10 s; the continuation of an answer
runs. None of the provider otherwise, which may ask and work for ever, nor of the
user.

*Fairness of the registry.* An instance that has begun something goes on or
crashes, and a lock that nobody refreshes becomes stale: weak fairness of
`InstanceStep` and `LockExpires`. Nobody has to start, renew, withdraw or crash.

## 5. The proofs

All hold for every finite or infinite set of requests and every bound on faults
and crashes; the assumptions are `RequestsAssumption` (the null value is no
request) and `BoundsAssumption` (the bounds are natural numbers).

*Store.* `StoreCorrect`: types, total order, one claimed turn and held followers
are invariant under the transactions alone, in whatever order and with whatever
arguments. `FollowersHeld` is inductive only together with `OneTurnClaimed`: a
turn that executes and one of unknown outcome never exist at once.

*Queue.* `QueueInvariant`: `IInv` is inductive. What the run checks is not
inductive by itself: that a request is not sent twice depends on who may act on
which receipt. `IInv` says that

- the lock is held by one actor, and an edit never overlaps the locked part of
  the drain (`LockOK`, `DrainOK`);
- the drain and the run act on receipts claimed as turns, the run on the one the
  drain waits for unless the cancel deadline detached it, and a detached run
  never reaches the provider (`DrainOK`, `RunOK`, `RunOwnsTurn`);
- an input acts on its own receipt (`InputOK`);
- whatever may still be claimed, sent or put back was not sent (`SentOK`).

The proof has one step per action. It reads the transactions through
`Transactions`, which says of each of them only which receipt changes from which
state to which, and `TurnStaysTurn`, by which a receipt claimed as a turn is
never an input's. From it follow `QueueTypes`, `HandedOverOnce`, `RunOwnsItsTurn` and
`EditsAreKept`.

*Queue over store.* `QueueUsesStore`: every step is a transaction of the store
with arguments the store knows, or leaves it alone. The store's invariants hold
of the queue by that (`QueueOneTurn`, `QueueHoldsFollowers`, `QueueOrder`), and
so does `OutcomesAreFinal`.

*Claims.* `SessionInvariant` adds what a Session that was left running looks
like: its live turn runs or is interrupted (`LiveOK`), an unreleased one holds
every claim, and a released one is among those the drain has still to converge
(`ConvergeOK`). Hence `TurnsStartIdle`; and, since what was looked at before the
storage calls cannot change while the lock is held, `ClaimsFindNoRun`.

*Contract.* `QueueImplementsContract` needs two facts more: only interrupted
receipts are released, and an input the provider may answer was handed over.
`StepIsPromised` sharpens `QueueUsesStore` to the transactions the queue really
issues, and `PromisedIsSeen` maps each of them to a step of the contract.

*Blocks.* `BlockedWithReason`: as long as `faults = 0`, a queue at rest is blocked
only by an interrupted request the user can release. The hypothesis is that of
the code: after a storage call whose outcome is not known the service blocks
without a request to show. Crashes, restarts and lost turns are not restricted.
The invariant `BInv` needs three facts beside the block itself (`Blocking`): a
queue that is worked on is known to the service (`Adopted`, or a restart would
find a block that nobody recovers), a convergence acts on released requests
only (`ConvergesReleased`, or it would take the reason of a block away), and an
input whose answer is unknown was not saved (`NothingLost`, or its failure would
block a queue with nothing to release).

*Storage worker.* For any number of calls and lanes, from `CallsAssumption`,
`KindsAssumption` and `LanesAssumption` (the shutdown is no call, the missing
kind no kind, a lane neither the tail nor a query). `WorkerInvariant`: `IInv` is
inductive. The truth of an answer is not inductive by itself, because the answer
is given by whoever comes first: the worker, the client that fails, or the
client that learns of the exit. `IInv` therefore says of each call where it is,
in the client's queue, in the channel, in a chain, done with its answer on the
way (`InboxOK`, `PhaseOK`, `ChainOK`, `SentOK`, `OutboxOK`), and what its caller
may know at that place (`StatusOK`); that a failed client has settled everything
(`ClientOK`); and that the shutdown is the last entry of the channel and of the
tail, and its answer the last message (`ShutdownOK`, `DrainedOK`). There is one
lemma per action with one step per conjunct; `AppendElements`, `TailElements`,
`ConcatElements` and `SelectionElements` say what the channels contain. From it
follow `WorkerTypes`, `AnswersAreTrue`, `ReadsCanBeRepeated`, `ClosesInOrder`,
`ClosedStaysQuiet`, and `WorkerImplementsContract`, where a step of the client
that settles many calls at once is one `Settle` of the contract.

*Order of the requests.* `LinesKeepTheirOrder`: `OInv` is an invariant. For each
route, the chain, the channel and the client's queue, joined, are the line of
the calls on their way (`Line`); `LineOK` says that no call overtakes an earlier
one of its route that is still in the line, and is done before it. It rests on
`PlaceOK` (a chain holds exactly what was received of its route and is not done,
without repetition) and `MadeOK` (what waits for the worker is in the queue, and
the queue is empty once the worker is ready: that is where a direct post could
overtake). A step either appends to the line, moves its parts, or takes its
head, and there is a lemma for each. `RequestsInOrder` follows, since what
executes is at the head of its chain.

*Calls that are pending.* `NoCallIsForgotten`: as long as a call is pending, the
client has neither failed nor handled the exit, and something is on its way that
answers the call: it waits for a worker that has still to say that it is ready
(`ReadyComes`), or it is in the channel, in a chain, in an answer on the way, or
the worker is at its end. `EveryCallAnswered` says that this something happens,
which needs fairness and is model-checked.

*Settings and admission.* For any number of changes, providers, Sessions, resets,
checkpoints, faults and crashes, from `SettingsAssumption` (the null values are
none of the others, the changes are finitely many). `SettingsInvariant`: `IInv`
is inductive. `LineOK` says that whoever does exclusive work is at the head of
the line; `CallsOK` what a change knows at each of its steps, of the settings
(`SettingsOK`), of the threads it has emptied (`ThreadsOK`), and whether it is
older than a reset (`Recent`); `Disjoint` that two changes never wait to restore
the same thread; `HeldOK` that the count of a provider is the number of changes
that hold it, a cardinality, which is where the finite set is needed; `RunsOK`
and `LayoutOK` do the same for the turns and the checkpoints. The exclusion of
turns is part of `IInv` because it is what keeps a run from storing a thread
under a rollback. A generic lemma says what a step of one change leaves of the
others (`ChangesToPreserves`); every action is an instance of it, of `EndsKeeps`,
of `MovesKeeps` or of `OutsideKeeps`. It follows that changes exclude turns
(`ChangeExcludesTurns`), that a reset stays (`ResetsStay`), and that a rollback
that is reported as done restored everything (`RollbacksAreComplete`).

*Threads and credentials.* `NoStaleThreadAfterOneFault`: for any number of
overlapping changes, Sessions, turns, resets and crashes, no turn resumes a
thread of other credentials (with the exceptions `NoStaleThread` names) as long
as at most one call has failed. `FreshThreads` adds to `IInv` that every thread
of a Session in question goes with the key that is stored or is about to be
emptied (`Keyed`), that a run uses the key that is stored (`RunKeyed`), that a
change lists every thread it must empty (`Listed`), that what it would put back
is what belonged to the key before (`Replaces`), and that at most one change
rolls back (`OneRollback`, the place where the hypothesis is used). The
hypothesis cannot be dropped: with three changes k0 to k1, k1 to k0, k0 to k1 of
one provider, of which the first two fail in their cleanup and are undone in
that order, every key and every thread is current when it is compared and put
back, and the thread that is left was made under the other key. TLC finds this
with three changes, one Session and two failures in a trace of about forty
steps; with two changes and two failures there is none.

*Line and holds.* `LineHoldsWhoWaits`: the line of the exclusive lock is, without
repetition, exactly the operations that wait or work (`LineExact`), so nobody
waits behind one that is gone and nobody who waits was left out.
`HeldForAReason`: a provider is held if and only if a change that affects it
cleans up or has a rollback outside the lock. These are what `AdmissionsEnd` and
`ProvidersReturn` need beside fairness.

*Requests.* For any number of approvals, questions, signals, turns and callbacks,
from `RequestsAssumption` (the null value is no request, the chat no question).
`RequestsInvariant`: `IInv` is inductive. `ApprovalsInv` says that each pending
approval has a number of its own below the count of callbacks, that nobody who
waits for it has given up, that a canceled turn has none, and that a decision on
its way was made by the user; the head is the least number, which exists because
the numbers are well-founded (`LeastNumber`), and stays the head whoever else
leaves (`HeadStays`). `QuestionsInv` says of each question who sends its answer
and what of it is stored (`QuestionOK`) and how its record and the history
follow (`RecordOK`). Expiry is one lemma (`ExpiryKeeps`) used by the end of the
provider, the cancellation and the end of the turn. Hence `ShowsPending`,
`HistoryTellsTheTruth` and `ApprovalsAreTheUsers`. With `InputOK` (an input
belongs to the turn it was registered in, and one that was handed to the
provider is over before that turn settles) it follows that a canceled turn waits
for no user and for nothing of another turn (`CanceledTurnGoesOn`): what
`CancelEndsTurn` needs beside fairness.

*Registry.* For any number of processes, slots, renewals, faults and crashes,
from `DiscoveryAssumption`. `RegistryInvariant`: `IInv` is inductive. It says
that whoever is inside the lock holds it (`HasLock`), which slot can be a
process's own, and that it has one entry at most (`OwnSlot`, `OneEntry`; a
process knows the slot, or two failures hit it, `Astray`), that only a failure
leaves something to roll back (`RolledBack`), that a listed record is no newer than its entry and,
if it is the same, was not alive (`ListedOK`), and what a process that
checked a slot under the lock may still rely on when it acts (`RetiringOK`,
`WritingOK`). From it follow mutual exclusion in spite of the takeover
(`LockExcludes`), `FreshEntriesAreKept` and, for a process that at most one
failure hit, `FailedPublicationLeavesNothing`: TLC finds the entry that stays as
soon as two failures are allowed for.
`HolderGoesOn`: whoever is inside the lock finds what its next step needs, the
one record it retires (`TargetKnown`), a first free slot, a slot of its own; a
holder that is not inside is one whose lock becomes stale. That is what
`LockReturns` needs beside fairness.

Every invariant and every action property that a passing run checks is stated
by one of these theorems, `BlockedForAReason` and `NoStaleThread` with the
bounds on failures named above. Only model-checked are the liveness properties
(`QueueDrains`, `InputsEnd`, `ShutdownFinishes`, `EveryCallAnswered`, `CloseEnds`,
`ProvidersReturn`, `AdmissionsEnd`, `CancelEndsTurn`, `LockReturns`): fairness and
ENABLED are out of the prover's reach. The last theorem of most components is
the part of them that is a matter of safety.

## 6. Where code and documents disagree

`docs/design/session-run-lifecycle.md:153` says that a Session is idle again
after a cancellation. A cancellation that arrives while the start transaction of
a queued turn is being saved, or confirmed, ends the run after the Session row
was made running (`session/session-runtime-service.ts:1013`); the handler at
1034-1054 restores the row for turns that are not queued only. The receipt is
settled as interrupted and the row stays `running` until the user releases it,
or until a restart. `cancel_leaves_idle` shows the steps. Nothing is run wrongly:
`TurnsStartIdle` holds in spite of it.

`docs/design/provider-adapter.md:186` says that a provider whose credential
changed reuses no thread, the `threadId` of its Sessions being emptied, and line
195 calls this a security boundary. A reset whose only target is the settings
(`settings/settings-catalog-service.ts:457`) removes the API keys and invalidates
the adapters, but empties no `threadId`: the next turn resumes the thread of the
old credential with the default one. `credentials_switch_threads` shows the
steps. The other ways to the same state are rarer: they need a lost reply, a
crash, or a run that comes and goes between two reads (section 3), and
`NoStaleThread` shows that with one failure there are no more.

`docs/adr/023-multi-instance-runtime-discovery.md:32` says that a publication that
can return no handle rolls its entry back before it fails. One pair of failures
is enough to miss that: the rename that claims the slot is done and reports an
error, and the look-up that follows (`registry.ts:1196`) throws or cannot read the
entry. `claimedSlotPath` is still null, the rollback (988) takes back nothing, and
the entry stays until its lease is old. The same happens when a rollback cannot
read back the entry it has to move. `FailedLeavesNothing` therefore is stated for
one failure; no run of its own shows the second.

## 7. What is not modelled

Of the modelled components: auxiliary receipts, deletion and recreation of a
Session, direct (unqueued) runs, live projections, telemetry and notifications,
the message history, the preflight of an acceptance; the data of the catalogs;
what the readers of the registry do with an entry. Of the other components, by
the plan of section 2, the drafts of auxiliary sessions, the coordinator of
conversation queries, and the idempotent commands of Memory and affect have
control worth modelling and are left for an extension.

The rest has little. More than half of the repository's lines are bundled command
line tools, the renderer, file, terminal and Git I/O, and the translation of
provider protocols: parsing, formatting, layout and transport, whose behaviour is
in the data that a model would leave out. Characters, glossary, Mate profile and
Session graph are records behind single transactions with a revision check. What
is modelled is therefore a small share of the lines, and the part of them where
the order of events decides.

The `components` of `PROJECT.json` give the reason for each, and `hazards` name
the lines that no property covers yet.
