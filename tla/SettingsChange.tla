---------------------------- MODULE SettingsChange ----------------------------
(***************************************************************************)
(* SettingsCatalogService: a change of the app settings that replaces the  *)
(* credentials of providers, its cleanup and its rollback, against the     *)
(* admission of Session turns, the reset of the database, and the layout   *)
(* checkpoints, which are not serialised with any of them.                 *)
(*                                                                         *)
(* The operations take turns on ProviderRuntimeOperationCoordinator, a     *)
(* FIFO lock: line is the promise chain, its head the operation that runs. *)
(* A storage call may fail, or commit and lose its reply.  A thread is     *)
(* known by the key it was made under.  The application may crash.         *)
(***************************************************************************)
EXTENDS Naturals, Sequences, FiniteSets

CONSTANTS Providers, Keys, DefaultKey,  \* API keys; the default is the empty one
          Sessions, ProviderOf,         \* Main and Auxiliary Sessions
          NoThread,
          Changes, NoChange,            \* calls of updateAppSettings
          ResetTargets,                 \* the target sets a reset may name
          MaxResets, MaxLayout, MaxFaults, MaxCrashes

ASSUME SettingsAssumption ==
  /\ DefaultKey \in Keys /\ NoThread \notin Keys /\ NoChange \notin Changes
  /\ ProviderOf \in [Sessions -> Providers]
  /\ IsFiniteSet(Changes)
  /\ ResetTargets \subseteq SUBSET {"sessions", "appSettings", "projectMemory"}
  /\ MaxResets \in Nat /\ MaxLayout \in Nat /\ MaxFaults \in Nat /\ MaxCrashes \in Nat

VARIABLES
  settings,   \* durable: the key of each provider
  layout,     \* durable: the saved layout, as the number of its update; 0 is the default
  live,       \* durable: the stored Sessions
  thread,     \* durable: the provider thread of each Session
  line,       \* ProviderRuntimeOperationCoordinator.tail
  chg,        \* the calls of updateAppSettings
  held,       \* affectedProviders: how many changes hold the provider
  epoch,      \* rollbackEpoch
  owner,      \* the generation of the storage owner
  reset,      \* resetAppDatabase
  tail,       \* chatLayoutWriteTail: the checkpoints not yet dispatched
  run,        \* the turn of each Session
  bounds,     \* how many resets, layout updates, faults and crashes there were
  past        \* history: see Init

durable == <<settings, layout, live, thread>>
vars == <<durable, line, chg, held, epoch, owner, reset, tail, run, bounds, past>>

Saved == [keys : [Providers -> Keys], layout : 0..MaxLayout]
Unsaved == [keys |-> [p \in Providers |-> DefaultKey], layout |-> 0]
NoCall == [pc |-> "idle", prev |-> Unsaved.keys, next |-> Unsaved.keys, saved |-> Unsaved,
           epoch |-> 0, owner |-> 0, old |-> [s \in Sessions |-> NoThread],
           todo |-> {}, applied |-> {}, deferred |-> FALSE]
NoReset == [pc |-> "idle", targets |-> {}, mark |-> 0]
NoTurn == [phase |-> "idle", key |-> DefaultKey, thread |-> NoThread]

Init ==
  /\ settings = Unsaved.keys /\ layout = 0
  /\ live = Sessions
  /\ thread = [s \in Sessions |-> NoThread]
  /\ line = <<>>
  /\ chg = [c \in Changes |-> NoCall]
  /\ held = [p \in Providers |-> 0]
  /\ epoch = 0 /\ owner = 0
  /\ reset = NoReset
  /\ tail = <<>>
  /\ run = [s \in Sessions |-> NoTurn]
  /\ bounds = [resets |-> 0, layouts |-> 0, faults |-> 0, crashes |-> 0]
  \* writer: the change that last wrote the settings; fresh: the changes that began
  \* after the last reset of the settings; floor: the layout updates before it;
  \* strayed: providers whose key changed and whose threads nobody reset
  /\ past = [writer |-> NoChange, fresh |-> Changes, floor |-> 0, strayed |-> {}]

-----------------------------------------------------------------------------
(* The lock and the outcomes of a storage call.                             *)

Op(kind, id) == [kind |-> kind, id |-> id]
ResetOp == Op("reset", NoChange)

Runs(op) == line # <<>> /\ Head(line) = op
Asks(op) == line' = Append(line, op)
Returns == line' = Tail(line)

Fault == bounds.faults < MaxFaults /\ bounds' = [bounds EXCEPT !.faults = @ + 1]

InFlight(s) == run[s].phase # "idle"

-----------------------------------------------------------------------------
(* updateAppSettings(next).                                                 *)

(* getProvidersWithApiKeyChange                                             *)
Affected(c) == {p \in Providers : chg[c].prev[p] # chg[c].next[p]}
Users(ps) == {s \in live : ProviderOf[s] \in ps}

Goes(c, pc) == chg' = [chg EXCEPT ![c].pc = pc]
Ends(c, pc) == chg' = [chg EXCEPT ![c] = [NoCall EXCEPT !.pc = pc]]

(* acquireProvider and releaseProvider, for the providers of a change.      *)
AcquireProviders(c) ==
  held' = [p \in Providers |-> IF p \in Affected(c) THEN held[p] + 1 ELSE held[p]]

(* Mutant: the first change that ends gives the provider back.              *)
ReleaseAtOnce(c) ==
  held' = [p \in Providers |-> IF p \in Affected(c) THEN 0 ELSE held[p]]

ReleaseProviders(c) ==
  held' = [p \in Providers |-> IF p \in Affected(c) /\ held[p] > 0 THEN held[p] - 1 ELSE held[p]]

ChangeAsks(c) ==
  /\ chg[c].pc = "idle"
  /\ \E next \in [Providers -> Keys] :
       chg' = [chg EXCEPT ![c].pc = "queued", ![c].next = next]
  /\ Asks(Op("change", c))
  /\ UNCHANGED <<durable, held, epoch, owner, reset, tail, run, bounds, past>>

(* The settings and the threads are read.  A Session of an affected        *)
(* provider that is stored as running is in the way.                        *)
ChangeBegins(c) ==
  /\ chg[c].pc = "queued" /\ Runs(Op("change", c))
  /\ LET affected == {p \in Providers : settings[p] # chg[c].next[p]}
     IN IF \E s \in Users(affected) : run[s].phase = "provider"
        THEN Ends(c, "over") /\ Returns /\ UNCHANGED past
        ELSE /\ chg' = [chg EXCEPT ![c] = [@ EXCEPT
                          !.pc = "reading", !.prev = settings, !.epoch = epoch, !.owner = owner,
                          !.old = [s \in Sessions |-> IF s \in Users(affected)
                                                     THEN thread[s] ELSE NoThread],
                          !.todo = {s \in Users(affected) : thread[s] # NoThread}]]
             /\ past' = [past EXCEPT !.fresh = @ \cup {c}]
             /\ UNCHANGED line
  /\ UNCHANGED <<durable, held, epoch, owner, reset, tail, run, bounds>>

(* What was read is used: no Session of an affected provider may have a run *)
(* now, and the save is issued in the same turn of the event loop.  A       *)
(* thread that a whole run has stored in between is not the one listed.     *)
ChangeIssuesSave(c) ==
  /\ chg[c].pc = "reading"
  /\ LET users == Users(Affected(c))
     IN IF \E s \in users : InFlight(s)
        THEN Ends(c, "over") /\ Returns /\ UNCHANGED past
        ELSE /\ Goes(c, "saving") /\ UNCHANGED line
             /\ past' = [past EXCEPT !.strayed = @ \cup
                  {ProviderOf[s] : s \in {t \in users : thread[t] # chg[c].old[t]}}]
  /\ UNCHANGED <<durable, held, epoch, owner, reset, tail, run, bounds>>

ChangeSaves(c) ==
  /\ chg[c].pc = "saving"
  /\ settings' = chg[c].next
  /\ chg' = [chg EXCEPT ![c].pc = "patching",
                        ![c].saved = [keys |-> chg[c].next, layout |-> layout]]
  /\ past' = [past EXCEPT !.writer = c]
  /\ UNCHANGED <<layout, live, thread, line, held, epoch, owner, reset, tail, run, bounds>>

(* Mutant: an operation that throws keeps the lock.                         *)
ChangeSaveFailsLocked(c) ==
  /\ chg[c].pc = "saving"
  /\ Fault
  /\ Ends(c, "over")
  /\ UNCHANGED <<durable, line, held, epoch, owner, reset, tail, run, past>>

(* The save fails; or it commits and its reply is lost, which the service   *)
(* cannot tell apart: there are no saved settings to roll back.             *)
ChangeSaveFails(c) ==
  /\ chg[c].pc = "saving"
  /\ Fault
  /\ Ends(c, "over") /\ Returns
  /\ \/ UNCHANGED <<settings, past>>
     \/ /\ settings' = chg[c].next
        /\ past' = [past EXCEPT !.writer = c, !.strayed = @ \cup Affected(c)]
  /\ UNCHANGED <<layout, live, thread, held, epoch, owner, reset, tail, run>>

(* updateSessionThreadIfMatches: the thread is forgotten if it is still the *)
(* one that was listed.                                                     *)
ChangePatches(c, s) ==
  /\ chg[c].pc = "patching" /\ s \in chg[c].todo
  /\ LET matches == s \in live /\ thread[s] = chg[c].old[s]
     IN /\ thread' = IF matches THEN [thread EXCEPT ![s] = NoThread] ELSE thread
        /\ chg' = [chg EXCEPT ![c].todo = @ \ {s},
                              ![c].applied = IF matches THEN @ \cup {s} ELSE @]
  /\ UNCHANGED <<settings, layout, live, line, held, epoch, owner, reset, tail, run, bounds, past>>

(* A patch whose result is unknown is not among those to undo.  After the   *)
(* last one, the projection of the new settings may fail.                   *)
ChangeFailsLate(c) ==
  /\ chg[c].pc = "patching"
  /\ Fault
  /\ chg' = [chg EXCEPT ![c].pc = "restoring", ![c].todo = chg[c].applied]
  /\ \/ UNCHANGED thread
     \/ \E s \in chg[c].todo : thread' = [thread EXCEPT ![s] = NoThread]
  /\ UNCHANGED <<settings, layout, live, line, held, epoch, owner, reset, tail, run, past>>

(* The exclusive part ends.  Its providers stay unavailable until the       *)
(* cleanup, which waits outside the lock, is over.                          *)
ChangeReturns(c) ==
  /\ chg[c].pc = "patching" /\ chg[c].todo = {}
  /\ AcquireProviders(c)
  /\ chg' = [chg EXCEPT ![c].pc = "cleanup", ![c].todo = Users(Affected(c))]
  /\ Returns
  /\ UNCHANGED <<durable, epoch, owner, reset, tail, run, bounds, past>>

(* invalidateProviderSessionThread of one target after the other            *)
Cleans(c, s) ==
  /\ chg[c].pc = "cleanup" /\ s \in chg[c].todo
  /\ chg' = [chg EXCEPT ![c].todo = @ \ {s}]
  /\ UNCHANGED <<durable, line, held, epoch, owner, reset, tail, run, bounds, past>>

CleanupEnds(c) ==
  /\ chg[c].pc = "cleanup" /\ chg[c].todo = {}
  /\ Ends(c, "over")
  /\ ReleaseProviders(c)
  /\ UNCHANGED <<durable, line, epoch, owner, reset, tail, run, bounds, past>>

CleanupFails(c) ==
  /\ chg[c].pc = "cleanup" /\ chg[c].todo # {}
  /\ Fault
  /\ Goes(c, "rollback") /\ Asks(Op("rollback", c))
  /\ UNCHANGED <<durable, held, epoch, owner, reset, tail, run, past>>

-----------------------------------------------------------------------------
(* The rollback: in the same exclusive operation after a late failure,      *)
(* deferred to one of its own after a failed cleanup.                       *)

(* The settings are compared as a whole: a layout checkpoint counts too.    *)
Current == [keys |-> settings, layout |-> layout]

(* Mutant: the value is compared, the reset is not noticed.                 *)
RollbackByValue(c) == Current = chg[c].saved /\ owner = chg[c].owner

RollbackIsCurrent(c) ==
  /\ epoch = chg[c].epoch
  /\ owner = chg[c].owner
  /\ Current = chg[c].saved

RollbackBegins(c) ==
  /\ chg[c].pc = "rollback" /\ Runs(Op("rollback", c))
  /\ RollbackIsCurrent(c)
  /\ chg' = [chg EXCEPT ![c].pc = "restoring", ![c].todo = chg[c].applied,
                        ![c].deferred = TRUE]
  /\ UNCHANGED <<durable, line, held, epoch, owner, reset, tail, run, bounds, past>>

RollbackCanceled(c) ==
  /\ chg[c].pc = "rollback" /\ Runs(Op("rollback", c))
  /\ ~RollbackIsCurrent(c)
  /\ Ends(c, "over") /\ Returns
  /\ ReleaseProviders(c)
  /\ UNCHANGED <<durable, epoch, owner, reset, tail, run, bounds, past>>

(* The first write of a restore, deferred (of a rollback) or at once.       *)
RestoreWrites(c) ==
  /\ chg[c].pc = "restoring"
  /\ settings' = chg[c].prev
  /\ Goes(c, "reversing")
  /\ past' = [past EXCEPT !.writer = c]
  /\ UNCHANGED <<layout, live, thread, line, held, epoch, owner, reset, tail, run, bounds>>

(* Mutant: the thread is compared with the one before the change.           *)
RestoresThreadUnmatched(c, s) ==
  /\ chg[c].pc = "reversing" /\ s \in chg[c].todo
  /\ thread' = IF s \in live /\ thread[s] = chg[c].old[s]
               THEN [thread EXCEPT ![s] = chg[c].old[s]] ELSE thread
  /\ chg' = [chg EXCEPT ![c].todo = @ \ {s}]
  /\ UNCHANGED <<settings, layout, live, line, held, epoch, owner, reset, tail, run, bounds, past>>

RestoresThread(c, s) ==
  /\ chg[c].pc = "reversing" /\ s \in chg[c].todo
  /\ thread' = IF s \in live /\ thread[s] = NoThread
               THEN [thread EXCEPT ![s] = chg[c].old[s]] ELSE thread
  /\ chg' = [chg EXCEPT ![c].todo = @ \ {s}]
  /\ UNCHANGED <<settings, layout, live, line, held, epoch, owner, reset, tail, run, bounds, past>>

(* Mutant: only a cleanup that succeeds gives its providers back.           *)
RestoreOverKeeps(c, pc) == Ends(c, pc) /\ Returns /\ UNCHANGED held

(* Only a deferred rollback has providers to give back.                     *)
RestoreOver(c, pc) ==
  /\ Ends(c, pc) /\ Returns
  /\ IF chg[c].deferred THEN ReleaseProviders(c) ELSE UNCHANGED held

RestoreEnds(c) ==
  /\ chg[c].pc = "reversing" /\ chg[c].todo = {}
  /\ RestoreOver(c, "restored")
  /\ UNCHANGED <<durable, epoch, owner, reset, tail, run, bounds, past>>

(* A failed restore is reported; its write may have committed.              *)
RestoreFails(c) ==
  /\ chg[c].pc \in {"restoring", "reversing"}
  /\ Fault
  /\ RestoreOver(c, "over")
  /\ \/ UNCHANGED settings
     \/ chg[c].pc = "restoring" /\ settings' = chg[c].prev
  /\ past' = [past EXCEPT
       !.writer = IF settings' # settings THEN c ELSE @,
       !.strayed = IF chg[c].pc = "restoring" /\ ~chg[c].deferred /\ settings' = settings
                   THEN @ \cup Affected(c) ELSE @]
  /\ UNCHANGED <<layout, live, thread, epoch, owner, reset, tail, run>>

-----------------------------------------------------------------------------
(* resetAppDatabase(targets).                                               *)

ResetAsks ==
  /\ reset.pc = "idle" /\ bounds.resets < MaxResets
  /\ \E targets \in ResetTargets : reset' = [pc |-> "queued", targets |-> targets, mark |-> 0]
  /\ Asks(ResetOp)
  /\ bounds' = [bounds EXCEPT !.resets = @ + 1]
  /\ UNCHANGED <<durable, chg, held, epoch, owner, tail, run, past>>

(* hasInFlightSessionRuns, then the epoch that ends deferred rollbacks and  *)
(* layout checkpoints.                                                      *)
ResetBegins ==
  /\ reset.pc = "queued" /\ Runs(ResetOp)
  /\ IF reset.targets = {} \/ \E s \in Sessions : InFlight(s)
     THEN /\ reset' = NoReset
          /\ Returns
          /\ UNCHANGED epoch
     ELSE /\ reset' = [reset EXCEPT !.pc = "applying", !.mark = bounds.layouts]
          /\ epoch' = epoch + 1
          /\ UNCHANGED line
  /\ UNCHANGED <<durable, chg, held, owner, tail, run, bounds, past>>

AllTargets == {"sessions", "appSettings", "projectMemory"}

SettingsAreReset ==
  /\ settings' = [x \in Providers |-> DefaultKey]
  /\ layout' = 0
  /\ past' = [past EXCEPT !.writer = NoChange, !.fresh = {}, !.floor = reset.mark,
               !.strayed = @ \cup {x \in Providers : settings[x] # DefaultKey}]

SessionsAreReset == live' = {} /\ thread' = [s \in Sessions |-> NoThread]

(* All the targets: the database file is made anew, by a new storage owner. *)
ResetRecreates ==
  /\ reset.pc = "applying" /\ reset.targets = AllTargets
  /\ SettingsAreReset /\ SessionsAreReset
  /\ owner' = owner + 1
  /\ reset' = NoReset
  /\ Returns
  /\ UNCHANGED <<chg, held, epoch, tail, run, bounds>>

(* Otherwise one target after the other ...                                 *)
ResetClearsSessions ==
  /\ reset.pc = "applying" /\ reset.targets # AllTargets
  /\ "sessions" \in reset.targets
  /\ SessionsAreReset
  /\ reset' = [reset EXCEPT !.targets = @ \ {"sessions"}]
  /\ UNCHANGED <<settings, layout, line, chg, held, epoch, owner, tail, run, bounds, past>>

ResetClearsSettings ==
  /\ reset.pc = "applying"
  /\ "sessions" \notin reset.targets /\ "appSettings" \in reset.targets
  /\ SettingsAreReset
  /\ reset' = [reset EXCEPT !.targets = @ \ {"appSettings"}]
  /\ UNCHANGED <<live, thread, line, chg, held, epoch, owner, tail, run, bounds>>

ResetEnds ==
  /\ reset.pc = "applying" /\ reset.targets \subseteq {"projectMemory"}
  /\ reset' = NoReset
  /\ Returns
  /\ UNCHANGED <<durable, chg, held, epoch, owner, tail, run, bounds, past>>

(* ... and what a failure leaves is not undone.                             *)
ResetFails ==
  /\ reset.pc = "applying"
  /\ Fault
  /\ reset' = NoReset
  /\ Returns
  /\ UNCHANGED <<durable, chg, held, epoch, owner, tail, run, past>>

-----------------------------------------------------------------------------
(* updateChatLayoutPreference: a checkpoint waits only for those before it. *)

LayoutUpdate ==
  /\ bounds.layouts < MaxLayout
  /\ bounds' = [bounds EXCEPT !.layouts = @ + 1]
  /\ tail' = Append(tail, [value |-> bounds.layouts + 1, epoch |-> epoch, owner |-> owner])
  /\ UNCHANGED <<durable, line, chg, held, epoch, owner, reset, run, past>>

LayoutCheckpoint ==
  /\ tail # <<>>
  /\ layout' = IF Head(tail).epoch = epoch /\ Head(tail).owner = owner
               THEN Head(tail).value ELSE layout
  /\ tail' = Tail(tail)
  /\ UNCHANGED <<settings, live, thread, line, chg, held, epoch, owner, reset, run, bounds, past>>

-----------------------------------------------------------------------------
(* admitSessionTurn, and the turn it admits.                                *)

Phase(s, phase) == run' = [run EXCEPT ![s].phase = phase]

(* executeSessionTurn: the Session counts as in flight while it waits.      *)
TurnAsks(s) ==
  /\ s \in live /\ ~InFlight(s)
  /\ Phase(s, "waiting") /\ Asks(Op("reserve", s))
  /\ UNCHANGED <<durable, chg, held, epoch, owner, reset, tail, bounds, past>>

(* assertCurrent may find the turn canceled, or the application quitting.   *)
TurnReserves(s) ==
  /\ run[s].phase = "waiting" /\ Runs(Op("reserve", s))
  /\ \E phase \in {"reserved", "idle"} : Phase(s, phase)
  /\ Returns
  /\ UNCHANGED <<durable, chg, held, epoch, owner, reset, tail, bounds, past>>

TurnReadsProvider(s) ==
  /\ run[s].phase = "reserved"
  /\ \/ s \in live /\ Phase(s, "checking") /\ Asks(Op("check", s))
     \/ Phase(s, "idle") /\ UNCHANGED line
  /\ UNCHANGED <<durable, chg, held, epoch, owner, reset, tail, bounds, past>>

(* Mutant: availability is not asserted after the reservation.              *)
AvailableAnyway(s) == TRUE

AvailableForTurn(s) == held[ProviderOf[s]] = 0

TurnIsChecked(s) ==
  /\ run[s].phase = "checking" /\ Runs(Op("check", s))
  /\ \/ AvailableForTurn(s) /\ Phase(s, "admitted")
     \/ Phase(s, "idle")
  /\ Returns
  /\ UNCHANGED <<durable, chg, held, epoch, owner, reset, tail, bounds, past>>

(* The turn resumes the stored thread with the credentials it reads.        *)
TurnCallsProvider(s) ==
  /\ run[s].phase = "admitted"
  /\ run' = [run EXCEPT ![s] = [phase |-> "provider", key |-> settings[ProviderOf[s]],
                                thread |-> thread[s]]]
  /\ UNCHANGED <<durable, line, chg, held, epoch, owner, reset, tail, bounds, past>>

(* The thread the provider made is stored with the result.                  *)
TurnEnds(s) ==
  /\ run[s].phase \in {"admitted", "provider"}
  /\ run' = [run EXCEPT ![s] = NoTurn]
  /\ \/ UNCHANGED thread
     \/ /\ run[s].phase = "provider" /\ run[s].thread = NoThread
        /\ thread' = [thread EXCEPT ![s] = run[s].key]
  /\ UNCHANGED <<settings, layout, live, line, chg, held, epoch, owner, reset, tail, bounds, past>>

-----------------------------------------------------------------------------
(* The application dies and starts again: what is stored stays, and the     *)
(* settings and the threads are not stored in one transaction.              *)

Ended == {"idle", "over", "restored"}

Crash ==
  /\ bounds.crashes < MaxCrashes
  /\ bounds' = [bounds EXCEPT !.crashes = @ + 1]
  /\ line' = <<>> /\ tail' = <<>>
  /\ held' = [p \in Providers |-> 0]
  /\ epoch' = 0
  /\ reset' = NoReset
  /\ run' = [s \in Sessions |-> NoTurn]
  /\ chg' = [c \in Changes |-> IF chg[c].pc \in Ended THEN chg[c] 
                               ELSE [NoCall EXCEPT !.pc = "over"]]
  /\ past' = [past EXCEPT !.strayed = @ \cup UNION {Affected(c) : c \in {d \in Changes :
                chg[d].pc \in {"patching", "restoring"}}}]
  /\ UNCHANGED <<durable, owner>>  \* nobody is left who captured the old owner

ChangeStep(c) ==
  \/ ChangeBegins(c) \/ ChangeIssuesSave(c) \/ ChangeSaves(c) \/ ChangeSaveFails(c)
  \/ ChangeFailsLate(c) \/ ChangeReturns(c) \/ CleanupEnds(c) \/ CleanupFails(c)
  \/ RollbackBegins(c) \/ RollbackCanceled(c) \/ RestoreWrites(c) \/ RestoreEnds(c)
  \/ RestoreFails(c)
  \/ \E s \in Sessions : ChangePatches(c, s) \/ Cleans(c, s) \/ RestoresThread(c, s)

ResetStep ==
  \/ ResetBegins \/ ResetRecreates \/ ResetClearsSessions \/ ResetClearsSettings
  \/ ResetEnds \/ ResetFails

TurnStep(s) ==
  TurnReserves(s) \/ TurnReadsProvider(s) \/ TurnIsChecked(s) \/ TurnCallsProvider(s) \/ TurnEnds(s)

Next ==
  \/ \E c \in Changes : ChangeAsks(c) \/ ChangeStep(c)
  \/ ResetAsks \/ ResetStep
  \/ LayoutUpdate \/ LayoutCheckpoint
  \/ \E s \in Sessions : TurnAsks(s) \/ TurnStep(s)
  \/ Crash

Spec == Init /\ [][Next]_vars

(* Every await is answered: the operations go on; nobody has to ask.        *)
Fairness ==
  /\ \A c \in Changes : WF_vars(ChangeStep(c))
  /\ WF_vars(ResetStep) /\ WF_vars(LayoutCheckpoint)
  /\ \A s \in Sessions : WF_vars(TurnStep(s))

FairSpec == Spec /\ Fairness

-----------------------------------------------------------------------------
ExclusivePcs == {"saving", "patching", "restoring", "reversing"}
Pcs == Ended \cup ExclusivePcs \cup {"queued", "reading", "cleanup", "rollback"}
Ops == [kind : {"change", "rollback"}, id : Changes] \cup [kind : {"reserve", "check"}, id : Sessions]
         \cup {ResetOp}
Threads == Keys \cup {NoThread}

TypeOK ==
  /\ settings \in [Providers -> Keys] /\ layout \in 0..MaxLayout
  /\ live \in SUBSET Sessions /\ thread \in [Sessions -> Threads]
  /\ line \in Seq(Ops)
  /\ chg \in [Changes -> [pc : Pcs, prev : [Providers -> Keys], next : [Providers -> Keys],
                saved : Saved, epoch : Nat, owner : Nat, old : [Sessions -> Threads],
                todo : SUBSET Sessions, applied : SUBSET Sessions, deferred : BOOLEAN]]
  /\ held \in [Providers -> Nat]
  /\ epoch \in Nat /\ owner \in Nat
  /\ reset \in [pc : {"idle", "queued", "applying"},
                targets : SUBSET AllTargets, mark : 0..MaxLayout]
  /\ tail \in Seq([value : 1..MaxLayout, epoch : Nat, owner : Nat])
  /\ run \in [Sessions -> [phase : {"idle", "waiting", "reserved", "checking", "admitted", "provider"},
                           key : Keys, thread : Threads]]
  /\ bounds \in [resets : 0..MaxResets, layouts : 0..MaxLayout,
                 faults : 0..MaxFaults, crashes : 0..MaxCrashes]
  /\ past \in [writer : Changes \cup {NoChange}, fresh : SUBSET Changes, floor : Nat,
               strayed : SUBSET Providers]

(* A change is at work from its save to the end of its cleanup or rollback: *)
(* in that time no turn of a provider whose credentials it replaces is      *)
(* admitted or runs, although the change holds the lock only at its ends    *)
(* and the turn was reserved before its provider was read.                  *)
AtWork(c) == chg[c].pc \in ExclusivePcs \cup {"cleanup", "rollback"}

NoTurnDuringChange ==
  \A c \in Changes, s \in Sessions :
    AtWork(c) /\ ProviderOf[s] \in Affected(c) => run[s].phase \notin {"admitted", "provider"}

(* A turn never resumes a thread that was made under other credentials than *)
(* it uses, except where a key changed outside a change: a reset of the     *)
(* settings alone, a save or a rollback whose outcome is unknown or failed, *)
(* a crash between the save and the last thread, or a run that began and    *)
(* stored its thread between the list of the threads and the save.          *)
(* It is stated for at most one failure: with two, undoing the first two of *)
(* three changes that overlap may put back a key and a thread, each current *)
(* when it is compared, that never went together.                           *)
CredentialsMatch(s) == run[s].phase = "provider" => run[s].thread \in {NoThread, run[s].key}

NoStaleThread == \A s \in Sessions : ProviderOf[s] \notin past.strayed => CredentialsMatch(s)

(* What a reset of the settings wrote stays until something that began      *)
(* after it: no deferred rollback brings old credentials back, no waiting   *)
(* checkpoint an old layout.                                                *)
ResetStays ==
  /\ past.writer \in past.fresh \cup {NoChange}
  /\ layout # 0 => layout > past.floor

(* A change that reports its failure as undone has put back the settings    *)
(* and every thread it had taken away.                                      *)
RestoredExactly ==
  [][\A c \in Changes :
       chg[c].pc # "restored" /\ chg'[c].pc = "restored" =>
         /\ settings' = chg[c].prev
         /\ \A s \in chg[c].applied \cap live : thread'[s] = chg[c].old[s]]_vars

(* Credentials that changed switch the thread, as the design document says  *)
(* without exception.                                                       *)
CredentialsSwitchThreads == \A s \in Sessions : CredentialsMatch(s)

(* No provider stays unavailable, and every admission is decided.           *)
ProvidersReturn == \A p \in Providers : held[p] > 0 ~> held[p] = 0
AdmissionsEnd ==
  \A s \in Sessions : run[s].phase \in {"waiting", "reserved", "checking"}
                        ~> run[s].phase \in {"idle", "admitted", "provider"}
=============================================================================
