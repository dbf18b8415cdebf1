---------------------------- MODULE RuntimeDiscovery ----------------------------
(***************************************************************************)
(* The registry of running WithMate instances: slot directories in a file   *)
(* system the instances share, changed under a lock file that outlives a    *)
(* crashed holder until it is stale.  Each instance publishes one entry,     *)
(* renews its lease, and withdraws it; a publisher first retires the old     *)
(* entries whose runtime does not answer.                                   *)
(*                                                                         *)
(* What is read before the lock is read again under it.  An instance does   *)
(* one thing at a time: its publication has no handle yet, and the handle   *)
(* serialises what follows.  Anything may fail, and an instance may crash   *)
(* at any point, the lock in its hand.                                      *)
(***************************************************************************)
EXTENDS Naturals, FiniteSets

CONSTANTS Instances,            \* each with an identity and a publication of its own
          MaxEntries, NoEntry,  \* the slots, and a slot that is free
          NoHolder,
          MaxBeats,             \* renewals of a lease
          MaxFaults             \* failures of the file system that hit each instance

Slots == 1..MaxEntries

(* The age of a lease: 0 while it counts as alive, 1 when it is old enough  *)
(* to be retired for want of a slot, 2 past the retention.                  *)
Ages == 0..2
Entry == [owner : Instances, beat : 0..MaxBeats, age : Ages]

ASSUME DiscoveryAssumption ==
  /\ MaxEntries \in Nat \ {0} /\ MaxBeats \in Nat /\ MaxFaults \in [Instances -> Nat]
  /\ NoHolder \notin Instances /\ NoEntry \notin Entry

VARIABLES
  active,   \* the slot directories: the entry in each
  staging,  \* the instances whose publication is staged
  retired,  \* the instances whose directory was moved to the retired ones
  lock,     \* .registry-mutation.lock
  pc,       \* where each instance is
  work,     \* its local variables
  faults    \* how many failures of the file system hit each instance

vars == <<active, staging, retired, lock, pc, work, faults>>

Record == [slot : Slots, owner : Instances, beat : 0..MaxBeats]
Work == [pressure : BOOLEAN, todo : SUBSET Record, slot : Slots \cup {0},
         target : SUBSET Record, occupied : SUBSET Slots]
NoWork == [pressure |-> FALSE, todo |-> {}, slot |-> 0, target |-> {}, occupied |-> {}]

(* There may be slots with something else than an entry in them, which all  *)
(* take for occupied.                                                       *)
Init ==
  /\ active = [s \in Slots |-> NoEntry]
  /\ staging = {} /\ retired = {}
  /\ lock = [holder |-> NoHolder, left |-> FALSE]
  /\ pc = [i \in Instances |-> "off"]
  /\ \E unsafe \in SUBSET Slots : work = [i \in Instances |-> [NoWork EXCEPT !.occupied = unsafe]]
  /\ faults = [i \in Instances |-> 0]

Taken == {s \in Slots : active[s] # NoEntry}
Holds(s, i) == active[s] # NoEntry /\ active[s].owner = i
Goes(i, to) == pc' = [pc EXCEPT ![i] = to]

(* n failures hit an instance.                                              *)
Failures(i, n) == faults[i] + n <= MaxFaults[i] /\ faults' = [faults EXCEPT ![i] = @ + n]

-----------------------------------------------------------------------------
(* withRegistryMutationLock                                                 *)

Locked == {"retire", "retiring", "publish", "claimed", "rollback", "beat", "beating",
           "unpublish", "unpublishing"}
Kinds == {"retire", "publish", "beat", "unpublish"}
WaitsFor(kind) ==
  CASE kind = "retire" -> "to retire" [] kind = "publish" -> "to publish"
    [] kind = "beat" -> "to beat" [] kind = "unpublish" -> "to unpublish"

Acquire(i) ==
  /\ \E kind \in Kinds : pc[i] = WaitsFor(kind) /\ Goes(i, kind)
  /\ lock.holder = NoHolder
  /\ lock' = [holder |-> i, left |-> FALSE]
  /\ UNCHANGED <<active, staging, retired, work, faults>>

(* Where an operation goes on when it throws: a publication has failed, a   *)
(* renewal is reported, a withdrawal is given up.                           *)
Thrown(kind) ==
  CASE kind \in {"retire", "publish"} -> "failed"
    [] kind = "beat" -> "running"
    [] kind = "unpublish" -> "closed"

Unstaged(kind, i) == staging' = IF kind = "publish" THEN staging \ {i} ELSE staging

(* The retries are used up, or the lock directory cannot be made.            *)
AcquireFails(i) ==
  /\ \/ lock.holder \notin {NoHolder, i} /\ Failures(i, 0)
     \/ Failures(i, 1)
  /\ \E kind \in Kinds : pc[i] = WaitsFor(kind) /\ Goes(i, Thrown(kind)) /\ Unstaged(kind, i)
  /\ UNCHANGED <<active, retired, lock, work>>

Release == lock' = [holder |-> NoHolder, left |-> FALSE]

(* A release that fails leaves the lock directory, which nobody refreshes.  *)
ReleaseFails(i) == lock' = [holder |-> i, left |-> TRUE]

(* The end of an operation that n failures hit: it throws if its release    *)
(* fails as well.                                                           *)
Completes(i, kind, to, n) ==
  \/ Goes(i, to) /\ Release /\ Failures(i, n)
  \/ Goes(i, Thrown(kind)) /\ ReleaseFails(i) /\ Failures(i, n + 1)
Throws(i, kind, n) == Completes(i, kind, Thrown(kind), n)

(* Mutant: only the lock of a process that released it is taken over.       *)
LockExpiresIfLeft ==
  /\ lock.holder # NoHolder /\ lock.left
  /\ Release
  /\ UNCHANGED <<active, staging, retired, pc, work, faults>>

(* Nobody has refreshed the lock for as long as it may be stale.  A holder  *)
(* that lives refreshes it, and is done in that time after it has stopped.  *)
LockExpires ==
  /\ lock.holder # NoHolder
  /\ pc[lock.holder] \notin Locked
  /\ Release
  /\ UNCHANGED <<active, staging, retired, pc, work, faults>>

-----------------------------------------------------------------------------
(* maintainRuntimeDiscoveryRegistry                                         *)

(* The snapshot: what is old enough for the kind of maintenance             *)
Aged(pressure) == {s \in Taken : active[s].age >= (IF pressure THEN 1 ELSE 2)}
Snapshot(pressure) ==
  {[slot |-> s, owner |-> active[s].owner, beat |-> active[s].beat] : s \in Aged(pressure)}

Start(i) ==
  /\ pc[i] = "off"
  /\ Goes(i, "maintain")
  /\ work' = [work EXCEPT ![i].todo = Snapshot(FALSE)]
  /\ UNCHANGED <<active, staging, retired, lock, faults>>

Answers == {"maintain", "running"} \cup Locked \cup {WaitsFor(kind) : kind \in Kinds}
             \cup {"staging", "cleanup", "removing"}

(* challenge: a dead runtime never answers, a living one may be too slow.   *)
(* An entry that the listing could not read is passed over.                 *)
Challenge(i) ==
  /\ pc[i] = "maintain"
  /\ \E r \in work[i].todo :
       \/ /\ (pc[r.owner] \in Answers /\ Failures(i, 0)) \/ Failures(i, 1)
          /\ work' = [work EXCEPT ![i].todo = @ \ {r}]
          /\ UNCHANGED pc
       \/ /\ work' = [work EXCEPT ![i].todo = @ \ {r}, ![i].target = {r}]
          /\ Goes(i, WaitsFor("retire")) /\ Failures(i, 0)
  /\ UNCHANGED <<active, staging, retired, lock>>

(* Mutant: the lease is not compared.                                       *)
SameOwner(r) == Holds(r.slot, r.owner)

(* readUnchangedRecord                                                      *)
Unchanged(r) == Holds(r.slot, r.owner) /\ active[r.slot].beat = r.beat

(* A record that cannot be read counts as changed.                          *)
RetireReads(i) ==
  /\ pc[i] = "retire"
  /\ \E r \in work[i].target :
       \/ Unchanged(r) /\ Goes(i, "retiring") /\ UNCHANGED <<lock, faults>>
       \/ ~Unchanged(r) /\ Completes(i, "retire", "maintain", 0)
       \/ Completes(i, "retire", "maintain", 1)
       \/ Throws(i, "retire", 1)
  /\ UNCHANGED <<active, staging, retired, work>>

(* The directory at the path of the slot is moved, whoever it belongs to.   *)
Moves(s) ==
  /\ active' = [active EXCEPT ![s] = NoEntry]
  /\ retired' = IF active[s] = NoEntry THEN retired ELSE retired \cup {active[s].owner}

RetireMoves(i) ==
  /\ pc[i] = "retiring"
  /\ \E r \in work[i].target : Moves(r.slot)
  /\ Completes(i, "retire", "removing", 0)
  /\ UNCHANGED <<staging, work>>

(* The rename reports an error, done or not: the maintenance goes on if the *)
(* directory is said to be missing or in use, and throws otherwise.         *)
RetireRefused(i) ==
  /\ pc[i] = "retiring"
  /\ UNCHANGED <<active, retired>> \/ \E r \in work[i].target : Moves(r.slot)
  /\ Completes(i, "retire", "maintain", 1) \/ Throws(i, "retire", 1)
  /\ UNCHANGED <<staging, work>>

(* The removal throws if another maintenance has removed the old directory, *)
(* and if it fails.                                                         *)
RetireRemoves(i) ==
  /\ pc[i] = "removing"
  /\ \E r \in work[i].target :
       \/ /\ Goes(i, IF r.owner \in retired THEN "maintain" ELSE "failed")
          /\ retired' = retired \ {r.owner} /\ UNCHANGED faults
       \/ Goes(i, "failed") /\ UNCHANGED retired /\ Failures(i, 1)
  /\ work' = [work EXCEPT ![i].target = {}]
  /\ UNCHANGED <<active, staging, lock>>

(* removeAgedArtifacts; then the slots are counted, and if there is none,   *)
(* the maintenance is repeated for the entries that merely expired.  What   *)
(* was staged long ago is removed, though its publisher may be waiting.     *)
MaintainEnds(i) ==
  /\ pc[i] = "maintain" /\ work[i].todo = {}
  /\ \E old \in SUBSET staging : staging' = (staging \ old) \cup
       (IF Taken \cup work[i].occupied # Slots THEN {i} ELSE {})
  /\ \E old \in SUBSET retired : retired' = retired \ old
  /\ IF Taken \cup work[i].occupied # Slots THEN Goes(i, WaitsFor("publish")) /\ UNCHANGED work
     ELSE IF work[i].pressure THEN Goes(i, "failed") /\ UNCHANGED work
     ELSE /\ work' = [work EXCEPT ![i].pressure = TRUE, ![i].todo = Snapshot(TRUE)]
          /\ UNCHANGED pc
  /\ UNCHANGED <<active, lock, faults>>

(* Listing, removing or staging fails, with some of it done.                *)
MaintainFails(i) ==
  /\ pc[i] = "maintain" /\ work[i].todo = {}
  /\ staging' \in SUBSET staging /\ retired' \in SUBSET retired
  /\ Goes(i, "failed") /\ Failures(i, 1)
  /\ UNCHANGED <<active, lock, work>>

-----------------------------------------------------------------------------
(* publishRuntimeDiscoveryEntry, from the lock on                           *)

FreeSlots(i) == {s \in Slots \ work[i].occupied : active[s] = NoEntry}
FirstFree(i) == {s \in FreeSlots(i) : \A t \in FreeSlots(i) : s <= t}

(* No slot is left, or the listing, the projection, a rename that is not    *)
(* done, or the look-up after one fails.                                    *)
PublishCannot(i) ==
  /\ pc[i] = "publish"
  /\ (FreeSlots(i) = {} /\ UNCHANGED faults) \/ Failures(i, 1)
  /\ Goes(i, "rollback")
  /\ UNCHANGED <<active, staging, retired, lock, work>>

Claims(i, s) ==
  /\ active' = [active EXCEPT ![s] = [owner |-> i, beat |-> 0, age |-> 0]]
  /\ staging' = staging \ {i}

PublishClaims(i) ==
  /\ pc[i] = "publish" /\ i \in staging
  /\ \E s \in FirstFree(i) : Claims(i, s) /\ work' = [work EXCEPT ![i].slot = s]
  /\ Goes(i, "claimed")
  /\ UNCHANGED <<retired, lock, faults>>

(* The rename reports that the slot exists, and was not done: the look-up    *)
(* finds no entry, and the next slot is tried.                              *)
ClaimRefused(i) ==
  /\ pc[i] = "publish" /\ i \in staging
  /\ Failures(i, 1)
  /\ \E s \in FirstFree(i) : work' = [work EXCEPT ![i].occupied = @ \cup {s}]
  /\ UNCHANGED <<active, staging, retired, lock, pc>>

(* Mutant: an error of the rename is believed.                              *)
ClaimBelieved(i) ==
  /\ pc[i] = "publish" /\ i \in staging
  /\ Failures(i, 1)
  /\ \E s \in FirstFree(i) : Claims(i, s) /\ work' = [work EXCEPT ![i].occupied = @ \cup {s}]
  /\ UNCHANGED <<retired, lock, pc>>

(* The rename reports an error and was done: findExactRecord finds the entry.*)
ClaimFound(i) ==
  /\ pc[i] = "publish" /\ i \in staging
  /\ Failures(i, 1)
  /\ \E s \in FirstFree(i) : Claims(i, s) /\ work' = [work EXCEPT ![i].slot = s]
  /\ Goes(i, "claimed")
  /\ UNCHANGED <<retired, lock>>

(* It was done and the look-up fails too, or cannot read the entry: the slot *)
(* stays unknown.  If the rename said that the slot exists, the next one is *)
(* tried, with nothing staged any more.                                     *)
ClaimUnseen(i) ==
  /\ pc[i] = "publish" /\ i \in staging
  /\ Failures(i, 2)
  /\ \E s \in FirstFree(i) :
       /\ Claims(i, s)
       /\ \/ work' = [work EXCEPT ![i].occupied = @ \cup {s}] /\ UNCHANGED pc
          \/ Goes(i, "rollback") /\ UNCHANGED work
  /\ UNCHANGED <<retired, lock>>

(* Nothing is staged: the rename fails, and the look-up finds the entry of  *)
(* an earlier one or none.                                                  *)
ClaimMissing(i) ==
  /\ pc[i] = "publish" /\ i \notin staging /\ FreeSlots(i) # {}
  /\ \/ \E s \in Slots : /\ Holds(s, i) /\ work' = [work EXCEPT ![i].slot = s]
                         /\ Goes(i, "claimed")
     \/ (\A s \in Slots : ~Holds(s, i)) /\ Goes(i, "rollback") /\ UNCHANGED work
  /\ UNCHANGED <<active, staging, retired, lock, faults>>

(* The entry is read back; the handle is made when the lock is released.    *)
(* If either fails, the publication is rolled back, still under the lock.   *)
PublishEnds(i) ==
  /\ pc[i] = "claimed"
  /\ \/ Goes(i, "running") /\ Release /\ UNCHANGED faults
     \/ Goes(i, "rollback") /\ ReleaseFails(i) /\ Failures(i, 1)
     \/ Goes(i, "rollback") /\ UNCHANGED lock /\ Failures(i, 1)
  /\ UNCHANGED <<active, staging, retired, work>>

(* rollbackRuntimeDiscoveryPublication, and the end of the staged files.    *)
(* It moves the entry of the slot it knows, unless it cannot read it back.  *)
Rollback(i) ==
  /\ pc[i] = "rollback"
  /\ \E n \in 0..1 :
       /\ active' = IF n = 1 THEN active
                    ELSE [s \in Slots |-> IF s = work[i].slot /\ Holds(s, i) THEN NoEntry ELSE active[s]]
       /\ IF lock.left THEN Goes(i, "failed") /\ UNCHANGED lock /\ Failures(i, n)
          ELSE Throws(i, "publish", n)
  /\ staging' = staging \ {i}
  /\ UNCHANGED <<retired, work>>

-----------------------------------------------------------------------------
(* The handle of a publication                                              *)

(* refreshHeartbeat: the new entry is prepared in the directory of the slot.*)
BeatBegins(i) ==
  /\ pc[i] = "running" /\ active[work[i].slot] # NoEntry
  /\ Goes(i, WaitsFor("beat"))
  /\ UNCHANGED <<active, staging, retired, lock, work, faults>>

(* An entry that cannot be read counts as another's.                        *)
BeatReads(i) ==
  /\ pc[i] = "beat"
  /\ IF Holds(work[i].slot, i) /\ active[work[i].slot].beat < MaxBeats
     THEN (Goes(i, "beating") /\ UNCHANGED <<lock, faults>>) \/ Completes(i, "beat", "running", 1)
     ELSE \E n \in 0..1 : Completes(i, "beat", "running", n)
  /\ UNCHANGED <<active, staging, retired, work>>

Renewed(i) ==
  IF Holds(work[i].slot, i) THEN [active EXCEPT ![work[i].slot].beat = @ + 1, ![work[i].slot].age = 0]
  ELSE active

(* The replacement lies in the directory it is for, and moves with it.  The *)
(* rename may fail, or the read-back after it.                              *)
BeatWrites(i) ==
  /\ pc[i] = "beating"
  /\ \/ active' = Renewed(i) /\ Completes(i, "beat", "running", 0)
     \/ active' \in {active, Renewed(i)} /\ Throws(i, "beat", 1)
  /\ UNCHANGED <<staging, retired, work>>

UnpublishBegins(i) ==
  /\ pc[i] = "running"
  /\ Goes(i, WaitsFor("unpublish"))
  /\ UNCHANGED <<active, staging, retired, lock, work, faults>>

UnpublishReads(i) ==
  /\ pc[i] = "unpublish"
  /\ \/ Holds(work[i].slot, i) /\ Goes(i, "unpublishing") /\ UNCHANGED <<lock, faults>>
     \/ ~Holds(work[i].slot, i) /\ Completes(i, "unpublish", "closed", 0)
     \/ Completes(i, "unpublish", "closed", 1)
  /\ UNCHANGED <<active, staging, retired, work>>

UnpublishMoves(i) ==
  /\ pc[i] = "unpublishing"
  /\ Moves(work[i].slot)
  /\ Goes(i, "cleanup")
  /\ \/ Release /\ UNCHANGED faults
     \/ ReleaseFails(i) /\ Failures(i, 1)
  /\ UNCHANGED <<staging, work>>

(* The rename reports an error, done or not.                                *)
UnpublishRefused(i) ==
  /\ pc[i] = "unpublishing"
  /\ UNCHANGED <<active, retired>> \/ Moves(work[i].slot)
  /\ Throws(i, "unpublish", 1)
  /\ UNCHANGED <<staging, work>>

CleanupGeneration(i) ==
  /\ pc[i] = "cleanup"
  /\ Goes(i, "closed")
  /\ \/ retired' = retired \ {i} /\ UNCHANGED faults
     \/ UNCHANGED retired /\ Failures(i, 1)
  /\ UNCHANGED <<active, staging, lock, work>>

-----------------------------------------------------------------------------
Ended == {"failed", "closed", "crashed"}

Crash(i) ==
  /\ pc[i] \notin Ended \cup {"off"}
  /\ Goes(i, "crashed")
  /\ UNCHANGED <<active, staging, retired, lock, work, faults>>

(* Time passes without a renewal: the owner is dead, or slept.              *)
LeaseAges(s) ==
  /\ active[s] # NoEntry /\ active[s].age < 2
  /\ active' = [active EXCEPT ![s].age = @ + 1]
  /\ UNCHANGED <<staging, retired, lock, pc, work, faults>>

MaintainStep(i) ==
  Challenge(i) \/ RetireReads(i) \/ RetireMoves(i) \/ RetireRefused(i) \/ RetireRemoves(i)
    \/ MaintainEnds(i) \/ MaintainFails(i)
PublishStep(i) ==
  PublishCannot(i) \/ PublishClaims(i) \/ ClaimRefused(i) \/ ClaimFound(i) \/ ClaimUnseen(i)
    \/ ClaimMissing(i) \/ PublishEnds(i) \/ Rollback(i)
HandleStep(i) ==
  BeatReads(i) \/ BeatWrites(i) \/ UnpublishReads(i) \/ UnpublishMoves(i) \/ UnpublishRefused(i)
    \/ CleanupGeneration(i)
InstanceStep(i) ==
  Acquire(i) \/ AcquireFails(i) \/ MaintainStep(i) \/ PublishStep(i) \/ HandleStep(i)

Next ==
  \/ LockExpires
  \/ \E i \in Instances :
       InstanceStep(i) \/ Start(i) \/ BeatBegins(i) \/ UnpublishBegins(i) \/ Crash(i)
  \/ \E s \in Slots : LeaseAges(s)

Spec == Init /\ [][Next]_vars

(* An instance that does not crash goes on; a lock nobody refreshes is      *)
(* stale in the end.  Nobody has to start, to renew or to withdraw.         *)
FairSpec == Spec /\ WF_vars(LockExpires) /\ \A i \in Instances : WF_vars(InstanceStep(i))

-----------------------------------------------------------------------------
PCs == {"off"} \cup Answers \cup Ended

TypeOK ==
  /\ active \in [Slots -> Entry \cup {NoEntry}]
  /\ staging \in SUBSET Instances /\ retired \in SUBSET Instances
  /\ lock \in [holder : Instances \cup {NoHolder}, left : BOOLEAN]
  /\ pc \in [Instances -> PCs]
  /\ work \in [Instances -> Work]
  /\ faults \in [Instances -> Nat]

(* An entry whose lease is alive leaves its slot only by a step of its own  *)
(* instance: another one may have listed it when it was old, challenged it  *)
(* in vain and waited for the lock, but it renewed its lease meanwhile; and *)
(* the slot of an entry that is gone may have a new owner.                  *)
FreshIsKept ==
  [][\A s \in Slots :
       active[s] # NoEntry /\ active[s].age = 0 /\ ~(active'[s] # NoEntry /\ active'[s].owner = active[s].owner)
         => pc[active[s].owner] \in {"unpublishing", "rollback"}]_vars

(* A publication that is reported as failed has left no entry behind if one *)
(* failure hit it, whichever step that was: a claim that was done and       *)
(* reported an error, the listing or the look-up, the read-back, the        *)
(* rollback after the slots ran out, or the release of the lock after the   *)
(* commit.  Two failures can leave one: a claim that was done, whose error  *)
(* is followed by a look-up that fails, and a rollback that cannot read     *)
(* what it has to take back.                                                *)
FailedLeavesNothing ==
  \A i \in Instances, s \in Slots : pc[i] = "failed" /\ faults[i] <= 1 => ~Holds(s, i)

(* The lock is free again after every operation, every failed release and   *)
(* every crash of its holder.                                               *)
LockReturns == \A i \in Instances : lock.holder = i ~> lock.holder # i
=============================================================================
