------------------------ MODULE RuntimeDiscoveryProofs ------------------------
(***************************************************************************)
(* No instance loses an entry whose lease is alive, and no publication that *)
(* one failure hit leaves one, and nobody is stuck under the lock, for any      *)
(* number of instances, slots, renewals and failures: the inductive         *)
(* invariant IInv of RuntimeDiscovery, and what follows from it.            *)
(***************************************************************************)
EXTENDS RuntimeDiscovery, WellFoundedInduction, TLAPS

(* Where an instance is once it may have claimed a slot.                    *)
After == {"claimed", "rollback", "running", "to beat", "beat", "beating", "to unpublish",
          "unpublish", "unpublishing", "cleanup", "closed", "failed", "crashed"}

(* An instance that may have an entry: its claim may have been done and not *)
(* been seen, and then nothing of it is staged any more.                    *)
Past(i) == pc[i] \in After \/ (pc[i] = "publish" /\ i \notin staging)

(* What is done under the lock is done by its holder.                       *)
HasLock == \A i \in Instances : pc[i] \in Locked => lock.holder = i

(* The entry of a claim that was not seen: two failures hit its instance,   *)
(* which goes on to fail.                                                   *)
Lost == {"publish", "rollback", "failed", "crashed"}
Astray(i) == work[i].slot = 0 /\ faults[i] >= 2 /\ pc[i] \in Lost

(* An instance has an entry in no slot but the one it claimed, and in one   *)
(* only.  It knows of none before its claim, and has one to roll back only  *)
(* if a failure hit it.                                                     *)
OwnSlot ==
  \A i \in Instances, s \in Slots : Holds(s, i) => Past(i) /\ (s = work[i].slot \/ Astray(i))
OneEntry == \A i \in Instances, s, t \in Slots : Holds(s, i) /\ Holds(t, i) => s = t
NoneKnown == \A i \in Instances : pc[i] \notin After => work[i].slot = 0
RolledBack ==
  \A i \in Instances, s \in Slots : pc[i] = "rollback" /\ Holds(s, i) => faults[i] >= 1

(* A record that was listed is no newer than its entry, and if it is the    *)
(* same, the lease was not alive.                                           *)
Listed(r) ==
  /\ Past(r.owner)
  /\ Holds(r.slot, r.owner) => r.beat <= active[r.slot].beat
  /\ Unchanged(r) => active[r.slot].age >= 1

ListedOK == \A i \in Instances : \A r \in work[i].todo \cup work[i].target : Listed(r)

(* There is one record to retire, and between the read and the move its     *)
(* entry does not change.                                                   *)
OneTarget(w) == \A q, r \in w.target : q = r
RetiringOK ==
  \A i \in Instances :
    /\ OneTarget(work[i])
    /\ pc[i] = "retiring" => \A r \in work[i].target : Unchanged(r)

(* Nor does it between the read and the write of its own instance, which    *)
(* has a slot.                                                              *)
Handle == After \ {"rollback", "failed", "crashed"}
Writing(i) ==
  /\ pc[i] \in Handle => work[i].slot \in Slots
  /\ pc[i] \in {"beating", "unpublishing"} => Holds(work[i].slot, i)
  /\ pc[i] = "beating" => active[work[i].slot].beat < MaxBeats

WritingOK == \A i \in Instances : Writing(i)

IInv == /\ TypeOK /\ HasLock /\ OwnSlot /\ OneEntry /\ NoneKnown /\ RolledBack
        /\ ListedOK /\ RetiringOK /\ WritingOK /\ FailedLeavesNothing

Locks == [holder : Instances \cup {NoHolder}, left : BOOLEAN]

(* The failures of an instance are counted, and only those.                 *)
Counts(i) ==
  /\ faults' \in [Instances -> Nat] /\ faults'[i] >= faults[i]
  /\ \A j \in Instances : j # i => faults'[j] = faults[j]

-----------------------------------------------------------------------------
(* A step of an instance that claims nothing and renews nothing: it goes    *)
(* on, and under the lock it may remove entries.                            *)
Quiet(i, p, w) ==
  /\ Goes(i, p) /\ work' = [work EXCEPT ![i] = w]
  /\ \/ w.slot = work[i].slot /\ (pc[i] \in Lost => p \in Lost)
     \/ p \in After /\ \A s \in Slots : Holds(s, i)' => s = w.slot
  /\ OneTarget(w)
  /\ \A r \in w.todo \cup w.target : Listed(r)
  /\ active' \in [Slots -> Entry \cup {NoEntry}]
  /\ \A s \in Slots : active'[s] = active[s] \/ (active'[s] = NoEntry /\ pc[i] \in Locked)
  /\ staging' \in SUBSET (staging \cup {i}) /\ retired' \in SUBSET Instances
  /\ Counts(i) /\ lock' \in Locks
  /\ lock'.holder = lock.holder \/ lock.holder \in {i, NoHolder}
  /\ p \in Locked => lock'.holder = i
  /\ pc[i] \in After => p \in After
  /\ Past(i) => Past(i)'
  /\ \A s \in Slots : p = "failed" /\ Holds(s, i)' => faults'[i] >= 2
  /\ \A s \in Slots : p = "rollback" /\ Holds(s, i)' => faults'[i] >= 1
  /\ p = "retiring" => \A r \in w.target : Unchanged(r)'
  /\ Writing(i)'

(* Such a step keeps the invariant.                                         *)
LEMMA QuietStep ==
  ASSUME IInv, NEW i \in Instances, NEW p \in PCs, NEW w \in Work, Quiet(i, p, w)
  PROVE  IInv'
<1>. USE DEF Quiet
<1>0. /\ pc \in [Instances -> PCs] /\ pc' \in [Instances -> PCs] /\ pc'[i] = p
      /\ \A j \in Instances : j # i => pc'[j] = pc[j]
      /\ work \in [Instances -> Work] /\ work' \in [Instances -> Work] /\ work'[i] = w
      /\ \A j \in Instances : j # i => work'[j] = work[j]
      /\ \A j \in Instances : pc[j] \in After => pc'[j] \in After
      /\ staging' \in SUBSET Instances
      /\ faults \in [Instances -> Nat] /\ faults' \in [Instances -> Nat]
  BY DEF IInv, TypeOK, Goes, Counts
<1>1a. \A j \in Instances : faults'[j] >= faults[j]
  BY <1>0 DEF Counts
<1>1b. \A j \in Instances : Past(j) => Past(j)'
  BY <1>0 DEF Past
<1>1c. ASSUME NEW j \in Instances, Astray(j), j = i => w.slot = work[i].slot /\ p \in Lost
       PROVE  Astray(j)'
  <2>1. faults[j] \in Nat /\ faults'[j] \in Nat /\ faults'[j] >= faults[j]
    BY <1>0, <1>1a
  <2>2. faults'[j] >= 2
    BY <1>1c, <2>1 DEF Astray
  <2>3. work'[j].slot = 0 /\ pc'[j] \in Lost
    BY <1>0, <1>1c DEF Astray
  <2>. QED  BY <2>2, <2>3 DEF Astray
<1>a. \A s \in Slots : active'[s] # NoEntry => active'[s] = active[s]
  OBVIOUS
<1>b. \A s, j : s \in Slots /\ Holds(s, j)' => Holds(s, j)
  BY <1>a DEF Holds
<1>c. \A s \in Slots, j \in Instances : j # i /\ pc[j] \in Locked => active'[s] = active[s]
  BY DEF IInv, HasLock
<1>d. \A j \in Instances : \A r \in work[j].todo \cup work[j].target :
         r \in Record
  BY <1>0 DEF Work
<1>1. TypeOK'
  BY <1>0 DEF TypeOK, Locks
<1>2. HasLock'
  <2>. SUFFICES ASSUME NEW j \in Instances, pc'[j] \in Locked, j # i
                PROVE  lock'.holder = j
    BY <1>0 DEF HasLock
  <2>. QED  BY <1>0, DiscoveryAssumption DEF IInv, HasLock
<1>3. OwnSlot'
  <2>. SUFFICES ASSUME NEW j \in Instances, NEW s \in Slots, Holds(s, j)'
                PROVE  Past(j)' /\ (s = work'[j].slot \/ Astray(j)')
    BY DEF OwnSlot
  <2>1. Past(j) /\ (s = work[j].slot \/ Astray(j))
    BY <1>b DEF IInv, OwnSlot
  <2>2. CASE j # i
    BY <1>0, <1>1b, <1>1c, <2>1, <2>2
  <2>3. CASE j = i /\ w.slot = work[i].slot /\ (pc[i] \in Lost => p \in Lost)
    BY <1>0, <1>1b, <1>1c, <2>1, <2>3 DEF Astray
  <2>4. CASE j = i /\ s = w.slot
    BY <1>0, <1>1b, <2>1, <2>4
  <2>. QED  BY <2>2, <2>3, <2>4
<1>3a. OneEntry' /\ NoneKnown'
  <2>1. ASSUME NEW j \in Instances, pc'[j] \notin After PROVE work'[j].slot = 0
    BY <1>0, <2>1 DEF IInv, NoneKnown
  <2>2. OneEntry'
    BY <1>b DEF IInv, OneEntry
  <2>. QED  BY <2>1, <2>2 DEF NoneKnown
<1>3b. RolledBack' /\ FailedLeavesNothing'
  <2>1. ASSUME NEW j \in Instances, NEW s \in Slots, Holds(s, j)'
        PROVE  /\ pc'[j] = "rollback" => faults'[j] >= 1
               /\ pc'[j] = "failed" => ~(faults'[j] <= 1)
    <3>1. faults'[j] \in Nat /\ faults[j] \in Nat
      BY <1>0
    <3>2. CASE j = i
      BY <1>0, <2>1, <3>1, <3>2
    <3>3. CASE j # i
      BY <1>0, <1>b, <2>1, <3>1, <3>3 DEF IInv, RolledBack, FailedLeavesNothing, Counts
    <3>. QED  BY <3>2, <3>3
  <2>. QED  BY <2>1 DEF RolledBack, FailedLeavesNothing
<1>4. ListedOK'
  <2>1. ASSUME NEW r \in Record, Listed(r) PROVE Listed(r)'
    <3>1. r.slot \in Slots /\ r.owner \in Instances
      BY DEF Record
    <3>2. Holds(r.slot, r.owner)' =>
            Holds(r.slot, r.owner) /\ active'[r.slot] = active[r.slot]
      BY <1>a, <1>b, <3>1 DEF Holds
    <3>. QED  BY <1>1b, <2>1, <3>1, <3>2 DEF Listed, Unchanged
  <2>2. \A r \in w.todo \cup w.target : r \in Record
    BY DEF Work
  <2>3. ASSUME NEW j \in Instances, NEW r \in work'[j].todo \cup work'[j].target
        PROVE  r \in Record /\ Listed(r)
    BY <1>0, <1>d, <2>2 DEF IInv, ListedOK
  <2>. QED  BY <2>1, <2>3 DEF ListedOK
<1>5. RetiringOK'
  <2>a. \A j \in Instances : OneTarget(work'[j])
    BY <1>0 DEF IInv, RetiringOK
  <2>. SUFFICES ASSUME NEW j \in Instances, pc'[j] = "retiring", j # i,
                       NEW r \in work'[j].target
                PROVE  Unchanged(r)'
    BY <1>0, <2>a DEF RetiringOK, OneTarget
  <2>1. Unchanged(r) /\ r \in Record
    BY <1>0, <1>d DEF IInv, RetiringOK
  <2>2. active'[r.slot] = active[r.slot]
    BY <1>0, <1>c, <2>1 DEF Locked, Record
  <2>. QED  BY <2>1, <2>2 DEF Unchanged, Holds
<1>6. WritingOK'
  <2>. SUFFICES ASSUME NEW j \in Instances, j # i PROVE Writing(j)'
    BY DEF WritingOK
  <2>1. CASE pc'[j] \in {"beating", "unpublishing"}
    <3>1. pc[j] \in Locked /\ Writing(j)
      BY <1>0, <2>1 DEF Locked, IInv, WritingOK
    <3>2. active'[work[j].slot] = active[work[j].slot]
      BY <1>0, <1>c, <2>1, <3>1 DEF Writing, Handle, After
    <3>. QED  BY <1>0, <2>1, <3>1, <3>2 DEF Writing, Holds
  <2>. QED  BY <1>0, <2>1 DEF Writing, IInv, WritingOK
<1>. QED  BY <1>1, <1>2, <1>3, <1>3a, <1>3b, <1>4, <1>5, <1>6 DEF IInv

-----------------------------------------------------------------------------
(* The places by their names.                                               *)
LEMMA Places ==
  /\ \A kind \in Kinds :
       /\ WaitsFor(kind) \in PCs \ (Locked \cup Lost \cup {"retiring"})
       /\ kind \in Locked /\ kind \notin {"beating", "unpublishing", "retiring", "rollback", "failed"}
       /\ Thrown(kind) \in PCs \ Locked
       /\ WaitsFor(kind) \in After => kind \in After /\ Thrown(kind) \in After \ {"failed"}
       /\ Thrown(kind) = "failed" => kind \notin After /\ WaitsFor(kind) \notin After
       /\ kind \in Handle \/ Thrown(kind) \in Handle => WaitsFor(kind) \in Handle
  /\ Locked \subseteq PCs
BY DEF Kinds, WaitsFor, Thrown, PCs, Answers, Ended, Locked, After, Handle, Lost

(* A failure that is counted, or none.                                      *)
LEMMA Counted ==
  ASSUME IInv, NEW i \in Instances
  PROVE  /\ UNCHANGED faults => Counts(i)
         /\ \A n \in Nat : Failures(i, n) => Counts(i) /\ faults'[i] = faults[i] + n
<1>1. faults \in [Instances -> Nat]
  BY DEF IInv, TypeOK
<1>2. ASSUME NEW n \in Nat, Failures(i, n) PROVE Counts(i) /\ faults'[i] = faults[i] + n
  <2>1. faults[i] \in Nat /\ faults' = [faults EXCEPT ![i] = faults[i] + n]
    BY <1>1, <1>2 DEF Failures
  <2>. QED  BY <1>1, <2>1 DEF Counts
<1>. QED  BY <1>1, <1>2 DEF Counts

(* What the steps under the lock do to it.                                  *)
LEMMA LockMoves ==
  ASSUME IInv, NEW i \in Instances, pc[i] \in Locked
  PROVE  /\ Release => lock' \in Locks
         /\ ReleaseFails(i) => lock' \in Locks /\ lock'.holder = i
         /\ lock.holder = i
<1>1. Release => lock' \in Locks
  BY DEF Release, Locks
<1>2. ReleaseFails(i) => lock' \in Locks /\ lock'.holder = i
  BY DEF ReleaseFails, Locks
<1>3. lock.holder = i
  BY DEF IInv, HasLock
<1>. QED  BY <1>1, <1>2, <1>3

(* How an operation ends.                                                   *)
LEMMA CompletesMoves ==
  ASSUME IInv, NEW i \in Instances, pc[i] \in Locked, NEW kind, NEW to, NEW n \in Nat,
         Completes(i, kind, to, n)
  PROVE  /\ lock' \in Locks /\ lock.holder = i
         /\ Counts(i) /\ faults'[i] >= faults[i] + n
         /\ \/ Goes(i, to)
            \/ Goes(i, Thrown(kind))
<1>1. lock' \in Locks /\ lock.holder = i
  BY LockMoves DEF Completes
<1>2. PICK m \in {n, n + 1} : Failures(i, m)
  BY DEF Completes
<1>3. Counts(i) /\ faults'[i] = faults[i] + m /\ m \in Nat
  BY <1>2, Counted
<1>4. faults[i] \in Nat
  BY DEF IInv, TypeOK
<1>5. faults'[i] >= faults[i] + n
  BY <1>2, <1>3, <1>4
<1>. QED  BY <1>1, <1>3, <1>5 DEF Completes

(* A step that changes no entry and no local variable.                      *)
LEMMA ControlStep ==
  ASSUME IInv, NEW i \in Instances, NEW p \in PCs, Goes(i, p),
         UNCHANGED <<active, work>>,
         staging' \in SUBSET (staging \cup {i}), retired' \in SUBSET Instances,
         Counts(i), lock' \in Locks,
         lock'.holder = lock.holder \/ lock.holder \in {i, NoHolder},
         p \in Locked => lock'.holder = i,
         Past(i) => p \in After,
         p = "failed" => ~Past(i),
         p = "rollback" => faults'[i] >= 1 \/ pc[i] = "publish",
         pc[i] \in Lost => p \in Lost,
         p = "retiring" => \A r \in work[i].target : Unchanged(r),
         p \in Handle => pc[i] \in Handle,
         p \in {"beating", "unpublishing"} => Holds(work[i].slot, i),
         p = "beating" => active[work[i].slot].beat < MaxBeats
  PROVE  IInv'
<1>1. work[i] \in Work /\ work' = [work EXCEPT ![i] = work[i]]
  BY DEF IInv, TypeOK
<1>2. pc'[i] = p
  BY DEF IInv, TypeOK, Goes
<1>3. Writing(i)'
  BY <1>2 DEF IInv, WritingOK, Writing, Holds
<1>4. \A s \in Slots : p = "failed" => ~Holds(s, i)'
  BY DEF IInv, OwnSlot, Holds
<1>5. \A s \in Slots : p = "rollback" /\ Holds(s, i)' => faults'[i] >= 1
  <2>. SUFFICES ASSUME NEW s \in Slots, pc[i] = "publish", Holds(s, i)' PROVE faults'[i] >= 1
    OBVIOUS
  <2>1. Holds(s, i) /\ work[i].slot = 0 /\ s # 0
    <3>1. Holds(s, i)
      BY DEF Holds
    <3>2. work[i].slot = 0
      BY DEF IInv, NoneKnown, After
    <3>3. s # 0
      BY DEF Slots
    <3>. QED  BY <3>1, <3>2, <3>3
  <2>2. faults[i] >= 2
    BY <2>1 DEF IInv, OwnSlot, Astray
  <2>3. faults[i] \in Nat /\ faults'[i] \in Nat /\ faults'[i] >= faults[i]
    BY DEF IInv, TypeOK, Counts
  <2>. QED  BY <2>2, <2>3
<1>6. p = "retiring" => \A r \in work[i].target : Unchanged(r)'
  BY DEF Unchanged, Holds
<1>7. \A r \in work[i].todo \cup work[i].target : Listed(r)
  BY DEF IInv, ListedOK
<1>8. OneTarget(work[i])
  BY DEF IInv, RetiringOK
<1>9. /\ pc[i] \in After => p \in After
      /\ Past(i) => Past(i)'
  BY <1>2 DEF Past
<1>10. Quiet(i, p, work[i])
  BY <1>1, <1>3, <1>4, <1>5, <1>6, <1>7, <1>8, <1>9 DEF Quiet, IInv, TypeOK
<1>. QED  BY <1>1, <1>10, QuietStep

(* The end of an operation that changed no entry.                           *)
LEMMA CompletesStep ==
  ASSUME IInv, NEW i \in Instances, NEW kind \in Kinds, pc[i] \in Locked \ Lost,
         NEW to \in PCs \ (Locked \cup {"failed"}), NEW n \in Nat, Completes(i, kind, to, n),
         pc[i] \in After => to \in After /\ Thrown(kind) \in After \ {"failed"},
         to \in Handle \/ Thrown(kind) \in Handle => pc[i] \in Handle,
         UNCHANGED <<active, staging, retired, work>>
  PROVE  IInv'
<1>. DEFINE thrown == Thrown(kind)
<1>1. thrown \in PCs \ Locked
  BY Places
<1>2. /\ to \notin {"retiring", "beating", "unpublishing", "rollback"}
      /\ thrown \notin {"retiring", "beating", "unpublishing", "rollback"}
  BY <1>1 DEF Locked
<1>3. PICK p \in {to, thrown} : Goes(i, p)
  BY CompletesMoves
<1>4. lock' \in Locks /\ lock.holder = i /\ Counts(i)
  BY CompletesMoves
<1>5. pc[i] # "publish" /\ (Past(i) <=> pc[i] \in After)
  BY DEF Lost, Past
<1>. HIDE DEF thrown
<1>6. /\ p \in PCs \ Locked /\ p \notin {"retiring", "beating", "unpublishing", "rollback"}
      /\ pc[i] \in After => p \in After
      /\ p = "failed" => pc[i] \notin After
      /\ p \in Handle => pc[i] \in Handle
  BY <1>1, <1>2 DEF thrown
<1>. QED  BY <1>3, <1>4, <1>5, <1>6, ControlStep DEF IInv, TypeOK

(* Taking the lock.                                                         *)
LEMMA AcquirePreserves ==
  ASSUME IInv, NEW i \in Instances, Acquire(i)
  PROVE  IInv'
<1>1. PICK kind \in Kinds : pc[i] = WaitsFor(kind) /\ Goes(i, kind)
  BY DEF Acquire
<1>2. lock' \in Locks /\ lock'.holder = i /\ lock.holder = NoHolder
  BY DEF Acquire, Locks
<1>3. kind \in PCs /\ Counts(i)
  BY Places, Counted DEF Acquire
<1>4. Past(i) <=> pc[i] \in After
  BY <1>1, Places DEF Past, Lost
<1>. QED  BY <1>1, <1>2, <1>3, <1>4, Places, ControlStep DEF Acquire, IInv, TypeOK

(* Giving the lock up.                                                      *)
LEMMA AcquireFailsPreserves ==
  ASSUME IInv, NEW i \in Instances, AcquireFails(i)
  PROVE  IInv'
<1>1. PICK kind \in Kinds : pc[i] = WaitsFor(kind) /\ Goes(i, Thrown(kind))
                            /\ Unstaged(kind, i)
  BY DEF AcquireFails
<1>2. staging' \in SUBSET (staging \cup {i})
  BY <1>1 DEF Unstaged
<1>3. Thrown(kind) \in PCs \ Locked
  BY <1>1, Places
<1>4. Thrown(kind) \notin {"retiring", "beating", "unpublishing", "rollback"}
  BY <1>3 DEF Locked
<1>5. Counts(i)
  BY Counted DEF AcquireFails
<1>6. (Past(i) <=> pc[i] \in After) /\ pc[i] \notin Lost
  BY <1>1, Places DEF Past, Lost
<1>7. Thrown(kind) = "failed" => pc[i] \notin After
  BY <1>1, Places
<1>8. pc[i] \in After => Thrown(kind) \in After
  BY <1>1, Places
<1>9. Thrown(kind) \in Handle => pc[i] \in Handle
  BY <1>1, Places
<1>. DEFINE thrown == Thrown(kind)
<1>. HIDE DEF thrown
<1>10. Goes(i, thrown) /\ thrown \in PCs
  BY <1>1, <1>3 DEF thrown
<1>. QED  BY <1>2, <1>3, <1>4, <1>5, <1>6, <1>7, <1>8, <1>9, <1>10, ControlStep
          DEF AcquireFails, IInv, TypeOK, Locks, thrown

(* Reading the entry again.                                                 *)
LEMMA RetireReadsPreserves ==
  ASSUME IInv, NEW i \in Instances, RetireReads(i)
  PROVE  IInv'
<1>1. /\ pc[i] = "retire" /\ UNCHANGED <<active, staging, retired, work>>
      /\ pc[i] \in Locked \ (Lost \cup After \cup Handle) /\ ~Past(i)
      /\ lock.holder = i
  BY DEF RetireReads, Locked, Lost, After, Handle, Past, IInv, HasLock
<1>2. /\ "retire" \in Kinds /\ Thrown("retire") = "failed"
      /\ "maintain" \in PCs \ (Locked \cup Handle \cup {"failed"})
      /\ "failed" \in PCs \ (Locked \cup Handle)
  BY DEF Kinds, Thrown, PCs, Answers, Ended, Locked, After, Handle
<1>3. PICK r \in work[i].target :
        \/ Unchanged(r) /\ Goes(i, "retiring") /\ UNCHANGED <<lock, faults>>
        \/ ~Unchanged(r) /\ Completes(i, "retire", "maintain", 0)
        \/ Completes(i, "retire", "maintain", 1)
        \/ Throws(i, "retire", 1)
  BY DEF RetireReads
<1>4. CASE Unchanged(r) /\ Goes(i, "retiring") /\ UNCHANGED <<lock, faults>>
  <2>1. \A q \in work[i].target : Unchanged(q)
    BY <1>1, <1>4 DEF IInv, RetiringOK, OneTarget
  <2>2. Counts(i) /\ "retiring" \in PCs \ Handle
    BY <1>4, Counted DEF PCs, Answers, Locked, After, Handle
  <2>. QED  BY <1>1, <1>4, <2>1, <2>2, ControlStep DEF IInv, TypeOK, Locks
<1>5. CASE \E n \in {0, 1} : Completes(i, "retire", "maintain", n)
  BY <1>1, <1>2, <1>5, CompletesStep
<1>6. CASE Throws(i, "retire", 1)
  <2>1. Goes(i, "failed") /\ lock' \in Locks /\ Counts(i)
    BY <1>1, <1>2, <1>6, CompletesMoves DEF Throws
  <2>. QED  BY <1>1, <1>2, <2>1, ControlStep DEF IInv, TypeOK
<1>. QED  BY <1>3, <1>4, <1>5, <1>6

(* A publication that cannot be.                                            *)
LEMMA PublishCannotPreserves ==
  ASSUME IInv, NEW i \in Instances, PublishCannot(i)
  PROVE  IInv'
<1>1. pc[i] = "publish" /\ Goes(i, "rollback") /\ lock.holder = i
  BY DEF PublishCannot, IInv, HasLock, Locked
<1>2. Counts(i)
  BY Counted DEF PublishCannot
<1>. QED  BY <1>1, <1>2, ControlStep
          DEF PublishCannot, IInv, TypeOK, Locks, PCs, Answers, Ended, Locked, After, Handle, Lost

(* The end of a publication.                                                *)
LEMMA PublishEndsPreserves ==
  ASSUME IInv, NEW i \in Instances, PublishEnds(i)
  PROVE  IInv'
<1>1. /\ pc[i] = "claimed" /\ pc[i] \in Locked /\ lock.holder = i /\ lock \in Locks
      /\ UNCHANGED <<active, staging, retired, work>>
  BY DEF PublishEnds, IInv, TypeOK, HasLock, Locked, Locks
<1>2. CASE Goes(i, "running") /\ Release /\ UNCHANGED faults
  <2>1. lock' \in Locks /\ Counts(i)
    BY <1>1, <1>2, LockMoves, Counted
  <2>. QED  BY <1>1, <1>2, <2>1, ControlStep
            DEF IInv, TypeOK, PCs, Answers, Ended, Locked, After, Handle, Lost
<1>3. CASE Goes(i, "rollback") /\ (ReleaseFails(i) \/ UNCHANGED lock) /\ Failures(i, 1)
  <2>1. lock' \in Locks /\ lock'.holder = i
    BY <1>1, <1>3, LockMoves
  <2>2. Counts(i) /\ faults'[i] = faults[i] + 1 /\ faults[i] \in Nat
    BY <1>3, Counted DEF IInv, TypeOK
  <2>3. faults'[i] >= 1
    BY <2>2
  <2>. QED  BY <1>1, <1>3, <2>1, <2>2, <2>3, ControlStep
            DEF IInv, TypeOK, PCs, Answers, Ended, Locked, After, Handle, Lost
<1>. QED  BY <1>2, <1>3 DEF PublishEnds

(* The start of a renewal.                                                  *)
LEMMA BeatBeginsPreserves ==
  ASSUME IInv, NEW i \in Instances, BeatBegins(i)
  PROVE  IInv'
<1>1. pc[i] = "running" /\ Goes(i, "to beat") /\ Counts(i)
  BY Counted DEF BeatBegins, WaitsFor
<1>2. "to beat" \in PCs
  <2>1. WaitsFor("beat") = "to beat" /\ "beat" \in Kinds
    BY DEF WaitsFor, Kinds
  <2>. QED  BY <2>1, Places
<1>. QED  BY <1>1, <1>2, ControlStep
          DEF BeatBegins, IInv, TypeOK, Locks, Locked, After, Handle, Past, Lost

(* The start of a withdrawal.                                               *)
LEMMA UnpublishBeginsPreserves ==
  ASSUME IInv, NEW i \in Instances, UnpublishBegins(i)
  PROVE  IInv'
<1>1. pc[i] = "running" /\ Goes(i, "to unpublish") /\ Counts(i)
  BY Counted DEF UnpublishBegins, WaitsFor
<1>2. "to unpublish" \in PCs
  <2>1. WaitsFor("unpublish") = "to unpublish" /\ "unpublish" \in Kinds
    BY DEF WaitsFor, Kinds
  <2>. QED  BY <2>1, Places
<1>. QED  BY <1>1, <1>2, ControlStep
          DEF UnpublishBegins, IInv, TypeOK, Locks, Locked, After, Handle, Past, Lost

(* A renewal reads the entry.                                               *)
LEMMA BeatReadsPreserves ==
  ASSUME IInv, NEW i \in Instances, BeatReads(i)
  PROVE  IInv'
<1>1. /\ pc[i] = "beat" /\ lock.holder = i /\ UNCHANGED <<active, staging, retired, work>>
      /\ pc[i] \in Locked \ Lost /\ pc[i] \in Handle
  BY DEF BeatReads, IInv, HasLock, Locked, Lost, Handle, After
<1>2. CASE Holds(work[i].slot, i) /\ active[work[i].slot].beat < MaxBeats /\ Goes(i, "beating") /\ UNCHANGED <<lock, faults>>
  <2>1. Counts(i)
    BY <1>2, Counted
  <2>. QED  BY <1>1, <1>2, <2>1, ControlStep
            DEF IInv, TypeOK, Locks, PCs, Answers, Ended, Locked, After, Handle, Lost
<1>3. CASE \E n \in {0, 1} : Completes(i, "beat", "running", n)
  <2>1. /\ "beat" \in Kinds /\ "running" \in PCs \ (Locked \cup {"failed"})
        /\ "running" \in After /\ Thrown("beat") \in After \ {"failed"}
    BY DEF Kinds, PCs, Answers, Ended, Locked, After, Handle, Thrown
  <2>. QED  BY <1>1, <1>3, <2>1, CompletesStep
<1>. QED  BY <1>2, <1>3 DEF BeatReads

(* A withdrawal reads the entry.                                            *)
LEMMA UnpublishReadsPreserves ==
  ASSUME IInv, NEW i \in Instances, UnpublishReads(i)
  PROVE  IInv'
<1>1. /\ pc[i] = "unpublish" /\ lock.holder = i /\ UNCHANGED <<active, staging, retired, work>>
      /\ pc[i] \in Locked \ Lost /\ pc[i] \in Handle
  BY DEF UnpublishReads, IInv, HasLock, Locked, Lost, Handle, After
<1>2. CASE Holds(work[i].slot, i) /\ Goes(i, "unpublishing") /\ UNCHANGED <<lock, faults>>
  <2>1. Counts(i)
    BY <1>2, Counted
  <2>. QED  BY <1>1, <1>2, <2>1, ControlStep
            DEF IInv, TypeOK, Locks, PCs, Answers, Ended, Locked, After, Handle, Lost
<1>3. CASE \E n \in {0, 1} : Completes(i, "unpublish", "closed", n)
  <2>1. /\ "unpublish" \in Kinds /\ "closed" \in PCs \ (Locked \cup {"failed"})
        /\ "closed" \in After /\ Thrown("unpublish") \in After \ {"failed"}
    BY DEF Kinds, PCs, Answers, Ended, Locked, After, Handle, Thrown
  <2>. QED  BY <1>1, <1>3, <2>1, CompletesStep
<1>. QED  BY <1>2, <1>3 DEF UnpublishReads

(* The end of a withdrawal.                                                 *)
LEMMA CleanupGenerationPreserves ==
  ASSUME IInv, NEW i \in Instances, CleanupGeneration(i)
  PROVE  IInv'
<1>1. pc[i] = "cleanup" /\ Goes(i, "closed") /\ retired' \in SUBSET Instances /\ Counts(i)
  BY Counted DEF CleanupGeneration, IInv, TypeOK
<1>. QED  BY <1>1, ControlStep
          DEF CleanupGeneration, IInv, TypeOK, Locks, PCs, Answers, Ended, Locked, After, Handle, Past, Lost

(* A crash.                                                                 *)
LEMMA CrashPreserves ==
  ASSUME IInv, NEW i \in Instances, Crash(i)
  PROVE  IInv'
<1>1. Goes(i, "crashed") /\ "crashed" \in PCs \ (Locked \cup Handle) /\ Counts(i)
  BY Counted DEF Crash, PCs, Answers, Ended, Locked, After, Handle
<1>. QED  BY <1>1, ControlStep DEF Crash, IInv, TypeOK, Locks, After, Locked, Lost

(* A step that changes its local variables, and no entry.                   *)
LEMMA LocalStep ==
  ASSUME IInv, NEW i \in Instances, NEW p \in PCs, Goes(i, p),
         NEW w \in Work, work' = [work EXCEPT ![i] = w], w.slot = work[i].slot,
         OneTarget(w), \A r \in w.todo \cup w.target : Listed(r),
         UNCHANGED <<active, lock>>,
         staging' \in SUBSET (staging \cup {i}), retired' \in SUBSET Instances,
         Counts(i),
         p \notin {"retiring", "beating", "unpublishing", "rollback"},
         p \in Locked => pc[i] \in Locked,
         ~Past(i), pc[i] \notin After, pc[i] \in Lost => p \in Lost,
         p \notin Handle
  PROVE  IInv'
<1>1. pc'[i] = p /\ work'[i] = w
  BY DEF IInv, TypeOK, Goes
<1>2. Writing(i)'
  BY <1>1 DEF IInv, WritingOK, Writing
<1>3. \A s \in Slots : ~Holds(s, i)'
  BY DEF IInv, OwnSlot, Holds
<1>4. p \in Locked => lock.holder = i
  BY DEF IInv, HasLock
<1>5. Quiet(i, p, w)
  BY <1>2, <1>3, <1>4 DEF Quiet, IInv, TypeOK, Locks
<1>. QED  BY <1>5, QuietStep

(* What a maintenance lists.                                                *)
LEMMA SnapshotListed ==
  ASSUME IInv, NEW pressure \in BOOLEAN, NEW r \in Snapshot(pressure)
  PROVE  r \in Record /\ Listed(r)
<1>1. PICK s \in Aged(pressure) : r = [slot |-> s, owner |-> active[s].owner, beat |-> active[s].beat]
  BY DEF Snapshot
<1>2. s \in Slots /\ active[s] # NoEntry /\ active[s].age >= 1 /\ active[s] \in Entry
  BY DEF Aged, Taken, IInv, TypeOK, Entry, Ages
<1>3. r.slot = s /\ r.owner = active[s].owner /\ r.beat = active[s].beat
      /\ r.owner \in Instances /\ r.beat \in 0 .. MaxBeats /\ r \in Record
  BY <1>1, <1>2 DEF Entry, Record
<1>4. Past(r.owner)
  BY <1>2, <1>3 DEF IInv, OwnSlot, Holds
<1>5. r.beat <= active[r.slot].beat
  BY <1>3, DiscoveryAssumption
<1>. QED  BY <1>2, <1>3, <1>4, <1>5 DEF Listed

(* Starting.                                                                *)
LEMMA StartPreserves ==
  ASSUME IInv, NEW i \in Instances, Start(i)
  PROVE  IInv'
<1>. DEFINE w == [work[i] EXCEPT !.todo = Snapshot(FALSE)]
<1>1. work[i] \in Work
  BY DEF IInv, TypeOK
<1>2. \A r \in Snapshot(FALSE) : r \in Record /\ Listed(r)
  BY SnapshotListed
<1>3. /\ w \in Work /\ w.slot = work[i].slot /\ w.target = work[i].target
      /\ w.todo = Snapshot(FALSE)
  BY <1>1, <1>2 DEF Work
<1>4. work' = [work EXCEPT ![i] = w]
  BY <1>1 DEF Work, Start, IInv, TypeOK
<1>5. \A r \in w.todo \cup w.target : Listed(r)
  BY <1>2, <1>3 DEF IInv, ListedOK
<1>6. OneTarget(w)
  BY <1>3 DEF OneTarget, IInv, RetiringOK
<1>7. Goes(i, "maintain") /\ pc[i] = "off" /\ "maintain" \in PCs /\ Counts(i)
  BY Counted DEF Start, PCs, Answers
<1>. HIDE DEF w
<1>. QED  BY <1>3, <1>4, <1>5, <1>6, <1>7, LocalStep
          DEF Start, IInv, TypeOK, Locked, After, Handle, Past, Lost

(* Asking a runtime.                                                        *)
LEMMA ChallengePreserves ==
  ASSUME IInv, NEW i \in Instances, Challenge(i)
  PROVE  IInv'
<1>1. PICK r \in work[i].todo :
        \/ /\ work' = [work EXCEPT ![i].todo = @ \ {r}]
           /\ UNCHANGED pc
        \/ /\ work' = [work EXCEPT ![i].todo = @ \ {r}, ![i].target = {r}]
           /\ Goes(i, WaitsFor("retire"))
  BY DEF Challenge
<1>2. /\ pc[i] = "maintain" /\ work[i] \in Work /\ work \in [Instances -> Work]
      /\ UNCHANGED <<active, staging, retired, lock>> /\ Counts(i)
      /\ pc \in [Instances -> PCs]
      /\ \A q \in work[i].todo \cup work[i].target : Listed(q)
      /\ OneTarget(work[i])
  BY Counted DEF Challenge, IInv, TypeOK, ListedOK, RetiringOK
<1>3. CASE /\ work' = [work EXCEPT ![i].todo = @ \ {r}]
           /\ UNCHANGED pc
  <2>. DEFINE w == [work[i] EXCEPT !.todo = @ \ {r}]
  <2>1. /\ w \in Work /\ w.slot = work[i].slot /\ w.target = work[i].target
        /\ w.todo \subseteq work[i].todo /\ work' = [work EXCEPT ![i] = w]
    BY <1>2, <1>3 DEF Work
  <2>2. OneTarget(w) /\ \A q \in w.todo \cup w.target : Listed(q)
    BY <1>2, <2>1 DEF OneTarget
  <2>3. Goes(i, "maintain") /\ "maintain" \in PCs
    BY <1>2, <1>3 DEF Goes, PCs, Answers
  <2>. HIDE DEF w
  <2>. QED  BY <1>2, <2>1, <2>2, <2>3, LocalStep DEF IInv, TypeOK, Locked, After, Handle, Past, Lost
<1>4. CASE /\ work' = [work EXCEPT ![i].todo = @ \ {r}, ![i].target = {r}]
           /\ Goes(i, WaitsFor("retire"))
  <2>. DEFINE w == [work[i] EXCEPT !.todo = @ \ {r}, !.target = {r}]
  <2>1. /\ w \in Work /\ w.slot = work[i].slot /\ w.target = {r}
        /\ w.todo \subseteq work[i].todo /\ work' = [work EXCEPT ![i] = w]
    BY <1>2, <1>4 DEF Work
  <2>2. OneTarget(w) /\ \A q \in w.todo \cup w.target : Listed(q)
    BY <1>2, <2>1 DEF OneTarget
  <2>3. WaitsFor("retire") = "to retire" /\ "retire" \in Kinds
    BY DEF WaitsFor, Kinds
  <2>4. Goes(i, "to retire") /\ "to retire" \in PCs
    BY <1>4, <2>3, Places
  <2>. HIDE DEF w
  <2>. QED  BY <1>2, <2>1, <2>2, <2>4, LocalStep DEF IInv, TypeOK, Locked, After, Handle, Past, Lost
<1>. QED  BY <1>1, <1>3, <1>4

(* Removing what was moved.                                                 *)
LEMMA RetireRemovesPreserves ==
  ASSUME IInv, NEW i \in Instances, RetireRemoves(i)
  PROVE  IInv'
<1>. DEFINE w == [work[i] EXCEPT !.target = {}]
<1>1. work[i] \in Work
  BY DEF IInv, TypeOK
<1>2. /\ w \in Work /\ w.slot = work[i].slot /\ w.target = {} /\ w.todo = work[i].todo
  BY <1>1 DEF Work
<1>3. work' = [work EXCEPT ![i] = w]
  BY <1>1 DEF Work, RetireRemoves, IInv, TypeOK
<1>4. OneTarget(w) /\ \A r \in w.todo \cup w.target : Listed(r)
  BY <1>2 DEF OneTarget, IInv, ListedOK
<1>5. PICK p \in {"maintain", "failed"} : Goes(i, p)
  BY DEF RetireRemoves
<1>6. p \in PCs /\ pc[i] = "removing" /\ retired' \in SUBSET Instances /\ Counts(i)
  BY Counted DEF RetireRemoves, IInv, TypeOK, PCs, Answers, Ended
<1>. HIDE DEF w
<1>. QED  BY <1>2, <1>3, <1>4, <1>5, <1>6, LocalStep
          DEF RetireRemoves, IInv, TypeOK, Locked, After, Handle, Past, Lost

(* The end of the maintenance.                                              *)
LEMMA MaintainEndsPreserves ==
  ASSUME IInv, NEW i \in Instances, MaintainEnds(i)
  PROVE  IInv'
<1>1. /\ pc[i] = "maintain" /\ work[i] \in Work /\ work \in [Instances -> Work]
      /\ UNCHANGED <<active, lock>> /\ Counts(i)
      /\ staging' \in SUBSET (staging \cup {i}) /\ retired' \in SUBSET Instances
      /\ pc \in [Instances -> PCs]
  BY Counted DEF MaintainEnds, IInv, TypeOK
<1>2. /\ OneTarget(work[i]) /\ \A r \in work[i].todo \cup work[i].target : Listed(r)
      /\ work[i].todo = {}
  BY DEF MaintainEnds, IInv, RetiringOK, ListedOK
<1>3. CASE \/ Goes(i, WaitsFor("publish")) /\ UNCHANGED work
           \/ Goes(i, "failed") /\ UNCHANGED work
  <2>1. WaitsFor("publish") = "to publish" /\ "publish" \in Kinds
    BY DEF WaitsFor, Kinds
  <2>2. PICK p \in {"to publish", "failed"} : Goes(i, p)
    BY <1>3, <2>1
  <2>3. p \in PCs
    BY <2>1, Places DEF PCs, Ended
  <2>4. work' = [work EXCEPT ![i] = work[i]]
    BY <1>1, <1>3
  <2>. QED  BY <1>1, <1>2, <2>2, <2>3, <2>4, LocalStep DEF IInv, TypeOK, Locked, After, Handle, Past, Lost
<1>4. CASE /\ work' = [work EXCEPT ![i].pressure = TRUE, ![i].todo = Snapshot(TRUE)]
           /\ UNCHANGED pc
  <2>. DEFINE w == [work[i] EXCEPT !.pressure = TRUE, !.todo = Snapshot(TRUE)]
  <2>1. \A r \in Snapshot(TRUE) : r \in Record /\ Listed(r)
    BY SnapshotListed
  <2>2. /\ w \in Work /\ w.slot = work[i].slot /\ w.target = work[i].target
        /\ w.todo = Snapshot(TRUE)
    BY <1>1, <2>1 DEF Work
  <2>3. work' = [work EXCEPT ![i] = w]
    BY <1>1, <1>4
  <2>4. OneTarget(w) /\ \A r \in w.todo \cup w.target : Listed(r)
    BY <1>2, <2>1, <2>2 DEF OneTarget
  <2>5. Goes(i, "maintain") /\ "maintain" \in PCs
    BY <1>1, <1>4 DEF Goes, PCs, Answers
  <2>. HIDE DEF w
  <2>. QED  BY <1>1, <2>2, <2>3, <2>4, <2>5, LocalStep DEF IInv, TypeOK, Locked, After, Handle, Past, Lost
<1>. QED  BY <1>3, <1>4 DEF MaintainEnds

(* A maintenance that fails.                                                *)
LEMMA MaintainFailsPreserves ==
  ASSUME IInv, NEW i \in Instances, MaintainFails(i)
  PROVE  IInv'
<1>1. /\ pc[i] = "maintain" /\ Goes(i, "failed") /\ Counts(i)
      /\ staging' \in SUBSET (staging \cup {i}) /\ retired' \in SUBSET Instances
      /\ UNCHANGED <<active, lock, work>>
  BY Counted DEF MaintainFails, IInv, TypeOK
<1>2. "failed" \in PCs /\ ~Past(i) /\ pc[i] \notin Lost
  BY <1>1 DEF PCs, Ended, Past, After, Lost
<1>. QED  BY <1>1, <1>2, ControlStep DEF IInv, TypeOK, Locks, Locked, Handle

(* A claim that is refused.                                                 *)
LEMMA ClaimRefusedPreserves ==
  ASSUME IInv, NEW i \in Instances, ClaimRefused(i)
  PROVE  IInv'
<1>1. PICK s \in FirstFree(i) : work' = [work EXCEPT ![i].occupied = @ \cup {s}]
  BY DEF ClaimRefused
<1>2. /\ pc[i] = "publish" /\ work[i] \in Work /\ work \in [Instances -> Work]
      /\ UNCHANGED <<active, staging, retired, lock, pc>> /\ pc \in [Instances -> PCs]
      /\ OneTarget(work[i]) /\ \A r \in work[i].todo \cup work[i].target : Listed(r)
  BY DEF ClaimRefused, IInv, TypeOK, RetiringOK, ListedOK
<1>3. s \in Slots
  BY DEF FirstFree, FreeSlots
<1>. DEFINE w == [work[i] EXCEPT !.occupied = @ \cup {s}]
<1>4. /\ w \in Work /\ w.slot = work[i].slot /\ w.target = work[i].target
      /\ w.todo = work[i].todo /\ work' = [work EXCEPT ![i] = w]
  BY <1>1, <1>2, <1>3 DEF Work
<1>5. OneTarget(w) /\ \A r \in w.todo \cup w.target : Listed(r)
  BY <1>2, <1>4 DEF OneTarget
<1>6. Counts(i) /\ ~Past(i)
  BY Counted DEF ClaimRefused, Past, After
<1>7. Goes(i, "publish") /\ "publish" \in PCs
  BY <1>2 DEF Goes, PCs, Answers, Locked
<1>. HIDE DEF w
<1>. QED  BY <1>2, <1>4, <1>5, <1>6, <1>7, LocalStep DEF IInv, TypeOK, Locked, After, Handle, Past, Lost

(* What moving a slot away does.                                            *)
LEMMA MovesAway ==
  ASSUME IInv, NEW s, Moves(s)
  PROVE  /\ active' \in [Slots -> Entry \cup {NoEntry}]
         /\ \A t \in Slots : active'[t] = active[t] \/ active'[t] = NoEntry
         /\ s \in Slots => active'[s] = NoEntry
         /\ s \in Slots => retired' \in SUBSET Instances
BY DEF Moves, IInv, TypeOK, Entry

(* Moving an entry away, whatever the rename reports.                       *)
LEMMA RetireAway ==
  ASSUME IInv, NEW i \in Instances, pc[i] = "retiring", NEW r \in work[i].target, Moves(r.slot),
         NEW p \in {"removing", "maintain", "failed"}, Goes(i, p),
         lock' \in Locks, Counts(i), UNCHANGED <<staging, work>>
  PROVE  IInv'
<1>1. /\ pc[i] \in Locked /\ ~Past(i) /\ pc[i] \notin After \cup Lost /\ lock.holder = i
      /\ work[i] \in Work /\ work \in [Instances -> Work] /\ pc \in [Instances -> PCs]
      /\ OneTarget(work[i]) /\ \A q \in work[i].todo \cup work[i].target : Listed(q)
  BY DEF Locked, After, Lost, Past, IInv, TypeOK, HasLock, RetiringOK, ListedOK
<1>2. r.slot \in Slots
  BY <1>1 DEF Work, Record
<1>3. /\ active' \in [Slots -> Entry \cup {NoEntry}] /\ retired' \in SUBSET Instances
      /\ \A t \in Slots : active'[t] = active[t] \/ active'[t] = NoEntry
  BY <1>2, MovesAway
<1>4. \A s \in Slots : ~Holds(s, i)'
  BY <1>1, <1>3 DEF IInv, OwnSlot, Holds
<1>5. p \in PCs /\ p \notin Locked /\ p \notin Handle /\ p # "retiring"
  BY DEF PCs, Answers, Ended, Locked, After, Handle
<1>6. Writing(i)'
  BY <1>1, <1>5 DEF Writing, Goes, Locked
<1>7. work' = [work EXCEPT ![i] = work[i]]
  BY <1>1
<1>8. Quiet(i, p, work[i])
  BY <1>1, <1>3, <1>4, <1>5, <1>6, <1>7 DEF Quiet
<1>. QED  BY <1>1, <1>5, <1>8, QuietStep

(* A move that is reported as done.                                         *)
LEMMA RetireMovesPreserves ==
  ASSUME IInv, NEW i \in Instances, RetireMoves(i)
  PROVE  IInv'
<1>1. PICK r \in work[i].target : Moves(r.slot)
  BY DEF RetireMoves
<1>2. pc[i] = "retiring" /\ pc[i] \in Locked /\ Completes(i, "retire", "removing", 0)
      /\ UNCHANGED <<staging, work>> /\ Thrown("retire") = "failed"
  BY DEF RetireMoves, Locked, Thrown
<1>3. PICK p \in {"removing", "failed"} : Goes(i, p)
  BY <1>2, CompletesMoves
<1>4. lock' \in Locks /\ Counts(i)
  BY <1>2, CompletesMoves
<1>. QED  BY <1>1, <1>2, <1>3, <1>4, RetireAway

(* A move that is reported as failed.                                       *)
LEMMA RetireRefusedPreserves ==
  ASSUME IInv, NEW i \in Instances, RetireRefused(i)
  PROVE  IInv'
<1>1. /\ pc[i] = "retiring" /\ pc[i] \in Locked \ Lost /\ ~Past(i) /\ lock.holder = i
      /\ UNCHANGED <<staging, work>> /\ Thrown("retire") = "failed"
  BY DEF RetireRefused, Locked, Lost, Past, After, Thrown, IInv, HasLock
<1>2. PICK to \in {"maintain", "failed"} : Completes(i, "retire", to, 1)
  BY <1>1 DEF RetireRefused, Throws
<1>3. PICK p \in {"maintain", "failed"} : Goes(i, p)
  BY <1>1, <1>2, CompletesMoves
<1>4. lock' \in Locks /\ Counts(i)
  BY <1>1, <1>2, CompletesMoves
<1>5. CASE UNCHANGED <<active, retired>>
  BY <1>1, <1>3, <1>4, <1>5, ControlStep
     DEF IInv, TypeOK, PCs, Answers, Ended, Locked, After, Handle
<1>6. CASE \E r \in work[i].target : Moves(r.slot)
  BY <1>1, <1>3, <1>4, <1>6, RetireAway
<1>. QED  BY <1>5, <1>6 DEF RetireRefused

(* A withdrawal moves the entry, whatever the rename reports.               *)
LEMMA UnpublishAway ==
  ASSUME IInv, NEW i \in Instances, pc[i] = "unpublishing", Moves(work[i].slot),
         NEW p \in {"cleanup", "closed"}, Goes(i, p),
         lock' \in Locks, Counts(i), UNCHANGED <<staging, work>>
  PROVE  IInv'
<1>1. /\ pc[i] \in Locked \ Lost /\ lock.holder = i
      /\ work[i] \in Work /\ work \in [Instances -> Work] /\ pc \in [Instances -> PCs]
      /\ OneTarget(work[i]) /\ \A q \in work[i].todo \cup work[i].target : Listed(q)
  BY DEF Locked, Lost, IInv, TypeOK, HasLock, RetiringOK, ListedOK
<1>2. work[i].slot \in Slots
  BY DEF IInv, WritingOK, Writing, Handle, After
<1>3. /\ active' \in [Slots -> Entry \cup {NoEntry}] /\ retired' \in SUBSET Instances
      /\ \A t \in Slots : active'[t] = active[t] \/ active'[t] = NoEntry
  BY <1>2, MovesAway
<1>4. p \in PCs /\ p \notin Locked /\ p \in After /\ p \notin {"failed", "rollback", "retiring"}
  BY DEF PCs, Answers, Ended, Locked, After
<1>5. Writing(i)' /\ Past(i)'
  BY <1>1, <1>2, <1>4 DEF Writing, Goes, Locked, Past
<1>6. work' = [work EXCEPT ![i] = work[i]]
  BY <1>1
<1>7. Quiet(i, p, work[i])
  BY <1>1, <1>3, <1>4, <1>5, <1>6 DEF Quiet
<1>. QED  BY <1>1, <1>4, <1>7, QuietStep

(* A withdrawal that is reported as done.                                   *)
LEMMA UnpublishMovesPreserves ==
  ASSUME IInv, NEW i \in Instances, UnpublishMoves(i)
  PROVE  IInv'
<1>1. pc[i] = "unpublishing" /\ pc[i] \in Locked
  BY DEF UnpublishMoves, Locked
<1>2. lock' \in Locks /\ Counts(i)
  BY <1>1, LockMoves, Counted DEF UnpublishMoves
<1>. QED  BY <1>1, <1>2, UnpublishAway DEF UnpublishMoves

(* A withdrawal that is reported as failed.                                 *)
LEMMA UnpublishRefusedPreserves ==
  ASSUME IInv, NEW i \in Instances, UnpublishRefused(i)
  PROVE  IInv'
<1>1. /\ pc[i] = "unpublishing" /\ pc[i] \in Locked \ Lost /\ Completes(i, "unpublish", "closed", 1)
      /\ UNCHANGED <<staging, work>> /\ Thrown("unpublish") = "closed"
      /\ pc[i] \in Handle /\ "closed" \in After
  BY DEF UnpublishRefused, Throws, Locked, Lost, Thrown, Handle, After
<1>2. Goes(i, "closed") /\ lock' \in Locks /\ Counts(i)
  BY <1>1, CompletesMoves
<1>3. CASE UNCHANGED <<active, retired>>
  <2>1. "closed" \in PCs \ (Locked \cup {"failed"}) /\ "unpublish" \in Kinds
    BY DEF PCs, Ended, Locked, Kinds
  <2>. QED  BY <1>1, <1>3, <2>1, CompletesStep
<1>4. CASE Moves(work[i].slot)
  BY <1>1, <1>2, <1>4, UnpublishAway
<1>. QED  BY <1>3, <1>4 DEF UnpublishRefused

(* The rollback.                                                            *)
LEMMA RollbackPreserves ==
  ASSUME IInv, NEW i \in Instances, Rollback(i)
  PROVE  IInv'
<1>1. /\ pc[i] = "rollback" /\ pc[i] \in Locked /\ lock.holder = i /\ lock \in Locks
      /\ staging' = staging \ {i} /\ UNCHANGED <<retired, work>> /\ retired \in SUBSET Instances
      /\ work[i] \in Work /\ work \in [Instances -> Work] /\ pc \in [Instances -> PCs]
      /\ OneTarget(work[i]) /\ \A q \in work[i].todo \cup work[i].target : Listed(q)
      /\ faults[i] \in Nat
  BY DEF Rollback, Locked, Locks, IInv, TypeOK, HasLock, RetiringOK, ListedOK
<1>2. PICK n \in 0..1 :
        /\ active' = IF n = 1 THEN active
                     ELSE [s \in Slots |-> IF s = work[i].slot /\ Holds(s, i) THEN NoEntry ELSE active[s]]
        /\ IF lock.left THEN Goes(i, "failed") /\ UNCHANGED lock /\ Failures(i, n)
           ELSE Throws(i, "publish", n)
  BY DEF Rollback
<1>3. /\ active' \in [Slots -> Entry \cup {NoEntry}]
      /\ \A t \in Slots : active'[t] = active[t] \/ active'[t] = NoEntry
  BY <1>2 DEF IInv, TypeOK
<1>4. Goes(i, "failed") /\ lock' \in Locks /\ Counts(i) /\ faults'[i] >= faults[i] + n
  <2>1. n \in Nat /\ Thrown("publish") = "failed"
    BY DEF Thrown
  <2>2. CASE Goes(i, "failed") /\ UNCHANGED lock /\ Failures(i, n)
    BY <1>1, <2>1, <2>2, Counted
  <2>3. CASE Throws(i, "publish", n)
    BY <1>1, <2>1, <2>3, CompletesMoves DEF Throws
  <2>. QED  BY <1>2, <2>2, <2>3
<1>5. ASSUME NEW s \in Slots, Holds(s, i)' PROVE faults'[i] >= 2
  <2>1. Holds(s, i) /\ faults'[i] \in Nat
    BY <1>3, <1>4, <1>5 DEF Holds, Counts
  <2>2. CASE n = 1
    <3>1. faults[i] >= 1
      BY <1>1, <2>1 DEF IInv, RolledBack
    <3>. QED  BY <1>1, <1>4, <2>1, <2>2, <3>1
  <2>3. CASE n = 0
    <3>1. s # work[i].slot
      BY <1>2, <1>5, <2>3 DEF Holds
    <3>2. faults[i] >= 2
      BY <2>1, <3>1 DEF IInv, OwnSlot, Astray
    <3>. QED  BY <1>1, <1>4, <2>1, <2>3, <3>2
  <2>. QED  BY <2>2, <2>3
<1>6. "failed" \in PCs /\ "failed" \notin Locked /\ "failed" \in After /\ "failed" \in Lost
  BY DEF PCs, Ended, Locked, After, Lost
<1>7. Writing(i)' /\ Past(i)'
  BY <1>1, <1>4, <1>6 DEF Writing, Goes, Handle, Past
<1>8. work' = [work EXCEPT ![i] = work[i]]
  BY <1>1
<1>9. Quiet(i, "failed", work[i])
  BY <1>1, <1>3, <1>4, <1>5, <1>6, <1>7, <1>8 DEF Quiet
<1>. QED  BY <1>1, <1>6, <1>9, QuietStep

(* Taking a stale lock away.                                                *)
LEMMA LockExpiresPreserves ==
  ASSUME IInv, LockExpires
  PROVE  IInv'
<1>1. /\ lock' \in Locks /\ lock'.holder = NoHolder /\ pc[lock.holder] \notin Locked
      /\ UNCHANGED <<active, staging, retired, pc, work, faults>>
  BY DEF LockExpires, Release, Locks
<1>2. TypeOK'
  BY <1>1 DEF IInv, TypeOK, Locks
<1>3. HasLock'
  BY <1>1 DEF IInv, HasLock
<1>4. OwnSlot' /\ OneEntry' /\ NoneKnown' /\ RolledBack' /\ FailedLeavesNothing'
  BY <1>1 DEF IInv, OwnSlot, Past, Astray, OneEntry, NoneKnown, RolledBack, FailedLeavesNothing, Holds
<1>5. ListedOK'
  BY <1>1 DEF IInv, ListedOK, Listed, Unchanged, Holds, Past
<1>6. RetiringOK'
  BY <1>1 DEF IInv, RetiringOK, OneTarget, Unchanged, Holds
<1>7. WritingOK'
  BY <1>1 DEF IInv, WritingOK, Writing, Holds
<1>. QED  BY <1>2, <1>3, <1>4, <1>5, <1>6, <1>7 DEF IInv

(* A lease grows older.                                                     *)
LEMMA LeaseAgesPreserves ==
  ASSUME IInv, NEW s \in Slots, LeaseAges(s)
  PROVE  IInv'
<1>1. /\ active[s] # NoEntry /\ active[s].age < 2
      /\ active' = [active EXCEPT ![s].age = @ + 1]
      /\ UNCHANGED <<staging, retired, lock, pc, work, faults>>
      /\ active \in [Slots -> Entry \cup {NoEntry}]
  BY DEF LeaseAges, IInv, TypeOK
<1>2. /\ active[s] \in Entry /\ active[s].age \in 0 .. 1
      /\ active[s].age + 1 \in Ages
  BY <1>1 DEF Entry, Ages
<1>3. active'[s] = [active[s] EXCEPT !.age = @ + 1]
  BY <1>1
<1>4. /\ active'[s] \in Entry /\ active'[s].owner = active[s].owner
      /\ active'[s].beat = active[s].beat /\ active'[s].age = active[s].age + 1
  BY <1>2, <1>3 DEF Entry
<1>5. active' \in [Slots -> Entry \cup {NoEntry}] /\ \A t \in Slots : t # s => active'[t] = active[t]
  BY <1>1, <1>4
<1>6. active'[s] # NoEntry
  BY <1>1, <1>4, DiscoveryAssumption
<1>7. \A t \in Slots, j \in Instances : Holds(t, j)' <=> Holds(t, j)
  BY <1>1, <1>4, <1>5, <1>6 DEF Holds
<1>8. TypeOK'
  BY <1>1, <1>5 DEF IInv, TypeOK
<1>9a. \A j \in Instances : (Past(j)' <=> Past(j)) /\ (Astray(j)' <=> Astray(j))
  BY <1>1 DEF Past, Astray
<1>9. HasLock' /\ OwnSlot' /\ OneEntry' /\ NoneKnown' /\ RolledBack' /\ FailedLeavesNothing'
  BY <1>1, <1>7, <1>9a
     DEF IInv, HasLock, OwnSlot, OneEntry, NoneKnown, RolledBack, FailedLeavesNothing
<1>10. ASSUME NEW r \in Record
       PROVE  /\ Listed(r) => Listed(r)'
              /\ Unchanged(r) => Unchanged(r)'
  <2>1. r.slot \in Slots /\ r.owner \in Instances
    BY DEF Record
  <2>2. Holds(r.slot, r.owner)' <=> Holds(r.slot, r.owner)
    BY <1>7, <2>1
  <2>3. active'[r.slot].beat = active[r.slot].beat
    BY <1>4, <1>5, <2>1
  <2>4. active[r.slot].age >= 1 => active'[r.slot].age >= 1
    BY <1>2, <1>4, <1>5, <2>1
  <2>. QED  BY <1>1, <1>9a, <2>1, <2>2, <2>3, <2>4 DEF Listed, Unchanged
<1>11. \A j \in Instances : \A r \in work[j].todo \cup work[j].target : r \in Record
  BY DEF IInv, TypeOK, Work
<1>12. ListedOK'
  BY <1>1, <1>10, <1>11 DEF IInv, ListedOK
<1>13. RetiringOK'
  BY <1>1, <1>10, <1>11 DEF IInv, RetiringOK, OneTarget
<1>14. WritingOK'
  <2>. SUFFICES ASSUME NEW j \in Instances PROVE Writing(j)'
    BY DEF WritingOK
  <2>1. Writing(j)
    BY DEF IInv, WritingOK
  <2>2. CASE pc[j] \in {"beating", "unpublishing"}
    <3>1. work[j].slot \in Slots
      BY <2>1, <2>2 DEF Writing, Handle, After
    <3>2. active'[work[j].slot].beat = active[work[j].slot].beat
      BY <1>4, <1>5, <3>1
    <3>. QED  BY <1>1, <1>7, <2>1, <3>1, <3>2 DEF Writing
  <2>. QED  BY <1>1, <2>1, <2>2 DEF Writing
<1>. QED  BY <1>8, <1>9, <1>12, <1>13, <1>14 DEF IInv

(* A renewal writes the entry.                                              *)
LEMMA RenewedPreserves ==
  ASSUME IInv, NEW i \in Instances, pc[i] = "beating", active' = Renewed(i),
         Goes(i, "running"), lock' \in Locks, Counts(i), UNCHANGED <<staging, retired, work>>
  PROVE  IInv'
<1>. DEFINE s == work[i].slot
<1>1. /\ pc[i] \in Locked /\ lock.holder = i
      /\ active \in [Slots -> Entry \cup {NoEntry}] /\ pc \in [Instances -> PCs]
  BY DEF Locked, IInv, TypeOK, HasLock
<1>2. s \in Slots /\ Holds(s, i) /\ active[s].beat < MaxBeats
  BY DEF IInv, WritingOK, Writing, Handle, After
<1>3. active' = [active EXCEPT ![s].beat = @ + 1, ![s].age = 0]
  BY <1>2 DEF Renewed
<1>4. active[s] \in Entry /\ active[s].beat \in 0 .. MaxBeats /\ active[s].owner = i
  BY <1>1, <1>2 DEF Holds, Entry
<1>5. active'[s] = [active[s] EXCEPT !.beat = @ + 1, !.age = 0]
  BY <1>1, <1>2, <1>3
<1>6. active[s].beat + 1 \in 0 .. MaxBeats /\ 0 \in Ages
  BY <1>2, <1>4, DiscoveryAssumption DEF Ages
<1>7. /\ active'[s] \in Entry /\ active'[s].owner = i
      /\ active'[s].beat = active[s].beat + 1
  BY <1>4, <1>5, <1>6 DEF Entry
<1>8. /\ active' \in [Slots -> Entry \cup {NoEntry}]
      /\ \A t \in Slots : t # s => active'[t] = active[t]
  BY <1>1, <1>3, <1>7
<1>9. active'[s] # NoEntry
  BY <1>7, DiscoveryAssumption
<1>10. \A t \in Slots, j \in Instances : Holds(t, j)' <=> Holds(t, j)
  BY <1>2, <1>4, <1>7, <1>8, <1>9 DEF Holds
<1>12. /\ pc' \in [Instances -> PCs] /\ pc'[i] = "running"
       /\ \A j \in Instances : j # i => pc'[j] = pc[j]
  BY <1>1 DEF Goes, PCs, Answers
<1>13. TypeOK'
  BY <1>1, <1>8, <1>12 DEF IInv, TypeOK, Locks, Counts
<1>14. \A j \in Instances : pc'[j] \notin Locked
  BY <1>1, <1>12 DEF IInv, HasLock, Locked
<1>15. HasLock'
  BY <1>14 DEF HasLock
<1>16. \A j \in Instances : /\ pc[j] \in After => pc'[j] \in After
                            /\ pc'[j] \in Handle => pc[j] \in Handle
                            /\ pc'[j] \in {"failed", "rollback"} => pc[j] = pc'[j] /\ j # i
                            /\ pc[j] \in Lost => pc[j] = pc'[j] /\ j # i
  BY <1>1, <1>12 DEF After, Handle, Lost
<1>16a. \A j \in Instances : (Past(j) => Past(j)') /\ (Astray(j) => Astray(j)')
  BY <1>12, <1>16 DEF Past, Astray, Counts, Lost
<1>17. OwnSlot' /\ OneEntry' /\ NoneKnown' /\ RolledBack' /\ FailedLeavesNothing'
  <2>1. OwnSlot' /\ OneEntry'
    BY <1>10, <1>16a DEF IInv, OwnSlot, OneEntry
  <2>2. NoneKnown'
    BY <1>12 DEF IInv, NoneKnown, After
  <2>3. RolledBack' /\ FailedLeavesNothing'
    BY <1>10, <1>16 DEF IInv, RolledBack, FailedLeavesNothing, Counts
  <2>. QED  BY <2>1, <2>2, <2>3
<1>18. ASSUME NEW r \in Record, Listed(r) PROVE Listed(r)'
  <2>1. r.slot \in Slots /\ r.owner \in Instances /\ r.beat \in 0 .. MaxBeats
    BY DEF Record
  <2>2. Holds(r.slot, r.owner)' <=> Holds(r.slot, r.owner)
    BY <1>10, <2>1
  <2>3. CASE r.slot = s
    <3>1. r.owner = i => r.beat <= active[s].beat
      BY <1>2, <1>4, <1>18, <2>3 DEF Listed, Holds
    <3>2. Holds(r.slot, r.owner)' => r.owner = i
      BY <1>7, <2>3 DEF Holds
    <3>3. Holds(r.slot, r.owner)' => r.beat < active'[s].beat
      BY <1>4, <1>7, <2>1, <3>1, <3>2
    <3>4. ~Unchanged(r)'
      BY <1>6, <1>7, <2>1, <2>3, <3>3 DEF Unchanged
    <3>5. Holds(r.slot, r.owner)' => r.beat <= active'[s].beat
      BY <1>6, <1>7, <2>1, <3>3
    <3>. QED  BY <1>16a, <1>18, <2>1, <2>3, <3>4, <3>5 DEF Listed
  <2>4. CASE r.slot # s
    <3>1. active'[r.slot] = active[r.slot]
      BY <1>8, <2>1, <2>4
    <3>. QED  BY <1>16a, <1>18, <2>1, <2>2, <3>1 DEF Listed, Unchanged
  <2>. QED  BY <2>3, <2>4
<1>19. ListedOK'
  <2>1. \A j \in Instances : \A r \in work[j].todo \cup work[j].target : r \in Record
    BY DEF IInv, TypeOK, Work
  <2>. QED  BY <1>1, <1>18, <2>1 DEF IInv, ListedOK
<1>20. RetiringOK'
  BY <1>1, <1>14 DEF IInv, RetiringOK, OneTarget, Locked
<1>21. WritingOK'
  BY <1>1, <1>14, <1>16 DEF IInv, WritingOK, Writing, Locked
<1>. QED  BY <1>13, <1>15, <1>17, <1>19, <1>20, <1>21 DEF IInv

(* A renewal that may have failed.                                          *)
LEMMA BeatWritesPreserves ==
  ASSUME IInv, NEW i \in Instances, BeatWrites(i)
  PROVE  IInv'
<1>1. /\ pc[i] = "beating" /\ pc[i] \in Locked \ Lost /\ lock.holder = i
      /\ UNCHANGED <<staging, retired, work>> /\ Thrown("beat") = "running"
      /\ active' \in {active, Renewed(i)}
  BY DEF BeatWrites, Locked, Lost, Thrown, IInv, HasLock
<1>2. Completes(i, "beat", "running", 0) \/ Completes(i, "beat", "running", 1)
  BY <1>1 DEF BeatWrites, Throws
<1>3. Goes(i, "running") /\ lock' \in Locks /\ Counts(i)
  BY <1>1, <1>2, CompletesMoves
<1>4. CASE active' = active
  BY <1>1, <1>3, <1>4, ControlStep
     DEF IInv, TypeOK, PCs, Answers, Locked, After, Handle
<1>5. CASE active' = Renewed(i)
  BY <1>1, <1>3, <1>5, RenewedPreserves
<1>. QED  BY <1>1, <1>4, <1>5

(* The claim of a slot, whatever the rename reports.  It is known, or not   *)
(* and then two failures hit the instance.                                  *)
LEMMA ClaimPreserves ==
  ASSUME IInv, NEW i \in Instances, NEW s \in FirstFree(i), Claims(i, s),
         pc[i] = "publish", i \in staging,
         NEW p \in {"claimed", "publish", "rollback"}, Goes(i, p),
         NEW w \in Work, work' = [work EXCEPT ![i] = w],
         w.todo = work[i].todo, w.target = work[i].target,
         IF p = "claimed" THEN w.slot = s ELSE w.slot = 0 /\ faults'[i] >= 2,
         Counts(i), UNCHANGED <<retired, lock>>
  PROVE  IInv'
<1>1. /\ s \in Slots /\ active[s] = NoEntry
      /\ active \in [Slots -> Entry \cup {NoEntry}] /\ pc \in [Instances -> PCs]
      /\ work \in [Instances -> Work] /\ work[i] \in Work
  BY DEF FirstFree, FreeSlots, IInv, TypeOK
<1>. DEFINE e == [owner |-> i, beat |-> 0, age |-> 0]
<1>2. e \in Entry /\ e # NoEntry /\ e.owner = i
  <2>1. 0 \in 0 .. MaxBeats /\ 0 \in Ages
    BY DiscoveryAssumption DEF Ages
  <2>. QED  BY <2>1, DiscoveryAssumption DEF Entry
<1>3. /\ active' \in [Slots -> Entry \cup {NoEntry}] /\ active'[s] = e
      /\ \A t \in Slots : t # s => active'[t] = active[t]
      /\ staging' = staging \ {i} /\ staging' \in SUBSET Instances
  BY <1>1, <1>2 DEF Claims, IInv, TypeOK
<1>4. /\ pc' \in [Instances -> PCs] /\ pc'[i] = p
      /\ \A j \in Instances : j # i => pc'[j] = pc[j]
      /\ pc[i] \notin After /\ ~Past(i) /\ Past(i)'
  BY <1>1, <1>3 DEF Goes, PCs, Answers, Locked, After, Past
<1>6. work'[i] = w
  BY <1>1
<1>7. /\ work' \in [Instances -> Work]
      /\ \A j \in Instances : /\ j # i => work'[j] = work[j]
                              /\ work'[j].todo = work[j].todo
                              /\ work'[j].target = work[j].target
  BY <1>1, <1>6
<1>8. \A j \in Instances : /\ Past(j) => Past(j)' /\ j # i
                           /\ j # i => pc[j] \notin Locked
  BY <1>3, <1>4 DEF IInv, HasLock, Locked, Past
<1>8a. \A j \in Instances : j # i /\ Astray(j) => Astray(j)'
  BY <1>4, <1>7 DEF Astray, Counts
<1>. HIDE DEF e
<1>9. \A t \in Slots, j \in Instances : Holds(t, j)' <=> Holds(t, j) \/ (t = s /\ j = i)
  BY <1>1, <1>2, <1>3 DEF Holds
<1>10. \A t \in Slots : ~Holds(t, i)
  BY <1>4 DEF IInv, OwnSlot
<1>11. TypeOK'
  BY <1>3, <1>4, <1>7 DEF IInv, TypeOK, Counts
<1>12. HasLock'
  BY <1>4 DEF IInv, HasLock, Locked
<1>13. OwnSlot' /\ OneEntry' /\ NoneKnown' /\ RolledBack' /\ FailedLeavesNothing'
  <2>1. p # "claimed" => Astray(i)'
    BY <1>4, <1>6 DEF Astray, Lost
  <2>2. OwnSlot'
    BY <1>4, <1>6, <1>7, <1>8, <1>8a, <1>9, <1>10, <2>1 DEF IInv, OwnSlot
  <2>3. OneEntry'
    BY <1>9, <1>10 DEF IInv, OneEntry
  <2>4. NoneKnown'
    BY <1>4, <1>6, <1>7 DEF IInv, NoneKnown, After
  <2>5. faults'[i] \in Nat
    BY DEF Counts
  <2>6. RolledBack' /\ FailedLeavesNothing'
    BY <1>4, <1>9, <2>5 DEF IInv, RolledBack, FailedLeavesNothing, Counts
  <2>. QED  BY <2>2, <2>3, <2>4, <2>6
<1>14. ASSUME NEW r \in Record, Listed(r) PROVE Listed(r)'
  <2>1. r.slot \in Slots /\ r.owner \in Instances /\ r.owner # i
    BY <1>8, <1>14 DEF Record, Listed
  <2>2. CASE Holds(r.slot, r.owner)'
    <3>1. active'[r.slot] = active[r.slot] /\ Holds(r.slot, r.owner)
      BY <1>1, <1>3, <1>9, <2>1, <2>2 DEF Holds
    <3>. QED  BY <1>8, <1>14, <2>1, <3>1 DEF Listed, Unchanged
  <2>3. CASE ~Holds(r.slot, r.owner)'
    BY <1>8, <1>14, <2>1, <2>3 DEF Listed, Unchanged
  <2>. QED  BY <2>2, <2>3
<1>15. \A j \in Instances : \A r \in work'[j].todo \cup work'[j].target :
         r \in Record /\ Listed(r)
  BY <1>7 DEF IInv, ListedOK, TypeOK, Work
<1>16. ListedOK'
  BY <1>14, <1>15 DEF ListedOK
<1>17. RetiringOK'
  <2>1. \A j \in Instances : OneTarget(work'[j])
    BY <1>7 DEF IInv, RetiringOK, OneTarget
  <2>2. \A j \in Instances : pc'[j] # "retiring"
    BY <1>4, <1>8 DEF Locked
  <2>. QED  BY <2>1, <2>2 DEF RetiringOK, OneTarget
<1>18. WritingOK'
  <2>. SUFFICES ASSUME NEW j \in Instances PROVE Writing(j)'
    BY DEF WritingOK
  <2>1. pc'[j] \notin {"beating", "unpublishing"}
    BY <1>4, <1>8 DEF Locked
  <2>2. pc'[j] \in Handle => work'[j].slot \in Slots
    <3>1. CASE j = i
      BY <1>1, <1>4, <1>6, <3>1 DEF Handle, After
    <3>2. CASE j # i
      BY <1>4, <1>7, <3>2 DEF IInv, WritingOK, Writing
    <3>. QED  BY <3>1, <3>2
  <2>. QED  BY <2>1, <2>2 DEF Writing
<1>. QED  BY <1>11, <1>12, <1>13, <1>16, <1>17, <1>18 DEF IInv

(* A claim whose slot is known.                                             *)
LEMMA KnownClaim ==
  ASSUME IInv, NEW i \in Instances, pc[i] = "publish", i \in staging,
         NEW s \in FirstFree(i), Claims(i, s), work' = [work EXCEPT ![i].slot = s],
         Goes(i, "claimed"), Counts(i), UNCHANGED <<retired, lock>>
  PROVE  IInv'
<1>. DEFINE w == [work[i] EXCEPT !.slot = s]
<1>1. work \in [Instances -> Work] /\ work[i] \in Work /\ s \in Slots
  BY DEF IInv, TypeOK, FirstFree, FreeSlots
<1>2. /\ w \in Work /\ w.slot = s /\ w.todo = work[i].todo /\ w.target = work[i].target
      /\ work' = [work EXCEPT ![i] = w]
  BY <1>1 DEF Work
<1>. HIDE DEF w
<1>. QED  BY <1>2, ClaimPreserves

(* A claim that is reported as done.                                        *)
LEMMA PublishClaimsPreserves ==
  ASSUME IInv, NEW i \in Instances, PublishClaims(i)
  PROVE  IInv'
<1>1. PICK s \in FirstFree(i) : Claims(i, s) /\ work' = [work EXCEPT ![i].slot = s]
  BY DEF PublishClaims
<1>2. Counts(i)
  BY Counted DEF PublishClaims
<1>. QED  BY <1>1, <1>2, KnownClaim DEF PublishClaims

(* A claim that is found.                                                   *)
LEMMA ClaimFoundPreserves ==
  ASSUME IInv, NEW i \in Instances, ClaimFound(i)
  PROVE  IInv'
<1>1. PICK s \in FirstFree(i) : Claims(i, s) /\ work' = [work EXCEPT ![i].slot = s]
  BY DEF ClaimFound
<1>2. Counts(i)
  BY Counted DEF ClaimFound
<1>. QED  BY <1>1, <1>2, KnownClaim DEF ClaimFound

(* A claim that is not seen.                                                *)
LEMMA ClaimUnseenPreserves ==
  ASSUME IInv, NEW i \in Instances, ClaimUnseen(i)
  PROVE  IInv'
<1>1. PICK s \in FirstFree(i) :
        /\ Claims(i, s)
        /\ \/ work' = [work EXCEPT ![i].occupied = @ \cup {s}] /\ UNCHANGED pc
           \/ Goes(i, "rollback") /\ UNCHANGED work
  BY DEF ClaimUnseen
<1>2. /\ pc[i] = "publish" /\ i \in staging /\ UNCHANGED <<retired, lock>>
      /\ work \in [Instances -> Work] /\ work[i] \in Work /\ s \in Slots
      /\ pc \in [Instances -> PCs] /\ work[i].slot = 0
  BY DEF ClaimUnseen, IInv, TypeOK, FirstFree, FreeSlots, NoneKnown, After
<1>3. Counts(i) /\ faults'[i] >= 2
  <2>1. Counts(i) /\ faults'[i] = faults[i] + 2 /\ faults[i] \in Nat
    BY Counted DEF ClaimUnseen, IInv, TypeOK
  <2>. QED  BY <2>1
<1>4. CASE work' = [work EXCEPT ![i].occupied = @ \cup {s}] /\ UNCHANGED pc
  <2>. DEFINE w == [work[i] EXCEPT !.occupied = @ \cup {s}]
  <2>1. /\ w \in Work /\ w.slot = 0 /\ w.todo = work[i].todo /\ w.target = work[i].target
        /\ work' = [work EXCEPT ![i] = w]
    BY <1>2, <1>4 DEF Work
  <2>2. Goes(i, "publish")
    BY <1>2, <1>4 DEF Goes
  <2>. HIDE DEF w
  <2>. QED  BY <1>1, <1>2, <1>3, <2>1, <2>2, ClaimPreserves
<1>5. CASE Goes(i, "rollback") /\ UNCHANGED work
  <2>1. work' = [work EXCEPT ![i] = work[i]]
    BY <1>2, <1>5
  <2>. QED  BY <1>1, <1>2, <1>3, <1>5, <2>1, ClaimPreserves
<1>. QED  BY <1>1, <1>4, <1>5

(* A claim with nothing staged.                                             *)
LEMMA ClaimMissingPreserves ==
  ASSUME IInv, NEW i \in Instances, ClaimMissing(i)
  PROVE  IInv'
<1>1. /\ pc[i] = "publish" /\ lock.holder = i /\ Counts(i)
      /\ UNCHANGED <<active, staging, retired, lock>>
      /\ work \in [Instances -> Work] /\ work[i] \in Work /\ pc \in [Instances -> PCs]
      /\ lock \in Locks /\ staging \in SUBSET Instances /\ retired \in SUBSET Instances
      /\ active \in [Slots -> Entry \cup {NoEntry}]
      /\ OneTarget(work[i]) /\ \A q \in work[i].todo \cup work[i].target : Listed(q)
  BY Counted DEF ClaimMissing, IInv, TypeOK, HasLock, Locked, Locks, RetiringOK, ListedOK
<1>2. CASE (\A s \in Slots : ~Holds(s, i)) /\ Goes(i, "rollback") /\ UNCHANGED work
  BY <1>1, <1>2, ControlStep
     DEF IInv, TypeOK, PCs, Answers, Locked, After, Handle, Lost
<1>3. ASSUME NEW s \in Slots, Holds(s, i), work' = [work EXCEPT ![i].slot = s], Goes(i, "claimed")
      PROVE  IInv'
  <2>. DEFINE w == [work[i] EXCEPT !.slot = s]
  <2>1. /\ w \in Work /\ w.slot = s /\ w.todo = work[i].todo /\ w.target = work[i].target
        /\ work' = [work EXCEPT ![i] = w]
    BY <1>1, <1>3 DEF Work
  <2>2. \A t \in Slots : Holds(t, i)' => t = w.slot
    BY <1>1, <1>3, <2>1 DEF IInv, OneEntry, Holds
  <2>3. /\ "claimed" \in PCs /\ "claimed" \in After
        /\ "claimed" \notin {"failed", "rollback", "retiring", "beating", "unpublishing"}
    BY DEF PCs, Answers, Locked, After
  <2>4. pc'[i] = "claimed" /\ work'[i] = w
    BY <1>1, <1>3, <2>1 DEF Goes
  <2>5. Past(i)' /\ Writing(i)'
    BY <2>1, <2>3, <2>4 DEF Past, Writing
  <2>6. OneTarget(w) /\ \A q \in w.todo \cup w.target : Listed(q)
    BY <1>1, <2>1 DEF OneTarget
  <2>. HIDE DEF w
  <2>7. Quiet(i, "claimed", w)
    BY <1>1, <1>3, <2>1, <2>2, <2>3, <2>5, <2>6 DEF Quiet
  <2>. QED  BY <2>1, <2>3, <2>7, QuietStep
<1>. QED  BY <1>2, <1>3 DEF ClaimMissing

-----------------------------------------------------------------------------
(* At the start nothing is published.                                       *)
LEMMA InitIInv == Init => IInv
<1>. SUFFICES ASSUME Init PROVE IInv
  OBVIOUS
<1>. PICK unsafe \in SUBSET Slots : work = [i \in Instances |-> [NoWork EXCEPT !.occupied = unsafe]]
  BY DEF Init
<1>. DEFINE w == [NoWork EXCEPT !.occupied = unsafe]
<1>1. w \in Work /\ w.todo = {} /\ w.target = {} /\ w.slot = 0
  BY DEF NoWork, Work
<1>2. /\ \A i \in Instances : work[i] = w /\ pc[i] = "off"
      /\ \A s \in Slots : active[s] = NoEntry
      /\ work = [i \in Instances |-> w]
  BY DEF Init
<1>. HIDE DEF w
<1>3. TypeOK
  <2>1. faults \in [Instances -> Nat]
    BY DEF Init
  <2>2. active \in [Slots -> Entry \cup {NoEntry}] /\ lock \in [holder : Instances \cup {NoHolder}, left : BOOLEAN]
    BY DEF Init
  <2>3. work \in [Instances -> Work] /\ pc \in [Instances -> PCs]
    BY <1>1, <1>2 DEF Init, PCs
  <2>. QED  BY <2>1, <2>2, <2>3 DEF Init, TypeOK
<1>4. HasLock /\ FailedLeavesNothing
  BY <1>2 DEF HasLock, FailedLeavesNothing, Locked
<1>5. OwnSlot /\ OneEntry /\ NoneKnown /\ RolledBack
  BY <1>1, <1>2 DEF OwnSlot, OneEntry, NoneKnown, RolledBack, Holds
<1>6. ListedOK /\ RetiringOK
  BY <1>1, <1>2 DEF ListedOK, RetiringOK, OneTarget
<1>7. WritingOK
  BY <1>2 DEF WritingOK, Writing, Handle, After
<1>. QED  BY <1>3, <1>4, <1>5, <1>6, <1>7 DEF IInv

(* Nothing changes in a step of something else.                             *)
LEMMA StutterPreserves ==
  ASSUME IInv, UNCHANGED vars
  PROVE  IInv'
<1>. USE DEF vars
<1>1. TypeOK' /\ HasLock'
  BY DEF IInv, TypeOK, HasLock
<1>2. OwnSlot' /\ OneEntry' /\ NoneKnown' /\ RolledBack' /\ FailedLeavesNothing'
  BY DEF IInv, OwnSlot, Past, Astray, OneEntry, NoneKnown, RolledBack, FailedLeavesNothing, Holds
<1>3. ListedOK' /\ RetiringOK'
  BY DEF IInv, ListedOK, RetiringOK, OneTarget, Listed, Unchanged, Holds, Past
<1>4. WritingOK'
  BY DEF IInv, WritingOK, Writing, Holds
<1>. QED  BY <1>1, <1>2, <1>3, <1>4 DEF IInv

(* One step of one instance, of the clock, or of the lock.                  *)
LEMMA NextPreserves ==
  ASSUME IInv, [Next]_vars
  PROVE  IInv'
<1>1. CASE LockExpires
  BY <1>1, LockExpiresPreserves
<1>2. ASSUME NEW i \in Instances, MaintainStep(i) PROVE IInv'
  BY <1>2, ChallengePreserves, RetireReadsPreserves, RetireMovesPreserves,
     RetireRefusedPreserves, RetireRemovesPreserves, MaintainEndsPreserves,
     MaintainFailsPreserves DEF MaintainStep
<1>3. ASSUME NEW i \in Instances, PublishStep(i) PROVE IInv'
  BY <1>3, PublishCannotPreserves, PublishClaimsPreserves, ClaimRefusedPreserves,
     ClaimFoundPreserves, ClaimUnseenPreserves, ClaimMissingPreserves, PublishEndsPreserves,
     RollbackPreserves DEF PublishStep
<1>4. ASSUME NEW i \in Instances, HandleStep(i) PROVE IInv'
  BY <1>4, BeatReadsPreserves, BeatWritesPreserves, UnpublishReadsPreserves,
     UnpublishMovesPreserves, UnpublishRefusedPreserves, CleanupGenerationPreserves
     DEF HandleStep
<1>5. ASSUME NEW i \in Instances,
             Start(i) \/ BeatBegins(i) \/ UnpublishBegins(i) \/ Crash(i)
      PROVE  IInv'
  BY <1>5, StartPreserves, BeatBeginsPreserves, UnpublishBeginsPreserves, CrashPreserves
<1>6. ASSUME NEW i \in Instances, Acquire(i) \/ AcquireFails(i) PROVE IInv'
  BY <1>6, AcquirePreserves, AcquireFailsPreserves
<1>7. ASSUME NEW s \in Slots, LeaseAges(s) PROVE IInv'
  BY <1>7, LeaseAgesPreserves
<1>8. CASE UNCHANGED vars
  BY <1>8, StutterPreserves
<1>. QED  BY <1>1, <1>2, <1>3, <1>4, <1>5, <1>6, <1>7, <1>8 DEF Next, InstanceStep

(* The inductive invariant holds throughout.                                *)
THEOREM RegistryInvariant == Spec => []IInv
<1>1. Init => IInv
  BY InitIInv
<1>2. IInv /\ [Next]_vars => IInv'
  BY NextPreserves
<1>. QED  BY <1>1, <1>2, PTL DEF Spec

(* The variables have their types.                                          *)
THEOREM RegistryTypes == Spec => []TypeOK
<1>1. IInv => TypeOK
  BY DEF IInv
<1>. QED  BY <1>1, RegistryInvariant, PTL

(* The steps under the lock are those of one instance: a failed release, a  *)
(* crash and a stale lock that is taken over never let two of them in.      *)
THEOREM LockExcludes ==
  Spec => [](\A i, j \in Instances : pc[i] \in Locked /\ pc[j] \in Locked => i = j)
<1>1. IInv => \A i, j \in Instances : pc[i] \in Locked /\ pc[j] \in Locked => i = j
  BY DEF IInv, HasLock
<1>. QED  BY <1>1, RegistryInvariant, PTL

(* A publication that is reported as failed has left no entry behind, unless*)
(* two failures hit it or more (publishRuntimeDiscoveryEntry and            *)
(* rollbackRuntimeDiscoveryPublication).                                    *)
THEOREM FailedPublicationLeavesNothing == Spec => []FailedLeavesNothing
<1>1. IInv => FailedLeavesNothing
  BY DEF IInv
<1>. QED  BY <1>1, RegistryInvariant, PTL

-----------------------------------------------------------------------------
(* An entry whose lease is alive, and a step that takes it out of its slot. *)
Displaces(s) ==
  active[s] # NoEntry /\ active[s].age = 0 /\ ~(active'[s] # NoEntry /\ active'[s].owner = active[s].owner)

(* Most steps leave the slots alone.                                        *)
LEMMA MostLeaveSlots ==
  ASSUME NEW i \in Instances, NEW s \in Slots, Displaces(s),
         InstanceStep(i) \/ Start(i) \/ BeatBegins(i) \/ UnpublishBegins(i) \/ Crash(i)
  PROVE  \/ RetireMoves(i) \/ RetireRefused(i) \/ PublishClaims(i) \/ ClaimFound(i) \/ ClaimUnseen(i)
         \/ Rollback(i) \/ BeatWrites(i) \/ UnpublishMoves(i) \/ UnpublishRefused(i)
<1>1. active' # active
  BY DEF Displaces
<1>2. MaintainStep(i) => RetireMoves(i) \/ RetireRefused(i)
  BY <1>1 DEF MaintainStep, Challenge, RetireReads, RetireRemoves, MaintainEnds, MaintainFails
<1>3. PublishStep(i) => PublishClaims(i) \/ ClaimFound(i) \/ ClaimUnseen(i) \/ Rollback(i)
  BY <1>1 DEF PublishStep, PublishCannot, ClaimRefused, ClaimMissing, PublishEnds
<1>4. HandleStep(i) => BeatWrites(i) \/ UnpublishMoves(i) \/ UnpublishRefused(i)
  BY <1>1 DEF HandleStep, BeatReads, UnpublishReads, CleanupGeneration
<1>5. ~(Acquire(i) \/ AcquireFails(i))
  BY <1>1 DEF Acquire, AcquireFails
<1>6. ~(Start(i) \/ BeatBegins(i) \/ UnpublishBegins(i) \/ Crash(i))
  BY <1>1 DEF Start, BeatBegins, UnpublishBegins, Crash
<1>. QED  BY <1>2, <1>3, <1>4, <1>5, <1>6 DEF InstanceStep

(* Who may take it out: its own instance.                                   *)
LEMMA FreshStep ==
  ASSUME IInv, Next, NEW s \in Slots, Displaces(s)
  PROVE  pc[active[s].owner] \in {"unpublishing", "rollback"}
<1>. USE DEF Displaces
<1>1. active \in [Slots -> Entry \cup {NoEntry}]
  BY DEF IInv, TypeOK
<1>2. ~LockExpires
  BY DEF LockExpires
<1>3. ASSUME NEW t \in Slots, LeaseAges(t) PROVE FALSE
  <2>1. CASE t = s
    <3>1. active[s] \in Entry /\ active'[s] = [active[s] EXCEPT !.age = @ + 1]
      BY <1>1, <1>3, <2>1 DEF LeaseAges
    <3>2. active'[s].owner = active[s].owner /\ active'[s].age = 1 /\ 1 \in Ages
      BY <3>1 DEF Entry, Ages
    <3>3. active'[s] \in Entry
      BY <3>1, <3>2 DEF Entry
    <3>. QED  BY <3>2, <3>3, DiscoveryAssumption
  <2>2. CASE t # s
    BY <1>1, <1>3, <2>2 DEF LeaseAges
  <2>. QED  BY <2>1, <2>2
<1>4. ASSUME NEW i \in Instances, RetireMoves(i) \/ RetireRefused(i) PROVE FALSE
  <2>1. PICK r \in work[i].target : Moves(r.slot)
    BY <1>4 DEF RetireMoves, RetireRefused
  <2>2. Unchanged(r) /\ Listed(r)
    BY <1>4 DEF RetireMoves, RetireRefused, IInv, RetiringOK, ListedOK
  <2>3. r.slot # s
    BY <2>2 DEF Listed
  <2>. QED  BY <1>1, <2>1, <2>3 DEF Moves
<1>5. ASSUME NEW i \in Instances, PublishClaims(i) \/ ClaimFound(i) \/ ClaimUnseen(i) PROVE FALSE
  <2>1. PICK t \in FirstFree(i) : Claims(i, t)
    BY <1>5 DEF PublishClaims, ClaimFound, ClaimUnseen
  <2>2. t # s
    BY <2>1 DEF FirstFree, FreeSlots
  <2>. QED  BY <1>1, <2>1, <2>2 DEF Claims
<1>6. ASSUME NEW i \in Instances, Rollback(i) PROVE active[s].owner = i /\ pc[i] = "rollback"
  BY <1>6 DEF Rollback, Holds
<1>7. ASSUME NEW i \in Instances, UnpublishMoves(i) \/ UnpublishRefused(i)
      PROVE  active[s].owner = i /\ pc[i] = "unpublishing"
  <2>1. work[i].slot = s
    BY <1>1, <1>7 DEF UnpublishMoves, UnpublishRefused, Moves
  <2>. QED  BY <1>7, <2>1 DEF UnpublishMoves, UnpublishRefused, IInv, WritingOK, Writing, Holds
<1>8. ASSUME NEW i \in Instances, BeatWrites(i) PROVE FALSE
  <2>1. Holds(work[i].slot, i) /\ work[i].slot \in Slots
    BY <1>8 DEF BeatWrites, IInv, WritingOK, Writing, Handle, After
  <2>2. active' = [active EXCEPT ![work[i].slot].beat = @ + 1, ![work[i].slot].age = 0]
    BY <1>8, <2>1 DEF BeatWrites, Renewed
  <2>3. CASE work[i].slot = s
    <3>1. active[s] \in Entry /\ active[s].beat \in 0 .. MaxBeats /\ active[s].beat < MaxBeats
      BY <1>1, <1>8, <2>3 DEF Entry, BeatWrites, IInv, WritingOK, Writing
    <3>2. active'[s] = [active[s] EXCEPT !.beat = @ + 1, !.age = 0]
      BY <1>1, <2>2, <2>3
    <3>3. active[s].beat + 1 \in 0 .. MaxBeats /\ 0 \in Ages
      BY <3>1, DiscoveryAssumption DEF Ages
    <3>4. active'[s] \in Entry /\ active'[s].owner = active[s].owner
      BY <3>1, <3>2, <3>3 DEF Entry
    <3>. QED  BY <3>4, DiscoveryAssumption
  <2>4. CASE work[i].slot # s
    BY <1>1, <2>2, <2>4
  <2>. QED  BY <2>3, <2>4
<1>9. PICK i \in Instances :
        InstanceStep(i) \/ Start(i) \/ BeatBegins(i) \/ UnpublishBegins(i) \/ Crash(i)
  BY <1>2, <1>3 DEF Next
<1>10. \/ RetireMoves(i) \/ RetireRefused(i) \/ PublishClaims(i) \/ ClaimFound(i) \/ ClaimUnseen(i)
       \/ Rollback(i) \/ BeatWrites(i) \/ UnpublishMoves(i) \/ UnpublishRefused(i)
  BY <1>9, MostLeaveSlots
<1>. QED  BY <1>4, <1>5, <1>6, <1>7, <1>8, <1>10

(* An entry whose lease is alive leaves its slot only by its own instance.  *)
THEOREM FreshEntriesAreKept == Spec => FreshIsKept
<1>1. IInv /\ [Next]_vars =>
        [\A s \in Slots :
           active[s] # NoEntry /\ active[s].age = 0 /\ ~(active'[s] # NoEntry /\ active'[s].owner = active[s].owner)
             => pc[active[s].owner] \in {"unpublishing", "rollback"}]_vars
  BY FreshStep DEF Displaces
<1>. QED  BY <1>1, RegistryInvariant, PTL DEF Spec, FreshIsKept

-----------------------------------------------------------------------------
(* Whoever retires an entry knows which.                                    *)
Retirers == {"to retire", "retire", "retiring", "removing"}
TargetKnown == \A i \in Instances : pc[i] \in Retirers => work[i].target # {}

(* Every step keeps it.                                                     *)
LEMMA TargetStays == IInv /\ TargetKnown /\ [Next]_vars => TargetKnown'
<1>. SUFFICES ASSUME IInv, TargetKnown, Next, NEW i \in Instances, pc'[i] \in Retirers
              PROVE  work'[i].target # {}
  BY DEF TargetKnown, vars
<1>1. pc \in [Instances -> PCs] /\ work \in [Instances -> Work]
  BY DEF IInv, TypeOK
<1>. USE DEF TargetKnown, Retirers
(* Nothing changes for i.                                                   *)
<1>2. CASE pc'[i] = pc[i] /\ work'[i] = work[i]
  BY <1>2
<1>3. ASSUME LockExpires \/ \E s \in Slots : LeaseAges(s) PROVE pc'[i] = pc[i] /\ work'[i] = work[i]
  BY <1>3 DEF LockExpires, LeaseAges
<1>4. ASSUME NEW j \in Instances,
             InstanceStep(j) \/ Start(j) \/ BeatBegins(j) \/ UnpublishBegins(j) \/ Crash(j)
      PROVE  work'[i].target # {}
  <2>1. CASE Challenge(j)
    <3>1. PICK r \in work[j].todo :
            \/ UNCHANGED pc /\ work' = [work EXCEPT ![j].todo = @ \ {r}]
            \/ work' = [work EXCEPT ![j].todo = @ \ {r}, ![j].target = {r}] /\ Goes(j, "to retire")
      BY <2>1 DEF Challenge, WaitsFor
    <3>2. CASE UNCHANGED pc /\ work' = [work EXCEPT ![j].todo = @ \ {r}]
      BY <1>1, <3>2 DEF Work
    <3>3. CASE work' = [work EXCEPT ![j].todo = @ \ {r}, ![j].target = {r}] /\ Goes(j, "to retire")
      BY <1>1, <3>3 DEF Work, Goes
    <3>. QED  BY <3>1, <3>2, <3>3
  <2>2. CASE RetireRemoves(j)
    BY <1>1, <2>2 DEF RetireRemoves, Goes
  <2>3. CASE Start(j)
    BY <1>1, <2>3 DEF Start, Goes, Work
  <2>4. CASE MaintainEnds(j)
    BY <1>1, <2>4 DEF MaintainEnds, Goes, WaitsFor, Work
  <2>5. CASE PublishClaims(j) \/ ClaimRefused(j) \/ ClaimFound(j) \/ ClaimUnseen(j) \/ ClaimMissing(j)
    BY <1>1, <2>5 DEF PublishClaims, ClaimRefused, ClaimFound, ClaimUnseen, ClaimMissing, Goes, Work
  <2>6. CASE Acquire(j)
    BY <1>1, <2>6 DEF Acquire, Goes, Kinds, WaitsFor
  <2>7. CASE AcquireFails(j)
    BY <1>1, <2>7 DEF AcquireFails, Goes, Kinds, Thrown
  <2>8. CASE RetireReads(j) \/ RetireMoves(j) \/ RetireRefused(j)
    BY <1>1, <2>8 DEF RetireReads, RetireMoves, RetireRefused, Throws, Completes, Goes, Thrown
  <2>9. CASE PublishCannot(j) \/ PublishEnds(j) \/ Rollback(j) \/ MaintainFails(j)
    BY <1>1, <2>9 DEF PublishCannot, PublishEnds, Rollback, MaintainFails, Throws, Completes, Thrown, Goes
  <2>10. CASE HandleStep(j) \/ BeatBegins(j) \/ UnpublishBegins(j) \/ Crash(j)
    BY <1>1, <2>10 DEF HandleStep, BeatReads, BeatWrites, UnpublishReads, UnpublishMoves, UnpublishRefused,
       CleanupGeneration, BeatBegins, UnpublishBegins, Crash, Throws, Completes, Goes, Thrown, WaitsFor
  <2>. QED  BY <1>4, <2>1, <2>2, <2>3, <2>4, <2>5, <2>6, <2>7, <2>8, <2>9, <2>10
            DEF InstanceStep, MaintainStep, PublishStep
<1>. QED  BY <1>2, <1>3, <1>4 DEF Next

(* A set of numbers has a least one.                                        *)
LEMMA LeastNumber ==
  ASSUME NEW T, T \subseteq Nat, T # {}
  PROVE  \E x \in T : \A y \in T : x <= y
<1>. DEFINE R == OpToRel(<, Nat)
<1>1. IsWellFoundedOn(R, Nat)
  BY NatLessThanWellFounded
<1>2. \A x, y \in Nat : y < x => <<y, x>> \in R
  BY DEF OpToRel
<1>. HIDE DEF R
<1>3. PICK x \in T : \A y \in T : ~ (<<y, x>> \in R)
  BY <1>1, WFMin
<1>4. ASSUME NEW y \in T PROVE x <= y
  <2>1. x \in Nat /\ y \in Nat
    OBVIOUS
  <2>2. ~(y < x)
    BY <1>2, <1>3, <2>1
  <2>. QED  BY <2>1, <2>2
<1>. QED  BY <1>4

(* There is a first among the free slots.                                   *)
LEMMA SomeSlotIsFirst ==
  ASSUME NEW i \in Instances, FreeSlots(i) # {}
  PROVE  FirstFree(i) # {}
<1>1. FreeSlots(i) \subseteq Nat
  BY DEF FreeSlots, Slots
<1>2. \E s \in FreeSlots(i) : \A t \in FreeSlots(i) : s <= t
  BY <1>1, LeastNumber
<1>. QED  BY <1>2 DEF FirstFree

(* What an operation under the lock needs in order to go on: the record it  *)
(* retires, a slot that is free and the first, a slot of its own.           *)
GoesOn(i) ==
  /\ pc[i] \in Locked => lock.holder = i
  /\ pc[i] \in {"retire", "retiring"} => \E r \in work[i].target : work[i].target = {r}
  /\ pc[i] = "publish" /\ FreeSlots(i) # {} => FirstFree(i) # {}
  /\ pc[i] \in {"beat", "beating", "unpublish", "unpublishing"} => work[i].slot \in Slots

(* No operation stops under the lock: each finds what its next step needs   *)
(* (withRegistryMutationLock and the operations it is given).  This is the  *)
(* part of LockReturns that does not rest on fairness.                      *)
THEOREM HolderGoesOn == Spec => [](\A i \in Instances : GoesOn(i))
<1>1. ASSUME IInv, TargetKnown, NEW i \in Instances PROVE GoesOn(i)
  <2>1. pc[i] \in Locked => lock.holder = i
    BY <1>1 DEF IInv, HasLock
  <2>2. ASSUME pc[i] \in {"retire", "retiring"} PROVE \E r \in work[i].target : work[i].target = {r}
    <3>1. PICK r \in work[i].target : TRUE
      BY <1>1, <2>2 DEF TargetKnown, Retirers
    <3>2. \A q \in work[i].target : q = r
      BY <1>1, <3>1 DEF IInv, RetiringOK, OneTarget
    <3>. QED  BY <3>1, <3>2
  <2>3. pc[i] \in {"beat", "beating", "unpublish", "unpublishing"} => work[i].slot \in Slots
    BY <1>1 DEF IInv, WritingOK, Writing, Handle, After
  <2>. QED  BY <2>1, <2>2, <2>3, SomeSlotIsFirst DEF GoesOn
<1>2. Init => TargetKnown
  BY DEF Init, TargetKnown, Retirers
<1>3. IInv /\ TargetKnown /\ [Next]_vars => TargetKnown'
  BY TargetStays
<1>4. IInv /\ TargetKnown => \A i \in Instances : GoesOn(i)
  BY <1>1
<1>. QED  BY <1>2, <1>3, <1>4, RegistryInvariant, PTL DEF Spec
=============================================================================
