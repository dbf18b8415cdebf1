------------------------- MODULE SettingsChangeProofs -------------------------
(***************************************************************************)
(* A change of the settings and the turns of its providers exclude each    *)
(* other, a reset stays, and what is reported as restored is, for any      *)
(* number of changes that overlap, of Sessions, resets and failures: the   *)
(* inductive invariant IInv of SettingsChange, and what follows from it.   *)
(* While at most one call has failed, no turn resumes a thread of other    *)
(* credentials than it uses either: FreshThreads, on top of IInv.          *)
(* The lock is never lost, and nobody is forgotten who waits for it:       *)
(* LineExact.                                                              *)
(***************************************************************************)
EXTENDS SettingsChange, FiniteSetTheorems, SequenceTheorems, TLAPS

Call == [pc : Pcs, prev : [Providers -> Keys], next : [Providers -> Keys],
         saved : Saved, epoch : Nat, owner : Nat, old : [Sessions -> Threads],
         todo : SUBSET Sessions, applied : SUBSET Sessions, deferred : BOOLEAN]

(* The exclusive part of a change or of its rollback is at the head of the  *)
(* line, and so is a reset that is being applied.                           *)
Exclusive(c) == chg[c].pc \in {"reading"} \cup ExclusivePcs
OpOf(c) == Op(IF chg[c].deferred THEN "rollback" ELSE "change", c)

LineOK ==
  /\ \A c \in Changes : Exclusive(c) => Runs(OpOf(c))
  /\ reset.pc = "applying" => Runs(ResetOp)

(* What a change knows of the settings: nobody else writes them while it is *)
(* exclusive.                                                               *)
SettingsOK(c) ==
  /\ chg[c].pc \in {"reading", "saving", "reversing"} => settings = chg[c].prev
  /\ chg[c].pc \in {"patching", "restoring"} => settings = chg[c].next
  /\ chg[c].pc \in {"patching", "cleanup", "rollback"} => chg[c].saved.keys = chg[c].next

(* What it knows of the threads: those it has taken away stay away until it *)
(* puts them back.                                                          *)
TakenAway(c, s) ==
  /\ ProviderOf[s] \in Affected(c) /\ chg[c].old[s] # NoThread
  /\ IF chg[c].pc = "reversing" /\ s \notin chg[c].todo
     THEN s \in live => thread[s] = chg[c].old[s]
     ELSE thread[s] = NoThread

ThreadsOK(c) ==
  /\ chg[c].pc \in {"queued", "reading", "saving"} \cup Ended => chg[c].applied = {}
  /\ chg[c].pc \in {"reading", "saving", "patching"} =>
       \A s \in chg[c].todo : ProviderOf[s] \in Affected(c) /\ chg[c].old[s] # NoThread
  /\ chg[c].pc = "restoring" => chg[c].todo = chg[c].applied
  /\ chg[c].pc = "reversing" => chg[c].todo \subseteq chg[c].applied
  /\ AtWork(c) => \A s \in chg[c].applied : TakenAway(c, s)

(* A change that may still write the settings began after the last reset.   *)
Recent(c) ==
  /\ Exclusive(c) => c \in past.fresh
  /\ Exclusive(c) \/ chg[c].pc \in {"cleanup", "rollback"} => chg[c].epoch <= epoch
  /\ chg[c].pc \in {"cleanup", "rollback"} =>
       /\ chg[c].epoch = epoch => c \in past.fresh
       /\ reset.pc = "applying" => chg[c].epoch < epoch

CallOK(c) ==
  /\ chg[c].deferred => chg[c].pc \in {"restoring", "reversing"}
  /\ SettingsOK(c) /\ ThreadsOK(c) /\ Recent(c)

CallsOK == \A c \in Changes : CallOK(c)

(* No thread is taken away by two changes.                                  *)
Disjoint ==
  \A c, d \in Changes : c # d /\ AtWork(c) /\ AtWork(d) => chg[c].applied \cap chg[d].applied = {}

(* A provider is held by as many changes as it is counted for.              *)
Holding(c) == chg[c].pc \in {"cleanup", "rollback"} \/ chg[c].deferred
HoldsProvider(c, p) == Holding(c) /\ p \in Affected(c)
Holders(p) == {c \in Changes : HoldsProvider(c, p)}
HeldOK == \A p \in Providers : held[p] = Cardinality(Holders(p))

(* A turn past its reservation has a stored Session; a reset meets none.    *)
RunsOK ==
  /\ \A s \in Sessions : run[s].phase \in {"checking", "admitted", "provider"} => s \in live
  /\ reset.pc = "applying" => \A s \in Sessions : run[s].phase \in {"idle", "waiting"}

(* A checkpoint that may still be written is newer than the last reset, and *)
(* than the one that is being applied.                                      *)
Newer(e) ==
  /\ e.epoch <= epoch
  /\ e.epoch = epoch => e.value > past.floor /\ (reset.pc = "applying" => e.value > reset.mark)

LayoutOK ==
  /\ past.floor <= bounds.layouts /\ reset.mark <= bounds.layouts
  /\ \A i \in DOMAIN tail : Newer(tail[i])

IInv == /\ TypeOK /\ LineOK /\ CallsOK /\ Disjoint /\ HeldOK /\ RunsOK /\ LayoutOK
        /\ NoTurnDuringChange /\ ResetStays

-----------------------------------------------------------------------------
(* Types of the parts.                                                      *)
LEMMA CallTypes ==
  ASSUME TypeOK
  PROVE  /\ chg \in [Changes -> Call]
         /\ NoCall \in Call /\ \A pc \in Pcs : [NoCall EXCEPT !.pc = pc] \in Call
<1>1. chg \in [Changes -> Call]
  BY DEF TypeOK, Call
<1>2. Unsaved \in Saved
  BY SettingsAssumption DEF Unsaved, Saved
<1>3. NoCall \in Call
  BY <1>2, SettingsAssumption DEF NoCall, Call, Pcs, Ended, Threads, Saved
<1>. QED  BY <1>1, <1>3 DEF Call

(* The operations of the line.                                              *)
LEMMA OpTypes ==
  /\ \A c \in Changes : Op("change", c) \in Ops /\ Op("rollback", c) \in Ops /\ OpOf(c) \in Ops
  /\ \A s \in Sessions : Op("reserve", s) \in Ops /\ Op("check", s) \in Ops
  /\ ResetOp \in Ops
BY DEF Op, Ops, ResetOp, OpOf

(* What becomes of the line.                                                *)
LEMMA LineTypes ==
  ASSUME line \in Seq(Ops)
  PROVE  /\ \A op \in Ops : Asks(op) => /\ line' \in Seq(Ops)
                                      /\ \A x : Runs(x) => Runs(x)'
         /\ \A op : Runs(op) /\ Returns => line' \in Seq(Ops)
<1>1. ASSUME NEW op \in Ops, Asks(op) PROVE line' \in Seq(Ops) /\ \A x : Runs(x) => Runs(x)'
  BY <1>1 DEF Asks, Runs
<1>2. ASSUME NEW op, Runs(op), Returns PROVE line' \in Seq(Ops)
  BY <1>2 DEF Runs, Returns
<1>. QED  BY <1>1, <1>2

(* Failures are counted.                                                    *)
LEMMA FaultTypes ==
  ASSUME TypeOK, Fault
  PROVE  /\ bounds' \in [resets : 0..MaxResets, layouts : 0..MaxLayout,
                         faults : 0..MaxFaults, crashes : 0..MaxCrashes]
         /\ bounds'.layouts = bounds.layouts
<1>. DEFINE B == [resets : 0..MaxResets, layouts : 0..MaxLayout,
                  faults : 0..MaxFaults, crashes : 0..MaxCrashes]
<1>1. bounds \in B
  BY DEF TypeOK
<1>2. bounds.faults + 1 \in 0..MaxFaults
  BY <1>1, SettingsAssumption DEF Fault
<1>. QED  BY <1>1, <1>2 DEF Fault

(* What a change with a new record knows.                                   *)
LEMMA Sets ==
  ASSUME TypeOK, NEW c \in Changes, NEW r \in Call, chg' = [chg EXCEPT ![c] = r]
  PROVE  /\ chg' \in [Changes -> Call] /\ chg'[c] = r
         /\ \A d \in Changes : d # c => chg'[d] = chg[d]
BY CallTypes
-----------------------------------------------------------------------------
(* A step of one change: what it may touch.                                 *)
ChangesTo(c, r) ==
  /\ chg' = [chg EXCEPT ![c] = r]
  /\ UNCHANGED <<layout, live, epoch, owner, reset, tail, run>>
  /\ bounds'.layouts = bounds.layouts /\ past'.floor = past.floor
  /\ past.fresh \subseteq past'.fresh
  /\ past'.writer = past.writer \/ (past'.writer = c /\ c \in past'.fresh)
  \* outside the exclusive part it writes nothing, and nothing that is taken away
  /\ Exclusive(c) \/ UNCHANGED <<settings, thread>>
  /\ \A s \in Sessions : thread'[s] = thread[s] \/ thread[s] # NoThread \/ s \in chg[c].applied
  \* the line
  /\ \/ \A x : Runs(x) => Runs(x)'
     \/ ~Exclusive(c)' /\ Runs(OpOf(c))
     \/ ~Exclusive(c)' /\ \E kind : Runs(Op(kind, c))
  /\ Exclusive(c)' => Runs(OpOf(c))'
  \* the providers it holds
  /\ \/ UNCHANGED held /\ \A p \in Providers : HoldsProvider(c, p)' <=> HoldsProvider(c, p)
     \/ /\ AcquireProviders(c)
        /\ \A p \in Providers : ~HoldsProvider(c, p) /\ (HoldsProvider(c, p)' <=> p \in Affected(c))
     \/ /\ ReleaseProviders(c)
        /\ \A p \in Providers : ~HoldsProvider(c, p)' /\ (HoldsProvider(c, p) <=> p \in Affected(c))
  \* its work
  /\ AtWork(c)' =>
       /\ Affected(c)' = Affected(c)
       /\ AtWork(c) \/ \A s \in Sessions : ProviderOf[s] \in Affected(c) =>
                          run[s].phase \notin {"admitted", "provider"}
       /\ \A s \in r.applied : (AtWork(c) /\ s \in chg[c].applied) \/ (Exclusive(c) /\ thread[s] # NoThread)
  /\ CallOK(c)'

(* The changes that hold a provider, one more or one less.                  *)
LEMMA HeldStep ==
  ASSUME IInv, TypeOK', NEW c \in Changes, NEW r \in Call, ChangesTo(c, r)
  PROVE  HeldOK'
<1>1. /\ chg'[c] = r /\ \A d \in Changes : d # c => chg'[d] = chg[d]
      /\ held \in [Providers -> Nat]
  BY Sets DEF IInv, TypeOK, ChangesTo
<1>. SUFFICES ASSUME NEW p \in Providers PROVE held'[p] = Cardinality(Holders(p)')
  BY DEF HeldOK
<1>2. \A d \in Changes : d # c => (HoldsProvider(d, p)' <=> HoldsProvider(d, p))
  BY <1>1 DEF HoldsProvider, Holding, Affected
<1>3. held[p] = Cardinality(Holders(p)) /\ IsFiniteSet(Holders(p))
  <2>1. Holders(p) \subseteq Changes
    BY DEF Holders
  <2>. QED  BY <2>1, SettingsAssumption, FS_Subset DEF IInv, HeldOK
<1>4. CASE UNCHANGED held /\ (HoldsProvider(c, p)' <=> HoldsProvider(c, p))
  <2>1. Holders(p)' = Holders(p)
    BY <1>2, <1>4 DEF Holders
  <2>. QED  BY <1>3, <1>4, <2>1
<1>5. CASE AcquireProviders(c) /\ ~HoldsProvider(c, p) /\ (HoldsProvider(c, p)' <=> p \in Affected(c))
  <2>1. CASE p \in Affected(c)
    <3>1. Holders(p)' = Holders(p) \cup {c} /\ c \notin Holders(p)
      BY <1>2, <1>5, <2>1 DEF Holders
    <3>2. held'[p] = held[p] + 1
      BY <1>5, <2>1 DEF AcquireProviders
    <3>. QED  BY <1>3, <3>1, <3>2, FS_AddElement
  <2>2. CASE p \notin Affected(c)
    <3>1. Holders(p)' = Holders(p)
      BY <1>2, <1>5, <2>2 DEF Holders
    <3>. QED  BY <1>3, <1>5, <2>2, <3>1 DEF AcquireProviders
  <2>. QED  BY <2>1, <2>2
<1>6. CASE ReleaseProviders(c) /\ ~HoldsProvider(c, p)' /\ (HoldsProvider(c, p) <=> p \in Affected(c))
  <2>1. CASE p \in Affected(c)
    <3>1. Holders(p)' = Holders(p) \ {c} /\ c \in Holders(p)
      BY <1>2, <1>6, <2>1 DEF Holders
    <3>2. Cardinality(Holders(p)') = Cardinality(Holders(p)) - 1
      BY <1>3, <3>1, FS_RemoveElement
    <3>3. Cardinality(Holders(p)) # 0
      BY <1>3, <3>1, FS_EmptySet
    <3>. QED  BY <1>1, <1>3, <1>6, <2>1, <3>2, <3>3 DEF ReleaseProviders
  <2>2. CASE p \notin Affected(c)
    <3>1. Holders(p)' = Holders(p)
      BY <1>2, <1>6, <2>2 DEF Holders
    <3>. QED  BY <1>3, <1>6, <2>2, <3>1 DEF ReleaseProviders
  <2>. QED  BY <2>1, <2>2
<1>. QED  BY <1>4, <1>5, <1>6 DEF ChangesTo

(* Only one operation is exclusive.                                         *)
LEMMA OneExclusive ==
  ASSUME IInv
  PROVE  /\ \A c, d \in Changes : \A kind :
              Exclusive(d) /\ (Exclusive(c) \/ Runs(Op(kind, c))) => c = d
         /\ \A c \in Changes : \A kind :
              Exclusive(c) \/ Runs(Op(kind, c)) => reset.pc # "applying"
         /\ \A s \in Sessions, kind \in {"reserve", "check"} : Runs(Op(kind, s)) =>
              reset.pc # "applying" /\ \A c \in Changes : ~Exclusive(c)
         /\ Runs(ResetOp) => \A c \in Changes : ~Exclusive(c)
<1>1. LineOK
  BY DEF IInv
<1>. QED  BY <1>1, SettingsAssumption DEF LineOK, Runs, OpOf, Op, ResetOp

(* What the other changes know stays true.                                  *)
LEMMA OthersStep ==
  ASSUME IInv, TypeOK', NEW c \in Changes, NEW r \in Call, ChangesTo(c, r),
         NEW d \in Changes, d # c
  PROVE  CallOK(d)'
<1>1. chg'[d] = chg[d] /\ CallOK(d)
  BY Sets DEF IInv, TypeOK, ChangesTo, CallsOK
<1>2. Affected(d)' = Affected(d) /\ (AtWork(d)' <=> AtWork(d)) /\ (Exclusive(d)' <=> Exclusive(d))
  BY <1>1 DEF Affected, AtWork, Exclusive
<1>3. Exclusive(d) => UNCHANGED <<settings, thread>>
  BY OneExclusive DEF ChangesTo
<1>4. SettingsOK(d)'
  BY <1>1, <1>3 DEF CallOK, SettingsOK, Exclusive, ExclusivePcs
<1>5. ASSUME AtWork(d), NEW s \in chg[d].applied PROVE TakenAway(d, s)'
  <2>1. TakenAway(d, s) /\ s \in Sessions
    BY <1>1, <1>5, CallTypes DEF CallOK, ThreadsOK, IInv, Call
  <2>2. CASE Exclusive(d)
    BY <1>1, <1>2, <1>3, <2>1, <2>2 DEF TakenAway, ChangesTo
  <2>3. CASE ~Exclusive(d)
    <3>1. thread[s] = NoThread /\ chg[d].pc # "reversing"
      BY <1>5, <2>1, <2>3 DEF TakenAway, Exclusive, ExclusivePcs
    <3>2. Exclusive(c) => s \notin chg[c].applied
      <4>1. Exclusive(c) => AtWork(c) \/ chg[c].pc = "reading"
        BY DEF Exclusive, AtWork
      <4>2. chg[c].pc = "reading" => chg[c].applied = {}
        BY DEF IInv, CallsOK, CallOK, ThreadsOK
      <4>. QED  BY <1>5, <4>1, <4>2 DEF IInv, Disjoint
    <3>3. thread'[s] = thread[s]
      BY <2>1, <3>1, <3>2 DEF ChangesTo
    <3>. QED  BY <1>1, <1>2, <2>1, <3>1, <3>3 DEF TakenAway
  <2>. QED  BY <2>2, <2>3
<1>6. ThreadsOK(d)'
  BY <1>1, <1>2, <1>5 DEF CallOK, ThreadsOK
<1>7. Recent(d)'
  BY <1>1, <1>2 DEF CallOK, Recent, ChangesTo
<1>. QED  BY <1>1, <1>4, <1>6, <1>7 DEF CallOK

(* A step of a change preserves the invariant.                              *)
LEMMA ChangesToPreserves ==
  ASSUME IInv, TypeOK', NEW c \in Changes, NEW r \in Call, ChangesTo(c, r)
  PROVE  IInv'
<1>1. /\ chg'[c] = r /\ \A d \in Changes : d # c => chg'[d] = chg[d]
  BY Sets DEF IInv, TypeOK, ChangesTo
<1>2. \A d \in Changes : d # c =>
        /\ Affected(d)' = Affected(d) /\ (AtWork(d)' <=> AtWork(d))
        /\ (Exclusive(d)' <=> Exclusive(d)) /\ OpOf(d)' = OpOf(d)
  BY <1>1 DEF Affected, AtWork, Exclusive, OpOf
<1>3. LineOK'
  <2>1. CASE \A x : Runs(x) => Runs(x)'
    BY <1>2, <2>1 DEF ChangesTo, IInv, LineOK
  <2>2. CASE ~Exclusive(c)' /\ \E kind : Runs(Op(kind, c))
    BY <1>2, <2>2, OneExclusive DEF ChangesTo, LineOK
  <2>3. CASE ~Exclusive(c)' /\ Runs(OpOf(c))
    BY <1>2, <2>3, OneExclusive DEF ChangesTo, LineOK, OpOf
  <2>. QED  BY <2>1, <2>2, <2>3 DEF ChangesTo
<1>4. CallsOK'
  BY OthersStep DEF ChangesTo, CallsOK
<1>5. Disjoint'
  <2>1. ASSUME NEW d \in Changes, d # c, AtWork(c)', AtWork(d),
               NEW s \in chg'[c].applied, s \in chg[d].applied
        PROVE  FALSE
    <3>1. (AtWork(c) /\ s \in chg[c].applied) \/ (Exclusive(c) /\ thread[s] # NoThread)
      BY <1>1, <2>1 DEF ChangesTo
    <3>2. ~(AtWork(c) /\ s \in chg[c].applied)
      BY <2>1 DEF IInv, Disjoint
    <3>3. ~Exclusive(d)
      BY <2>1, <3>1, <3>2, OneExclusive
    <3>4. TakenAway(d, s)
      BY <2>1 DEF IInv, CallsOK, CallOK, ThreadsOK
    <3>5. chg[d].pc # "reversing"
      BY <3>3 DEF Exclusive, ExclusivePcs
    <3>. QED  BY <3>1, <3>2, <3>4, <3>5 DEF TakenAway
  <2>2. \A d, e \in Changes : d # c /\ e # c /\ d # e /\ AtWork(d)' /\ AtWork(e)' =>
          chg'[d].applied \cap chg'[e].applied = {}
    BY <1>1, <1>2 DEF IInv, Disjoint
  <2>3. \A d \in Changes : d # c /\ AtWork(c)' /\ AtWork(d)' => chg'[c].applied \cap chg'[d].applied = {}
    BY <1>1, <1>2, <2>1
  <2>. QED  BY <2>2, <2>3 DEF Disjoint
<1>6. HeldOK'
  BY HeldStep
<1>7. RunsOK'
  BY DEF ChangesTo, IInv, RunsOK
<1>8. LayoutOK'
  BY DEF ChangesTo, IInv, LayoutOK, Newer
<1>9. NoTurnDuringChange'
  BY <1>1, <1>2 DEF ChangesTo, IInv, NoTurnDuringChange
<1>10. ResetStays'
  BY DEF ChangesTo, IInv, ResetStays
<1>. QED  BY <1>3, <1>4, <1>5, <1>6, <1>7, <1>8, <1>9, <1>10 DEF IInv

-----------------------------------------------------------------------------
(* The steps of a change, one by one.                                       *)

(* The types after a step of a change.                                      *)
LEMMA ChangeTypes ==
  ASSUME TypeOK, NEW c \in Changes, NEW r \in Call, chg' = [chg EXCEPT ![c] = r],
         UNCHANGED <<layout, live, epoch, owner, reset, tail, run>>,
         settings' \in [Providers -> Keys], thread' \in [Sessions -> Threads], line' \in Seq(Ops),
         UNCHANGED held \/ AcquireProviders(c) \/ ReleaseProviders(c),
         UNCHANGED bounds \/ Fault,
         past'.writer \in {past.writer, c}, past'.fresh \in {past.fresh, past.fresh \cup {c}},
         past'.floor = past.floor, past'.strayed \in SUBSET Providers,
         past' \in [writer : {past'.writer}, fresh : {past'.fresh}, floor : {past'.floor},
                    strayed : {past'.strayed}]
  PROVE  TypeOK'
<1>1. chg' \in [Changes -> Call]
  BY Sets
<1>2. held' \in [Providers -> Nat]
  <2>1. held \in [Providers -> Nat]
    BY DEF TypeOK
  <2>2. CASE AcquireProviders(c)
    BY <2>1, <2>2 DEF AcquireProviders
  <2>3. CASE ReleaseProviders(c)
    BY <2>1, <2>3 DEF ReleaseProviders
  <2>. QED  BY <2>1, <2>2, <2>3
<1>3. bounds' \in [resets : 0..MaxResets, layouts : 0..MaxLayout,
                   faults : 0..MaxFaults, crashes : 0..MaxCrashes]
  BY FaultTypes DEF TypeOK
<1>4. past' \in [writer : Changes \cup {NoChange}, fresh : SUBSET Changes, floor : Nat,
                 strayed : SUBSET Providers]
  BY DEF TypeOK
<1>. QED  BY <1>1, <1>2, <1>3, <1>4 DEF TypeOK, Call

(* An update asks for its turn.                                             *)
LEMMA AsksKeeps ==
  ASSUME IInv, NEW c \in Changes, ChangeAsks(c)
  PROVE  IInv'
<1>1. PICK next \in [Providers -> Keys] : chg' = [chg EXCEPT ![c].pc = "queued", ![c].next = next]
  BY DEF ChangeAsks
<1>. DEFINE r == [chg[c] EXCEPT !.pc = "queued", !.next = next]
<1>2. TypeOK /\ chg[c] \in Call
  BY CallTypes DEF IInv
<1>3. r \in Call /\ chg' = [chg EXCEPT ![c] = r]
  BY <1>1, <1>2 DEF Call, Pcs
<1>. HIDE DEF r
<1>4. chg'[c] = r /\ r.pc = "queued" /\ r.applied = chg[c].applied /\ r.deferred = chg[c].deferred
  BY <1>2, <1>3, Sets DEF r, Call
<1>5. line' \in Seq(Ops) /\ \A x : Runs(x) => Runs(x)'
  BY <1>2, LineTypes, OpTypes DEF ChangeAsks, TypeOK
<1>6. TypeOK'
  BY <1>2, <1>3, <1>5, ChangeTypes DEF ChangeAsks, TypeOK, durable
<1>7. chg[c].applied = {} /\ ~chg[c].deferred
  BY DEF ChangeAsks, IInv, CallsOK, CallOK, ThreadsOK, Ended
<1>8. CallOK(c)'
  BY <1>4, <1>7 DEF CallOK, SettingsOK, ThreadsOK, Recent, AtWork, Exclusive, ExclusivePcs
<1>9. ~AtWork(c)' /\ ~Exclusive(c)' /\ \A p \in Providers : ~HoldsProvider(c, p) /\ ~HoldsProvider(c, p)'
  BY <1>4, <1>7 DEF AtWork, Exclusive, ExclusivePcs, HoldsProvider, Holding, ChangeAsks
<1>10. ChangesTo(c, r)
  BY <1>3, <1>5, <1>8, <1>9 DEF ChangesTo, ChangeAsks, durable
<1>. QED  BY <1>3, <1>6, <1>10, ChangesToPreserves

(* What a step leaves of the history.                                       *)
Past(c) ==
  /\ past'.writer = past.writer \/ (past'.writer = c /\ c \in past'.fresh)
  /\ past'.fresh \in {past.fresh, past.fresh \cup {c}}
  /\ past'.floor = past.floor /\ past'.strayed \in SUBSET Providers
  /\ past' \in [writer : {past'.writer}, fresh : {past'.fresh}, floor : {past'.floor},
                strayed : {past'.strayed}]

(* It ends, by whatever outcome.                                            *)
LEMMA EndsKeeps ==
  ASSUME IInv, NEW c \in Changes, NEW pc \in {"over", "restored"}, Ends(c, pc),
         UNCHANGED <<layout, live, thread, epoch, owner, reset, tail, run>>,
         \/ /\ Returns
            /\ Exclusive(c) \/ Runs(Op("change", c)) \/ Runs(Op("rollback", c))
         \/ UNCHANGED line /\ ~Exclusive(c),
         UNCHANGED settings \/ Exclusive(c), settings' \in [Providers -> Keys],
         IF Holding(c) THEN ReleaseProviders(c) ELSE UNCHANGED held,
         UNCHANGED bounds \/ Fault, Past(c)
  PROVE  IInv'
<1>. DEFINE r == [NoCall EXCEPT !.pc = pc]
<1>1. TypeOK /\ r \in Call /\ r.pc = pc /\ r.applied = {} /\ ~r.deferred
  <2>1. TypeOK /\ r \in Call
    BY CallTypes DEF IInv, Pcs, Ended
  <2>2. r.pc = pc /\ r.applied = {} /\ ~r.deferred
    BY DEF NoCall
  <2>. QED  BY <2>1, <2>2
<1>2. chg' = [chg EXCEPT ![c] = r] /\ chg'[c] = r
  BY <1>1, Sets DEF Ends
<1>. HIDE DEF r
<1>3. Exclusive(c) => Runs(OpOf(c))
  BY DEF IInv, LineOK
<1>4. /\ line' \in Seq(Ops)
      /\ (\A x : Runs(x) => Runs(x)') \/ Runs(OpOf(c)) \/ \E kind : Runs(Op(kind, c))
  <2>1. CASE UNCHANGED line
    BY <1>1, <2>1 DEF Runs, TypeOK
  <2>2. CASE Returns /\ (Exclusive(c) \/ Runs(Op("change", c)) \/ Runs(Op("rollback", c)))
    <3>1. Runs(OpOf(c)) \/ \E kind : Runs(Op(kind, c))
      BY <1>3, <2>2
    <3>2. line' \in Seq(Ops)
      BY <1>1, <2>2, <3>1, LineTypes DEF TypeOK
    <3>. QED  BY <3>1, <3>2
  <2>. QED  BY <2>1, <2>2
<1>5. TypeOK'
  BY <1>1, <1>2, <1>4, ChangeTypes DEF Past, TypeOK
<1>6. ~AtWork(c)' /\ ~Exclusive(c)' /\ ~Holding(c)'
  BY <1>1, <1>2 DEF AtWork, Exclusive, ExclusivePcs, Holding
<1>7. CallOK(c)'
  BY <1>1, <1>2, <1>6 DEF CallOK, SettingsOK, ThreadsOK, Recent, ExclusivePcs, AtWork
<1>8. bounds'.layouts = bounds.layouts
  BY <1>1, FaultTypes
<1>9. \/ UNCHANGED held /\ \A p \in Providers : HoldsProvider(c, p)' <=> HoldsProvider(c, p)
      \/ /\ ReleaseProviders(c)
         /\ \A p \in Providers : ~HoldsProvider(c, p)' /\ (HoldsProvider(c, p) <=> p \in Affected(c))
  BY <1>6 DEF HoldsProvider
<1>10. past.fresh \subseteq past'.fresh
  BY DEF Past
<1>11. ChangesTo(c, r)
  BY <1>2, <1>4, <1>6, <1>7, <1>8, <1>9, <1>10 DEF ChangesTo, Past
<1>. QED  BY <1>1, <1>5, <1>11, ChangesToPreserves

(* What stays of the history when nothing is written.                       *)
LEMMA PastStays ==
  ASSUME TypeOK, NEW c \in Changes, UNCHANGED past
  PROVE  Past(c)
BY DEF TypeOK, Past

(* It begins: nothing is written yet.                                       *)
LEMMA BeginsKeeps ==
  ASSUME IInv, NEW c \in Changes, ChangeBegins(c)
  PROVE  IInv'
<1>. DEFINE affected == {p \in Providers : settings[p] # chg[c].next[p]}
            old == [s \in Sessions |-> IF s \in Users(affected) THEN thread[s] ELSE NoThread]
            todo == {s \in Users(affected) : thread[s] # NoThread}
            r == [chg[c] EXCEPT !.pc = "reading", !.prev = settings, !.epoch = epoch,
                                !.owner = owner, !.old = old, !.todo = todo]
<1>1. TypeOK /\ chg[c] \in Call
  BY CallTypes DEF IInv
<1>2. chg[c].pc = "queued" /\ Runs(Op("change", c)) /\ chg[c].applied = {} /\ ~chg[c].deferred
  BY DEF ChangeBegins, IInv, CallsOK, CallOK, ThreadsOK
<1>3. CASE Ends(c, "over") /\ Returns /\ UNCHANGED past
  <2>1. ~Holding(c)
    BY <1>2 DEF Holding
  <2>. QED  BY <1>1, <1>2, <1>3, <2>1, EndsKeeps, PastStays DEF ChangeBegins, durable, TypeOK
<1>4. CASE /\ chg' = [chg EXCEPT ![c] = r] /\ UNCHANGED line
           /\ past' = [past EXCEPT !.fresh = @ \cup {c}]
  <2>1. r \in Call
    <3>1. old \in [Sessions -> Threads] /\ todo \subseteq Sessions
      BY <1>1 DEF TypeOK, Threads, Users
    <3>. QED  BY <1>1, <3>1 DEF Call, TypeOK, Pcs
  <2>2. /\ chg'[c] = r /\ r.pc = "reading" /\ r.prev = settings /\ r.epoch = epoch
        /\ r.applied = {} /\ ~r.deferred /\ r.todo = todo /\ r.old = old /\ r.next = chg[c].next
    BY <1>1, <1>2, <1>4, <2>1, Sets DEF Call
  <2>3. TypeOK'
    BY <1>1, <1>4, <2>1, ChangeTypes DEF ChangeBegins, TypeOK, durable
  <2>4. \A s \in todo : ProviderOf[s] \in Affected(c)' /\ old[s] # NoThread
    BY <1>1, <2>2 DEF Affected, Users, TypeOK
  <2>5. settings' = settings /\ epoch' = epoch /\ c \in past'.fresh
    BY <1>1, <1>4 DEF ChangeBegins, durable, TypeOK
  <2>. HIDE DEF r, todo, old
  <2>6. SettingsOK(c)' /\ ThreadsOK(c)'
    BY <2>2, <2>4, <2>5 DEF SettingsOK, ThreadsOK, AtWork, ExclusivePcs, Ended
  <2>7. Recent(c)'
    BY <1>1, <2>2, <2>5 DEF Recent, Exclusive, TypeOK
  <2>8. CallOK(c)' /\ Runs(OpOf(c))' /\ ~AtWork(c)' /\ UNCHANGED <<settings, thread, held, bounds>>
    BY <1>2, <1>4, <2>2, <2>6, <2>7 DEF CallOK, AtWork, ExclusivePcs, OpOf, Runs, ChangeBegins, durable
  <2>9. \A p \in Providers : ~HoldsProvider(c, p) /\ ~HoldsProvider(c, p)'
    BY <1>2, <2>2 DEF HoldsProvider, Holding
  <2>10. /\ past.fresh \subseteq past'.fresh /\ past'.writer = past.writer /\ past'.floor = past.floor
    BY <1>1, <1>4 DEF TypeOK
  <2>11. ChangesTo(c, r)
    BY <1>4, <2>5, <2>8, <2>9, <2>10 DEF ChangesTo, ChangeBegins, durable, Runs
  <2>. QED  BY <2>1, <2>3, <2>11, ChangesToPreserves
<1>. QED  BY <1>3, <1>4 DEF ChangeBegins

(* It goes on, at the head of the line.                                     *)
LEMMA MovesKeeps ==
  ASSUME IInv, NEW c \in Changes, NEW r \in Call, chg' = [chg EXCEPT ![c] = r],
         UNCHANGED <<layout, live, line, held, epoch, owner, reset, tail, run>>,
         Exclusive(c), r.pc \in {"reading"} \cup ExclusivePcs, r.deferred = chg[c].deferred,
         r.prev = chg[c].prev, r.next = chg[c].next,
         settings' \in [Providers -> Keys], thread' \in [Sessions -> Threads],
         \A s \in Sessions : thread'[s] = thread[s] \/ thread[s] # NoThread \/ s \in chg[c].applied,
         \A s \in r.applied : (AtWork(c) /\ s \in chg[c].applied) \/ thread[s] # NoThread,
         AtWork(c) \/ \A s \in Sessions : ProviderOf[s] \in Affected(c) =>
                         run[s].phase \notin {"admitted", "provider"},
         UNCHANGED bounds \/ Fault, Past(c), CallOK(c)'
  PROVE  IInv'
<1>1. TypeOK /\ chg'[c] = r
  BY Sets DEF IInv
<1>2. TypeOK'
  BY <1>1, ChangeTypes DEF Past, TypeOK
<1>3. Exclusive(c)' /\ Runs(OpOf(c))' /\ (Holding(c)' <=> Holding(c)) /\ Affected(c)' = Affected(c)
  <2>1. Exclusive(c)' /\ Affected(c)' = Affected(c) /\ OpOf(c)' = OpOf(c)
    BY <1>1 DEF Exclusive, Affected, OpOf
  <2>2. Holding(c)' <=> Holding(c)
    BY <1>1 DEF Exclusive, ExclusivePcs, Holding
  <2>3. Runs(OpOf(c))
    BY DEF IInv, LineOK
  <2>. QED  BY <2>1, <2>2, <2>3 DEF Runs
<1>4. bounds'.layouts = bounds.layouts
  BY <1>1, FaultTypes
<1>5. \A p \in Providers : HoldsProvider(c, p)' <=> HoldsProvider(c, p)
  BY <1>3 DEF HoldsProvider
<1>6. past.fresh \subseteq past'.fresh
  BY DEF Past
<1>7. \A x : Runs(x) => Runs(x)'
  BY DEF Runs
<1>8. ChangesTo(c, r)
  BY <1>3, <1>4, <1>5, <1>6, <1>7 DEF ChangesTo, Past
<1>. QED  BY <1>2, <1>8, ChangesToPreserves

(* What is known of a call.                                                 *)
LEMMA Known ==
  ASSUME IInv, NEW c \in Changes
  PROVE  /\ TypeOK /\ chg[c] \in Call /\ CallOK(c)
         /\ Exclusive(c) => Runs(OpOf(c)) /\ c \in past.fresh /\ reset.pc # "applying"
BY CallTypes, OneExclusive DEF IInv, CallsOK, LineOK, CallOK, Recent

(* What it found is used: nobody is at work for the providers it changes.   *)
LEMMA IssuesSaveKeeps ==
  ASSUME IInv, NEW c \in Changes, ChangeIssuesSave(c)
  PROVE  IInv'
<1>. DEFINE r == [chg[c] EXCEPT !.pc = "saving"]
            users == Users(Affected(c))
<1>1. TypeOK /\ chg[c] \in Call /\ CallOK(c) /\ chg[c].pc = "reading" /\ Exclusive(c) /\ c \in past.fresh
  BY Known DEF ChangeIssuesSave, Exclusive
<1>2. ~Holding(c) /\ ~chg[c].deferred /\ chg[c].applied = {}
  BY <1>1 DEF CallOK, ThreadsOK, Holding
<1>3. CASE Ends(c, "over") /\ Returns /\ UNCHANGED past
  BY <1>1, <1>2, <1>3, EndsKeeps, PastStays DEF ChangeIssuesSave, durable, TypeOK
<1>4. CASE /\ ~\E s \in users : InFlight(s)
           /\ Goes(c, "saving") /\ UNCHANGED line
           /\ past' = [past EXCEPT !.strayed = @ \cup
                {ProviderOf[s] : s \in {t \in users : thread[t] # chg[c].old[t]}}]
  <2>1. r \in Call /\ chg' = [chg EXCEPT ![c] = r] /\ r.pc = "saving" /\ r.deferred = chg[c].deferred
        /\ r.prev = chg[c].prev /\ r.next = chg[c].next /\ r.applied = {} /\ r.todo = chg[c].todo
        /\ r.old = chg[c].old /\ r.epoch = chg[c].epoch
    BY <1>1, <1>2, <1>4 DEF Call, Pcs, ExclusivePcs, Goes
  <2>. HIDE DEF r
  <2>2. chg'[c] = r
    BY <1>1, <2>1, Sets
  <2>3. Past(c)
    <3>1. {ProviderOf[s] : s \in {t \in users : thread[t] # chg[c].old[t]}} \subseteq Providers
      BY <1>1, SettingsAssumption DEF Users, TypeOK
    <3>. QED  BY <1>1, <1>4, <3>1 DEF TypeOK, Past
  <2>4. \A s \in Sessions : ProviderOf[s] \in Affected(c) => run[s].phase \notin {"admitted", "provider"}
    BY <1>4 DEF IInv, RunsOK, InFlight, Users
  <2>5. CallOK(c)'
    BY <1>1, <2>1, <2>2, <2>3 DEF CallOK, SettingsOK, ThreadsOK, Recent, AtWork, Exclusive,
       ExclusivePcs, Affected, ChangeIssuesSave, durable, Past, Ended
  <2>. QED  BY <1>1, <1>4, <2>1, <2>3, <2>4, <2>5, MovesKeeps
            DEF ChangeIssuesSave, durable, TypeOK, ExclusivePcs
<1>. QED  BY <1>3, <1>4 DEF ChangeIssuesSave

(* The new settings are stored.                                             *)
LEMMA SavesKeeps ==
  ASSUME IInv, NEW c \in Changes, ChangeSaves(c)
  PROVE  IInv'
<1>. DEFINE r == [chg[c] EXCEPT !.pc = "patching", !.saved = [keys |-> chg[c].next, layout |-> layout]]
<1>1. TypeOK /\ chg[c] \in Call /\ CallOK(c) /\ chg[c].pc = "saving" /\ Exclusive(c) /\ c \in past.fresh
  BY Known DEF ChangeSaves, Exclusive, ExclusivePcs
<1>2. chg[c].applied = {} /\ ~chg[c].deferred /\ chg[c].next \in [Providers -> Keys]
  BY <1>1 DEF CallOK, ThreadsOK, Call
<1>3. /\ r \in Call /\ r.pc = "patching" /\ r.deferred = chg[c].deferred /\ r.saved.keys = r.next
      /\ r.prev = chg[c].prev /\ r.next = chg[c].next /\ r.applied = {} /\ r.todo = chg[c].todo
      /\ r.old = chg[c].old /\ r.epoch = chg[c].epoch
  BY <1>1, <1>2 DEF Call, Pcs, ExclusivePcs, TypeOK, Saved
<1>4. chg' = [chg EXCEPT ![c] = r]
  BY <1>1 DEF ChangeSaves, Call
<1>. HIDE DEF r
<1>5. chg'[c] = r /\ Past(c) /\ past'.fresh = past.fresh
  BY <1>1, <1>3, <1>4, Sets DEF ChangeSaves, Past, TypeOK
<1>6. CallOK(c)'
  BY <1>1, <1>2, <1>3, <1>5 DEF CallOK, SettingsOK, ThreadsOK, Recent, AtWork, Exclusive,
     ExclusivePcs, Affected, ChangeSaves, Ended
<1>7. AtWork(c)
  BY <1>1 DEF AtWork, ExclusivePcs
<1>. QED  BY <1>1, <1>2, <1>3, <1>4, <1>5, <1>6, <1>7, MovesKeeps
          DEF ChangeSaves, TypeOK, ExclusivePcs

(* The save fails, or is not known to have succeeded.                       *)
LEMMA SaveFailsKeeps ==
  ASSUME IInv, NEW c \in Changes, ChangeSaveFails(c)
  PROVE  IInv'
<1>1. TypeOK /\ chg[c] \in Call /\ CallOK(c) /\ chg[c].pc = "saving" /\ Exclusive(c) /\ c \in past.fresh
  BY Known DEF ChangeSaveFails, Exclusive, ExclusivePcs
<1>2. ~Holding(c) /\ chg[c].next \in [Providers -> Keys] /\ Affected(c) \subseteq Providers
  BY <1>1 DEF CallOK, Holding, Call, Affected
<1>3. Past(c)
  <2>1. past \in [writer : Changes \cup {NoChange}, fresh : SUBSET Changes, floor : Nat,
                 strayed : SUBSET Providers]
    BY <1>1 DEF TypeOK
  <2>2. CASE UNCHANGED past
    BY <1>1, <2>2, PastStays
  <2>3. CASE past' = [past EXCEPT !.writer = c, !.strayed = @ \cup Affected(c)]
    BY <1>1, <1>2, <2>1, <2>3 DEF Past
  <2>. QED  BY <2>2, <2>3 DEF ChangeSaveFails
<1>. QED  BY <1>1, <1>2, <1>3, EndsKeeps DEF ChangeSaveFails, TypeOK

(* A thread is taken away, if it is still the one that was listed.          *)
LEMMA PatchesKeeps ==
  ASSUME IInv, NEW c \in Changes, NEW s \in Sessions, ChangePatches(c, s)
  PROVE  IInv'
<1>. DEFINE matches == s \in live /\ thread[s] = chg[c].old[s]
            r == [chg[c] EXCEPT !.todo = @ \ {s}, !.applied = IF matches THEN @ \cup {s} ELSE @]
<1>1. TypeOK /\ chg[c] \in Call /\ CallOK(c) /\ chg[c].pc = "patching" /\ Exclusive(c) /\ c \in past.fresh
  BY Known DEF ChangePatches, Exclusive, ExclusivePcs
<1>2. /\ AtWork(c) /\ s \in chg[c].todo
      /\ ProviderOf[s] \in Affected(c) /\ chg[c].old[s] # NoThread
  BY <1>1 DEF CallOK, ThreadsOK, AtWork, ExclusivePcs, ChangePatches
<1>3. /\ r \in Call /\ r.pc = "patching" /\ r.deferred = chg[c].deferred
      /\ r.prev = chg[c].prev /\ r.next = chg[c].next /\ r.saved = chg[c].saved
      /\ r.applied = (IF matches THEN chg[c].applied \cup {s} ELSE chg[c].applied)
      /\ r.todo = chg[c].todo \ {s} /\ r.old = chg[c].old /\ r.epoch = chg[c].epoch
  BY <1>1 DEF Call
<1>4. chg' = [chg EXCEPT ![c] = r]
  BY <1>1 DEF ChangePatches, Call
<1>5. thread \in [Sessions -> Threads]
      /\ thread' = IF matches THEN [thread EXCEPT ![s] = NoThread] ELSE thread
  BY <1>1 DEF ChangePatches, TypeOK
<1>. HIDE DEF r
<1>6. chg'[c] = r /\ Past(c)
  BY <1>1, <1>3, <1>4, Sets, PastStays DEF ChangePatches
<1>7. \A t \in r.applied : TakenAway(c, t)'
  <2>1. TAKE t \in r.applied
  <2>2. Affected(c)' = Affected(c)
    BY <1>3, <1>6 DEF Affected
  <2>3. CASE t \in chg[c].applied
    <3>1. TakenAway(c, t) /\ t \in Sessions
      BY <1>1, <1>2, <2>3 DEF CallOK, ThreadsOK, Call
    <3>. QED  BY <1>1, <1>3, <1>5, <1>6, <2>2, <3>1 DEF TakenAway
  <2>4. CASE matches /\ t = s
    BY <1>2, <1>3, <1>5, <1>6, <2>2, <2>4 DEF TakenAway
  <2>. QED  BY <1>3, <2>3, <2>4
<1>8. SettingsOK(c)' /\ Recent(c)'
  BY <1>1, <1>3, <1>6 DEF CallOK, SettingsOK, Recent, Exclusive, ExclusivePcs, ChangePatches
<1>9. ThreadsOK(c)'
  BY <1>1, <1>3, <1>6, <1>7 DEF CallOK, ThreadsOK, Affected, Ended
<1>10. CallOK(c)'
  BY <1>3, <1>6, <1>8, <1>9, <1>1 DEF CallOK
<1>11. /\ \A t \in Sessions : thread'[t] = thread[t] \/ thread[t] # NoThread
       /\ thread' \in [Sessions -> Threads]
  BY <1>2, <1>5 DEF Threads
<1>12. \A t \in r.applied : (AtWork(c) /\ t \in chg[c].applied) \/ thread[t] # NoThread
  BY <1>2, <1>3
<1>. QED  BY <1>1, <1>2, <1>3, <1>4, <1>6, <1>10, <1>11, <1>12, MovesKeeps
          DEF ChangePatches, TypeOK, ExclusivePcs

(* The change goes on outside the lock, or comes back to it.                *)
LEMMA OutsideKeeps ==
  ASSUME IInv, NEW c \in Changes, NEW r \in Call, chg' = [chg EXCEPT ![c] = r],
         UNCHANGED <<durable, epoch, owner, reset, tail, run, past>>,
         chg[c].pc \in {"patching", "cleanup", "rollback"},
         r.pc \in {"cleanup", "rollback", "restoring"},
         r.pc = "restoring" => Runs(OpOf(c))' /\ settings = r.next /\ r.epoch = epoch
                               /\ r.todo = r.applied /\ r.deferred,
         r.deferred => r.pc = "restoring",
         r.prev = chg[c].prev, r.next = chg[c].next, r.saved = chg[c].saved, r.epoch = chg[c].epoch,
         r.old = chg[c].old, r.applied = chg[c].applied,
         IF chg[c].pc = "patching"
         THEN Returns /\ AcquireProviders(c) /\ r.pc = "cleanup"
         ELSE /\ UNCHANGED line \/ Asks(Op("rollback", c))
              /\ UNCHANGED held,
         UNCHANGED bounds \/ Fault
  PROVE  IInv'
<1>1. TypeOK /\ chg[c] \in Call /\ CallOK(c) /\ chg'[c] = r
  BY Known, Sets
<1>2. /\ AtWork(c) /\ AtWork(c)' /\ Affected(c)' = Affected(c)
      /\ r.pc = "restoring" <=> Exclusive(c)'
      /\ Exclusive(c) => chg[c].pc = "patching"
  BY <1>1 DEF AtWork, Exclusive, ExclusivePcs, Affected
<1>3. Past(c) /\ past.fresh \subseteq past'.fresh
  BY <1>1, PastStays
<1>4. line' \in Seq(Ops) /\ ((\A x : Runs(x) => Runs(x)') \/ (~Exclusive(c)' /\ Runs(OpOf(c))))
  <2>1. CASE chg[c].pc = "patching"
    <3>1. Runs(OpOf(c)) /\ ~Exclusive(c)'
      BY <1>2, <2>1, Known DEF Exclusive, ExclusivePcs
    <3>. QED  BY <1>1, <2>1, <3>1, LineTypes DEF TypeOK
  <2>2. CASE UNCHANGED line
    BY <1>1, <2>2 DEF Runs, TypeOK
  <2>3. CASE Asks(Op("rollback", c))
    BY <1>1, <2>3, LineTypes, OpTypes DEF TypeOK
  <2>. QED  BY <2>1, <2>2, <2>3
<1>5. TypeOK'
  BY <1>1, <1>3, <1>4, ChangeTypes DEF durable, TypeOK, Past
<1>6. SettingsOK(c)'
  BY <1>1 DEF CallOK, SettingsOK, durable
<1>7. \A s \in r.applied : TakenAway(c, s)'
  <2>1. \A s \in chg[c].applied : TakenAway(c, s) /\ chg[c].pc # "reversing"
    BY <1>1, <1>2 DEF CallOK, ThreadsOK
  <2>. QED  BY <1>1, <1>2, <2>1 DEF TakenAway, durable
<1>8. ThreadsOK(c)'
  BY <1>1, <1>2, <1>7 DEF ThreadsOK, Ended
<1>9. Recent(c)'
  <2>1. chg[c].epoch <= epoch
    BY <1>1 DEF CallOK, Recent, Exclusive, ExclusivePcs
  <2>2. CASE chg[c].pc = "patching"
    <3>1. c \in past.fresh /\ reset.pc # "applying"
      BY <2>2, Known DEF Exclusive, ExclusivePcs
    <3>. QED  BY <1>1, <1>2, <2>1, <3>1 DEF Recent
  <2>3. CASE chg[c].pc \in {"cleanup", "rollback"}
    BY <1>1, <1>2, <2>1, <2>3 DEF Recent, CallOK
  <2>. QED  BY <2>2, <2>3
<1>10. CallOK(c)'
  BY <1>1, <1>6, <1>8, <1>9 DEF CallOK
<1>11. \/ UNCHANGED held /\ \A p \in Providers : HoldsProvider(c, p)' <=> HoldsProvider(c, p)
       \/ /\ AcquireProviders(c)
          /\ \A p \in Providers : ~HoldsProvider(c, p) /\ (HoldsProvider(c, p)' <=> p \in Affected(c))
  BY <1>1, <1>2 DEF HoldsProvider, Holding, CallOK
<1>12. bounds'.layouts = bounds.layouts
  BY <1>1, FaultTypes
<1>13. ChangesTo(c, r)
  BY <1>2, <1>3, <1>4, <1>10, <1>11, <1>12 DEF ChangesTo, durable
<1>. QED  BY <1>5, <1>13, ChangesToPreserves

(* The patches fail, or the projection after them: it restores at once.     *)
LEMMA FailsLateKeeps ==
  ASSUME IInv, NEW c \in Changes, ChangeFailsLate(c)
  PROVE  IInv'
<1>. DEFINE r == [chg[c] EXCEPT !.pc = "restoring", !.todo = chg[c].applied]
<1>1. TypeOK /\ chg[c] \in Call /\ CallOK(c) /\ chg[c].pc = "patching" /\ Exclusive(c) /\ AtWork(c)
  BY Known DEF ChangeFailsLate, Exclusive, ExclusivePcs, AtWork
<1>2. /\ r \in Call /\ r.pc = "restoring" /\ r.deferred = chg[c].deferred
      /\ r.prev = chg[c].prev /\ r.next = chg[c].next /\ r.applied = chg[c].applied
      /\ r.todo = chg[c].applied /\ r.old = chg[c].old /\ r.epoch = chg[c].epoch
  BY <1>1 DEF Call, Pcs, ExclusivePcs
<1>3. chg' = [chg EXCEPT ![c] = r]
  BY <1>1 DEF ChangeFailsLate, Call
<1>4. /\ thread' \in [Sessions -> Threads]
      /\ \A s \in Sessions : thread'[s] = thread[s] \/ (thread[s] # NoThread /\ thread'[s] = NoThread)
  <2>1. thread \in [Sessions -> Threads] /\ chg[c].todo \subseteq Sessions
    BY <1>1 DEF TypeOK, Call
  <2>. QED  BY <2>1 DEF ChangeFailsLate, Threads
<1>. HIDE DEF r
<1>5. chg'[c] = r /\ Past(c)
  BY <1>1, <1>2, <1>3, Sets, PastStays DEF ChangeFailsLate
<1>6. \A s \in r.applied : TakenAway(c, s)'
  <2>1. TAKE s \in r.applied
  <2>2. TakenAway(c, s) /\ s \in Sessions
    BY <1>1, <1>2 DEF CallOK, ThreadsOK, Call
  <2>3. Affected(c)' = Affected(c)
    BY <1>2, <1>5 DEF Affected
  <2>. QED  BY <1>1, <1>2, <1>4, <1>5, <2>2, <2>3 DEF TakenAway
<1>7. SettingsOK(c)' /\ Recent(c)'
  BY <1>1, <1>2, <1>5 DEF CallOK, SettingsOK, Recent, Exclusive, ExclusivePcs, ChangeFailsLate
<1>8. ThreadsOK(c)'
  BY <1>2, <1>5, <1>6 DEF ThreadsOK, Ended
<1>9. CallOK(c)'
  BY <1>1, <1>2, <1>5, <1>7, <1>8 DEF CallOK
<1>. QED  BY <1>1, <1>2, <1>3, <1>4, <1>5, <1>9, MovesKeeps
          DEF ChangeFailsLate, TypeOK, ExclusivePcs

(* The exclusive part is over: the cleanup holds the providers.             *)
LEMMA ReturnsKeeps ==
  ASSUME IInv, NEW c \in Changes, ChangeReturns(c)
  PROVE  IInv'
<1>. DEFINE r == [chg[c] EXCEPT !.pc = "cleanup", !.todo = Users(Affected(c))]
<1>1. TypeOK /\ chg[c] \in Call /\ CallOK(c) /\ chg[c].pc = "patching"
  BY Known DEF ChangeReturns
<1>2. r \in Call
  BY <1>1 DEF Call, Pcs, Users, TypeOK
<1>3. chg' = [chg EXCEPT ![c] = r]
  BY <1>1 DEF ChangeReturns, Call
<1>4. /\ r.pc = "cleanup" /\ ~r.deferred /\ r.prev = chg[c].prev /\ r.next = chg[c].next
      /\ r.saved = chg[c].saved /\ r.epoch = chg[c].epoch /\ r.old = chg[c].old
      /\ r.applied = chg[c].applied
  BY <1>1 DEF Call, CallOK
<1>. HIDE DEF r
<1>. QED  BY <1>1, <1>2, <1>3, <1>4, OutsideKeeps DEF ChangeReturns

(* A target is cleaned.                                                     *)
LEMMA CleansKeeps ==
  ASSUME IInv, NEW c \in Changes, NEW s \in Sessions, Cleans(c, s)
  PROVE  IInv'
<1>. DEFINE r == [chg[c] EXCEPT !.todo = @ \ {s}]
<1>1. TypeOK /\ chg[c] \in Call /\ CallOK(c) /\ chg[c].pc = "cleanup"
  BY Known DEF Cleans
<1>2. r \in Call
  BY <1>1 DEF Call
<1>3. chg' = [chg EXCEPT ![c] = r]
  BY <1>1 DEF Cleans, Call
<1>4. /\ r.pc = "cleanup" /\ ~r.deferred /\ r.prev = chg[c].prev /\ r.next = chg[c].next
      /\ r.saved = chg[c].saved /\ r.epoch = chg[c].epoch /\ r.old = chg[c].old
      /\ r.applied = chg[c].applied
  BY <1>1 DEF Call, CallOK
<1>. HIDE DEF r
<1>. QED  BY <1>1, <1>2, <1>3, <1>4, OutsideKeeps DEF Cleans

(* A cleanup fails: the rollback asks for its turn.                         *)
LEMMA CleanupFailsKeeps ==
  ASSUME IInv, NEW c \in Changes, CleanupFails(c)
  PROVE  IInv'
<1>. DEFINE r == [chg[c] EXCEPT !.pc = "rollback"]
<1>1. TypeOK /\ chg[c] \in Call /\ CallOK(c) /\ chg[c].pc = "cleanup"
  BY Known DEF CleanupFails
<1>2. r \in Call
  BY <1>1 DEF Call, Pcs
<1>3. chg' = [chg EXCEPT ![c] = r]
  BY <1>1 DEF CleanupFails, Goes, Call
<1>4. /\ r.pc = "rollback" /\ ~r.deferred /\ r.prev = chg[c].prev /\ r.next = chg[c].next
      /\ r.saved = chg[c].saved /\ r.epoch = chg[c].epoch /\ r.old = chg[c].old
      /\ r.applied = chg[c].applied
  BY <1>1 DEF Call, CallOK
<1>. HIDE DEF r
<1>. QED  BY <1>1, <1>2, <1>3, <1>4, OutsideKeeps DEF CleanupFails

(* The rollback has its turn, and nobody has written in between.            *)
LEMMA RollbackBeginsKeeps ==
  ASSUME IInv, NEW c \in Changes, RollbackBegins(c)
  PROVE  IInv'
<1>. DEFINE r == [chg[c] EXCEPT !.pc = "restoring", !.todo = chg[c].applied, !.deferred = TRUE]
<1>1. TypeOK /\ chg[c] \in Call /\ CallOK(c) /\ chg[c].pc = "rollback"
  BY Known DEF RollbackBegins
<1>2. r \in Call
  BY <1>1 DEF Call, Pcs, ExclusivePcs
<1>3. chg' = [chg EXCEPT ![c] = r]
  BY <1>1 DEF RollbackBegins, Call
<1>4. /\ r.pc = "restoring" /\ r.deferred /\ r.prev = chg[c].prev /\ r.next = chg[c].next
      /\ r.saved = chg[c].saved /\ r.epoch = chg[c].epoch /\ r.old = chg[c].old
      /\ r.applied = chg[c].applied /\ r.todo = r.applied
  BY <1>1 DEF Call
<1>. HIDE DEF r
<1>5. chg'[c] = r /\ r.epoch = epoch /\ Runs(Op("rollback", c))
  BY <1>1, <1>2, <1>3, <1>4, Sets DEF RollbackBegins, RollbackIsCurrent
<1>6. Runs(OpOf(c))'
  BY <1>4, <1>5 DEF RollbackBegins, OpOf, Runs
<1>7. settings = r.next
  BY <1>1, <1>4 DEF RollbackBegins, RollbackIsCurrent, Current, CallOK, SettingsOK
<1>. QED  BY <1>1, <1>2, <1>3, <1>4, <1>5, <1>6, <1>7, OutsideKeeps DEF RollbackBegins

(* The cleanup is over, or the rollback finds that it is too late.          *)
LEMMA CleanupEndsKeeps ==
  ASSUME IInv, NEW c \in Changes, CleanupEnds(c) \/ RollbackCanceled(c)
  PROVE  IInv'
<1>1. TypeOK /\ chg[c].pc \in {"cleanup", "rollback"}
  BY Known DEF CleanupEnds, RollbackCanceled
<1>2. Holding(c) /\ ~Exclusive(c)
  BY <1>1 DEF Holding, Exclusive, ExclusivePcs
<1>. QED  BY <1>1, <1>2, EndsKeeps, PastStays DEF CleanupEnds, RollbackCanceled, durable, TypeOK

(* The old settings are written back.                                       *)
LEMMA RestoreWritesKeeps ==
  ASSUME IInv, NEW c \in Changes, RestoreWrites(c)
  PROVE  IInv'
<1>. DEFINE r == [chg[c] EXCEPT !.pc = "reversing"]
<1>1. /\ TypeOK /\ chg[c] \in Call /\ CallOK(c) /\ chg[c].pc = "restoring" /\ Exclusive(c)
      /\ AtWork(c) /\ c \in past.fresh
  BY Known DEF RestoreWrites, Exclusive, ExclusivePcs, AtWork
<1>2. /\ r \in Call /\ r.pc = "reversing" /\ r.deferred = chg[c].deferred
      /\ r.prev = chg[c].prev /\ r.next = chg[c].next /\ r.applied = chg[c].applied
      /\ r.todo = chg[c].applied /\ r.old = chg[c].old /\ r.epoch = chg[c].epoch
  BY <1>1 DEF Call, Pcs, ExclusivePcs, CallOK, ThreadsOK
<1>3. chg' = [chg EXCEPT ![c] = r]
  BY <1>1 DEF RestoreWrites, Goes, Call
<1>. HIDE DEF r
<1>4. chg'[c] = r /\ Past(c) /\ past'.fresh = past.fresh /\ settings' \in [Providers -> Keys]
  BY <1>1, <1>2, <1>3, Sets DEF RestoreWrites, Past, TypeOK, Call
<1>5. \A s \in r.applied : TakenAway(c, s)'
  <2>1. TAKE s \in r.applied
  <2>2. TakenAway(c, s) /\ thread[s] = NoThread
    BY <1>1, <1>2 DEF CallOK, ThreadsOK, TakenAway
  <2>3. Affected(c)' = Affected(c)
    BY <1>2, <1>4 DEF Affected
  <2>. QED  BY <1>2, <1>4, <2>2, <2>3 DEF TakenAway, RestoreWrites
<1>6. SettingsOK(c)' /\ Recent(c)'
  BY <1>1, <1>2, <1>4 DEF CallOK, SettingsOK, Recent, Exclusive, ExclusivePcs, RestoreWrites
<1>7. ThreadsOK(c)'
  BY <1>2, <1>4, <1>5 DEF ThreadsOK, Ended
<1>8. CallOK(c)'
  BY <1>1, <1>2, <1>4, <1>6, <1>7 DEF CallOK
<1>. QED  BY <1>1, <1>2, <1>3, <1>4, <1>8, MovesKeeps DEF RestoreWrites, TypeOK, ExclusivePcs

(* A thread is put back.                                                    *)
LEMMA RestoresThreadKeeps ==
  ASSUME IInv, NEW c \in Changes, NEW s \in Sessions, RestoresThread(c, s)
  PROVE  IInv'
<1>. DEFINE r == [chg[c] EXCEPT !.todo = @ \ {s}]
<1>1. /\ TypeOK /\ chg[c] \in Call /\ CallOK(c) /\ chg[c].pc = "reversing" /\ Exclusive(c)
      /\ AtWork(c) /\ s \in chg[c].todo /\ s \in chg[c].applied
  BY Known DEF RestoresThread, Exclusive, ExclusivePcs, AtWork, CallOK, ThreadsOK
<1>2. /\ r \in Call /\ r.pc = "reversing" /\ r.deferred = chg[c].deferred
      /\ r.prev = chg[c].prev /\ r.next = chg[c].next /\ r.applied = chg[c].applied
      /\ r.todo = chg[c].todo \ {s} /\ r.old = chg[c].old /\ r.epoch = chg[c].epoch
  BY <1>1 DEF Call
<1>3. chg' = [chg EXCEPT ![c] = r]
  BY <1>1 DEF RestoresThread, Call
<1>4. /\ thread' \in [Sessions -> Threads]
      /\ \A t \in Sessions : t # s => thread'[t] = thread[t]
      /\ s \in live /\ thread[s] = NoThread => thread'[s] = chg[c].old[s]
  <2>1. thread \in [Sessions -> Threads] /\ chg[c].old[s] \in Threads
    BY <1>1 DEF TypeOK, Call
  <2>. QED  BY <2>1 DEF RestoresThread
<1>. HIDE DEF r
<1>5. chg'[c] = r /\ Past(c)
  BY <1>1, <1>2, <1>3, Sets, PastStays DEF RestoresThread
<1>6. \A t \in r.applied : TakenAway(c, t)'
  <2>1. TAKE t \in r.applied
  <2>2. TakenAway(c, t) /\ t \in Sessions
    BY <1>1, <1>2 DEF CallOK, ThreadsOK, Call
  <2>3. Affected(c)' = Affected(c)
    BY <1>2, <1>5 DEF Affected
  <2>. QED  BY <1>1, <1>2, <1>4, <1>5, <2>2, <2>3 DEF TakenAway, RestoresThread
<1>7. SettingsOK(c)' /\ Recent(c)'
  BY <1>1, <1>2, <1>5 DEF CallOK, SettingsOK, Recent, Exclusive, ExclusivePcs, RestoresThread
<1>8. ThreadsOK(c)'
  BY <1>1, <1>2, <1>5, <1>6 DEF CallOK, ThreadsOK, Ended
<1>9. CallOK(c)'
  BY <1>1, <1>2, <1>5, <1>7, <1>8 DEF CallOK
<1>. QED  BY <1>1, <1>2, <1>3, <1>4, <1>5, <1>9, MovesKeeps
          DEF RestoresThread, TypeOK, ExclusivePcs

(* The rollback is over, complete or not.                                   *)
LEMMA RestoreEndsKeeps ==
  ASSUME IInv, NEW c \in Changes, RestoreEnds(c) \/ RestoreFails(c)
  PROVE  IInv'
<1>1. /\ TypeOK /\ chg[c] \in Call /\ chg[c].pc \in {"restoring", "reversing"}
      /\ Exclusive(c) /\ c \in past.fresh
  BY Known DEF RestoreEnds, RestoreFails, Exclusive, ExclusivePcs
<1>2. (Holding(c) <=> chg[c].deferred) /\ chg[c].prev \in [Providers -> Keys]
  BY <1>1 DEF Holding, Call
<1>3. Past(c)
  <2>1. past \in [writer : Changes \cup {NoChange}, fresh : SUBSET Changes, floor : Nat,
                 strayed : SUBSET Providers]
    BY <1>1 DEF TypeOK
  <2>2. CASE UNCHANGED past
    BY <1>1, <2>2, PastStays
  <2>3. CASE RestoreFails(c)
    <3>1. Affected(c) \subseteq Providers
      BY DEF Affected
    <3>. QED  BY <1>1, <2>1, <2>3, <3>1 DEF RestoreFails, Past
  <2>. QED  BY <2>2, <2>3 DEF RestoreEnds
<1>. QED  BY <1>1, <1>2, <1>3, EndsKeeps DEF RestoreEnds, RestoreFails, RestoreOver, durable, TypeOK

(* Every step of a change keeps the invariant.                              *)
LEMMA ChangeKeeps ==
  ASSUME IInv, NEW c \in Changes, ChangeAsks(c) \/ ChangeStep(c)
  PROVE  IInv'
<1>1. CASE \E s \in Sessions : ChangePatches(c, s) \/ Cleans(c, s) \/ RestoresThread(c, s)
  BY <1>1, PatchesKeeps, CleansKeeps, RestoresThreadKeeps
<1>. QED  BY <1>1, AsksKeeps, BeginsKeeps, IssuesSaveKeeps, SavesKeeps, SaveFailsKeeps,
             FailsLateKeeps, ReturnsKeeps, CleanupFailsKeeps, RollbackBeginsKeeps,
             CleanupEndsKeeps, RestoreWritesKeeps, RestoreEndsKeeps DEF ChangeStep

-----------------------------------------------------------------------------
(* The turns.                                                               *)
Turn == [phase : {"idle", "waiting", "reserved", "checking", "admitted", "provider"},
         key : Keys, thread : Threads]

(* A turn goes on: it stores its thread only when it ran, and is admitted   *)
(* only when no change is at work for its provider.                         *)
LEMMA TurnKeeps ==
  ASSUME IInv, NEW s \in Sessions, NEW t \in Turn, run' = [run EXCEPT ![s] = t],
         UNCHANGED <<settings, layout, live, chg, held, epoch, owner, reset, tail, bounds, past>>,
         \/ UNCHANGED line
         \/ \E kind \in {"reserve", "check"} :
              Asks(Op(kind, s)) \/ (Runs(Op(kind, s)) /\ Returns),
         \/ UNCHANGED thread
         \/ run[s].phase = "provider" /\ thread' = [thread EXCEPT ![s] = run[s].key],
         t.phase \in {"checking", "admitted", "provider"} => s \in live,
         reset.pc = "applying" => t.phase \in {"idle", "waiting"},
         t.phase \in {"admitted", "provider"} =>
            \/ run[s].phase \in {"admitted", "provider"}
            \/ \A c \in Changes : AtWork(c) => ProviderOf[s] \notin Affected(c)
  PROVE  IInv'
<1>1. TypeOK /\ run \in [Sessions -> Turn] /\ thread \in [Sessions -> Threads]
  BY DEF IInv, TypeOK, Turn
<1>2. run' \in [Sessions -> Turn] /\ run'[s] = t /\ \A u \in Sessions : u # s => run'[u] = run[u]
  BY <1>1
<1>3. thread' \in [Sessions -> Threads]
  <2>1. run[s].key \in Keys
    BY <1>1 DEF Turn
  <2>. QED  BY <1>1, <2>1 DEF Threads
<1>4. line' \in Seq(Ops) /\ LineOK'
  <2>1. CASE UNCHANGED line
    BY <1>1, <2>1 DEF IInv, TypeOK, LineOK, Exclusive, Runs, OpOf
  <2>2. ASSUME NEW kind \in {"reserve", "check"}, Asks(Op(kind, s)) PROVE line' \in Seq(Ops) /\ LineOK'
    <3>1. line' \in Seq(Ops) /\ \A x : Runs(x) => Runs(x)'
      BY <1>1, <2>2, LineTypes, OpTypes DEF TypeOK
    <3>. QED  BY <3>1 DEF IInv, LineOK, Exclusive, OpOf
  <2>3. ASSUME NEW kind \in {"reserve", "check"}, Runs(Op(kind, s)), Returns
        PROVE  line' \in Seq(Ops) /\ LineOK'
    <3>1. line' \in Seq(Ops)
      BY <1>1, <2>3, LineTypes DEF TypeOK
    <3>2. reset.pc # "applying" /\ \A c \in Changes : ~Exclusive(c)
      BY <2>3, OneExclusive
    <3>. QED  BY <3>1, <3>2 DEF LineOK, Exclusive
  <2>. QED  BY <2>1, <2>2, <2>3
<1>5. TypeOK'
  BY <1>1, <1>2, <1>3, <1>4 DEF TypeOK, Turn
<1>6. ASSUME NEW c \in Changes PROVE CallOK(c)'
  <2>1. CallOK(c)
    BY DEF IInv, CallsOK
  <2>2. SettingsOK(c)' /\ Recent(c)'
    BY <2>1 DEF CallOK, SettingsOK, Recent, Exclusive
  <2>3. ASSUME AtWork(c), NEW u \in chg[c].applied PROVE TakenAway(c, u)'
    <3>1. TakenAway(c, u) /\ u \in Sessions
      BY <2>1, <2>3, Known DEF CallOK, ThreadsOK, Call
    <3>2. thread'[u] = thread[u]
      BY <1>1, <2>3, <3>1 DEF TakenAway, IInv, NoTurnDuringChange
    <3>. QED  BY <3>1, <3>2 DEF TakenAway, Affected
  <2>4. ThreadsOK(c)'
    BY <2>1, <2>3 DEF CallOK, ThreadsOK, Affected, AtWork
  <2>. QED  BY <2>1, <2>2, <2>4 DEF CallOK
<1>7. Disjoint'
  BY DEF IInv, Disjoint, AtWork
<1>8. HeldOK'
  BY DEF IInv, HeldOK, Holders, HoldsProvider, Holding, Affected
<1>9. RunsOK'
  BY <1>2 DEF IInv, RunsOK
<1>10. LayoutOK' /\ ResetStays'
  BY DEF IInv, LayoutOK, Newer, ResetStays
<1>11. NoTurnDuringChange'
  BY <1>2 DEF IInv, NoTurnDuringChange, AtWork, Affected
<1>. QED  BY <1>4, <1>5, <1>6, <1>7, <1>8, <1>9, <1>10, <1>11 DEF IInv, CallsOK

(* Whoever is at work for a provider holds it or is exclusive.              *)
LEMMA FreeProvider ==
  ASSUME IInv, NEW p \in Providers, held[p] = 0, \A c \in Changes : ~Exclusive(c)
  PROVE  \A c \in Changes : AtWork(c) => p \notin Affected(c)
<1>1. Holders(p) \subseteq Changes /\ Cardinality(Holders(p)) = 0
  BY DEF Holders, IInv, HeldOK
<1>2. Holders(p) = {}
  BY <1>1, SettingsAssumption, FS_Subset, FS_EmptySet
<1>. QED  BY <1>2 DEF Holders, HoldsProvider, Holding, AtWork, Exclusive

(* Every step of a turn keeps the invariant.                                *)
LEMMA TurnsKeep ==
  ASSUME IInv, NEW s \in Sessions, TurnAsks(s) \/ TurnStep(s)
  PROVE  IInv'
<1>1. TypeOK /\ run[s] \in Turn /\ NoTurn \in Turn
  BY SettingsAssumption DEF IInv, TypeOK, Turn, NoTurn, Threads
<1>2. RunsOK
  BY DEF IInv
<1>. DEFINE At(phase) == [run[s] EXCEPT !.phase = phase]
<1>3. \A phase \in {"idle", "waiting", "reserved", "checking", "admitted"} :
        At(phase) \in Turn /\ At(phase).phase = phase
        /\ (Phase(s, phase) => run' = [run EXCEPT ![s] = At(phase)])
  <2>1. run \in [Sessions -> Turn]
    BY <1>1 DEF TypeOK, Turn
  <2>. QED  BY <1>1, <2>1 DEF Turn, Phase
<1>. HIDE DEF At
<1>4. CASE TurnAsks(s)
  BY <1>1, <1>3, <1>4, TurnKeeps DEF TurnAsks, durable
<1>5. CASE TurnReserves(s)
  <2>1. PICK phase \in {"reserved", "idle"} : Phase(s, phase)
    BY <1>5 DEF TurnReserves
  <2>2. reset.pc # "applying"
    BY <1>5, OneExclusive DEF TurnReserves
  <2>. QED  BY <1>1, <1>3, <1>5, <2>1, <2>2, TurnKeeps DEF TurnReserves, durable
<1>6. CASE TurnReadsProvider(s)
  <2>1. reset.pc # "applying"
    BY <1>2, <1>6 DEF TurnReadsProvider, RunsOK
  <2>. QED  BY <1>1, <1>3, <1>6, <2>1, TurnKeeps DEF TurnReadsProvider, durable
<1>7. CASE TurnIsChecked(s)
  <2>1. /\ reset.pc # "applying" /\ \A c \in Changes : ~Exclusive(c)
        /\ s \in live /\ ProviderOf[s] \in Providers
    BY <1>2, <1>7, OneExclusive, SettingsAssumption DEF TurnIsChecked, RunsOK
  <2>2. CASE AvailableForTurn(s) /\ Phase(s, "admitted")
    <3>1. \A c \in Changes : AtWork(c) => ProviderOf[s] \notin Affected(c)
      BY <2>1, <2>2, FreeProvider DEF AvailableForTurn
    <3>. QED  BY <1>1, <1>3, <1>7, <2>1, <2>2, <3>1, TurnKeeps DEF TurnIsChecked, durable
  <2>3. CASE Phase(s, "idle")
    BY <1>1, <1>3, <1>7, <2>1, <2>3, TurnKeeps DEF TurnIsChecked, durable
  <2>. QED  BY <1>7, <2>2, <2>3 DEF TurnIsChecked
<1>8. CASE TurnCallsProvider(s)
  <2>. DEFINE t == [phase |-> "provider", key |-> settings[ProviderOf[s]], thread |-> thread[s]]
  <2>1. t \in Turn /\ t.phase = "provider"
    BY <1>1, SettingsAssumption DEF TypeOK, Turn
  <2>2. s \in live /\ reset.pc # "applying"
    BY <1>2, <1>8 DEF TurnCallsProvider, RunsOK
  <2>. HIDE DEF t
  <2>3. run' = [run EXCEPT ![s] = t]
    BY <1>8 DEF TurnCallsProvider, t
  <2>. QED  BY <1>8, <2>1, <2>2, <2>3, TurnKeeps DEF TurnCallsProvider, durable
<1>9. CASE TurnEnds(s)
  <2>1. NoTurn.phase = "idle"
    BY DEF NoTurn
  <2>. QED  BY <1>1, <1>9, <2>1, TurnKeeps DEF TurnEnds
<1>. QED  BY <1>4, <1>5, <1>6, <1>7, <1>8, <1>9 DEF TurnStep

-----------------------------------------------------------------------------
(* The reset, the layout and the crash.                                     *)

(* A reset asks for its turn, and begins when no turn is in flight.         *)
LEMMA ResetBeginsKeeps ==
  ASSUME IInv, ResetAsks \/ ResetBegins
  PROVE  IInv'
<1>1. TypeOK /\ LineOK /\ CallsOK /\ LayoutOK /\ reset.pc # "applying"
  BY DEF IInv, ResetAsks, ResetBegins
<1>2. /\ reset' \in [pc : {"idle", "queued", "applying"}, targets : SUBSET AllTargets, mark : 0..MaxLayout]
      /\ reset'.mark \in {0, bounds.layouts}
      /\ reset'.pc = "applying" => reset'.mark = bounds.layouts
  <2>1. CASE ResetAsks
    BY <2>1, SettingsAssumption DEF ResetAsks, AllTargets
  <2>2. CASE ResetBegins
    <3>1. /\ reset \in [pc : {"idle", "queued", "applying"}, targets : SUBSET AllTargets, mark : 0..MaxLayout]
          /\ bounds.layouts \in 0..MaxLayout
      BY <1>1 DEF TypeOK
    <3>2. NoReset \in [pc : {"idle", "queued", "applying"}, targets : SUBSET AllTargets, mark : 0..MaxLayout]
          /\ NoReset.mark = 0 /\ NoReset.pc = "idle"
      BY SettingsAssumption DEF NoReset
    <3>. QED  BY <2>2, <3>1, <3>2 DEF ResetBegins
  <2>. QED  BY <2>1, <2>2
<1>3. /\ line' \in Seq(Ops)
      /\ \/ reset'.pc # "applying" /\ UNCHANGED epoch /\ \A x : Runs(x) => Runs(x)'
         \/ /\ reset'.pc # "applying" /\ UNCHANGED epoch
            /\ \A c \in Changes : ~Exclusive(c)
         \/ /\ Runs(ResetOp)' /\ epoch' = epoch + 1
            /\ \A c \in Changes : ~Exclusive(c)
            /\ \A s \in Sessions : run[s].phase = "idle"
  <2>1. CASE ResetAsks
    BY <1>1, <2>1, LineTypes, OpTypes DEF ResetAsks, TypeOK
  <2>2. CASE ResetBegins /\ Returns /\ UNCHANGED epoch /\ reset' = NoReset
    BY <1>1, <2>2, LineTypes, OneExclusive DEF ResetBegins, TypeOK, NoReset
  <2>3. CASE ResetBegins /\ UNCHANGED line /\ epoch' = epoch + 1 /\ \A s \in Sessions : ~InFlight(s)
    BY <1>1, <2>3, OneExclusive DEF ResetBegins, TypeOK, Runs, InFlight
  <2>. QED  BY <2>1, <2>2, <2>3 DEF ResetBegins
<1>4. /\ bounds' \in [resets : 0..MaxResets, layouts : 0..MaxLayout,
                      faults : 0..MaxFaults, crashes : 0..MaxCrashes]
      /\ bounds'.layouts = bounds.layouts
  <2>1. bounds.resets < MaxResets => bounds.resets + 1 \in 0..MaxResets
    BY <1>1, SettingsAssumption DEF TypeOK
  <2>. QED  BY <1>1, <2>1 DEF ResetAsks, ResetBegins, TypeOK
<1>5. UNCHANGED <<durable, chg, held, owner, tail, run, past>> /\ epoch' \in Nat
  BY <1>1 DEF ResetAsks, ResetBegins, TypeOK
<1>6. TypeOK'
  BY <1>1, <1>2, <1>3, <1>4, <1>5 DEF TypeOK, durable
<1>7. LineOK'
  BY <1>1, <1>3, <1>5 DEF LineOK, Exclusive, OpOf
<1>8. ASSUME NEW c \in Changes PROVE CallOK(c)'
  <2>1. CallOK(c) /\ chg[c] \in Call /\ epoch \in Nat
    BY <1>1, Known DEF TypeOK
  <2>2. SettingsOK(c)' /\ ThreadsOK(c)'
    BY <1>5, <2>1 DEF CallOK, SettingsOK, ThreadsOK, TakenAway, Affected, AtWork, durable
  <2>3. Recent(c)'
    BY <1>3, <1>5, <2>1 DEF CallOK, Recent, Exclusive, Call
  <2>. QED  BY <1>5, <2>1, <2>2, <2>3 DEF CallOK
<1>9. Disjoint' /\ HeldOK'
  BY <1>5 DEF IInv, Disjoint, AtWork, HeldOK, Holders, HoldsProvider, Holding, Affected
<1>10. RunsOK'
  BY <1>3, <1>5 DEF IInv, RunsOK, durable
<1>11. LayoutOK'
  <2>1. \A i \in DOMAIN tail : Newer(tail[i]) /\ tail[i].epoch \in Nat
    <3>1. tail \in Seq([value : 1..MaxLayout, epoch : Nat, owner : Nat])
      BY <1>1 DEF TypeOK
    <3>2. ASSUME NEW i \in DOMAIN tail PROVE tail[i].epoch \in Nat
      <4>1. tail[i] \in [value : 1..MaxLayout, epoch : Nat, owner : Nat]
        <5>1. i \in 1..Len(tail)
          BY <3>1
        <5>. QED  BY <3>1, <5>1, ElementOfSeq
      <4>. QED  BY <4>1
    <3>. QED  BY <1>1, <3>2 DEF LayoutOK
  <2>2. past.floor <= bounds.layouts /\ bounds.layouts \in Nat /\ epoch \in Nat
    BY <1>1 DEF LayoutOK, TypeOK
  <2>. QED  BY <1>2, <1>3, <1>4, <1>5, <2>1, <2>2 DEF LayoutOK, Newer
<1>12. NoTurnDuringChange' /\ ResetStays'
  BY <1>5 DEF IInv, NoTurnDuringChange, AtWork, Affected, ResetStays, durable
<1>. QED  BY <1>6, <1>7, <1>8, <1>9, <1>10, <1>11, <1>12 DEF IInv, CallsOK

(* A step of a reset that is being applied.                                 *)
LEMMA AppliesKeeps ==
  ASSUME IInv, reset.pc = "applying", UNCHANGED <<chg, held, epoch, tail, run>>,
         \/ reset' = NoReset /\ Returns
         \/ /\ UNCHANGED line
            /\ \E x : reset' = [reset EXCEPT !.targets = @ \ {x}],
         UNCHANGED <<settings, layout, past>> \/ SettingsAreReset,
         UNCHANGED <<live, thread>> \/ SessionsAreReset,
         owner' \in Nat, UNCHANGED bounds \/ Fault
  PROVE  IInv'
<1>1. /\ TypeOK /\ LineOK /\ CallsOK /\ LayoutOK /\ RunsOK /\ Runs(ResetOp)
      /\ \A c \in Changes : ~Exclusive(c)
  BY OneExclusive DEF IInv, LineOK
<1>2. /\ reset' \in [pc : {"idle", "queued", "applying"}, targets : SUBSET AllTargets, mark : 0..MaxLayout]
      /\ reset'.mark \in {0, reset.mark}
      /\ reset'.pc = "applying" => reset'.mark = reset.mark /\ UNCHANGED line
  BY <1>1, SettingsAssumption DEF TypeOK, NoReset
<1>3. line' \in Seq(Ops)
  BY <1>1, LineTypes DEF TypeOK
<1>4. /\ bounds' \in [resets : 0..MaxResets, layouts : 0..MaxLayout,
                      faults : 0..MaxFaults, crashes : 0..MaxCrashes]
      /\ bounds'.layouts = bounds.layouts
  BY <1>1, FaultTypes DEF TypeOK
<1>5. /\ settings' \in [Providers -> Keys] /\ layout' \in 0..MaxLayout
      /\ past' \in [writer : Changes \cup {NoChange}, fresh : SUBSET Changes, floor : Nat,
                    strayed : SUBSET Providers]
      /\ past'.floor \in {past.floor, reset.mark}
      /\ past'.fresh = {} \/ past'.fresh = past.fresh
  <2>1. CASE SettingsAreReset
    <3>1. past \in [writer : Changes \cup {NoChange}, fresh : SUBSET Changes, floor : Nat,
                    strayed : SUBSET Providers] /\ reset.mark \in Nat
      BY <1>1 DEF TypeOK
    <3>2. settings' \in [Providers -> Keys] /\ layout' \in 0..MaxLayout
      BY <2>1, SettingsAssumption DEF SettingsAreReset
    <3>. QED  BY <2>1, <3>1, <3>2 DEF SettingsAreReset
  <2>. QED  BY <1>1, <2>1 DEF TypeOK
<1>6. live' \in SUBSET Sessions /\ thread' \in [Sessions -> Threads]
  BY <1>1 DEF TypeOK, SessionsAreReset, Threads
<1>7. TypeOK'
  BY <1>1, <1>2, <1>3, <1>4, <1>5, <1>6 DEF TypeOK
<1>8. LineOK'
  BY <1>1, <1>2 DEF LineOK, Exclusive, Runs
<1>9. ASSUME NEW c \in Changes PROVE CallOK(c)'
  <2>1. CallOK(c) /\ chg[c] \in Call /\ ~Exclusive(c) /\ ~Exclusive(c)'
    BY <1>1, Known DEF Exclusive
  <2>2. SettingsOK(c)'
    BY <2>1 DEF CallOK, SettingsOK, Exclusive, ExclusivePcs
  <2>3. ASSUME AtWork(c), NEW s \in chg[c].applied PROVE TakenAway(c, s)'
    <3>1. TakenAway(c, s) /\ s \in Sessions /\ chg[c].pc # "reversing"
      BY <2>1, <2>3 DEF CallOK, ThreadsOK, Call, Exclusive, ExclusivePcs
    <3>. QED  BY <3>1 DEF TakenAway, Affected, SessionsAreReset
  <2>4. ThreadsOK(c)'
    BY <2>1, <2>3 DEF CallOK, ThreadsOK, Affected, AtWork
  <2>5. Recent(c)'
    <3>1. chg[c].pc \in {"cleanup", "rollback"} => chg[c].epoch < epoch
      BY <2>1 DEF CallOK, Recent
    <3>2. chg[c].epoch \in Nat /\ epoch \in Nat
      BY <1>1, <2>1 DEF Call, TypeOK
    <3>. QED  BY <2>1, <3>1, <3>2 DEF Recent
  <2>. QED  BY <2>1, <2>2, <2>4, <2>5 DEF CallOK
<1>10. Disjoint' /\ HeldOK'
  BY DEF IInv, Disjoint, AtWork, HeldOK, Holders, HoldsProvider, Holding, Affected
<1>11. RunsOK'
  BY <1>1 DEF RunsOK
<1>12. LayoutOK'
  <2>1. \A i \in DOMAIN tail : Newer(tail[i])
    BY <1>1 DEF LayoutOK
  <2>2. past.floor <= bounds.layouts /\ reset.mark <= bounds.layouts /\ bounds.layouts \in Nat
    BY <1>1 DEF LayoutOK, TypeOK
  <2>3. \A i \in DOMAIN tail : Newer(tail[i])'
    BY <1>2, <1>5, <2>1 DEF Newer
  <2>. QED  BY <1>2, <1>4, <1>5, <2>2, <2>3 DEF LayoutOK
<1>13. NoTurnDuringChange'
  BY DEF IInv, NoTurnDuringChange, AtWork, Affected
<1>14. ResetStays'
  <2>1. CASE SettingsAreReset
    <3>1. past'.writer = NoChange
      BY <1>1, <2>1 DEF SettingsAreReset, TypeOK
    <3>. QED  BY <2>1, <3>1 DEF ResetStays, SettingsAreReset
  <2>. QED  BY <2>1 DEF IInv, ResetStays
<1>. QED  BY <1>7, <1>8, <1>9, <1>10, <1>11, <1>12, <1>13, <1>14 DEF IInv, CallsOK

(* Every step of a reset keeps the invariant.                               *)
LEMMA ResetKeeps ==
  ASSUME IInv, ResetAsks \/ ResetStep
  PROVE  IInv'
<1>1. owner \in Nat
  BY DEF IInv, TypeOK
<1>2. CASE ResetRecreates
  BY <1>1, <1>2, AppliesKeeps DEF ResetRecreates
<1>3. CASE ResetClearsSessions
  BY <1>1, <1>3, AppliesKeeps DEF ResetClearsSessions
<1>4. CASE ResetClearsSettings
  BY <1>1, <1>4, AppliesKeeps DEF ResetClearsSettings
<1>5. CASE ResetEnds
  BY <1>1, <1>5, AppliesKeeps DEF ResetEnds, durable
<1>6. CASE ResetFails
  BY <1>1, <1>6, AppliesKeeps DEF ResetFails, durable
<1>. QED  BY <1>2, <1>3, <1>4, <1>5, <1>6, ResetBeginsKeeps DEF ResetStep

(* The layout is updated, and checkpoints are written one after the other.  *)
LEMMA LayoutKeeps ==
  ASSUME IInv, LayoutUpdate \/ LayoutCheckpoint
  PROVE  IInv'
<1>. DEFINE E == [value : 1..MaxLayout, epoch : Nat, owner : Nat]
<1>1. /\ TypeOK /\ LayoutOK /\ tail \in Seq(E) /\ \A i \in DOMAIN tail : Newer(tail[i])
      /\ past.floor \in Nat /\ epoch \in Nat /\ owner \in Nat /\ layout \in 0..MaxLayout
      /\ reset.mark \in Nat
      /\ bounds \in [resets : 0..MaxResets, layouts : 0..MaxLayout,
                     faults : 0..MaxFaults, crashes : 0..MaxCrashes]
  BY DEF IInv, LayoutOK, TypeOK
<1>. HIDE DEF E
<1>2. UNCHANGED <<settings, live, thread, line, chg, held, epoch, owner, reset, run, past>>
  BY DEF LayoutUpdate, LayoutCheckpoint, durable
<1>3. /\ bounds' \in [resets : 0..MaxResets, layouts : 0..MaxLayout,
                      faults : 0..MaxFaults, crashes : 0..MaxCrashes]
      /\ layout' \in 0..MaxLayout /\ tail' \in Seq(E)
      /\ LayoutOK'
      /\ layout' # 0 => layout' > past.floor
  <2>1. CASE LayoutUpdate
    <3>. DEFINE e == [value |-> bounds.layouts + 1, epoch |-> epoch, owner |-> owner]
    <3>1. bounds.layouts + 1 \in 1..MaxLayout
      BY <1>1, <2>1, SettingsAssumption DEF LayoutUpdate
    <3>2. /\ bounds' = [bounds EXCEPT !.layouts = @ + 1] /\ tail' = Append(tail, e)
          /\ UNCHANGED layout /\ e \in E /\ e.epoch = epoch /\ e.value = bounds.layouts + 1
      BY <1>1, <2>1, <3>1 DEF LayoutUpdate, durable, E
    <3>. HIDE DEF e
    <3>3. /\ bounds'.layouts = bounds.layouts + 1
          /\ bounds' \in [resets : 0..MaxResets, layouts : 0..MaxLayout,
                          faults : 0..MaxFaults, crashes : 0..MaxCrashes]
      <4>1. bounds.layouts + 1 \in 0..MaxLayout
        BY <3>1
      <4>. QED  BY <1>1, <3>2, <4>1
    <3>4. past.floor <= bounds.layouts /\ reset.mark <= bounds.layouts
      BY <1>1 DEF LayoutOK
    <3>5. e.epoch <= epoch /\ e.value > past.floor /\ e.value > reset.mark
      <4>1. bounds.layouts \in Nat
        BY <1>1
      <4>. QED  BY <1>1, <3>2, <3>4, <4>1
    <3>6. \A i \in DOMAIN tail' : Newer(tail[i])'
      <4>1. \A i \in DOMAIN tail' : tail'[i] = e \/ (i \in DOMAIN tail /\ tail'[i] = tail[i])
        BY <1>1, <3>2
      <4>. QED  BY <1>1, <1>2, <3>5, <4>1 DEF Newer
    <3>7. layout # 0 => layout > past.floor
      BY DEF IInv, ResetStays
    <3>8. tail' \in Seq(E)
      BY <1>1, <3>2
    <3>9. LayoutOK'
      <4>1. bounds.layouts \in Nat
        BY <1>1
      <4>. QED  BY <1>1, <1>2, <3>3, <3>4, <3>6, <4>1 DEF LayoutOK
    <3>. QED  BY <1>1, <3>2, <3>3, <3>7, <3>8, <3>9
  <2>2. CASE LayoutCheckpoint
    <3>1. /\ tail # <<>> /\ tail' = Tail(tail) /\ UNCHANGED bounds
          /\ layout' = layout \/ (layout' = tail[1].value /\ tail[1].epoch = epoch)
      BY <2>2 DEF LayoutCheckpoint
    <3>2. 1 \in DOMAIN tail /\ tail[1] \in E /\ tail' \in Seq(E)
      BY <1>1, <3>1, ElementOfSeq
    <3>3. \A i \in DOMAIN tail' : i + 1 \in DOMAIN tail /\ tail'[i] = tail[i + 1]
      BY <1>1, <3>1
    <3>4. \A i \in DOMAIN tail' : Newer(tail[i])'
      BY <1>1, <1>2, <3>3 DEF Newer
    <3>5. layout' \in 0..MaxLayout /\ (layout' # 0 => layout' > past.floor)
      <4>1. layout # 0 => layout > past.floor
        BY DEF IInv, ResetStays
      <4>2. tail[1].value \in 1..MaxLayout
        BY <3>2 DEF E
      <4>. QED  BY <1>1, <3>1, <3>2, <4>1, <4>2 DEF Newer
    <3>. QED  BY <1>1, <1>2, <3>1, <3>2, <3>4, <3>5 DEF LayoutOK
  <2>. QED  BY <2>1, <2>2
<1>4. TypeOK'
  BY <1>1, <1>2, <1>3 DEF TypeOK, E
<1>5. LineOK' /\ CallsOK' /\ Disjoint' /\ HeldOK' /\ RunsOK' /\ NoTurnDuringChange'
  <2>1. LineOK' /\ Disjoint' /\ HeldOK' /\ RunsOK' /\ NoTurnDuringChange'
    BY <1>2 DEF IInv, LineOK, Exclusive, OpOf, Runs, Disjoint, AtWork, HeldOK, Holders,
       HoldsProvider, Holding, Affected, RunsOK, NoTurnDuringChange
  <2>2. ASSUME NEW c \in Changes PROVE CallOK(c)'
    BY <1>2 DEF IInv, CallsOK, CallOK, SettingsOK, ThreadsOK, TakenAway, Recent, Affected,
       AtWork, Exclusive
  <2>. QED  BY <2>1, <2>2 DEF CallsOK
<1>6. ResetStays'
  BY <1>2, <1>3 DEF IInv, ResetStays
<1>. QED  BY <1>3, <1>4, <1>5, <1>6 DEF IInv

(* After a crash nobody is at work.                                         *)
LEMMA CrashKeeps ==
  ASSUME IInv, Crash
  PROVE  IInv'
<1>1. /\ TypeOK /\ chg \in [Changes -> Call] /\ [NoCall EXCEPT !.pc = "over"] \in Call
      /\ NoTurn \in Turn
  <2>1. TypeOK /\ NoTurn \in Turn
    BY SettingsAssumption DEF IInv, NoTurn, Turn, Threads
  <2>. QED  BY <2>1, CallTypes DEF Pcs, Ended
<1>2. ASSUME NEW c \in Changes
      PROVE  chg'[c] \in Call /\ chg'[c].pc \in Ended /\ chg'[c].applied = {} /\ ~chg'[c].deferred
  <2>1. CASE chg[c].pc \in Ended
    BY <1>1, <2>1 DEF Crash, IInv, CallsOK, CallOK, ThreadsOK, Ended
  <2>2. CASE chg[c].pc \notin Ended
    <3>1. chg'[c] = [NoCall EXCEPT !.pc = "over"]
      BY <2>2 DEF Crash
    <3>. QED  BY <1>1, <3>1 DEF NoCall, Ended
  <2>. QED  BY <2>1, <2>2
<1>3. \A c \in Changes : ~Exclusive(c)' /\ ~AtWork(c)' /\ ~Holding(c)'
  BY <1>2 DEF Exclusive, ExclusivePcs, AtWork, Holding, Ended
<1>4. /\ bounds' \in [resets : 0..MaxResets, layouts : 0..MaxLayout,
                      faults : 0..MaxFaults, crashes : 0..MaxCrashes]
      /\ bounds'.layouts = bounds.layouts
  <2>1. bounds \in [resets : 0..MaxResets, layouts : 0..MaxLayout,
                    faults : 0..MaxFaults, crashes : 0..MaxCrashes]
    BY <1>1 DEF TypeOK
  <2>2. bounds.crashes + 1 \in 0..MaxCrashes
    BY <2>1, SettingsAssumption DEF Crash
  <2>. QED  BY <2>1, <2>2 DEF Crash
<1>5. /\ past' \in [writer : Changes \cup {NoChange}, fresh : SUBSET Changes, floor : Nat,
                    strayed : SUBSET Providers]
      /\ past'.writer = past.writer /\ past'.fresh = past.fresh /\ past'.floor = past.floor
  <2>1. UNION {Affected(c) : c \in {d \in Changes : chg[d].pc \in {"patching", "restoring"}}}
          \subseteq Providers
    BY DEF Affected
  <2>2. past \in [writer : Changes \cup {NoChange}, fresh : SUBSET Changes, floor : Nat,
                    strayed : SUBSET Providers]
    BY <1>1 DEF TypeOK
  <2>. QED  BY <2>1, <2>2 DEF Crash
<1>6. /\ reset' = NoReset /\ NoReset.pc = "idle" /\ NoReset.mark = 0
      /\ NoReset \in [pc : {"idle", "queued", "applying"}, targets : SUBSET AllTargets, mark : 0..MaxLayout]
      /\ tail' = <<>> /\ line' = <<>> /\ epoch' = 0 /\ owner' = owner
      /\ UNCHANGED durable
  BY SettingsAssumption DEF NoReset, Crash
<1>7. TypeOK'
  <2>1. chg' \in [Changes -> Call]
    BY <1>2 DEF Crash
  <2>2. held' \in [Providers -> Nat] /\ run' \in [Sessions -> Turn]
    BY <1>1 DEF Crash
  <2>3. tail' \in Seq([value : 1..MaxLayout, epoch : Nat, owner : Nat]) /\ line' \in Seq(Ops)
    BY <1>6
  <2>. QED  BY <1>1, <1>4, <1>5, <1>6, <2>1, <2>2, <2>3 DEF TypeOK, durable, Call, Turn
<1>8. LineOK' /\ CallsOK'
  BY <1>2, <1>3, <1>6 DEF LineOK, CallsOK, CallOK, SettingsOK, ThreadsOK, Recent, Ended
<1>9. Disjoint'
  BY <1>3 DEF Disjoint
<1>10. HeldOK'
  <2>1. \A p \in Providers : Holders(p)' = {}
    BY <1>3 DEF Holders, HoldsProvider
  <2>. QED  BY <2>1, FS_EmptySet DEF HeldOK, Crash
<1>11. RunsOK' /\ NoTurnDuringChange'
  BY <1>3, <1>6 DEF RunsOK, NoTurnDuringChange, Crash, NoTurn
<1>12. LayoutOK'
  <2>1. past.floor <= bounds.layouts /\ bounds.layouts \in Nat /\ DOMAIN tail' = {}
    BY <1>1, <1>6 DEF IInv, LayoutOK, TypeOK
  <2>. QED  BY <1>4, <1>5, <1>6, <2>1 DEF LayoutOK
<1>13. ResetStays'
  BY <1>5, <1>6 DEF IInv, ResetStays, durable
<1>. QED  BY <1>7, <1>8, <1>9, <1>10, <1>11, <1>12, <1>13 DEF IInv

-----------------------------------------------------------------------------
(* The invariant and what follows from it.                                  *)

(* The initial state.                                                       *)
LEMMA InitOK == Init => IInv
<1>. SUFFICES ASSUME Init PROVE IInv
  OBVIOUS
<1>1. Unsaved \in Saved /\ NoCall \in Call /\ NoTurn \in Turn
  <2>1. Unsaved \in Saved
    BY SettingsAssumption DEF Unsaved, Saved
  <2>. QED  BY <2>1, SettingsAssumption DEF NoCall, Call, Pcs, Ended, Threads, Saved, NoTurn, Turn
<1>2. TypeOK
  <2>1. settings \in [Providers -> Keys] /\ layout \in 0..MaxLayout /\ live \in SUBSET Sessions
        /\ thread \in [Sessions -> Threads] /\ line \in Seq(Ops)
    BY SettingsAssumption DEF Init, Unsaved, Threads
  <2>2. chg \in [Changes -> Call] /\ held \in [Providers -> Nat] /\ epoch \in Nat /\ owner \in Nat
    BY <1>1 DEF Init
  <2>3. /\ reset \in [pc : {"idle", "queued", "applying"}, targets : SUBSET AllTargets, mark : 0..MaxLayout]
        /\ tail \in Seq([value : 1..MaxLayout, epoch : Nat, owner : Nat])
    BY SettingsAssumption DEF Init, NoReset
  <2>4. run \in [Sessions -> Turn]
    BY <1>1 DEF Init
  <2>5. /\ bounds \in [resets : 0..MaxResets, layouts : 0..MaxLayout,
                       faults : 0..MaxFaults, crashes : 0..MaxCrashes]
        /\ past \in [writer : Changes \cup {NoChange}, fresh : SUBSET Changes, floor : Nat,
                     strayed : SUBSET Providers]
    BY SettingsAssumption DEF Init
  <2>. QED  BY <2>1, <2>2, <2>3, <2>4, <2>5 DEF TypeOK, Call, Turn
<1>3. \A c \in Changes : /\ chg[c].pc = "idle" /\ chg[c].applied = {} /\ ~chg[c].deferred
                         /\ ~Exclusive(c) /\ ~AtWork(c) /\ ~Holding(c)
  BY DEF Init, NoCall, Exclusive, ExclusivePcs, AtWork, Holding
<1>4. LineOK /\ CallsOK /\ Disjoint
  <2>1. reset.pc = "idle"
    BY DEF Init, NoReset
  <2>. QED  BY <1>3, <2>1 DEF LineOK, CallsOK, CallOK, SettingsOK, ThreadsOK, Recent, Disjoint
<1>5. HeldOK
  <2>1. \A p \in Providers : Holders(p) = {}
    BY <1>3 DEF Holders, HoldsProvider
  <2>. QED  BY <2>1, FS_EmptySet DEF HeldOK, Init
<1>6. RunsOK /\ NoTurnDuringChange
  BY <1>3 DEF RunsOK, NoTurnDuringChange, Init, NoTurn, NoReset
<1>7. LayoutOK /\ ResetStays
  BY DEF LayoutOK, ResetStays, Init, NoReset
<1>. QED  BY <1>2, <1>4, <1>5, <1>6, <1>7 DEF IInv

(* Every step keeps the invariant.                                          *)
LEMMA StepKeeps == IInv /\ [Next]_vars => IInv'
<1>1. ASSUME IInv, UNCHANGED vars PROVE IInv'
  <2>1. TypeOK' /\ LineOK' /\ Disjoint' /\ HeldOK' /\ RunsOK' /\ LayoutOK'
    BY <1>1 DEF IInv, vars, durable, TypeOK, LineOK, Exclusive, OpOf, Runs, Disjoint, AtWork,
       HeldOK, Holders, HoldsProvider, Holding, Affected, RunsOK, LayoutOK, Newer
  <2>2. ASSUME NEW c \in Changes PROVE CallOK(c)'
    BY <1>1 DEF IInv, vars, durable, CallsOK, CallOK, SettingsOK, ThreadsOK, TakenAway, Recent,
       Affected, AtWork, Exclusive
  <2>3. NoTurnDuringChange' /\ ResetStays'
    BY <1>1 DEF IInv, vars, durable, NoTurnDuringChange, AtWork, Affected, ResetStays
  <2>. QED  BY <2>1, <2>2, <2>3 DEF IInv, CallsOK
<1>2. ASSUME IInv, Next PROVE IInv'
  BY <1>2, ChangeKeeps, ResetKeeps, LayoutKeeps, TurnsKeep, CrashKeeps DEF Next
<1>. QED  BY <1>1, <1>2

(* The inductive invariant, in every behaviour.                             *)
THEOREM SettingsInvariant == Spec => []IInv
<1>. QED  BY InitOK, StepKeeps, PTL DEF Spec

(* The types, in every behaviour.                                           *)
THEOREM SettingsTypes == Spec => []TypeOK
<1>1. IInv => TypeOK
  BY DEF IInv
<1>. QED  BY SettingsInvariant, <1>1, PTL

(* No turn of a provider is admitted or runs while any change of its        *)
(* credentials is at work, however many changes overlap.                    *)
THEOREM ChangeExcludesTurns == Spec => []NoTurnDuringChange
<1>1. IInv => NoTurnDuringChange
  BY DEF IInv
<1>. QED  BY SettingsInvariant, <1>1, PTL

(* Neither an old rollback nor an old checkpoint survives a reset.          *)
THEOREM ResetsStay == Spec => []ResetStays
<1>1. IInv => ResetStays
  BY DEF IInv
<1>. QED  BY SettingsInvariant, <1>1, PTL

(* Only the last step of a rollback reports that all is undone.             *)
LEMMA OnlyRollbacksRestore ==
  ASSUME IInv, Next, NEW c \in Changes, chg[c].pc # "restored", chg'[c].pc = "restored"
  PROVE  RestoreEnds(c)
<1>1. chg \in [Changes -> Call]
  BY CallTypes DEF IInv
<1>2. ASSUME NEW d \in Changes, ChangeAsks(d) \/ ChangeStep(d), ~RestoreEnds(d)
      PROVE  chg'[c].pc # "restored"
  <2>1. CASE ChangeAsks(d) \/ ChangeBegins(d) \/ ChangeIssuesSave(d) \/ ChangeSaves(d)
    BY <1>1, <2>1 DEF ChangeAsks, ChangeBegins, ChangeIssuesSave, ChangeSaves, Goes, Ends, NoCall, Call
  <2>2. CASE ChangeSaveFails(d) \/ ChangeFailsLate(d) \/ ChangeReturns(d)
    BY <1>1, <2>2 DEF ChangeSaveFails, ChangeFailsLate, ChangeReturns, Ends, NoCall, Call
  <2>3. \A pc : Goes(d, pc) \/ Ends(d, pc) => chg'[c].pc \in {chg[c].pc, pc}
    BY <1>1 DEF Goes, Ends, NoCall, Call
  <2>4. CASE \/ CleanupEnds(d) \/ CleanupFails(d) \/ RollbackCanceled(d) \/ RestoreWrites(d)
             \/ RestoreFails(d)
    BY <2>3, <2>4 DEF CleanupEnds, CleanupFails, RollbackCanceled, RestoreWrites, RestoreFails,
       RestoreOver
  <2>5. CASE RollbackBegins(d)
    BY <1>1, <2>5 DEF RollbackBegins, Call
  <2>6. ASSUME NEW s \in Sessions, ChangePatches(d, s) PROVE chg'[c].pc # "restored"
    BY <1>1, <2>6 DEF ChangePatches, Call
  <2>7. ASSUME NEW s \in Sessions, Cleans(d, s) \/ RestoresThread(d, s) PROVE chg'[c].pc # "restored"
    BY <1>1, <2>7 DEF Cleans, RestoresThread, Call
  <2>. QED  BY <1>2, <2>1, <2>2, <2>4, <2>5, <2>6, <2>7 DEF ChangeStep
<1>3. ASSUME NEW d \in Changes, RestoreEnds(d) PROVE d = c
  BY <1>1, <1>3 DEF RestoreEnds, RestoreOver, Ends
<1>4. ResetAsks \/ ResetStep \/ LayoutUpdate \/ LayoutCheckpoint => UNCHANGED chg
  BY DEF ResetAsks, ResetStep, ResetBegins, ResetRecreates, ResetClearsSessions,
     ResetClearsSettings, ResetEnds, ResetFails, LayoutUpdate, LayoutCheckpoint
<1>5. ASSUME NEW s \in Sessions, TurnAsks(s) \/ TurnStep(s) PROVE UNCHANGED chg
  BY <1>5 DEF TurnAsks, TurnStep, TurnReserves, TurnReadsProvider, TurnIsChecked,
     TurnCallsProvider, TurnEnds
<1>6. Crash => chg'[c].pc # "restored"
  BY DEF Crash, NoCall
<1>. QED  BY <1>2, <1>3, <1>4, <1>5, <1>6 DEF Next

(* A change that reports its failure as undone has undone all of it.        *)
THEOREM RollbacksAreComplete == Spec => RestoredExactly
<1>. DEFINE A == \A c \in Changes :
                   chg[c].pc # "restored" /\ chg'[c].pc = "restored" =>
                     /\ settings' = chg[c].prev
                     /\ \A s \in chg[c].applied \cap live : thread'[s] = chg[c].old[s]
<1>1. ASSUME IInv, Next PROVE A
  <2>. SUFFICES ASSUME NEW c \in Changes, chg[c].pc # "restored", chg'[c].pc = "restored"
                PROVE  /\ settings' = chg[c].prev
                       /\ \A s \in chg[c].applied \cap live : thread'[s] = chg[c].old[s]
    OBVIOUS
  <2>1. RestoreEnds(c)
    BY <1>1, OnlyRollbacksRestore
  <2>2. CallOK(c) /\ AtWork(c)
    BY <1>1, <2>1, Known DEF RestoreEnds, AtWork, ExclusivePcs
  <2>. QED  BY <2>1, <2>2 DEF RestoreEnds, durable, CallOK, SettingsOK, ThreadsOK, TakenAway
<1>2. IInv /\ [Next]_vars => [A]_vars
  BY <1>1
<1>. QED  BY SettingsInvariant, <1>2, PTL DEF Spec, RestoredExactly

-----------------------------------------------------------------------------
(* No turn resumes a thread that was made under other credentials, while at *)
(* most one storage call or cleanup has failed.  With two the property may  *)
(* fail: of three changes that overlap, k0 to k1, back to k0 and to k1      *)
(* again, the first and the second are undone in this order; each rollback  *)
(* finds what it had saved, and the second stores k1 beside the thread of   *)
(* k0 that the first has put back.                                          *)

Calm(s) == ProviderOf[s] \notin past.strayed

(* A change is undone: for that, something must have failed.                *)
Rolling(c) == chg[c].pc \in {"rollback", "restoring", "reversing"}
OneRollback ==
  /\ bounds.faults = 0 => \A c \in Changes : ~Rolling(c)
  /\ \A c, d \in Changes : Rolling(c) /\ Rolling(d) => c = d

(* What a change has listed.                                                *)
Listed(c) ==
  chg[c].pc = "reading" =>
    /\ chg[c].todo \subseteq live
    /\ \A s \in Sessions : s \notin chg[c].todo => chg[c].old[s] = NoThread

(* The thread of a Session is of the key of its provider, except between    *)
(* the save of a change and its last patch.                                 *)
Matching(s) == thread[s] \in {NoThread, settings[ProviderOf[s]]}
Between(c, s) == chg[c].pc \in {"patching", "restoring"} /\ ProviderOf[s] \in Affected(c)
Keyed(s) == Matching(s) \/ \E c \in Changes : Between(c, s)

(* What a change knows of the threads it is to take away, or has taken.     *)
Replaces(c, s) ==
  /\ chg[c].pc \in {"saving", "patching"} =>
       thread[s] = IF s \in chg[c].todo THEN chg[c].old[s] ELSE NoThread
  /\ chg[c].pc \in {"saving", "patching", "restoring"} =>
       thread[s] \in {NoThread, chg[c].prev[ProviderOf[s]]}
  /\ (chg[c].pc = "cleanup" /\ bounds.faults = 0) \/ chg[c].pc = "rollback" => thread[s] = NoThread
  /\ AtWork(c) /\ s \in chg[c].applied => chg[c].old[s] = chg[c].prev[ProviderOf[s]]

(* A run in progress uses the key that is stored.                           *)
RunKeyed(s) ==
  run[s].phase = "provider" =>
    run[s].key = settings[ProviderOf[s]] /\ run[s].thread \in {NoThread, run[s].key}

FreshThreads ==
  /\ OneRollback
  /\ \A c \in Changes : Listed(c)
  /\ \A s \in Sessions : s \notin live => thread[s] = NoThread
  /\ \A s \in Sessions : Calm(s) =>
       /\ Keyed(s) /\ RunKeyed(s)
       /\ \A c \in Changes : ProviderOf[s] \in Affected(c) => Replaces(c, s)

(* A step of one change: what it may do to the threads.                     *)
Refreshes(c) ==
  /\ \A d \in Changes : d # c => chg'[d] = chg[d]
  /\ UNCHANGED <<live, run>>
  /\ past.strayed \subseteq past'.strayed
  /\ UNCHANGED bounds \/ (bounds.faults = 0 /\ bounds'.faults = 1)
  /\ Exclusive(c) \/ UNCHANGED <<settings, thread>>
  /\ \A s \in Sessions :
       \/ thread'[s] \in {thread[s], NoThread}
       \/ Rolling(c) /\ ProviderOf[s] \in Affected(c) /\ s \in live
  /\ Rolling(c)' => Rolling(c) \/ (bounds.faults = 0 /\ bounds'.faults = 1)
  /\ Listed(c)'
  /\ \A s \in Sessions : Calm(s)' =>
       /\ settings'[ProviderOf[s]] = settings[ProviderOf[s]]
            \/ (AtWork(c) /\ ProviderOf[s] \in Affected(c))
       /\ Matching(s) \/ Between(c, s) => (Matching(s) \/ Between(c, s))'
       /\ ProviderOf[s] \in Affected(c)' => Replaces(c, s)'

(* Failures are counted one by one.                                         *)
LEMMA OneFault ==
  ASSUME TypeOK, Fault, bounds'.faults <= 1
  PROVE  bounds.faults = 0 /\ bounds'.faults = 1
<1>1. bounds \in [resets : 0..MaxResets, layouts : 0..MaxLayout,
                  faults : 0..MaxFaults, crashes : 0..MaxCrashes]
  BY DEF TypeOK
<1>2. bounds'.faults = bounds.faults + 1
  BY <1>1 DEF Fault
<1>. QED  BY <1>1, <1>2, SettingsAssumption

(* Such a step leaves the others what they know.                            *)
LEMMA RefreshesKeeps ==
  ASSUME IInv, FreshThreads, NEW c \in Changes, Refreshes(c)
  PROVE  FreshThreads'
<1>1. /\ TypeOK
      /\ \A d \in Changes : d # c =>
           /\ chg'[d] = chg[d] /\ Affected(d)' = Affected(d) /\ (AtWork(d)' <=> AtWork(d))
           /\ (Rolling(d)' <=> Rolling(d))
           /\ \A s \in Sessions : Between(d, s)' <=> Between(d, s)
  BY DEF Refreshes, Affected, AtWork, Rolling, Between, IInv
<1>2. OneRollback'
  <2>1. bounds'.faults = 0 => bounds.faults = 0
    BY DEF Refreshes
  <2>2. \A d \in Changes : Rolling(d)' => Rolling(d) \/ (d = c /\ bounds.faults = 0)
    BY <1>1 DEF Refreshes
  <2>3. bounds'.faults = 0 => \A d \in Changes : ~Rolling(d)'
    <3>1. bounds'.faults = 0 => UNCHANGED bounds
      BY DEF Refreshes
    <3>2. bounds'.faults = 0 => ~Rolling(c)'
      BY DEF Refreshes, FreshThreads, OneRollback
    <3>. QED  BY <2>1, <2>2, <3>2 DEF FreshThreads, OneRollback
  <2>4. \A d, e \in Changes : Rolling(d)' /\ Rolling(e)' => d = e
    BY <2>2 DEF FreshThreads, OneRollback
  <2>. QED  BY <2>3, <2>4 DEF OneRollback
<1>3. \A d \in Changes : Listed(d)'
  BY <1>1 DEF Refreshes, FreshThreads, Listed
<1>4. \A s \in Sessions : s \notin live' => thread'[s] = NoThread
  BY DEF Refreshes, FreshThreads
<1>5. ASSUME NEW s \in Sessions, Calm(s)'
      PROVE  /\ Keyed(s)' /\ RunKeyed(s)'
             /\ \A d \in Changes : ProviderOf[s] \in Affected(d)' => Replaces(d, s)'
  <2>1. /\ Calm(s) /\ Keyed(s) /\ RunKeyed(s)
        /\ \A d \in Changes : ProviderOf[s] \in Affected(d) => Replaces(d, s)
    BY <1>5 DEF Refreshes, Calm, FreshThreads
  <2>2. Keyed(s)'
    <3>1. CASE Matching(s) \/ Between(c, s)
      BY <1>5, <3>1 DEF Refreshes, Keyed
    <3>2. CASE \E d \in Changes : d # c /\ Between(d, s)
      BY <1>1, <3>2 DEF Keyed
    <3>. QED  BY <2>1, <3>1, <3>2 DEF Keyed
  <2>3. RunKeyed(s)'
    <3>. SUFFICES ASSUME run[s].phase = "provider"
                  PROVE  settings'[ProviderOf[s]] = settings[ProviderOf[s]]
      BY <2>1 DEF RunKeyed, Refreshes
    <3>. QED  BY <1>5 DEF Refreshes, IInv, NoTurnDuringChange
  <2>4. ASSUME NEW d \in Changes, d # c, ProviderOf[s] \in Affected(d) PROVE Replaces(d, s)'
    <3>1. Replaces(d, s) /\ chg'[d] = chg[d] /\ (AtWork(d)' <=> AtWork(d))
      BY <1>1, <2>1, <2>4
    <3>2. Exclusive(d) => ~Exclusive(c)
      BY <2>4, OneExclusive
    <3>3. bounds'.faults = 0 => bounds.faults = 0
      BY DEF Refreshes
    <3>4. CASE Exclusive(d)
      BY <3>1, <3>2, <3>3, <3>4 DEF Refreshes, Replaces, Exclusive, ExclusivePcs
    <3>5. CASE ~Exclusive(d)
      <4>1. chg[d].pc \notin {"saving", "patching", "restoring"}
        BY <3>5 DEF Exclusive, ExclusivePcs
      <4>2. ASSUME (chg[d].pc = "cleanup" /\ bounds'.faults = 0) \/ chg[d].pc = "rollback"
            PROVE  thread'[s] = NoThread
        <5>1. thread[s] = NoThread
          BY <3>1, <3>3, <4>2 DEF Replaces
        <5>2. ~Rolling(c)
          <6>1. CASE chg[d].pc = "cleanup" /\ bounds'.faults = 0
            BY <3>3, <6>1 DEF FreshThreads, OneRollback
          <6>2. CASE chg[d].pc = "rollback"
            BY <2>4, <6>2 DEF FreshThreads, OneRollback, Rolling
          <6>. QED  BY <4>2, <6>1, <6>2
        <5>. QED  BY <5>1, <5>2 DEF Refreshes
      <4>. QED  BY <3>1, <4>1, <4>2 DEF Replaces
    <3>. QED  BY <3>4, <3>5
  <2>5. \A d \in Changes : ProviderOf[s] \in Affected(d)' => Replaces(d, s)'
    BY <1>1, <1>5, <2>4 DEF Refreshes
  <2>. QED  BY <2>2, <2>3, <2>5
<1>. QED  BY <1>2, <1>3, <1>4, <1>5 DEF FreshThreads

(* It asks, or ends.                                                        *)
LEMMA EndsFresh ==
  ASSUME IInv, FreshThreads, NEW c \in Changes, NEW r \in Call, chg' = [chg EXCEPT ![c] = r],
         r.pc \in Ended \cup {"queued"}, chg[c].pc \notin {"patching", "restoring"},
         UNCHANGED <<live, run, thread>>, past.strayed \subseteq past'.strayed,
         UNCHANGED bounds \/ (bounds.faults = 0 /\ bounds'.faults = 1),
         Exclusive(c) \/ UNCHANGED settings,
         \A s \in Sessions : Calm(s)' => settings'[ProviderOf[s]] = settings[ProviderOf[s]]
  PROVE  FreshThreads'
<1>1. /\ chg'[c] = r /\ \A d \in Changes : d # c => chg'[d] = chg[d]
  BY Sets DEF IInv
<1>2. ~Rolling(c)' /\ Listed(c)' /\ \A s \in Sessions : Replaces(c, s)' /\ ~Between(c, s)
  BY <1>1 DEF Rolling, Listed, Replaces, AtWork, ExclusivePcs, Ended, Between
<1>3. \A s \in Sessions : Calm(s)' /\ Matching(s) => Matching(s)'
  BY DEF Matching
<1>. QED  BY <1>1, <1>2, <1>3, RefreshesKeeps DEF Refreshes

(* It lists the threads.                                                    *)
LEMMA BeginsFresh ==
  ASSUME IInv, FreshThreads, NEW c \in Changes, ChangeBegins(c)
  PROVE  FreshThreads'
<1>. DEFINE affected == {p \in Providers : settings[p] # chg[c].next[p]}
            old == [s \in Sessions |-> IF s \in Users(affected) THEN thread[s] ELSE NoThread]
            todo == {s \in Users(affected) : thread[s] # NoThread}
            r == [chg[c] EXCEPT !.pc = "reading", !.prev = settings, !.epoch = epoch,
                                !.owner = owner, !.old = old, !.todo = todo]
<1>1. TypeOK /\ chg[c] \in Call /\ [NoCall EXCEPT !.pc = "over"] \in Call
  BY Known, CallTypes DEF Pcs, Ended
<1>2. UNCHANGED <<settings, thread, live, run, bounds>> /\ chg[c].pc = "queued"
  BY DEF ChangeBegins, durable
<1>3. CASE Ends(c, "over") /\ UNCHANGED past
  <2>1. [NoCall EXCEPT !.pc = "over"].pc = "over"
    BY DEF NoCall
  <2>. QED  BY <1>1, <1>2, <1>3, <2>1, EndsFresh DEF Ends, Ended
<1>4. CASE chg' = [chg EXCEPT ![c] = r] /\ past' = [past EXCEPT !.fresh = @ \cup {c}]
  <2>1. r \in Call
    <3>1. old \in [Sessions -> Threads] /\ todo \subseteq Sessions
      BY <1>1 DEF TypeOK, Threads, Users
    <3>. QED  BY <1>1, <3>1 DEF Call, TypeOK, Pcs
  <2>2. /\ chg'[c] = r /\ r.pc = "reading" /\ r.todo = todo /\ r.old = old
        /\ \A d \in Changes : d # c => chg'[d] = chg[d]
    BY <1>1, <1>4, <2>1, Sets DEF Call
  <2>3. todo \subseteq live /\ \A s \in Sessions : s \notin todo => old[s] = NoThread
    BY DEF Users
  <2>. HIDE DEF r, todo, old
  <2>4. past'.strayed = past.strayed
    BY <1>1, <1>4 DEF TypeOK
  <2>5. ~Rolling(c)' /\ Listed(c)' /\ \A s \in Sessions : Replaces(c, s)' /\ ~Between(c, s)
    BY <1>2, <2>2, <2>3 DEF Rolling, Listed, Replaces, AtWork, ExclusivePcs, Between
  <2>6. \A s \in Sessions : Matching(s) => Matching(s)'
    BY <1>2 DEF Matching
  <2>. QED  BY <1>2, <2>2, <2>4, <2>5, <2>6, RefreshesKeeps DEF Refreshes
<1>. QED  BY <1>3, <1>4 DEF ChangeBegins

(* What it listed is still what is stored, except where it strayed.         *)
LEMMA IssuesSaveFresh ==
  ASSUME IInv, FreshThreads, NEW c \in Changes, ChangeIssuesSave(c)
  PROVE  FreshThreads'
<1>. DEFINE r == [chg[c] EXCEPT !.pc = "saving"]
            users == Users(Affected(c))
<1>1. /\ TypeOK /\ chg[c] \in Call /\ CallOK(c) /\ chg[c].pc = "reading" /\ Exclusive(c)
      /\ [NoCall EXCEPT !.pc = "over"] \in Call
  BY Known, CallTypes DEF ChangeIssuesSave, Exclusive, Pcs, Ended
<1>2. UNCHANGED <<settings, thread, live, run, bounds>>
  BY DEF ChangeIssuesSave, durable
<1>3. CASE Ends(c, "over") /\ UNCHANGED past
  <2>1. [NoCall EXCEPT !.pc = "over"].pc = "over"
    BY DEF NoCall
  <2>. QED  BY <1>1, <1>2, <1>3, <2>1, EndsFresh DEF Ends, Ended
<1>4. CASE /\ Goes(c, "saving")
           /\ past' = [past EXCEPT !.strayed = @ \cup
                {ProviderOf[s] : s \in {t \in users : thread[t] # chg[c].old[t]}}]
  <2>1. r \in Call /\ chg' = [chg EXCEPT ![c] = r] /\ r.pc = "saving"
        /\ r.prev = chg[c].prev /\ r.next = chg[c].next /\ r.applied = chg[c].applied
        /\ r.todo = chg[c].todo /\ r.old = chg[c].old
    BY <1>1, <1>4 DEF Call, Pcs, ExclusivePcs, Goes
  <2>. HIDE DEF r
  <2>2. chg'[c] = r /\ \A d \in Changes : d # c => chg'[d] = chg[d]
    BY <1>1, <2>1, Sets
  <2>3. past'.strayed = past.strayed \cup
           {ProviderOf[s] : s \in {t \in users : thread[t] # chg[c].old[t]}}
    BY <1>1, <1>4 DEF TypeOK
  <2>4. ~Rolling(c)' /\ Listed(c)' /\ Affected(c)' = Affected(c)
    BY <2>1, <2>2 DEF Rolling, Listed, Affected
  <2>5. chg[c].applied = {} /\ settings = chg[c].prev
    BY <1>1 DEF CallOK, ThreadsOK, SettingsOK
  <2>6. ASSUME NEW s \in Sessions, Calm(s)', ProviderOf[s] \in Affected(c) PROVE Replaces(c, s)'
    <3>1. thread[s] = IF s \in chg[c].todo THEN chg[c].old[s] ELSE NoThread
      <4>1. s \in live => thread[s] = chg[c].old[s]
        BY <2>3, <2>6 DEF Users, Calm
      <4>2. s \notin live => thread[s] = NoThread /\ s \notin chg[c].todo
        BY <1>1 DEF FreshThreads, Listed
      <4>3. s \notin chg[c].todo => chg[c].old[s] = NoThread
        BY <1>1 DEF FreshThreads, Listed
      <4>. QED  BY <4>1, <4>2, <4>3
    <3>2. thread[s] \in {NoThread, chg[c].prev[ProviderOf[s]]}
      <4>1. Calm(s)
        BY <2>3, <2>6 DEF Calm
      <4>2. \A d \in Changes : ~Between(d, s)
        BY <1>1, OneExclusive DEF Between, Exclusive, ExclusivePcs
      <4>. QED  BY <2>5, <4>1, <4>2 DEF FreshThreads, Keyed, Matching
    <3>. QED  BY <1>2, <2>1, <2>2, <2>5, <3>1, <3>2 DEF Replaces
  <2>7. \A s \in Sessions : ~Between(c, s) /\ (Matching(s) => Matching(s)')
    BY <1>1, <1>2 DEF Between, Matching
  <2>. QED  BY <1>1, <1>2, <2>2, <2>3, <2>4, <2>6, <2>7, RefreshesKeeps DEF Refreshes
<1>. QED  BY <1>3, <1>4 DEF ChangeIssuesSave

(* Its settings are stored before the threads are taken away.               *)
LEMMA SavesFresh ==
  ASSUME IInv, FreshThreads, NEW c \in Changes, ChangeSaves(c)
  PROVE  FreshThreads'
<1>. DEFINE r == [chg[c] EXCEPT !.pc = "patching", !.saved = [keys |-> chg[c].next, layout |-> layout]]
<1>1. TypeOK /\ chg[c] \in Call /\ CallOK(c) /\ chg[c].pc = "saving" /\ Exclusive(c) /\ AtWork(c)
  BY Known DEF ChangeSaves, Exclusive, ExclusivePcs, AtWork
<1>2. /\ r \in Call /\ r.pc = "patching" /\ r.prev = chg[c].prev /\ r.next = chg[c].next
      /\ r.applied = chg[c].applied /\ r.todo = chg[c].todo /\ r.old = chg[c].old
  BY <1>1 DEF Call, Pcs, ExclusivePcs, TypeOK, Saved
<1>3. chg' = [chg EXCEPT ![c] = r]
  BY <1>1 DEF ChangeSaves, Call
<1>. HIDE DEF r
<1>4. chg'[c] = r /\ \A d \in Changes : d # c => chg'[d] = chg[d]
  BY <1>1, <1>2, <1>3, Sets
<1>5. /\ UNCHANGED <<thread, live, run, bounds>> /\ past'.strayed = past.strayed
      /\ settings' = chg[c].next /\ settings = chg[c].prev
  BY <1>1 DEF ChangeSaves, TypeOK, CallOK, SettingsOK
<1>6. ~Rolling(c)' /\ Listed(c)' /\ Affected(c)' = Affected(c)
  BY <1>2, <1>4 DEF Rolling, Listed, Affected
<1>7. ASSUME NEW s \in Sessions, Calm(s)'
      PROVE  /\ settings'[ProviderOf[s]] = settings[ProviderOf[s]] \/ ProviderOf[s] \in Affected(c)
             /\ Matching(s) => (Matching(s) \/ Between(c, s))'
             /\ ~Between(c, s)
             /\ ProviderOf[s] \in Affected(c) => Replaces(c, s)'
  <2>1. settings'[ProviderOf[s]] = settings[ProviderOf[s]] \/ ProviderOf[s] \in Affected(c)
    BY <1>5, SettingsAssumption DEF Affected
  <2>2. Matching(s) => (Matching(s) \/ Between(c, s))'
    BY <1>2, <1>4, <1>5, <1>6, <2>1 DEF Matching, Between
  <2>3. ProviderOf[s] \in Affected(c) => Replaces(c, s)'
    <3>. SUFFICES ASSUME ProviderOf[s] \in Affected(c) PROVE Replaces(c, s)'
      OBVIOUS
    <3>1. Replaces(c, s)
      BY <1>5, <1>7 DEF FreshThreads, Calm
    <3>. QED  BY <1>1, <1>2, <1>4, <1>5, <3>1 DEF Replaces
  <2>. QED  BY <1>1, <2>1, <2>2, <2>3 DEF Between
<1>. QED  BY <1>1, <1>4, <1>5, <1>6, <1>7, RefreshesKeeps DEF Refreshes

(* A thread is taken away; what was taken away was made under the old key.  *)
LEMMA PatchesFresh ==
  ASSUME IInv, FreshThreads, NEW c \in Changes, NEW s \in Sessions, ChangePatches(c, s)
  PROVE  FreshThreads'
<1>. DEFINE matches == s \in live /\ thread[s] = chg[c].old[s]
            r == [chg[c] EXCEPT !.todo = @ \ {s}, !.applied = IF matches THEN @ \cup {s} ELSE @]
<1>1. TypeOK /\ chg[c] \in Call /\ CallOK(c) /\ chg[c].pc = "patching" /\ Exclusive(c)
  BY Known DEF ChangePatches, Exclusive, ExclusivePcs
<1>2. /\ AtWork(c) /\ s \in chg[c].todo
      /\ ProviderOf[s] \in Affected(c) /\ chg[c].old[s] # NoThread
  BY <1>1 DEF CallOK, ThreadsOK, AtWork, ExclusivePcs, ChangePatches
<1>3. /\ r \in Call /\ r.pc = "patching" /\ r.prev = chg[c].prev /\ r.next = chg[c].next
      /\ r.applied = (IF matches THEN chg[c].applied \cup {s} ELSE chg[c].applied)
      /\ r.todo = chg[c].todo \ {s} /\ r.old = chg[c].old
  BY <1>1 DEF Call
<1>4. chg' = [chg EXCEPT ![c] = r]
  BY <1>1 DEF ChangePatches, Call
<1>5. /\ thread \in [Sessions -> Threads]
      /\ thread' = IF matches THEN [thread EXCEPT ![s] = NoThread] ELSE thread
      /\ UNCHANGED <<settings, live, run, bounds, past>>
  BY <1>1 DEF ChangePatches, TypeOK
<1>. HIDE DEF r
<1>6. chg'[c] = r /\ \A d \in Changes : d # c => chg'[d] = chg[d]
  BY <1>1, <1>3, <1>4, Sets
<1>7. ~Rolling(c)' /\ Listed(c)' /\ Affected(c)' = Affected(c)
  BY <1>3, <1>6 DEF Rolling, Listed, Affected
<1>8. \A t \in Sessions : thread'[t] \in {thread[t], NoThread}
  BY <1>5
<1>9. ASSUME NEW t \in Sessions, Calm(t)
      PROVE  /\ Matching(t) \/ Between(c, t) => (Matching(t) \/ Between(c, t))'
             /\ ProviderOf[t] \in Affected(c) => Replaces(c, t)'
  <2>1. Matching(t) \/ Between(c, t) => (Matching(t) \/ Between(c, t))'
    BY <1>1, <1>3, <1>5, <1>6, <1>7, <1>8 DEF Matching, Between
  <2>2. ASSUME ProviderOf[t] \in Affected(c) PROVE Replaces(c, t)'
    <3>1. Replaces(c, t)
      BY <1>9, <2>2 DEF FreshThreads
    <3>2. CASE t # s
      BY <1>1, <1>2, <1>3, <1>5, <1>6, <3>1, <3>2 DEF Replaces, AtWork, ExclusivePcs
    <3>3. CASE t = s
      <4>1. thread[s] = chg[c].old[s] /\ chg[c].old[s] = chg[c].prev[ProviderOf[s]]
        BY <1>1, <1>2, <3>1, <3>3 DEF Replaces
      <4>2. matches
        BY <1>2, <4>1 DEF FreshThreads
      <4>3. thread'[s] = NoThread
        BY <1>5, <4>2
      <4>. QED  BY <1>3, <1>6, <3>3, <4>1, <4>3 DEF Replaces
    <3>. QED  BY <3>2, <3>3
  <2>. QED  BY <2>1, <2>2
<1>. QED  BY <1>1, <1>5, <1>6, <1>7, <1>8, <1>9, RefreshesKeeps DEF Refreshes, Calm

(* The first failure: the change is undone at once.                         *)
LEMMA FailsLateFresh ==
  ASSUME IInv, FreshThreads, NEW c \in Changes, ChangeFailsLate(c), bounds'.faults <= 1
  PROVE  FreshThreads'
<1>. DEFINE r == [chg[c] EXCEPT !.pc = "restoring", !.todo = chg[c].applied]
<1>1. TypeOK /\ chg[c] \in Call /\ CallOK(c) /\ chg[c].pc = "patching" /\ Exclusive(c) /\ AtWork(c)
  BY Known DEF ChangeFailsLate, Exclusive, ExclusivePcs, AtWork
<1>2. /\ r \in Call /\ r.pc = "restoring" /\ r.prev = chg[c].prev /\ r.next = chg[c].next
      /\ r.applied = chg[c].applied /\ r.old = chg[c].old
  BY <1>1 DEF Call, Pcs, ExclusivePcs
<1>3. chg' = [chg EXCEPT ![c] = r]
  BY <1>1 DEF ChangeFailsLate, Call
<1>. HIDE DEF r
<1>4. chg'[c] = r /\ \A d \in Changes : d # c => chg'[d] = chg[d]
  BY <1>1, <1>2, <1>3, Sets
<1>5. /\ bounds.faults = 0 /\ bounds'.faults = 1
      /\ UNCHANGED <<settings, live, run, past>>
  BY <1>1, OneFault DEF ChangeFailsLate
<1>6. \A s \in Sessions : thread'[s] \in {thread[s], NoThread}
  <2>1. thread \in [Sessions -> Threads] /\ chg[c].todo \subseteq Sessions
    BY <1>1 DEF TypeOK, Call
  <2>. QED  BY <2>1 DEF ChangeFailsLate
<1>7. Listed(c)' /\ Affected(c)' = Affected(c)
  BY <1>2, <1>4 DEF Listed, Affected
<1>8. ASSUME NEW s \in Sessions, Calm(s)
      PROVE  /\ Matching(s) \/ Between(c, s) => (Matching(s) \/ Between(c, s))'
             /\ ProviderOf[s] \in Affected(c) => Replaces(c, s)'
  <2>1. Matching(s) \/ Between(c, s) => (Matching(s) \/ Between(c, s))'
    BY <1>2, <1>4, <1>5, <1>6, <1>7 DEF Matching, Between
  <2>2. ASSUME ProviderOf[s] \in Affected(c) PROVE Replaces(c, s)'
    <3>1. Replaces(c, s)
      BY <1>8, <2>2 DEF FreshThreads
    <3>. QED  BY <1>1, <1>2, <1>4, <1>6, <3>1 DEF Replaces
  <2>. QED  BY <2>1, <2>2
<1>. QED  BY <1>1, <1>4, <1>5, <1>6, <1>7, <1>8, RefreshesKeeps DEF Refreshes, Calm

(* After the last patch no thread of its providers is left.                 *)
LEMMA ReturnsFresh ==
  ASSUME IInv, FreshThreads, NEW c \in Changes, ChangeReturns(c)
  PROVE  FreshThreads'
<1>. DEFINE r == [chg[c] EXCEPT !.pc = "cleanup", !.todo = Users(Affected(c))]
<1>1. TypeOK /\ chg[c] \in Call /\ chg[c].pc = "patching" /\ chg[c].todo = {} /\ AtWork(c)
  BY Known DEF ChangeReturns, AtWork, ExclusivePcs
<1>2. /\ r \in Call /\ r.pc = "cleanup" /\ r.prev = chg[c].prev /\ r.next = chg[c].next
      /\ r.applied = chg[c].applied /\ r.old = chg[c].old
  BY <1>1 DEF Call, Pcs, Users, TypeOK
<1>3. chg' = [chg EXCEPT ![c] = r]
  BY <1>1 DEF ChangeReturns, Call
<1>. HIDE DEF r
<1>4. chg'[c] = r /\ \A d \in Changes : d # c => chg'[d] = chg[d]
  BY <1>1, <1>2, <1>3, Sets
<1>5. UNCHANGED <<settings, thread, live, run, bounds, past>>
  BY DEF ChangeReturns, durable
<1>6. ~Rolling(c)' /\ Listed(c)' /\ Affected(c)' = Affected(c)
  BY <1>2, <1>4 DEF Rolling, Listed, Affected
<1>7. ASSUME NEW s \in Sessions, Calm(s)
      PROVE  /\ Matching(s) \/ Between(c, s) => Matching(s)'
             /\ ProviderOf[s] \in Affected(c) => Replaces(c, s)'
  <2>1. ProviderOf[s] \in Affected(c) => Replaces(c, s) /\ thread[s] = NoThread
    BY <1>1, <1>7 DEF FreshThreads, Replaces
  <2>. QED  BY <1>1, <1>2, <1>4, <1>5, <2>1 DEF Matching, Between, Replaces
<1>. QED  BY <1>4, <1>5, <1>6, <1>7, RefreshesKeeps DEF Refreshes, Calm

(* Outside the lock nothing is written.                                     *)
LEMMA CleansFresh ==
  ASSUME IInv, FreshThreads, NEW c \in Changes, NEW r \in Call, chg' = [chg EXCEPT ![c] = r],
         chg[c].pc \in {"cleanup", "rollback"}, r.pc \in {"cleanup", "rollback", "restoring"},
         r.prev = chg[c].prev, r.next = chg[c].next, r.old = chg[c].old,
         r.applied = chg[c].applied,
         UNCHANGED <<settings, thread, live, run, past>>,
         \/ UNCHANGED bounds /\ (r.pc = "cleanup" <=> chg[c].pc = "cleanup")
         \/ bounds.faults = 0 /\ bounds'.faults = 1 /\ r.pc = "rollback"
  PROVE  FreshThreads'
<1>1. /\ chg'[c] = r /\ \A d \in Changes : d # c => chg'[d] = chg[d]
      /\ AtWork(c)
  BY Sets DEF IInv, AtWork
<1>2. Listed(c)' /\ Affected(c)' = Affected(c)
  BY <1>1 DEF Listed, Affected
<1>3. Rolling(c)' => Rolling(c) \/ (bounds.faults = 0 /\ bounds'.faults = 1)
  BY <1>1 DEF Rolling
<1>4. ASSUME NEW s \in Sessions, Calm(s)
      PROVE  /\ Matching(s) \/ Between(c, s) => Matching(s)'
             /\ ProviderOf[s] \in Affected(c) => Replaces(c, s)'
  <2>1. Matching(s) \/ Between(c, s) => Matching(s)'
    BY DEF Matching, Between
  <2>2. ASSUME ProviderOf[s] \in Affected(c) PROVE Replaces(c, s)'
    <3>1. Replaces(c, s)
      BY <1>4, <2>2 DEF FreshThreads
    <3>2. (chg[c].pc = "cleanup" /\ bounds.faults = 0) \/ chg[c].pc = "rollback" => thread[s] = NoThread
      BY <3>1 DEF Replaces
    <3>3. chg[c].pc = "rollback" => bounds.faults # 0
      BY DEF FreshThreads, OneRollback, Rolling
    <3>. QED  BY <1>1, <3>1, <3>2, <3>3 DEF Replaces
  <2>. QED  BY <2>1, <2>2
<1>. QED  BY <1>1, <1>2, <1>3, <1>4, RefreshesKeeps DEF Refreshes, Calm

(* A rollback that is still current finds the settings it replaces, and no  *)
(* thread of theirs: it writes the old settings, then the old threads.      *)
LEMMA RestoreWritesFresh ==
  ASSUME IInv, FreshThreads, NEW c \in Changes, RestoreWrites(c)
  PROVE  FreshThreads'
<1>. DEFINE r == [chg[c] EXCEPT !.pc = "reversing"]
<1>1. TypeOK /\ chg[c] \in Call /\ CallOK(c) /\ chg[c].pc = "restoring" /\ Exclusive(c) /\ AtWork(c)
  BY Known DEF RestoreWrites, Exclusive, ExclusivePcs, AtWork
<1>2. /\ r \in Call /\ r.pc = "reversing" /\ r.prev = chg[c].prev /\ r.next = chg[c].next
      /\ r.applied = chg[c].applied /\ r.old = chg[c].old
  BY <1>1 DEF Call, Pcs, ExclusivePcs
<1>3. chg' = [chg EXCEPT ![c] = r]
  BY <1>1 DEF RestoreWrites, Goes
<1>. HIDE DEF r
<1>4. chg'[c] = r /\ \A d \in Changes : d # c => chg'[d] = chg[d]
  BY <1>1, <1>2, <1>3, Sets
<1>5. /\ UNCHANGED <<thread, live, run, bounds>> /\ past'.strayed = past.strayed
      /\ settings' = chg[c].prev /\ settings = chg[c].next
  BY <1>1 DEF RestoreWrites, TypeOK, CallOK, SettingsOK
<1>6. Rolling(c) /\ Listed(c)' /\ Affected(c)' = Affected(c)
  BY <1>1, <1>2, <1>4 DEF Rolling, Listed, Affected
<1>7. ASSUME NEW s \in Sessions, Calm(s)
      PROVE  /\ settings'[ProviderOf[s]] = settings[ProviderOf[s]] \/ ProviderOf[s] \in Affected(c)
             /\ Matching(s) \/ Between(c, s) => Matching(s)'
             /\ ProviderOf[s] \in Affected(c) => Replaces(c, s)'
  <2>1. settings'[ProviderOf[s]] = settings[ProviderOf[s]] \/ ProviderOf[s] \in Affected(c)
    BY <1>5, SettingsAssumption DEF Affected
  <2>2. ProviderOf[s] \in Affected(c) => Replaces(c, s)
    BY <1>7 DEF FreshThreads
  <2>3. ProviderOf[s] \in Affected(c) => Matching(s)'
    BY <1>1, <1>5, <2>2 DEF Matching, Replaces
  <2>4. ProviderOf[s] \notin Affected(c) /\ Matching(s) => Matching(s)'
    BY <1>5, <2>1 DEF Matching
  <2>5. ProviderOf[s] \in Affected(c) => Replaces(c, s)'
    BY <1>1, <1>2, <1>4, <1>5, <2>2 DEF Replaces
  <2>. QED  BY <2>1, <2>3, <2>4, <2>5 DEF Between
<1>. QED  BY <1>1, <1>4, <1>5, <1>6, <1>7, RefreshesKeeps DEF Refreshes, Calm

(* A thread that is put back is of the key that has been put back.          *)
LEMMA RestoresThreadFresh ==
  ASSUME IInv, FreshThreads, NEW c \in Changes, NEW s \in Sessions, RestoresThread(c, s)
  PROVE  FreshThreads'
<1>. DEFINE r == [chg[c] EXCEPT !.todo = @ \ {s}]
<1>1. TypeOK /\ chg[c] \in Call /\ CallOK(c) /\ chg[c].pc = "reversing" /\ Exclusive(c) /\ AtWork(c)
  BY Known DEF RestoresThread, Exclusive, ExclusivePcs, AtWork
<1>2. /\ s \in chg[c].applied /\ ProviderOf[s] \in Affected(c) /\ settings = chg[c].prev
  BY <1>1 DEF CallOK, ThreadsOK, SettingsOK, TakenAway, RestoresThread
<1>3. /\ r \in Call /\ r.pc = "reversing" /\ r.prev = chg[c].prev /\ r.next = chg[c].next
      /\ r.applied = chg[c].applied /\ r.old = chg[c].old
  BY <1>1 DEF Call
<1>4. chg' = [chg EXCEPT ![c] = r]
  BY <1>1 DEF RestoresThread, Call
<1>. HIDE DEF r
<1>5. chg'[c] = r /\ \A d \in Changes : d # c => chg'[d] = chg[d]
  BY <1>1, <1>3, <1>4, Sets
<1>6. /\ UNCHANGED <<settings, live, run, bounds, past>>
      /\ thread' = IF s \in live /\ thread[s] = NoThread
                   THEN [thread EXCEPT ![s] = chg[c].old[s]] ELSE thread
      /\ thread \in [Sessions -> Threads]
  BY <1>1 DEF RestoresThread, TypeOK
<1>7. Rolling(c) /\ Listed(c)' /\ Affected(c)' = Affected(c)
  BY <1>1, <1>3, <1>5 DEF Rolling, Listed, Affected
<1>8. \A t \in Sessions : thread'[t] = thread[t] \/ (t = s /\ s \in live /\ thread'[t] = chg[c].old[s])
  BY <1>6
<1>9. ASSUME NEW t \in Sessions, Calm(t)
      PROVE  /\ Matching(t) => Matching(t)'
             /\ ~Between(c, t)
             /\ ProviderOf[t] \in Affected(c) => Replaces(c, t)'
  <2>1. ProviderOf[t] \in Affected(c) => Replaces(c, t)
    BY <1>9 DEF FreshThreads
  <2>2. Matching(t) => Matching(t)'
    <3>1. t = s => chg[c].old[s] = settings[ProviderOf[s]]
      BY <1>1, <1>2, <2>1 DEF Replaces
    <3>. QED  BY <1>6, <1>8, <3>1 DEF Matching
  <2>3. ProviderOf[t] \in Affected(c) => Replaces(c, t)'
    BY <1>1, <1>3, <1>5, <2>1 DEF Replaces
  <2>. QED  BY <1>1, <2>2, <2>3 DEF Between
<1>. QED  BY <1>1, <1>2, <1>5, <1>6, <1>7, <1>8, <1>9, RefreshesKeeps DEF Refreshes, Calm

(* Every step of a change.                                                  *)
LEMMA ChangeFresh ==
  ASSUME IInv, FreshThreads, bounds'.faults <= 1, NEW c \in Changes, ChangeAsks(c) \/ ChangeStep(c)
  PROVE  FreshThreads'
<1>0. \A pc \in Ended : [NoCall EXCEPT !.pc = pc] \in Call /\ [NoCall EXCEPT !.pc = pc].pc = pc
  BY Known, CallTypes DEF NoCall, Pcs, Ended
<1>1. TypeOK /\ chg[c] \in Call
  BY Known
<1>2. CASE ChangeAsks(c)
  <2>1. PICK next \in [Providers -> Keys] : chg' = [chg EXCEPT ![c].pc = "queued", ![c].next = next]
    BY <1>2 DEF ChangeAsks
  <2>. DEFINE r == [chg[c] EXCEPT !.pc = "queued", !.next = next]
  <2>2. r \in Call /\ chg' = [chg EXCEPT ![c] = r]
    BY <1>1, <2>1 DEF Call, Pcs
  <2>3. r.pc = "queued"
    BY <1>1 DEF Call
  <2>. HIDE DEF r
  <2>. QED  BY <1>2, <2>2, <2>3, EndsFresh DEF ChangeAsks, durable
<1>3. CASE ChangeSaveFails(c)
  <2>1. /\ Ends(c, "over") /\ chg[c].pc = "saving" /\ UNCHANGED <<live, run, thread>>
        /\ bounds.faults = 0 /\ bounds'.faults = 1
    BY <1>1, <1>3, OneFault DEF ChangeSaveFails
  <2>2. /\ past.strayed \subseteq past'.strayed
        /\ \A s \in Sessions : Calm(s)' => settings'[ProviderOf[s]] = settings[ProviderOf[s]]
    <3>1. CASE UNCHANGED <<settings, past>>
      BY <3>1
    <3>2. CASE /\ settings' = chg[c].next
               /\ past' = [past EXCEPT !.writer = c, !.strayed = @ \cup Affected(c)]
      <4>1. past'.strayed = past.strayed \cup Affected(c) /\ settings = chg[c].prev
        BY <1>1, <2>1, <3>2, Known DEF TypeOK, CallOK, SettingsOK
      <4>. QED  BY <3>2, <4>1, SettingsAssumption DEF Calm, Affected
    <3>. QED  BY <1>3, <3>1, <3>2 DEF ChangeSaveFails
  <2>. QED  BY <1>0, <2>1, <2>2, EndsFresh DEF Ends, Ended, Exclusive, ExclusivePcs
<1>4. CASE CleanupEnds(c)
  BY <1>0, <1>4, EndsFresh DEF CleanupEnds, durable, Ends, Ended
<1>5. CASE RollbackCanceled(c)
  BY <1>0, <1>5, EndsFresh DEF RollbackCanceled, durable, Ends, Ended
<1>6. CASE RestoreEnds(c)
  BY <1>0, <1>6, EndsFresh DEF RestoreEnds, RestoreOver, durable, Ends, Ended
<1>7. CASE CleanupFails(c)
  <2>. DEFINE r == [chg[c] EXCEPT !.pc = "rollback"]
  <2>1. /\ r \in Call /\ chg' = [chg EXCEPT ![c] = r] /\ r.pc = "rollback" /\ r.prev = chg[c].prev
        /\ r.next = chg[c].next /\ r.old = chg[c].old /\ r.applied = chg[c].applied
    BY <1>1, <1>7 DEF CleanupFails, Goes, Call, Pcs
  <2>2. bounds.faults = 0 /\ bounds'.faults = 1
    BY <1>1, <1>7, OneFault DEF CleanupFails
  <2>. HIDE DEF r
  <2>. QED  BY <1>7, <2>1, <2>2, CleansFresh DEF CleanupFails, durable
<1>8. CASE RollbackBegins(c)
  <2>. DEFINE r == [chg[c] EXCEPT !.pc = "restoring", !.todo = chg[c].applied, !.deferred = TRUE]
  <2>0. r \in Call
    BY <1>1 DEF Call, Pcs, ExclusivePcs
  <2>1. chg' = [chg EXCEPT ![c] = r]
    BY <1>1, <1>8 DEF RollbackBegins, Call
  <2>2. /\ r.pc = "restoring" /\ r.prev = chg[c].prev /\ r.next = chg[c].next
        /\ r.old = chg[c].old /\ r.applied = chg[c].applied
    BY <1>1 DEF Call
  <2>. HIDE DEF r
  <2>. QED  BY <1>8, <2>0, <2>1, <2>2, CleansFresh DEF RollbackBegins, durable
<1>9. ASSUME NEW s \in Sessions, Cleans(c, s) PROVE FreshThreads'
  <2>. DEFINE r == [chg[c] EXCEPT !.todo = @ \ {s}]
  <2>1. /\ r \in Call /\ chg' = [chg EXCEPT ![c] = r] /\ r.pc = "cleanup" /\ r.prev = chg[c].prev
        /\ r.next = chg[c].next /\ r.old = chg[c].old /\ r.applied = chg[c].applied
    BY <1>1, <1>9 DEF Cleans, Call
  <2>. HIDE DEF r
  <2>. QED  BY <1>9, <2>1, CleansFresh DEF Cleans, durable
<1>10. ~RestoreFails(c)
  <2>. SUFFICES ASSUME RestoreFails(c) PROVE FALSE
    OBVIOUS
  <2>1. bounds.faults = 0 /\ Rolling(c)
    BY <1>1, OneFault DEF RestoreFails, Rolling
  <2>. QED  BY <2>1 DEF FreshThreads, OneRollback
<1>. QED
  BY <1>2, <1>3, <1>4, <1>5, <1>6, <1>7, <1>8, <1>9, <1>10, BeginsFresh, IssuesSaveFresh, SavesFresh,
     FailsLateFresh, ReturnsFresh, PatchesFresh, RestoreWritesFresh, RestoresThreadFresh
  DEF ChangeStep

(* A step of which the changes know nothing.                                *)
LEMMA QuietFresh ==
  ASSUME IInv, FreshThreads, UNCHANGED chg,
         UNCHANGED bounds \/ bounds'.faults = bounds.faults
           \/ (bounds.faults = 0 /\ bounds'.faults = 1),
         past.strayed \subseteq past'.strayed,
         live' = live \/ (live' = {} /\ \A c \in Changes : ~Exclusive(c)),
         \A s \in Sessions : s \notin live' => thread'[s] = NoThread,
         \A s \in Sessions :
           \/ thread'[s] \in {thread[s], NoThread}
           \/ \A c \in Changes : AtWork(c) => ProviderOf[s] \notin Affected(c),
         \A s \in Sessions : Calm(s)' =>
           /\ settings'[ProviderOf[s]] = settings[ProviderOf[s]]
           /\ Matching(s) => Matching(s)'
           /\ RunKeyed(s)',
         (\A c \in Changes : ~Exclusive(c)) \/ \A s \in Sessions :
            thread'[s] = thread[s] \/ \A c \in Changes : AtWork(c) => ProviderOf[s] \notin Affected(c)
  PROVE  FreshThreads'
<1>1. \A c \in Changes : /\ Affected(c)' = Affected(c) /\ (AtWork(c)' <=> AtWork(c))
                         /\ (Rolling(c)' <=> Rolling(c))
                         /\ \A s \in Sessions : Between(c, s)' <=> Between(c, s)
  BY DEF Affected, AtWork, Rolling, Between
<1>2. bounds'.faults = 0 => bounds.faults = 0
  OBVIOUS
<1>3. OneRollback' /\ \A c \in Changes : Listed(c)'
  <2>1. OneRollback'
    BY <1>1, <1>2 DEF FreshThreads, OneRollback
  <2>2. \A c \in Changes : Listed(c)'
    BY DEF FreshThreads, Listed, Exclusive
  <2>. QED  BY <2>1, <2>2
<1>4. ASSUME NEW s \in Sessions, Calm(s)'
      PROVE  Keyed(s)' /\ \A c \in Changes : ProviderOf[s] \in Affected(c) => Replaces(c, s)'
  <2>1. Calm(s) /\ Keyed(s) /\ \A c \in Changes : ProviderOf[s] \in Affected(c) => Replaces(c, s)
    BY <1>4 DEF FreshThreads, Calm
  <2>2. Keyed(s)'
    BY <1>1, <1>4, <2>1 DEF Keyed
  <2>3. ASSUME NEW c \in Changes, ProviderOf[s] \in Affected(c) PROVE Replaces(c, s)'
    <3>1. Replaces(c, s)
      BY <2>1, <2>3
    <3>2. CASE AtWork(c)
      <4>1. thread'[s] \in {thread[s], NoThread}
        BY <2>3, <3>2
      <4>2. Exclusive(c) => thread'[s] = thread[s]
        BY <2>3, <3>2
      <4>. QED  BY <1>1, <1>2, <3>1, <4>1, <4>2 DEF Replaces, Exclusive, ExclusivePcs
    <3>3. CASE ~AtWork(c)
      BY <1>1, <3>3 DEF Replaces, AtWork, ExclusivePcs
    <3>. QED  BY <3>2, <3>3
  <2>. QED  BY <2>2, <2>3
<1>. QED  BY <1>1, <1>3, <1>4 DEF FreshThreads

(* The turns: one that uses its provider is of none that is being changed.  *)
LEMMA TurnFresh ==
  ASSUME IInv, FreshThreads, NEW s \in Sessions, TurnAsks(s) \/ TurnStep(s)
  PROVE  FreshThreads'
<1>1. /\ UNCHANGED <<settings, live, chg, bounds, past>>
      /\ UNCHANGED thread \/ TurnEnds(s)
  BY DEF TurnAsks, TurnStep, TurnReserves, TurnReadsProvider, TurnIsChecked, TurnCallsProvider,
     TurnEnds, durable
<1>2. TypeOK /\ run \in [Sessions -> Turn] /\ NoTurn.phase = "idle"
  BY DEF IInv, TypeOK, Turn, NoTurn
<1>3. \A t \in Sessions : t # s => run'[t] = run[t]
  BY <1>2 DEF TurnAsks, TurnStep, TurnReserves, TurnReadsProvider, TurnIsChecked, TurnCallsProvider,
     TurnEnds, Phase
<1>4. ASSUME run[s].phase \in {"admitted", "provider"}
      PROVE  s \in live /\ \A c \in Changes : AtWork(c) => ProviderOf[s] \notin Affected(c)
  BY <1>4 DEF IInv, RunsOK, NoTurnDuringChange
<1>5. CASE TurnCallsProvider(s)
  <2>1. /\ run'[s].phase = "provider" /\ run'[s].key = settings[ProviderOf[s]]
        /\ run'[s].thread = thread[s] /\ UNCHANGED thread
    BY <1>2, <1>5 DEF TurnCallsProvider, durable
  <2>2. Calm(s) => Matching(s)
    BY <1>4, <1>5 DEF TurnCallsProvider, FreshThreads, Keyed, Between, AtWork, ExclusivePcs
  <2>3. Calm(s) => RunKeyed(s)'
    BY <1>1, <2>1, <2>2 DEF RunKeyed, Matching
  <2>4. \A t \in Sessions : Calm(t) => RunKeyed(t)'
    BY <1>1, <1>3, <2>3 DEF FreshThreads, RunKeyed
  <2>5. \A t \in Sessions : Matching(t) => Matching(t)'
    BY <1>1, <2>1 DEF Matching
  <2>6. \A t \in Sessions : t \notin live' => thread'[t] = NoThread
    BY <1>1, <2>1 DEF FreshThreads
  <2>. QED  BY <1>1, <2>1, <2>4, <2>5, <2>6, QuietFresh DEF Calm
<1>6. CASE TurnEnds(s)
  <2>1. /\ run'[s] = NoTurn /\ run[s].phase \in {"admitted", "provider"}
        /\ \A t \in Sessions : t # s => thread'[t] = thread[t]
        /\ thread'[s] = thread[s] \/ (run[s].phase = "provider" /\ thread'[s] = run[s].key)
    BY <1>2, <1>6 DEF TurnEnds, TypeOK
  <2>2. \A t \in Sessions : Calm(t) => RunKeyed(t)'
    BY <1>1, <1>2, <1>3, <2>1 DEF FreshThreads, RunKeyed
  <2>3. \A t \in Sessions : Calm(t) /\ Matching(t) => Matching(t)'
    BY <1>1, <2>1 DEF FreshThreads, RunKeyed, Matching
  <2>4. \A t \in Sessions : t \notin live' => thread'[t] = NoThread
    BY <1>1, <1>4, <2>1 DEF FreshThreads
  <2>. QED  BY <1>1, <1>4, <2>1, <2>2, <2>3, <2>4, QuietFresh DEF Calm
<1>7. CASE TurnAsks(s) \/ TurnReserves(s) \/ TurnReadsProvider(s) \/ TurnIsChecked(s)
  <2>1. UNCHANGED thread /\ run'[s].phase # "provider"
    BY <1>2, <1>7 DEF TurnAsks, TurnReserves, TurnReadsProvider, TurnIsChecked, Phase, Turn, durable
  <2>2. \A t \in Sessions : Calm(t) => RunKeyed(t)'
    BY <1>1, <1>3, <2>1 DEF FreshThreads, RunKeyed
  <2>3. \A t \in Sessions : Matching(t) => Matching(t)'
    BY <1>1, <2>1 DEF Matching
  <2>4. \A t \in Sessions : t \notin live' => thread'[t] = NoThread
    BY <1>1, <2>1 DEF FreshThreads
  <2>. QED  BY <1>1, <2>1, <2>2, <2>3, <2>4, QuietFresh DEF Calm
<1>. QED  BY <1>5, <1>6, <1>7 DEF TurnStep

(* The resets: no change is exclusive and no turn runs; a key that a reset  *)
(* changes strays.                                                          *)
LEMMA ResetFresh ==
  ASSUME IInv, FreshThreads, bounds'.faults <= 1, ResetAsks \/ ResetStep
  PROVE  FreshThreads'
<1>1. UNCHANGED <<chg, run>> /\ TypeOK
  BY DEF ResetAsks, ResetStep, ResetBegins, ResetRecreates, ResetClearsSessions,
     ResetClearsSettings, ResetEnds, ResetFails, IInv
<1>2. UNCHANGED bounds \/ bounds'.faults = bounds.faults \/ (bounds.faults = 0 /\ bounds'.faults = 1)
  <2>1. ResetAsks => bounds'.faults = bounds.faults
    BY <1>1 DEF ResetAsks, TypeOK
  <2>2. ResetFails => bounds.faults = 0 /\ bounds'.faults = 1
    BY <1>1, OneFault DEF ResetFails
  <2>. QED  BY <2>1, <2>2 DEF ResetStep, ResetBegins, ResetRecreates, ResetClearsSessions,
     ResetClearsSettings, ResetEnds
<1>3. reset.pc = "applying" => /\ \A c \in Changes : ~Exclusive(c)
                               /\ \A s \in Sessions : run[s].phase # "provider"
  BY OneExclusive DEF IInv, LineOK, RunsOK
<1>4. CASE UNCHANGED <<settings, live, thread, past>>
  <2>1. \A s \in Sessions : /\ s \notin live' => thread'[s] = NoThread
                            /\ Calm(s) => RunKeyed(s)'
                            /\ Matching(s) => Matching(s)'
    BY <1>1, <1>4 DEF FreshThreads, RunKeyed, Matching
  <2>. QED  BY <1>1, <1>2, <1>4, <2>1, QuietFresh DEF Calm
<1>5. CASE reset.pc = "applying" /\ (SettingsAreReset \/ UNCHANGED <<settings, past>>)
             /\ (SessionsAreReset \/ UNCHANGED <<live, thread>>)
  <2>1. /\ past.strayed \subseteq past'.strayed
        /\ \A s \in Sessions : Calm(s)' => settings'[ProviderOf[s]] = settings[ProviderOf[s]]
    <3>1. CASE UNCHANGED <<settings, past>>
      BY <3>1
    <3>2. CASE SettingsAreReset
      <4>1. past'.strayed = past.strayed \cup {x \in Providers : settings[x] # DefaultKey}
        BY <1>1, <3>2 DEF SettingsAreReset, TypeOK
      <4>. QED  BY <3>2, <4>1, SettingsAssumption DEF Calm, SettingsAreReset
    <3>. QED  BY <1>5, <3>1, <3>2
  <2>2. \A s \in Sessions : thread'[s] \in {thread[s], NoThread}
    BY <1>5 DEF SessionsAreReset
  <2>3. live' = live \/ live' = {}
    BY <1>5 DEF SessionsAreReset
  <2>4. \A s \in Sessions : s \notin live' => thread'[s] = NoThread
    BY <1>5 DEF SessionsAreReset, FreshThreads
  <2>5. \A s \in Sessions : Calm(s)' => RunKeyed(s)' /\ (Matching(s) => Matching(s)')
    BY <1>1, <1>3, <1>5, <2>1, <2>2 DEF RunKeyed, Matching
  <2>. QED  BY <1>1, <1>2, <1>3, <1>5, <2>1, <2>2, <2>3, <2>4, <2>5, QuietFresh
<1>. QED  BY <1>4, <1>5 DEF ResetAsks, ResetStep, ResetBegins, ResetRecreates, ResetClearsSessions,
     ResetClearsSettings, ResetEnds, ResetFails, durable

(* The layout is not about threads.                                         *)
LEMMA LayoutFresh ==
  ASSUME IInv, FreshThreads, LayoutUpdate \/ LayoutCheckpoint
  PROVE  FreshThreads'
<1>1. /\ UNCHANGED <<chg, run, settings, live, thread, past>> /\ bounds'.faults = bounds.faults
  BY DEF LayoutUpdate, LayoutCheckpoint, durable, IInv, TypeOK
<1>2. \A s \in Sessions : /\ s \notin live' => thread'[s] = NoThread
                          /\ Calm(s) => RunKeyed(s)'
                          /\ Matching(s) => Matching(s)'
  BY <1>1 DEF FreshThreads, RunKeyed, Matching
<1>. QED  BY <1>1, <1>2, QuietFresh DEF Calm

(* A crash between the save and the last patch leaves its providers astray. *)
LEMMA CrashFresh ==
  ASSUME IInv, FreshThreads, Crash
  PROVE  FreshThreads'
<1>1. TypeOK /\ chg \in [Changes -> Call] /\ [NoCall EXCEPT !.pc = "over"].pc = "over"
  BY CallTypes DEF IInv, NoCall
<1>2. \A c \in Changes : chg'[c].pc \in Ended
  BY <1>1 DEF Crash, Ended
<1>3. /\ UNCHANGED <<settings, live, thread>> /\ bounds'.faults = bounds.faults
      /\ \A s \in Sessions : run'[s].phase = "idle"
  BY <1>1 DEF Crash, durable, NoTurn, TypeOK
<1>4. past'.strayed = past.strayed \cup
        UNION {Affected(c) : c \in {d \in Changes : chg[d].pc \in {"patching", "restoring"}}}
  BY <1>1 DEF Crash, TypeOK
<1>5. \A c \in Changes : /\ ~Rolling(c)' /\ Listed(c)' /\ \A s \in Sessions : Replaces(c, s)'
  BY <1>2 DEF Rolling, Listed, Replaces, AtWork, ExclusivePcs, Ended
<1>6. ASSUME NEW s \in Sessions, Calm(s)' PROVE Keyed(s)' /\ RunKeyed(s)'
  <2>1. Calm(s) /\ \A c \in Changes : ~Between(c, s)
    BY <1>4, <1>6 DEF Calm, Between
  <2>2. Matching(s)
    BY <2>1 DEF FreshThreads, Keyed
  <2>. QED  BY <1>3, <2>2 DEF Keyed, Matching, RunKeyed
<1>. QED  BY <1>3, <1>5, <1>6 DEF FreshThreads, OneRollback

(* The invariant holds while at most one call has failed.                   *)
OneFaultInv == bounds.faults <= 1 => FreshThreads

(* Every step keeps it.                                                     *)
LEMMA FreshStep == IInv /\ OneFaultInv /\ [Next]_vars => OneFaultInv'
<1>. SUFFICES ASSUME IInv, OneFaultInv, [Next]_vars, bounds'.faults <= 1 PROVE FreshThreads'
  BY DEF OneFaultInv
<1>1. CASE UNCHANGED vars
  <2>1. FreshThreads /\ UNCHANGED <<settings, live, thread, chg, run, bounds, past>>
    BY <1>1 DEF OneFaultInv, vars, durable
  <2>2. \A s \in Sessions : /\ s \notin live' => thread'[s] = NoThread
                            /\ Calm(s) => RunKeyed(s)'
                            /\ Matching(s) => Matching(s)'
    BY <2>1 DEF FreshThreads, RunKeyed, Matching
  <2>. QED  BY <2>1, <2>2, QuietFresh DEF Calm
<1>2. CASE Next
  <2>1. FreshThreads
    <3>1. bounds'.faults \in {bounds.faults, bounds.faults + 1} /\ bounds.faults \in Nat
      <4>1. bounds \in [resets : 0..MaxResets, layouts : 0..MaxLayout,
                        faults : 0..MaxFaults, crashes : 0..MaxCrashes]
        BY DEF IInv, TypeOK
      <4>2. ASSUME NEW c \in Changes, ChangeAsks(c) \/ ChangeStep(c) PROVE UNCHANGED bounds \/ Fault
        BY <4>2 DEF ChangeAsks, ChangeStep, ChangeBegins, ChangeIssuesSave, ChangeSaves,
           ChangeSaveFails, ChangeFailsLate, ChangeReturns, CleanupEnds, CleanupFails,
           RollbackBegins, RollbackCanceled, RestoreWrites, RestoreEnds, RestoreFails,
           ChangePatches, Cleans, RestoresThread
      <4>3. ResetStep => UNCHANGED bounds \/ Fault
        BY DEF ResetStep, ResetBegins, ResetRecreates, ResetClearsSessions, ResetClearsSettings,
           ResetEnds, ResetFails
      <4>4. ASSUME NEW s \in Sessions, TurnAsks(s) \/ TurnStep(s) PROVE UNCHANGED bounds
        BY <4>4 DEF TurnAsks, TurnStep, TurnReserves, TurnReadsProvider, TurnIsChecked,
           TurnCallsProvider, TurnEnds
      <4>5. ResetAsks \/ LayoutUpdate \/ LayoutCheckpoint \/ Crash => bounds'.faults = bounds.faults
        BY <4>1 DEF ResetAsks, LayoutUpdate, LayoutCheckpoint, Crash
      <4>6. UNCHANGED bounds \/ Fault \/ bounds'.faults = bounds.faults
        BY <1>2, <4>2, <4>3, <4>4, <4>5 DEF Next
      <4>. QED  BY <4>1, <4>6, SettingsAssumption DEF Fault
    <3>. QED  BY <3>1 DEF OneFaultInv
  <2>. QED  BY <1>2, <2>1, ChangeFresh, TurnFresh, ResetFresh, LayoutFresh, CrashFresh DEF Next
<1>. QED  BY <1>1, <1>2

(* It holds at the start.                                                   *)
LEMMA FreshInit == Init => OneFaultInv
<1>. SUFFICES ASSUME Init PROVE FreshThreads
  BY DEF OneFaultInv
<1>1. \A c \in Changes : chg[c].pc = "idle"
  BY DEF Init, NoCall
<1>2. \A c \in Changes : /\ ~Rolling(c) /\ Listed(c) /\ \A s \in Sessions : Replaces(c, s)
  BY <1>1 DEF Rolling, Listed, Replaces, AtWork, ExclusivePcs
<1>3. \A s \in Sessions : thread[s] = NoThread /\ run[s].phase = "idle"
  BY DEF Init, NoTurn
<1>. QED  BY <1>2, <1>3 DEF FreshThreads, OneRollback, Keyed, Matching, RunKeyed

(* No turn resumes a thread of other credentials than it uses, for any      *)
(* number of changes that overlap, Sessions, resets and crashes, while at   *)
(* most one storage call or cleanup has failed.                             *)
THEOREM NoStaleThreadAfterOneFault == Spec => [](bounds.faults <= 1 => NoStaleThread)
<1>1. OneFaultInv => (bounds.faults <= 1 => NoStaleThread)
  BY DEF OneFaultInv, FreshThreads, Calm, RunKeyed, NoStaleThread, CredentialsMatch
<1>2. IInv /\ OneFaultInv /\ [Next]_vars => OneFaultInv'
  BY FreshStep
<1>3. Init => OneFaultInv
  BY FreshInit
<1>. QED  BY SettingsInvariant, <1>1, <1>2, <1>3, PTL DEF Spec

-----------------------------------------------------------------------------
(* The lock: who waits in the line, and who holds it.                       *)

AsksChange(c) == chg[c].pc = "queued" \/ (Exclusive(c) /\ ~chg[c].deferred)
AsksRollback(c) == chg[c].pc = "rollback" \/ (Exclusive(c) /\ chg[c].deferred)

Waits(op) ==
  \/ \E c \in Changes : op = Op("change", c) /\ AsksChange(c)
  \/ \E c \in Changes : op = Op("rollback", c) /\ AsksRollback(c)
  \/ \E s \in Sessions : op = Op("reserve", s) /\ run[s].phase = "waiting"
  \/ \E s \in Sessions : op = Op("check", s) /\ run[s].phase = "checking"
  \/ op = ResetOp /\ reset.pc # "idle"

(* The operations of the line are those that wait or run, each of them once. *)
LineExact ==
  /\ \A op \in Ops : Waits(op) <=> \E i \in DOMAIN line : line[i] = op
  /\ \A i, j \in DOMAIN line : line[i] = line[j] => i = j

(* An operation comes, goes, or stays.                                      *)
LEMMA LineMoves ==
  ASSUME IInv, LineExact, NEW o \in Ops,
         \/ UNCHANGED line /\ \A op \in Ops : Waits(op)' <=> Waits(op)
         \/ Asks(o) /\ ~Waits(o) /\ \A op \in Ops : Waits(op)' <=> Waits(op) \/ op = o
         \/ Returns /\ Runs(o) /\ \A op \in Ops : Waits(op)' <=> Waits(op) /\ op # o
  PROVE  LineExact'
<1>1. line \in Seq(Ops)
  BY DEF IInv, TypeOK
<1>2. CASE UNCHANGED line /\ \A op \in Ops : Waits(op)' <=> Waits(op)
  BY <1>2 DEF LineExact
<1>3. CASE Asks(o) /\ ~Waits(o) /\ \A op \in Ops : Waits(op)' <=> Waits(op) \/ op = o
  <2>1. /\ DOMAIN line' = DOMAIN line \cup {Len(line) + 1} /\ line'[Len(line) + 1] = o
        /\ \A i \in DOMAIN line : line'[i] = line[i] /\ line[i] # o /\ i # Len(line) + 1
    BY <1>1, <1>3 DEF Asks, LineExact
  <2>2. \A op \in Ops : Waits(op)' <=> \E i \in DOMAIN line' : line'[i] = op
    BY <1>3, <2>1 DEF LineExact
  <2>3. \A i, j \in DOMAIN line' : line'[i] = line'[j] => i = j
    BY <2>1 DEF LineExact
  <2>. QED  BY <2>2, <2>3 DEF LineExact
<1>4. CASE Returns /\ Runs(o) /\ \A op \in Ops : Waits(op)' <=> Waits(op) /\ op # o
  <2>1. /\ line # <<>> /\ line[1] = o /\ 1 \in DOMAIN line
        /\ \A i \in DOMAIN line' : i + 1 \in DOMAIN line /\ line'[i] = line[i + 1]
                                        /\ i \in Nat /\ i + 1 # 1
        /\ \A i \in DOMAIN line : i # 1 => i - 1 \in DOMAIN line' /\ line'[i - 1] = line[i]
    BY <1>1, <1>4 DEF Returns, Runs
  <2>2. \A i \in DOMAIN line' : line'[i] # o
    <3>. QED  BY <2>1 DEF LineExact
  <2>3. \A op \in Ops : Waits(op)' <=> \E i \in DOMAIN line' : line'[i] = op
    <3>. SUFFICES ASSUME NEW op \in Ops PROVE Waits(op)' <=> \E i \in DOMAIN line' : line'[i] = op
      OBVIOUS
    <3>1. CASE op = o
      BY <1>4, <2>2, <3>1
    <3>2. CASE op # o
      BY <1>4, <2>1, <3>2 DEF LineExact
    <3>. QED  BY <3>1, <3>2
  <2>4. \A i, j \in DOMAIN line' : line'[i] = line'[j] => i = j
    <3>. SUFFICES ASSUME NEW i \in DOMAIN line', NEW j \in DOMAIN line', line'[i] = line'[j] PROVE i = j
      OBVIOUS
    <3>1. i + 1 = j + 1
      BY <2>1 DEF LineExact
    <3>. QED  BY <2>1, <3>1
  <2>. QED  BY <2>3, <2>4 DEF LineExact
<1>. QED  BY <1>2, <1>3, <1>4

(* The operations that may be in the line are told apart.                   *)
LEMMA OpsDiffer ==
  /\ \A c \in Changes : Op("change", c) \in Ops /\ Op("rollback", c) \in Ops
  /\ \A k, l, x, y : Op(k, x) = Op(l, y) => k = l /\ x = y
  /\ \A k, x : k # "reset" => Op(k, x) # ResetOp
BY DEF Op, Ops, ResetOp

(* A step of a change that asks for the lock, gives it back, or neither.    *)
LEMMA ChangeInLine ==
  ASSUME IInv, LineExact, NEW c \in Changes,
         \A d \in Changes : d # c => chg'[d] = chg[d], UNCHANGED <<run, reset>>,
         \/ UNCHANGED line /\ (AsksChange(c)' <=> AsksChange(c)) /\ (AsksRollback(c)' <=> AsksRollback(c))
         \/ /\ Asks(Op("change", c))
            /\ ~AsksChange(c) /\ AsksChange(c)' /\ (AsksRollback(c)' <=> AsksRollback(c))
         \/ /\ Asks(Op("rollback", c))
            /\ ~AsksRollback(c) /\ AsksRollback(c)' /\ (AsksChange(c)' <=> AsksChange(c))
         \/ /\ Returns /\ Runs(Op("change", c))
            /\ ~AsksChange(c)' /\ (AsksRollback(c)' <=> AsksRollback(c))
         \/ /\ Returns /\ Runs(Op("rollback", c))
            /\ ~AsksRollback(c)' /\ (AsksChange(c)' <=> AsksChange(c))
  PROVE  LineExact'
<1>1. \A d \in Changes : d # c => (AsksChange(d)' <=> AsksChange(d)) /\ (AsksRollback(d)' <=> AsksRollback(d))
  BY DEF AsksChange, AsksRollback, Exclusive
<1>2. /\ Waits(Op("change", c)) <=> AsksChange(c)
      /\ Waits(Op("rollback", c)) <=> AsksRollback(c)
  BY OpsDiffer DEF Waits
<1>3. /\ Waits(Op("change", c))' <=> AsksChange(c)'
      /\ Waits(Op("rollback", c))' <=> AsksRollback(c)'
  BY OpsDiffer DEF Waits
<1>4. \A op \in Ops : op # Op("change", c) /\ op # Op("rollback", c) => (Waits(op)' <=> Waits(op))
  <2>. SUFFICES ASSUME NEW op \in Ops, op # Op("change", c), op # Op("rollback", c)
                PROVE  Waits(op)' <=> Waits(op)
    OBVIOUS
  <2>. QED  BY <1>1 DEF Waits
<1>5. Op("change", c) \in Ops /\ Op("rollback", c) \in Ops /\ Op("change", c) # Op("rollback", c)
  BY OpsDiffer
<1>6. CASE UNCHANGED line /\ (AsksChange(c)' <=> AsksChange(c)) /\ (AsksRollback(c)' <=> AsksRollback(c))
  BY <1>2, <1>3, <1>4, <1>5, <1>6, LineMoves
<1>7. CASE /\ Asks(Op("change", c))
           /\ ~AsksChange(c) /\ AsksChange(c)' /\ (AsksRollback(c)' <=> AsksRollback(c))
  BY <1>2, <1>3, <1>4, <1>5, <1>7, LineMoves
<1>8. CASE /\ Asks(Op("rollback", c))
           /\ ~AsksRollback(c) /\ AsksRollback(c)' /\ (AsksChange(c)' <=> AsksChange(c))
  BY <1>2, <1>3, <1>4, <1>5, <1>8, LineMoves
<1>9. CASE /\ Returns /\ Runs(Op("change", c))
           /\ ~AsksChange(c)' /\ (AsksRollback(c)' <=> AsksRollback(c))
  BY <1>2, <1>3, <1>4, <1>5, <1>9, LineMoves
<1>10. CASE /\ Returns /\ Runs(Op("rollback", c))
            /\ ~AsksRollback(c)' /\ (AsksChange(c)' <=> AsksChange(c))
  BY <1>2, <1>3, <1>4, <1>5, <1>10, LineMoves
<1>. QED  BY <1>6, <1>7, <1>8, <1>9, <1>10

(* Every step of a change.                                                  *)
LEMMA ChangeLine ==
  ASSUME IInv, LineExact, NEW c \in Changes, ChangeAsks(c) \/ ChangeStep(c)
  PROVE  LineExact'
<1>1. /\ TypeOK /\ chg \in [Changes -> Call] /\ chg[c] \in Call
      /\ chg[c].deferred => chg[c].pc \in {"restoring", "reversing"}
      /\ Exclusive(c) => Runs(OpOf(c))
  BY Known, CallTypes DEF CallOK
<1>2. ASSUME NEW pc \in Ended, Ends(c, pc)
      PROVE  /\ ~AsksChange(c)' /\ ~AsksRollback(c)'
             /\ \A d \in Changes : d # c => chg'[d] = chg[d]
  <2>1. /\ chg'[c] = [NoCall EXCEPT !.pc = pc]
        /\ \A d \in Changes : d # c => chg'[d] = chg[d]
    BY <1>1, <1>2 DEF Ends
  <2>2. chg'[c].pc = pc
    BY <2>1 DEF NoCall
  <2>. QED  BY <2>1, <2>2 DEF AsksChange, AsksRollback, Exclusive, ExclusivePcs, Ended
<1>3. CASE ChangeAsks(c)
  <2>1. /\ chg'[c].pc = "queued" /\ chg'[c].deferred = chg[c].deferred
        /\ \A d \in Changes : d # c => chg'[d] = chg[d]
    <3>1. PICK next \in [Providers -> Keys] : chg' = [chg EXCEPT ![c].pc = "queued", ![c].next = next]
      BY <1>3 DEF ChangeAsks
    <3>2. chg' = [chg EXCEPT ![c] = [chg[c] EXCEPT !.pc = "queued", !.next = next]]
      BY <1>1, <3>1 DEF Call
    <3>. QED  BY <1>1, <3>2 DEF Call
  <2>. QED  BY <1>1, <1>3, <2>1, ChangeInLine
            DEF ChangeAsks, AsksChange, AsksRollback, Exclusive, ExclusivePcs
<1>4. CASE ChangeBegins(c)
  <2>1. CASE Ends(c, "over") /\ Returns
    BY <1>1, <1>2, <1>4, <2>1, ChangeInLine
    DEF ChangeBegins, AsksChange, AsksRollback, Exclusive, ExclusivePcs, Ended
  <2>2. CASE ~(Ends(c, "over") /\ Returns)
    <3>1. /\ chg'[c].pc = "reading" /\ chg'[c].deferred = chg[c].deferred
          /\ \A d \in Changes : d # c => chg'[d] = chg[d]
          /\ UNCHANGED line
      <4>. DEFINE affected == {p \in Providers : settings[p] # chg[c].next[p]}
                  r == [chg[c] EXCEPT !.pc = "reading", !.prev = settings, !.epoch = epoch, !.owner = owner,
                          !.old = [s \in Sessions |-> IF s \in Users(affected) THEN thread[s] ELSE NoThread],
                          !.todo = {s \in Users(affected) : thread[s] # NoThread}]
      <4>1. chg' = [chg EXCEPT ![c] = r] /\ UNCHANGED line
        BY <1>4, <2>2 DEF ChangeBegins
      <4>2. r.pc = "reading" /\ r.deferred = chg[c].deferred
        BY <1>1 DEF Call
      <4>. HIDE DEF r
      <4>. QED  BY <1>1, <4>1, <4>2
    <3>. QED  BY <1>1, <1>4, <3>1, ChangeInLine
              DEF ChangeBegins, AsksChange, AsksRollback, Exclusive, ExclusivePcs
  <2>. QED  BY <2>1, <2>2
<1>5. CASE ChangeIssuesSave(c)
  <2>1. CASE Ends(c, "over") /\ Returns
    BY <1>1, <1>2, <1>5, <2>1, ChangeInLine
    DEF ChangeIssuesSave, AsksChange, AsksRollback, Exclusive, ExclusivePcs, Ended, OpOf
  <2>2. CASE Goes(c, "saving") /\ UNCHANGED line
    <3>1. /\ chg'[c].pc = "saving" /\ chg'[c].deferred = chg[c].deferred
          /\ \A d \in Changes : d # c => chg'[d] = chg[d]
      BY <1>1, <2>2 DEF Goes, Call
    <3>. QED  BY <1>1, <1>5, <2>2, <3>1, ChangeInLine
              DEF ChangeIssuesSave, AsksChange, AsksRollback, Exclusive, ExclusivePcs
  <2>. QED  BY <1>5, <2>1, <2>2 DEF ChangeIssuesSave
<1>6. CASE ChangeSaves(c) \/ ChangeFailsLate(c)
  <2>1. /\ chg[c].pc \in {"saving", "patching"} /\ chg'[c].pc \in {"patching", "restoring"}
        /\ chg'[c].deferred = chg[c].deferred
        /\ \A d \in Changes : d # c => chg'[d] = chg[d]
        /\ UNCHANGED <<line, run, reset>>
    BY <1>1, <1>6 DEF ChangeSaves, ChangeFailsLate, Call
  <2>. QED  BY <2>1, ChangeInLine DEF AsksChange, AsksRollback, Exclusive, ExclusivePcs
<1>7. CASE ChangeSaveFails(c)
  BY <1>1, <1>2, <1>7, ChangeInLine
  DEF ChangeSaveFails, AsksChange, AsksRollback, Exclusive, ExclusivePcs, Ended, OpOf
<1>8. ASSUME NEW s \in Sessions, ChangePatches(c, s) \/ Cleans(c, s) \/ RestoresThread(c, s)
      PROVE  LineExact'
  <2>1. /\ chg'[c].pc = chg[c].pc /\ chg'[c].deferred = chg[c].deferred
        /\ \A d \in Changes : d # c => chg'[d] = chg[d]
        /\ UNCHANGED <<line, run, reset>>
    BY <1>1, <1>8 DEF ChangePatches, Cleans, RestoresThread, Call
  <2>. QED  BY <2>1, ChangeInLine DEF AsksChange, AsksRollback, Exclusive
<1>9. CASE ChangeReturns(c)
  <2>1. /\ chg[c].pc = "patching" /\ chg'[c].pc = "cleanup" /\ Returns
        /\ \A d \in Changes : d # c => chg'[d] = chg[d]
        /\ UNCHANGED <<run, reset>>
    BY <1>1, <1>9 DEF ChangeReturns, Call
  <2>. QED  BY <1>1, <2>1, ChangeInLine DEF AsksChange, AsksRollback, Exclusive, ExclusivePcs, OpOf
<1>10. CASE CleanupEnds(c)
  BY <1>1, <1>2, <1>10, ChangeInLine
  DEF CleanupEnds, AsksChange, AsksRollback, Exclusive, ExclusivePcs, Ended
<1>11. CASE CleanupFails(c)
  <2>1. /\ chg[c].pc = "cleanup" /\ chg'[c].pc = "rollback" /\ Asks(Op("rollback", c))
        /\ \A d \in Changes : d # c => chg'[d] = chg[d]
        /\ UNCHANGED <<run, reset>>
    BY <1>1, <1>11 DEF CleanupFails, Goes, Call
  <2>. QED  BY <2>1, ChangeInLine DEF AsksChange, AsksRollback, Exclusive, ExclusivePcs
<1>12. CASE RollbackBegins(c)
  <2>. DEFINE r == [chg[c] EXCEPT !.pc = "restoring", !.todo = chg[c].applied, !.deferred = TRUE]
  <2>1. chg' = [chg EXCEPT ![c] = r]
    BY <1>1, <1>12 DEF RollbackBegins, Call
  <2>2. r.pc = "restoring" /\ r.deferred
    BY <1>1 DEF Call
  <2>. HIDE DEF r
  <2>3. chg[c].pc = "rollback" /\ UNCHANGED <<line, run, reset>>
    BY <1>12 DEF RollbackBegins
  <2>4. chg'[c] = r /\ \A d \in Changes : d # c => chg'[d] = chg[d]
    BY <1>1, <2>1
  <2>. QED  BY <2>2, <2>3, <2>4, ChangeInLine DEF AsksChange, AsksRollback, Exclusive, ExclusivePcs
<1>13. CASE RollbackCanceled(c)
  BY <1>1, <1>2, <1>13, ChangeInLine
  DEF RollbackCanceled, AsksChange, AsksRollback, Exclusive, ExclusivePcs, Ended
<1>14. CASE RestoreWrites(c)
  <2>1. /\ chg[c].pc = "restoring" /\ chg'[c].pc = "reversing" /\ chg'[c].deferred = chg[c].deferred
        /\ \A d \in Changes : d # c => chg'[d] = chg[d]
        /\ UNCHANGED <<line, run, reset>>
    BY <1>1, <1>14 DEF RestoreWrites, Goes, Call
  <2>. QED  BY <2>1, ChangeInLine DEF AsksChange, AsksRollback, Exclusive, ExclusivePcs
<1>15. CASE RestoreEnds(c) \/ RestoreFails(c)
  <2>1. /\ chg[c].pc \in {"restoring", "reversing"} /\ Returns /\ UNCHANGED <<run, reset>>
        /\ \E pc \in Ended : Ends(c, pc)
    BY <1>15 DEF RestoreEnds, RestoreFails, RestoreOver, Ended
  <2>2. /\ ~AsksChange(c)' /\ ~AsksRollback(c)'
        /\ \A d \in Changes : d # c => chg'[d] = chg[d]
    BY <1>2, <2>1
  <2>3. Runs(OpOf(c))
    BY <1>1, <2>1 DEF Exclusive, ExclusivePcs
  <2>4. CASE chg[c].deferred
    <3>1. OpOf(c) = Op("rollback", c) /\ ~AsksChange(c)
      BY <2>1, <2>4 DEF OpOf, AsksChange
    <3>. QED  BY <2>1, <2>2, <2>3, <3>1, ChangeInLine
  <2>5. CASE ~chg[c].deferred
    <3>1. OpOf(c) = Op("change", c) /\ ~AsksRollback(c)
      BY <2>1, <2>5 DEF OpOf, AsksRollback
    <3>. QED  BY <2>1, <2>2, <2>3, <3>1, ChangeInLine
  <2>. QED  BY <2>4, <2>5
<1>. QED  BY <1>3, <1>4, <1>5, <1>6, <1>7, <1>8, <1>9, <1>10, <1>11, <1>12, <1>13, <1>14, <1>15
          DEF ChangeStep

(* The turns.                                                               *)
LEMMA TurnLine ==
  ASSUME IInv, LineExact, NEW s \in Sessions, TurnAsks(s) \/ TurnStep(s)
  PROVE  LineExact'
<1>. DEFINE Waiting == run[s].phase = "waiting"
            Checking == run[s].phase = "checking"
<1>1. /\ TypeOK /\ run \in [Sessions -> Turn] /\ NoTurn.phase = "idle" /\ UNCHANGED <<chg, reset>>
  BY DEF IInv, TypeOK, Turn, NoTurn, TurnAsks, TurnStep, TurnReserves, TurnReadsProvider,
     TurnIsChecked, TurnCallsProvider, TurnEnds
<1>2. \A t \in Sessions : t # s => run'[t] = run[t]
  BY <1>1 DEF TurnAsks, TurnStep, TurnReserves, TurnReadsProvider, TurnIsChecked, TurnCallsProvider,
     TurnEnds, Phase
<1>3. /\ Waits(Op("reserve", s)) <=> Waiting
      /\ Waits(Op("check", s)) <=> Checking
      /\ Op("reserve", s) \in Ops /\ Op("check", s) \in Ops /\ Op("reserve", s) # Op("check", s)
  <2>1. Op("reserve", s) # ResetOp /\ Op("check", s) # ResetOp
    BY OpsDiffer
  <2>2. Op("reserve", s) \in Ops /\ Op("check", s) \in Ops
    BY OpTypes
  <2>. QED  BY <2>1, <2>2, OpsDiffer DEF Waits
<1>4. (Waits(Op("reserve", s))' <=> Waiting') /\ (Waits(Op("check", s))' <=> Checking')
  <2>1. Op("reserve", s) # ResetOp /\ Op("check", s) # ResetOp
    BY OpsDiffer
  <2>. QED  BY <2>1, OpsDiffer DEF Waits
<1>5. \A op \in Ops : op # Op("reserve", s) /\ op # Op("check", s) => (Waits(op)' <=> Waits(op))
  <2>. SUFFICES ASSUME NEW op \in Ops, op # Op("reserve", s), op # Op("check", s)
                PROVE  Waits(op)' <=> Waits(op)
    OBVIOUS
  <2>1. \A c \in Changes : (AsksChange(c)' <=> AsksChange(c)) /\ (AsksRollback(c)' <=> AsksRollback(c))
    BY <1>1 DEF AsksChange, AsksRollback, Exclusive
  <2>. QED  BY <1>1, <1>2, <2>1 DEF Waits
<1>6. \A phase \in {"idle", "waiting", "reserved", "checking", "admitted", "provider"} :
        Phase(s, phase) => run'[s].phase = phase
  BY <1>1 DEF Phase, Turn
<1>7. CASE TurnAsks(s)
  <2>1. ~Waiting /\ ~Checking /\ Waiting' /\ ~Checking' /\ Asks(Op("reserve", s))
    BY <1>6, <1>7 DEF TurnAsks, InFlight
  <2>. QED  BY <1>3, <1>4, <1>5, <2>1, LineMoves
<1>8. CASE TurnReserves(s)
  <2>1. Waiting /\ ~Checking /\ ~Waiting' /\ ~Checking' /\ Returns /\ Runs(Op("reserve", s))
    BY <1>6, <1>8 DEF TurnReserves
  <2>. QED  BY <1>3, <1>4, <1>5, <2>1, LineMoves
<1>9. CASE TurnReadsProvider(s)
  <2>1. /\ ~Waiting /\ ~Checking /\ ~Waiting'
        /\ (Checking' /\ Asks(Op("check", s))) \/ (~Checking' /\ UNCHANGED line)
    BY <1>6, <1>9 DEF TurnReadsProvider
  <2>2. CASE Checking' /\ Asks(Op("check", s))
    BY <1>3, <1>4, <1>5, <2>1, <2>2, LineMoves
  <2>3. CASE ~Checking' /\ UNCHANGED line
    BY <1>3, <1>4, <1>5, <2>1, <2>3, LineMoves
  <2>. QED  BY <2>1, <2>2, <2>3
<1>10. CASE TurnIsChecked(s)
  <2>1. ~Waiting /\ Checking /\ ~Waiting' /\ ~Checking' /\ Returns /\ Runs(Op("check", s))
    BY <1>6, <1>10 DEF TurnIsChecked
  <2>. QED  BY <1>3, <1>4, <1>5, <2>1, LineMoves
<1>11. CASE TurnCallsProvider(s) \/ TurnEnds(s)
  <2>1. ~Waiting /\ ~Checking /\ ~Waiting' /\ ~Checking' /\ UNCHANGED line
    BY <1>1, <1>11 DEF TurnCallsProvider, TurnEnds
  <2>. QED  BY <1>3, <1>4, <1>5, <2>1, LineMoves
<1>. QED  BY <1>7, <1>8, <1>9, <1>10, <1>11 DEF TurnStep

(* The reset.                                                               *)
LEMMA ResetLine ==
  ASSUME IInv, LineExact, ResetAsks \/ ResetStep
  PROVE  LineExact'
<1>1. UNCHANGED <<chg, run>> /\ ResetOp \in Ops /\ TypeOK
  BY OpTypes DEF ResetAsks, ResetStep, ResetBegins, ResetRecreates, ResetClearsSessions,
     ResetClearsSettings, ResetEnds, ResetFails, IInv
<1>2. \A op \in Ops : op # ResetOp => (Waits(op)' <=> Waits(op))
  <2>1. \A c \in Changes : (AsksChange(c)' <=> AsksChange(c)) /\ (AsksRollback(c)' <=> AsksRollback(c))
    BY <1>1 DEF AsksChange, AsksRollback, Exclusive
  <2>. QED  BY <1>1, <2>1 DEF Waits
<1>3. (Waits(ResetOp) <=> reset.pc # "idle") /\ (Waits(ResetOp)' <=> reset'.pc # "idle")
  <2>1. \A x : /\ ResetOp # Op("change", x) /\ ResetOp # Op("rollback", x)
               /\ ResetOp # Op("reserve", x) /\ ResetOp # Op("check", x)
    BY OpsDiffer
  <2>. QED  BY <2>1 DEF Waits
<1>4. NoReset.pc = "idle" /\ (reset.pc = "applying" => Runs(ResetOp))
      /\ reset \in [pc : {"idle", "queued", "applying"}, targets : SUBSET AllTargets, mark : 0..MaxLayout]
  BY <1>1 DEF NoReset, IInv, LineOK, TypeOK
<1>5. CASE ResetAsks
  BY <1>2, <1>3, <1>1, <1>5, LineMoves DEF ResetAsks
<1>6. CASE ResetBegins
  <2>1. CASE reset' = NoReset /\ Returns
    BY <1>1, <1>2, <1>3, <1>4, <1>6, <2>1, LineMoves DEF ResetBegins
  <2>2. CASE reset'.pc = "applying" /\ UNCHANGED line
    BY <1>1, <1>2, <1>3, <1>4, <1>6, <2>2, LineMoves DEF ResetBegins
  <2>. QED  BY <1>4, <1>6, <2>1, <2>2 DEF ResetBegins
<1>7. CASE ResetRecreates \/ ResetEnds \/ ResetFails
  <2>1. reset' = NoReset /\ Returns /\ reset.pc = "applying"
    BY <1>7 DEF ResetRecreates, ResetEnds, ResetFails
  <2>. QED  BY <1>1, <1>2, <1>3, <1>4, <2>1, LineMoves
<1>8. CASE ResetClearsSessions \/ ResetClearsSettings
  <2>1. reset.pc = "applying" /\ reset'.pc = "applying" /\ UNCHANGED line
    BY <1>4, <1>8 DEF ResetClearsSessions, ResetClearsSettings
  <2>. QED  BY <1>1, <1>2, <1>3, <2>1, LineMoves
<1>. QED  BY <1>5, <1>6, <1>7, <1>8 DEF ResetStep

(* A step that touches none of them; and a crash, after which nobody waits. *)
LEMMA OtherLine ==
  ASSUME IInv, LineExact, LayoutUpdate \/ LayoutCheckpoint \/ Crash \/ UNCHANGED vars
  PROVE  LineExact'
<1>1. CASE UNCHANGED <<line, chg, run, reset>>
  <2>1. \A c \in Changes : (AsksChange(c)' <=> AsksChange(c)) /\ (AsksRollback(c)' <=> AsksRollback(c))
    BY <1>1 DEF AsksChange, AsksRollback, Exclusive
  <2>2. \A op \in Ops : Waits(op)' <=> Waits(op)
    BY <1>1, <2>1 DEF Waits
  <2>. QED  BY <1>1, <2>2 DEF LineExact
<1>2. CASE Crash
  <2>1. [NoCall EXCEPT !.pc = "over"].pc = "over" /\ TypeOK /\ chg \in [Changes -> Call]
    BY CallTypes DEF NoCall, IInv
  <2>2. \A c \in Changes : chg'[c].pc \in Ended
    BY <1>2, <2>1 DEF Crash, Ended
  <2>3. \A c \in Changes : ~AsksChange(c)' /\ ~AsksRollback(c)'
    BY <2>2 DEF AsksChange, AsksRollback, Exclusive, ExclusivePcs, Ended
  <2>4. /\ \A s \in Sessions : run'[s].phase = "idle"
        /\ reset'.pc = "idle" /\ DOMAIN line' = {}
    BY <1>2 DEF Crash, NoTurn, NoReset
  <2>5. \A op \in Ops : ~Waits(op)'
    BY <2>3, <2>4 DEF Waits
  <2>. QED  BY <2>4, <2>5 DEF LineExact
<1>. QED  BY <1>1, <1>2 DEF LayoutUpdate, LayoutCheckpoint, vars

(* The lock is never lost and nobody is forgotten in its line: whoever has  *)
(* it is an operation that is under way and will give it back, whoever      *)
(* waits for it is in the line, and each of them once.                      *)
THEOREM LineHoldsWhoWaits == Spec => []LineExact
<1>1. Init => LineExact
  <2>. SUFFICES ASSUME Init PROVE LineExact
    OBVIOUS
  <2>1. \A c \in Changes : ~AsksChange(c) /\ ~AsksRollback(c)
    BY DEF Init, NoCall, AsksChange, AsksRollback, Exclusive, ExclusivePcs
  <2>2. \A op \in Ops : ~Waits(op)
    BY <2>1 DEF Init, NoTurn, NoReset, Waits
  <2>. QED  BY <2>2 DEF LineExact, Init
<1>2. IInv /\ LineExact /\ [Next]_vars => LineExact'
  BY ChangeLine, TurnLine, ResetLine, OtherLine DEF Next
<1>. QED  BY SettingsInvariant, <1>1, <1>2, PTL DEF Spec

(* No provider is unavailable without a reason: it is held only while the   *)
(* cleanup or the deferred rollback of a change of its credentials is not   *)
(* over, by whatever way the others ended.                                  *)
THEOREM HeldForAReason ==
  Spec => [](\A p \in Providers : held[p] > 0 <=> \E c \in Changes : HoldsProvider(c, p))
<1>1. ASSUME IInv, NEW p \in Providers PROVE held[p] > 0 <=> \E c \in Changes : HoldsProvider(c, p)
  <2>1. Holders(p) \subseteq Changes /\ held[p] = Cardinality(Holders(p)) /\ IsFiniteSet(Holders(p))
    <3>1. Holders(p) \subseteq Changes
      BY DEF Holders
    <3>. QED  BY <1>1, <3>1, SettingsAssumption, FS_Subset DEF IInv, HeldOK
  <2>2. Cardinality(Holders(p)) \in Nat /\ (Cardinality(Holders(p)) = 0 <=> Holders(p) = {})
    BY <2>1, FS_CardinalityType, FS_EmptySet
  <2>. QED  BY <2>1, <2>2 DEF Holders
<1>2. IInv => \A p \in Providers : held[p] > 0 <=> \E c \in Changes : HoldsProvider(c, p)
  BY <1>1
<1>. QED  BY SettingsInvariant, <1>2, PTL
=============================================================================
