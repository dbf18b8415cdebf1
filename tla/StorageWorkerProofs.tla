------------------------- MODULE StorageWorkerProofs -------------------------
(***************************************************************************)
(* What a caller of the storage is told is true, for any number of calls   *)
(* and lanes: the inductive invariant IInv of StorageWorker, and what      *)
(* follows from it; with OInv, that requests keep their order, and that no *)
(* pending call is forgotten.                                              *)
(***************************************************************************)
EXTENDS StorageWorker, SequenceTheorems, TLAPS

-----------------------------------------------------------------------------
(* Sequences without repetitions.                                           *)

NoDup(s) == \A i, j \in DOMAIN s : s[i] = s[j] => i = j

(* Nothing follows x.                                                       *)
OnlyLast(x, s) == \A i \in DOMAIN s : s[i] = x => i = Len(s)

(* The empty sequence.                                                      *)
LEMMA EmptyElements ==
  /\ Elements(<<>>) = {} /\ NoDup(<<>>)
  /\ \A x : OnlyLast(x, <<>>)
  /\ \A S : <<>> \in Seq(S)
BY DEF Elements, NoDup, OnlyLast

(* Appending adds one element.                                              *)
LEMMA AppendElements ==
  ASSUME NEW S, NEW s \in Seq(S), NEW e
  PROVE  /\ Elements(Append(s, e)) = Elements(s) \cup {e}
         /\ NoDup(s) /\ e \notin Elements(s) => NoDup(Append(s, e))
         /\ \A x : x \notin Elements(s) => OnlyLast(x, Append(s, e))
         /\ Append(s, e) # <<>>
         /\ s # <<>> => Head(Append(s, e)) = Head(s)
<1>. DEFINE t == Append(s, e)
<1>1. /\ DOMAIN s = 1 .. Len(s) /\ DOMAIN t = 1 .. Len(s) + 1 /\ Len(s) \in Nat
      /\ \A i \in 1 .. Len(s) : t[i] = s[i]
      /\ t[Len(s) + 1] = e
  OBVIOUS
<1>2. Elements(t) = Elements(s) \cup {e}
  BY <1>1 DEF Elements
<1>3. ASSUME NoDup(s), e \notin Elements(s) PROVE NoDup(t)
  BY <1>1, <1>3 DEF NoDup, Elements
<1>4. ASSUME NEW x, x \notin Elements(s) PROVE OnlyLast(x, t)
  BY <1>1, <1>4 DEF OnlyLast, Elements
<1>5. t # <<>>
  BY <1>1
<1>6. ASSUME s # <<>> PROVE Head(t) = Head(s)
  <2>1. 1 \in 1 .. Len(s) /\ Head(s) = s[1] /\ Head(t) = t[1]
    BY <1>1, <1>5, <1>6
  <2>. QED  BY <1>1, <2>1
<1>. QED  BY <1>2, <1>3, <1>4, <1>5, <1>6

(* Taking the first element away leaves the others.                         *)
LEMMA TailElements ==
  ASSUME NEW S, NEW s \in Seq(S), s # <<>>
  PROVE  /\ Head(s) \in Elements(s)
         /\ Elements(s) = Elements(Tail(s)) \cup {Head(s)}
         /\ NoDup(s) => NoDup(Tail(s)) /\ Head(s) \notin Elements(Tail(s))
         /\ \A x : OnlyLast(x, s) =>
              /\ OnlyLast(x, Tail(s))
              /\ Head(s) = x => Tail(s) = <<>>
<1>. DEFINE t == Tail(s)
<1>1. /\ DOMAIN s = 1 .. Len(s) /\ DOMAIN t = 1 .. Len(s) - 1
      /\ Len(s) \in Nat /\ Len(s) > 0
      /\ \A i \in 1 .. Len(s) - 1 : t[i] = s[i + 1]
      /\ Head(s) = s[1]
  OBVIOUS
<1>2. Elements(s) = Elements(t) \cup {Head(s)}
  <2>1. \A i \in 1 .. Len(s) : i = 1 \/ (i - 1 \in 1 .. Len(s) - 1 /\ s[i] = t[i - 1])
    BY <1>1
  <2>2. \A i \in 1 .. Len(s) : s[i] \in Elements(t) \cup {Head(s)}
    BY <1>1, <2>1 DEF Elements
  <2>3. \A x \in Elements(t) \cup {Head(s)} : x \in Elements(s)
    BY <1>1 DEF Elements
  <2>. QED  BY <1>1, <2>2, <2>3 DEF Elements
<1>3. ASSUME NoDup(s) PROVE NoDup(t) /\ Head(s) \notin Elements(t)
  BY <1>1, <1>3 DEF NoDup, Elements
<1>4. ASSUME NEW x, OnlyLast(x, s)
      PROVE  OnlyLast(x, t) /\ (Head(s) = x => t = <<>>)
  <2>1. Len(t) = Len(s) - 1
    BY <1>1
  <2>2. OnlyLast(x, t)
    BY <1>1, <1>4, <2>1 DEF OnlyLast
  <2>3. Head(s) = x => t = <<>>
    BY <1>1, <1>4, <2>1 DEF OnlyLast
  <2>. QED  BY <2>2, <2>3
<1>. QED  BY <1>2, <1>3, <1>4

(* Concatenation.                                                           *)
LEMMA ConcatElements ==
  ASSUME NEW S, NEW s \in Seq(S), NEW t \in Seq(S)
  PROVE  /\ Elements(s \o t) = Elements(s) \cup Elements(t)
         /\ NoDup(s) /\ NoDup(t) /\ Elements(s) \cap Elements(t) = {} => NoDup(s \o t)
<1>. DEFINE u == s \o t
<1>1. /\ DOMAIN s = 1 .. Len(s) /\ DOMAIN t = 1 .. Len(t)
      /\ DOMAIN u = 1 .. Len(s) + Len(t)
      /\ Len(s) \in Nat /\ Len(t) \in Nat
      /\ \A i \in 1 .. Len(s) : u[i] = s[i]
      /\ \A i \in Len(s) + 1 .. Len(s) + Len(t) : u[i] = t[i - Len(s)]
  OBVIOUS
<1>2. \A i \in 1 .. Len(t) : Len(s) + i \in DOMAIN u /\ u[Len(s) + i] = t[i]
  BY <1>1
<1>3. Elements(u) = Elements(s) \cup Elements(t)
  <2>1. \A i \in DOMAIN u : u[i] \in Elements(s) \cup Elements(t)
    BY <1>1 DEF Elements
  <2>2. \A i \in DOMAIN s : s[i] \in Elements(u)
    BY <1>1 DEF Elements
  <2>3. \A i \in DOMAIN t : t[i] \in Elements(u)
    BY <1>1, <1>2 DEF Elements
  <2>. QED  BY <2>1, <2>2, <2>3 DEF Elements
<1>4. ASSUME NoDup(s), NoDup(t), Elements(s) \cap Elements(t) = {}
      PROVE  NoDup(u)
  <2>. SUFFICES ASSUME NEW i \in DOMAIN u, NEW j \in DOMAIN u, u[i] = u[j]
                PROVE  i = j
    BY DEF NoDup
  <2>1. CASE i <= Len(s) /\ j <= Len(s)
    BY <1>1, <1>4, <2>1 DEF NoDup
  <2>2. CASE i > Len(s) /\ j > Len(s)
    BY <1>1, <1>4, <2>2 DEF NoDup
  <2>a. \A k \in DOMAIN u : k <= Len(s) => u[k] \in Elements(s)
    BY <1>1 DEF Elements
  <2>b. \A k \in DOMAIN u : k > Len(s) => u[k] \in Elements(t)
    BY <1>1 DEF Elements
  <2>3. CASE i <= Len(s) /\ j > Len(s)
    BY <1>4, <2>3, <2>a, <2>b
  <2>4. CASE i > Len(s) /\ j <= Len(s)
    BY <1>4, <2>4, <2>a, <2>b
  <2>. QED  BY <1>1, <2>1, <2>2, <2>3, <2>4
<1>. QED  BY <1>3, <1>4

(* What is selected from a sequence, in order, is a part of it.             *)
LEMMA SelectionElements ==
  ASSUME NEW S, NEW s \in Seq(S), NEW order \in Selections(Len(s)),
         NEW t, t = [i \in DOMAIN order |-> s[order[i]]]
  PROVE  /\ t \in Seq(S)
         /\ DOMAIN t = DOMAIN order
         /\ \A i \in DOMAIN order : order[i] \in 1 .. Len(s)
         /\ Elements(t) \subseteq Elements(s)
         /\ NoDup(s) => NoDup(t)
         /\ s = <<>> => t = <<>>
<1>1. PICK m \in 0 .. Len(s) : order \in [1 .. m -> 1 .. Len(s)]
  BY DEF Selections
<1>2. \A i, j \in DOMAIN order : i < j => order[i] < order[j]
  BY DEF Selections
<1>3. DOMAIN order = 1 .. m /\ m \in Nat /\ DOMAIN t = 1 .. m
  BY <1>1
<1>4. \A i \in 1 .. m : t[i] = s[order[i]] /\ order[i] \in DOMAIN s /\ t[i] \in S
  BY <1>1, <1>3
<1>5. t \in Seq(S)
  BY <1>3, <1>4
<1>6. Elements(t) \subseteq Elements(s)
  BY <1>3, <1>4 DEF Elements
<1>7. ASSUME NoDup(s) PROVE NoDup(t)
  <2>. SUFFICES ASSUME NEW i \in 1 .. m, NEW j \in 1 .. m, t[i] = t[j]
                PROVE  i = j
    BY <1>3 DEF NoDup
  <2>1. order[i] = order[j]
    BY <1>4, <1>7 DEF NoDup
  <2>. QED  BY <1>1, <1>2, <1>3, <2>1
<1>8. ASSUME s = <<>> PROVE t = <<>>
  BY <1>1, <1>3, <1>8
<1>. QED  BY <1>1, <1>3, <1>5, <1>6, <1>7, <1>8

-----------------------------------------------------------------------------
(* The inductive invariant.                                                 *)

Write(c) == kind[c] # NoKind /\ kind[c].mutation

(* The client learns nothing more of calls that are with the worker.        *)
Gone == faulted \/ worker \in {"drained", "exited"}

(* The flags of the client: a failed client has settled everything, and a   *)
(* closed one has nothing left to send.                                     *)
ClientOK ==
  /\ faulted => closed /\ Pending = {}
  /\ terminated = faulted
  /\ closed => queued = <<>>
  /\ exitSeen => worker = "exited" /\ outbox = <<>> /\ closed /\ Pending = {}
  /\ closing = "done" => exitSeen
  /\ NoDup(queued)
  /\ \A c \in Elements(queued) : status[c] = "queued"

(* The shutdown is the last request, in the channel and in the tail, and    *)
(* its answer the last message.                                             *)
ShutdownOK ==
  /\ Shutdown \in Elements(inbox) => closed
  /\ OnlyLast(Shutdown, inbox)
  /\ stopping => closed /\ inbox = <<>>
  /\ closing = "no" => ~stopping /\ Shutdown \notin Elements(inbox)
  /\ OnlyLast(Shutdown, tail)
  /\ Shutdown \in Elements(tail) => stopping
  /\ worker = "drained" \/ ShutdownComplete \in Elements(outbox) => stopping
  /\ ShutdownComplete \in Elements(outbox) => worker \in {"drained", "exited"}
  /\ OnlyLast(ShutdownComplete, outbox)

(* A request in the channel was not received, and unless the worker is to   *)
(* be terminated its caller waits for it, or was told that the outcome is   *)
(* unknown.                                                                 *)
InboxOK ==
  /\ NoDup(inbox)
  /\ \A c \in Calls : c \in Elements(inbox) =>
       /\ phase[c] = "none"
       /\ status[c] \notin {"none", "queued"}
       /\ kind[c].mutation =>
            terminated \/ status[c] = "sent" \/ (status[c] = "unknown" /\ Gone)

(* Where the worker is with a call, against what its caller knows.          *)
PhaseOK ==
  \A c \in Calls :
    /\ phase[c] # "none" => status[c] \notin {"none", "queued"}
    /\ phase[c] \in {"waiting", "executing"} /\ kind[c].mutation =>
         status[c] = "sent" \/ (status[c] = "unknown" /\ Gone)
    /\ effect[c] => Write(c) /\ phase[c] \in {"executing", "done"}

(* Every call the worker has is in its chain, and executed at its head.     *)
ChainOK ==
  \A c \in Calls : phase[c] # "none" /\ kind[c].route # "query" =>
    /\ phase[c] = "waiting" =>
         \/ kind[c].route = "tail" /\ c \in Elements(tail)
         \/ kind[c].route \in Lanes /\ c \in Elements(lane[kind[c].route])
    /\ phase[c] = "executing" => AtHead(c)

(* What was settled.                                                        *)
StatusOK ==
  \A c \in Calls :
    /\ status[c] = "none" <=> kind[c] = NoKind
    /\ status[c] = "unknown" => kind[c].mutation
    /\ Write(c) =>
         /\ status[c] = "result" => effect[c]
         /\ status[c] \in {"rejected", "notExecuted"} => phase[c] = "done" /\ ~effect[c]
         /\ status[c] = "failed" => phase[c] = "none"

(* What is on its way to the client.                                        *)
OutboxOK ==
  \A c \in Calls, a \in Answers : Answer(c, a) \in Elements(outbox) =>
    /\ phase[c] = "done" /\ a # "failed"
    /\ a = "unknown" => kind[c].mutation
    /\ kind[c].mutation => /\ a = "result" => effect[c]
                           /\ a \in {"rejected", "notExecuted"} => ~effect[c]

(* A call that was sent is with the worker or its answer is on its way.     *)
SentOK ==
  \A c \in Calls : status[c] = "sent" =>
    \/ c \in Elements(inbox)
    \/ phase[c] \in {"waiting", "executing"}
    \/ \E a \in Answers : Answer(c, a) \in Elements(outbox)
    \/ kind[c].route = "query" /\ phase[c] = "done" /\ worker \in {"drained", "exited"}

(* A drained worker works on queries only.                                  *)
DrainedOK ==
  worker = "drained" \/ ShutdownComplete \in Elements(outbox) =>
    \A c \in Calls : phase[c] \in {"waiting", "executing"} => kind[c].route = "query"

IInv == /\ TypeOK /\ ClientOK /\ ShutdownOK /\ InboxOK /\ PhaseOK /\ ChainOK
        /\ StatusOK /\ OutboxOK /\ SentOK /\ DrainedOK

-----------------------------------------------------------------------------
(* The messages differ.                                                     *)
LEMMA MessageKinds ==
  /\ Ready # ShutdownComplete
  /\ \A c, a : Answer(c, a) # Ready /\ Answer(c, a) # ShutdownComplete
  /\ \A c, a, d, b : Answer(c, a) = Answer(d, b) => c = d /\ a = b
  /\ \A m \in Messages : m.type = "answer" =>
       \E c \in Calls, a \in Answers : m = Answer(c, a) /\ m.id = c /\ m.answer = a
BY DEF Ready, ShutdownComplete, Answer, Messages

(* Dispatching a request.                                                   *)
LEMMA ExecutePreserves ==
  ASSUME IInv, NEW c \in Calls, Execute(c)
  PROVE  IInv'
<1>1. TypeOK'
  BY DEF IInv, Execute, clientVars, workerVars, TypeOK
<1>2. ClientOK'
  BY DEF IInv, Execute, clientVars, workerVars, TypeOK, ClientOK, Pending
<1>3. ShutdownOK'
  BY DEF IInv, Execute, clientVars, workerVars, TypeOK, ClientOK, ShutdownOK
<1>4. InboxOK'
  BY DEF IInv, Execute, clientVars, workerVars, TypeOK, ClientOK, InboxOK,
     PhaseOK, Gone
<1>5. PhaseOK'
  BY DEF IInv, Execute, clientVars, workerVars, TypeOK, ClientOK, InboxOK,
     PhaseOK, Gone, Write
<1>6. ChainOK'
  BY DEF IInv, Execute, clientVars, workerVars, TypeOK, ChainOK, AtHead
<1>7. StatusOK'
  BY DEF IInv, Execute, clientVars, workerVars, TypeOK, StatusOK, PhaseOK,
     Write
<1>8. OutboxOK'
  BY DEF IInv, Execute, clientVars, workerVars, TypeOK, OutboxOK, PhaseOK
<1>9. SentOK'
  BY DEF IInv, Execute, clientVars, workerVars, TypeOK, SentOK
<1>10. DrainedOK'
  BY DEF IInv, Execute, clientVars, workerVars, TypeOK, DrainedOK
<1>. QED  BY <1>1, <1>2, <1>3, <1>4, <1>5, <1>6, <1>7, <1>8, <1>9, <1>10 DEF
   IInv

(* A commit.                                                                *)
LEMMA CommitPreserves ==
  ASSUME IInv, NEW c \in Calls, Commit(c)
  PROVE  IInv'
<1>1. TypeOK'
  BY DEF IInv, Commit, clientVars, workerVars, TypeOK
<1>2. ClientOK'
  BY DEF IInv, Commit, clientVars, workerVars, TypeOK, ClientOK, Pending
<1>3. ShutdownOK'
  BY DEF IInv, Commit, clientVars, workerVars, TypeOK, ClientOK, ShutdownOK
<1>4. InboxOK'
  BY DEF IInv, Commit, clientVars, workerVars, TypeOK, ClientOK, InboxOK,
     PhaseOK, Gone
<1>5. PhaseOK'
  BY DEF IInv, Commit, clientVars, workerVars, TypeOK, ClientOK, InboxOK,
     PhaseOK, Gone, Write, StatusOK
<1>6. ChainOK'
  BY DEF IInv, Commit, clientVars, workerVars, TypeOK, ChainOK, AtHead
<1>7. StatusOK'
  BY DEF IInv, Commit, clientVars, workerVars, TypeOK, StatusOK, PhaseOK,
     Write
<1>8. OutboxOK'
  BY DEF IInv, Commit, clientVars, workerVars, TypeOK, OutboxOK, PhaseOK
<1>9. SentOK'
  BY DEF IInv, Commit, clientVars, workerVars, TypeOK, SentOK
<1>10. DrainedOK'
  BY DEF IInv, Commit, clientVars, workerVars, TypeOK, DrainedOK
<1>. QED  BY <1>1, <1>2, <1>3, <1>4, <1>5, <1>6, <1>7, <1>8, <1>9, <1>10 DEF
   IInv

(* The exit of a drained worker.                                            *)
LEMMA ExitPreserves ==
  ASSUME IInv, Exit
  PROVE  IInv'
<1>1. TypeOK'
  BY DEF IInv, Exit, clientVars, workerVars, TypeOK
<1>2. ClientOK'
  BY DEF IInv, Exit, clientVars, workerVars, TypeOK, ClientOK, Pending
<1>3. ShutdownOK'
  BY DEF IInv, Exit, clientVars, workerVars, TypeOK, ClientOK, ShutdownOK
<1>4. InboxOK'
  BY DEF IInv, Exit, clientVars, workerVars, TypeOK, ClientOK, InboxOK,
     PhaseOK, Gone
<1>5. PhaseOK'
  BY DEF IInv, Exit, clientVars, workerVars, TypeOK, ClientOK, InboxOK,
     PhaseOK, Gone, Write
<1>6. ChainOK'
  BY DEF IInv, Exit, clientVars, workerVars, TypeOK, ChainOK, AtHead
<1>7. StatusOK'
  BY DEF IInv, Exit, clientVars, workerVars, TypeOK, StatusOK, PhaseOK, Write
<1>8. OutboxOK'
  BY DEF IInv, Exit, clientVars, workerVars, TypeOK, OutboxOK, PhaseOK
<1>9. SentOK'
  BY DEF IInv, Exit, clientVars, workerVars, TypeOK, SentOK
<1>10. DrainedOK'
  BY DEF IInv, Exit, clientVars, workerVars, TypeOK, DrainedOK
<1>. QED  BY <1>1, <1>2, <1>3, <1>4, <1>5, <1>6, <1>7, <1>8, <1>9, <1>10 DEF
   IInv

(* A death.                                                                 *)
LEMMA DiePreserves ==
  ASSUME IInv, Die
  PROVE  IInv'
<1>1. TypeOK'
  BY DEF IInv, Die, clientVars, workerVars, TypeOK
<1>2. ClientOK'
  BY DEF IInv, Die, clientVars, workerVars, TypeOK, ClientOK, Pending
<1>3. ShutdownOK'
  BY DEF IInv, Die, clientVars, workerVars, TypeOK, ClientOK, ShutdownOK
<1>4. InboxOK'
  BY DEF IInv, Die, clientVars, workerVars, TypeOK, ClientOK, InboxOK,
     PhaseOK, Gone
<1>5. PhaseOK'
  BY DEF IInv, Die, clientVars, workerVars, TypeOK, ClientOK, InboxOK,
     PhaseOK, Gone, Write
<1>6. ChainOK'
  BY DEF IInv, Die, clientVars, workerVars, TypeOK, ChainOK, AtHead
<1>7. StatusOK'
  BY DEF IInv, Die, clientVars, workerVars, TypeOK, StatusOK, PhaseOK, Write
<1>8. OutboxOK'
  BY DEF IInv, Die, clientVars, workerVars, TypeOK, OutboxOK, PhaseOK
<1>9. SentOK'
  BY DEF IInv, Die, clientVars, workerVars, TypeOK, SentOK
<1>10. DrainedOK'
  BY DEF IInv, Die, clientVars, workerVars, TypeOK, DrainedOK
<1>. QED  BY <1>1, <1>2, <1>3, <1>4, <1>5, <1>6, <1>7, <1>8, <1>9, <1>10 DEF
   IInv

(* The error event.                                                         *)
LEMMA HandleErrorPreserves ==
  ASSUME IInv, HandleError
  PROVE  IInv'
<1>a. status' \in [Calls -> {"none", "queued", "sent"} \cup Answers]
  BY DEF HandleError, Fail, FailWith, Unanswered, IInv, TypeOK, Answers
<1>b. queued' \in Seq(Calls)
  BY DEF HandleError, Fail, FailWith, IInv, TypeOK
<1>1. TypeOK'
  BY <1>a, <1>b DEF IInv, HandleError, Fail, FailWith, Unanswered, Pending,
     clientVars, workerVars, TypeOK
<1>2. ClientOK'
  BY EmptyElements DEF IInv, HandleError, Fail, FailWith, Unanswered, Pending,
     clientVars, workerVars, TypeOK, ClientOK
<1>3. ShutdownOK'
  BY DEF IInv, HandleError, Fail, FailWith, Unanswered, Pending, clientVars,
     workerVars, TypeOK, ClientOK, ShutdownOK
<1>4. InboxOK'
  BY DEF IInv, HandleError, Fail, FailWith, Unanswered, Pending, clientVars,
     workerVars, TypeOK, ClientOK, InboxOK, PhaseOK, Gone
<1>5. PhaseOK'
  BY DEF IInv, HandleError, Fail, FailWith, Unanswered, Pending, clientVars,
     workerVars, TypeOK, ClientOK, InboxOK, PhaseOK, Gone, Write
<1>6. ChainOK'
  BY DEF IInv, HandleError, Fail, FailWith, Unanswered, Pending, clientVars,
     workerVars, TypeOK, ChainOK, AtHead
<1>7. StatusOK'
  BY DEF IInv, HandleError, Fail, FailWith, Unanswered, Pending, clientVars,
     workerVars, TypeOK, StatusOK, PhaseOK, Write
<1>8. OutboxOK'
  BY DEF IInv, HandleError, Fail, FailWith, Unanswered, Pending, clientVars,
     workerVars, TypeOK, OutboxOK, PhaseOK
<1>9. SentOK'
  BY DEF IInv, HandleError, Fail, FailWith, Unanswered, Pending, clientVars,
     workerVars, TypeOK, SentOK
<1>10. DrainedOK'
  BY DEF IInv, HandleError, Fail, FailWith, Unanswered, Pending, clientVars,
     workerVars, TypeOK, DrainedOK
<1>. QED  BY <1>1, <1>2, <1>3, <1>4, <1>5, <1>6, <1>7, <1>8, <1>9, <1>10 DEF
   IInv

(* The exit event.                                                          *)
LEMMA HandleExitPreserves ==
  ASSUME IInv, HandleExit
  PROVE  IInv'
<1>a. status' \in [Calls -> {"none", "queued", "sent"} \cup Answers]
  BY DEF HandleExit, Fail, FailWith, RejectPending, Unanswered, IInv, TypeOK, Answers
<1>b. queued' \in Seq(Calls)
  BY EmptyElements DEF HandleExit, Fail, FailWith, IInv, TypeOK
<1>1. TypeOK'
  BY <1>a, <1>b DEF IInv, HandleExit, Fail, FailWith, RejectPending,
     Unanswered, Pending, clientVars, workerVars, TypeOK
<1>2. ClientOK'
  BY EmptyElements DEF IInv, HandleExit, Fail, FailWith, RejectPending,
     Unanswered, Pending, clientVars, workerVars, TypeOK, ClientOK
<1>3. ShutdownOK'
  BY DEF IInv, HandleExit, Fail, FailWith, RejectPending, Unanswered, Pending,
     clientVars, workerVars, TypeOK, ClientOK, ShutdownOK
<1>4. InboxOK'
  BY DEF IInv, HandleExit, Fail, FailWith, RejectPending, Unanswered, Pending,
     clientVars, workerVars, TypeOK, ClientOK, InboxOK, PhaseOK, Gone
<1>5. PhaseOK'
  BY DEF IInv, HandleExit, Fail, FailWith, RejectPending, Unanswered, Pending,
     clientVars, workerVars, TypeOK, ClientOK, InboxOK, PhaseOK, Gone, Write
<1>6. ChainOK'
  BY DEF IInv, HandleExit, Fail, FailWith, RejectPending, Unanswered, Pending,
     clientVars, workerVars, TypeOK, ChainOK, AtHead
<1>7. StatusOK'
  BY DEF IInv, HandleExit, Fail, FailWith, RejectPending, Unanswered, Pending,
     clientVars, workerVars, TypeOK, StatusOK, PhaseOK, Write
<1>8. OutboxOK'
  BY DEF IInv, HandleExit, Fail, FailWith, RejectPending, Unanswered, Pending,
     clientVars, workerVars, TypeOK, OutboxOK, PhaseOK
<1>9. SentOK'
  BY DEF IInv, HandleExit, Fail, FailWith, RejectPending, Unanswered, Pending,
     clientVars, workerVars, TypeOK, SentOK
<1>10. DrainedOK'
  BY DEF IInv, HandleExit, Fail, FailWith, RejectPending, Unanswered, Pending,
     clientVars, workerVars, TypeOK, DrainedOK
<1>. QED  BY <1>1, <1>2, <1>3, <1>4, <1>5, <1>6, <1>7, <1>8, <1>9, <1>10 DEF
   IInv

(* The worker is ready.                                                     *)
LEMMA StartPreserves ==
  ASSUME IInv, Start
  PROVE  IInv'
<1>a. outbox \in Seq(Messages) /\ Ready \in Messages
  BY DEF IInv, TypeOK, Messages
<1>b. /\ Elements(outbox') = Elements(outbox) \cup {Ready}
      /\ ShutdownComplete \notin Elements(outbox)
      /\ OnlyLast(ShutdownComplete, outbox')
  BY <1>a, AppendElements DEF Start, IInv, ShutdownOK
<1>1. TypeOK'
  BY <1>a DEF IInv, Start, clientVars, workerVars, TypeOK
<1>2. ClientOK'
  BY DEF IInv, Start, clientVars, workerVars, TypeOK, ClientOK, Pending
<1>3. ShutdownOK'
  BY <1>b, MessageKinds DEF IInv, Start, clientVars, workerVars, TypeOK,
     ClientOK, ShutdownOK
<1>4. InboxOK'
  BY DEF IInv, Start, clientVars, workerVars, TypeOK, ClientOK, InboxOK,
     PhaseOK, Gone
<1>5. PhaseOK'
  BY DEF IInv, Start, clientVars, workerVars, TypeOK, ClientOK, InboxOK,
     PhaseOK, Gone, Write
<1>6. ChainOK'
  BY DEF IInv, Start, clientVars, workerVars, TypeOK, ChainOK, AtHead
<1>7. StatusOK'
  BY DEF IInv, Start, clientVars, workerVars, TypeOK, StatusOK, PhaseOK, Write
<1>8. OutboxOK'
  BY <1>b, MessageKinds DEF IInv, Start, clientVars, workerVars, TypeOK,
     OutboxOK, PhaseOK
<1>9. SentOK'
  BY <1>b DEF IInv, Start, clientVars, workerVars, TypeOK, SentOK
<1>10. DrainedOK'
  BY <1>b, MessageKinds DEF IInv, Start, clientVars, workerVars, TypeOK,
     DrainedOK
<1>. QED  BY <1>1, <1>2, <1>3, <1>4, <1>5, <1>6, <1>7, <1>8, <1>9, <1>10 DEF
   IInv

(* An answer.                                                               *)
LEMMA HandleAnswerPreserves ==
  ASSUME IInv, HandleAnswer
  PROVE  IInv'
<1>a. PICK c \in Calls, a \in Answers :
        Head(outbox) = Answer(c, a) /\ Head(outbox).id = c /\ Head(outbox).answer = a
  BY MessageKinds DEF HandleAnswer, IInv, TypeOK
<1>b. /\ Answer(c, a) \in Elements(outbox)
      /\ Elements(outbox) = Elements(outbox') \cup {Answer(c, a)}
      /\ OnlyLast(ShutdownComplete, outbox')
      /\ outbox' \in Seq(Messages)
  BY <1>a, TailElements DEF HandleAnswer, IInv, TypeOK, ShutdownOK
<1>c. /\ status' = IF c \in Pending THEN [status EXCEPT ![c] = a] ELSE status
      /\ UNCHANGED <<kind, clientVars, inbox, workerVars, made>>
  BY <1>a DEF HandleAnswer
<1>d. /\ phase[c] = "done" /\ status[c] \notin {"none", "queued"} /\ a # "failed"
  BY <1>b DEF IInv, OutboxOK, PhaseOK
<1>e. ~exitSeen
  BY DEF HandleAnswer, IInv, ClientOK
<1>1. TypeOK'
  BY <1>b, <1>c, <1>d DEF IInv, Pending, clientVars, workerVars, TypeOK,
     Answers
<1>2. ClientOK'
  BY <1>b, <1>c, <1>d, <1>e DEF IInv, Pending, clientVars, workerVars, TypeOK,
     ClientOK
<1>3. ShutdownOK'
  BY <1>b, <1>c, <1>d DEF IInv, Pending, clientVars, workerVars, TypeOK,
     ClientOK, ShutdownOK
<1>4. InboxOK'
  BY <1>b, <1>c, <1>d DEF IInv, Pending, clientVars, workerVars, TypeOK,
     ClientOK, InboxOK, PhaseOK, Gone
<1>5. PhaseOK'
  BY <1>b, <1>c, <1>d DEF IInv, Pending, clientVars, workerVars, TypeOK,
     ClientOK, InboxOK, PhaseOK, Gone, Write, Answers
<1>6. ChainOK'
  BY <1>b, <1>c, <1>d DEF IInv, Pending, clientVars, workerVars, TypeOK,
     ChainOK, AtHead
<1>7. StatusOK'
  BY <1>b, <1>c, <1>d DEF IInv, Pending, clientVars, workerVars, TypeOK,
     StatusOK, PhaseOK, Write, OutboxOK, Answers
<1>8. OutboxOK'
  BY <1>b, <1>c, <1>d, MessageKinds DEF IInv, Pending, clientVars, workerVars,
     TypeOK, OutboxOK, PhaseOK
<1>9. SentOK'
  BY <1>b, <1>c, <1>d, MessageKinds DEF IInv, Pending, clientVars, workerVars,
     TypeOK, SentOK, Answers
<1>10. DrainedOK'
  BY <1>b, <1>c, <1>d DEF IInv, Pending, clientVars, workerVars, TypeOK,
     DrainedOK
<1>. QED  BY <1>1, <1>2, <1>3, <1>4, <1>5, <1>6, <1>7, <1>8, <1>9, <1>10 DEF
   IInv

(* The answer to the shutdown.                                              *)
LEMMA HandleShutdownCompletePreserves ==
  ASSUME IInv, HandleShutdownComplete
  PROVE  IInv'
<1>a. /\ ShutdownComplete \in Elements(outbox)
      /\ Elements(outbox') \subseteq Elements(outbox)
      /\ Elements(outbox) = Elements(outbox') \cup {ShutdownComplete}
      /\ OnlyLast(ShutdownComplete, outbox')
      /\ outbox' \in Seq(Messages)
  BY TailElements DEF HandleShutdownComplete, IInv, TypeOK, ShutdownOK
<1>b. worker \in {"drained", "exited"} /\ closed /\ queued = <<>> /\ inbox = <<>>
  BY <1>a DEF IInv, ShutdownOK, ClientOK
<1>1. TypeOK'
  BY <1>a, <1>b DEF IInv, HandleShutdownComplete, RejectPending, Unanswered,
     Pending, clientVars, workerVars, TypeOK, Answers
<1>2. ClientOK'
  BY <1>a, <1>b, EmptyElements DEF IInv, HandleShutdownComplete,
     RejectPending, Unanswered, Pending, clientVars, workerVars, TypeOK,
     ClientOK
<1>3. ShutdownOK'
  BY <1>a, <1>b DEF IInv, HandleShutdownComplete, RejectPending, Unanswered,
     Pending, clientVars, workerVars, TypeOK, ClientOK, ShutdownOK
<1>4. InboxOK'
  BY <1>a, <1>b, EmptyElements DEF IInv, HandleShutdownComplete,
     RejectPending, Unanswered, Pending, clientVars, workerVars, TypeOK,
     ClientOK, InboxOK, PhaseOK, Gone
<1>5. PhaseOK'
  BY <1>a, <1>b DEF IInv, HandleShutdownComplete, RejectPending, Unanswered,
     Pending, clientVars, workerVars, TypeOK, ClientOK, InboxOK, PhaseOK,
     Gone, Write
<1>6. ChainOK'
  BY <1>a, <1>b DEF IInv, HandleShutdownComplete, RejectPending, Unanswered,
     Pending, clientVars, workerVars, TypeOK, ChainOK, AtHead
<1>7. StatusOK'
  BY <1>a, <1>b DEF IInv, HandleShutdownComplete, RejectPending, Unanswered,
     Pending, clientVars, workerVars, TypeOK, StatusOK, PhaseOK, Write
<1>8. OutboxOK'
  BY <1>a, <1>b DEF IInv, HandleShutdownComplete, RejectPending, Unanswered,
     Pending, clientVars, workerVars, TypeOK, OutboxOK, PhaseOK
<1>9. SentOK'
  BY <1>a, <1>b DEF IInv, HandleShutdownComplete, RejectPending, Unanswered,
     Pending, clientVars, workerVars, TypeOK, SentOK
<1>10. DrainedOK'
  BY <1>a, <1>b DEF IInv, HandleShutdownComplete, RejectPending, Unanswered,
     Pending, clientVars, workerVars, TypeOK, DrainedOK
<1>. QED  BY <1>1, <1>2, <1>3, <1>4, <1>5, <1>6, <1>7, <1>8, <1>9, <1>10 DEF
   IInv

(* close().                                                                 *)
LEMMA ClosePreserves ==
  ASSUME IInv, Close
  PROVE  IInv'
<1>a. /\ ~stopping /\ Shutdown \notin Elements(inbox) /\ inbox \in Seq(Calls \cup {Shutdown})
      /\ NoDup(inbox)
  BY DEF Close, IInv, ShutdownOK, InboxOK, TypeOK
<1>b. ASSUME ~faulted
      PROVE  /\ Elements(inbox') = Elements(inbox) \cup {Shutdown}
             /\ NoDup(inbox') /\ OnlyLast(Shutdown, inbox')
             /\ inbox' \in Seq(Calls \cup {Shutdown})
  <2>1. inbox' = Append(inbox, Shutdown)
    BY <1>b DEF Close
  <2>. QED  BY <1>a, <2>1, AppendElements
<1>c. status' \in [Calls -> {"none", "queued", "sent"} \cup Answers]
  BY DEF Close, IInv, TypeOK, Answers
<1>d. queued' \in Seq(Calls)
  BY EmptyElements DEF Close, IInv, TypeOK
<1>1. TypeOK'
  BY <1>a, <1>b, <1>c, <1>d DEF IInv, Close, ReturnsAtOnce, clientVars,
     workerVars, TypeOK
<1>2. ClientOK'
  BY <1>a, <1>b, EmptyElements DEF IInv, Close, ReturnsAtOnce, clientVars,
     workerVars, TypeOK, ClientOK, Pending
<1>3. ShutdownOK'
  BY <1>a, <1>b DEF IInv, Close, ReturnsAtOnce, clientVars, workerVars,
     TypeOK, ClientOK, ShutdownOK
<1>4. InboxOK'
  BY <1>a, <1>b, CallsAssumption DEF IInv, Close, ReturnsAtOnce, clientVars,
     workerVars, TypeOK, ClientOK, InboxOK, PhaseOK, Gone
<1>5. PhaseOK'
  BY <1>a, <1>b DEF IInv, Close, ReturnsAtOnce, clientVars, workerVars,
     TypeOK, ClientOK, InboxOK, PhaseOK, Gone, Write
<1>6. ChainOK'
  BY <1>a, <1>b DEF IInv, Close, ReturnsAtOnce, clientVars, workerVars,
     TypeOK, ChainOK, AtHead
<1>7. StatusOK'
  BY <1>a, <1>b DEF IInv, Close, ReturnsAtOnce, clientVars, workerVars,
     TypeOK, StatusOK, PhaseOK, Write
<1>8. OutboxOK'
  BY <1>a, <1>b DEF IInv, Close, ReturnsAtOnce, clientVars, workerVars,
     TypeOK, OutboxOK, PhaseOK
<1>9. SentOK'
  BY <1>a, <1>b DEF IInv, Close, ReturnsAtOnce, clientVars, workerVars,
     TypeOK, SentOK
<1>10. DrainedOK'
  BY <1>a, <1>b DEF IInv, Close, ReturnsAtOnce, clientVars, workerVars,
     TypeOK, DrainedOK
<1>. QED  BY <1>1, <1>2, <1>3, <1>4, <1>5, <1>6, <1>7, <1>8, <1>9, <1>10 DEF
   IInv

(* Receiving a request, or the shutdown.                                    *)
LEMMA HandleRequestPreserves ==
  ASSUME IInv, HandleRequest
  PROVE  IInv'
<1>. DEFINE m == Head(inbox)
<1>a. /\ inbox \in Seq(Calls \cup {Shutdown}) /\ inbox # <<>> /\ NoDup(inbox)
      /\ m \in Calls \cup {Shutdown} /\ OnlyLast(Shutdown, inbox)
      /\ worker = "running" /\ ~terminated /\ ~stopping
  BY DEF HandleRequest, Alive, IInv, TypeOK, InboxOK, ShutdownOK
<1>b. /\ Elements(inbox) = Elements(inbox') \cup {m}
      /\ m \notin Elements(inbox')
      /\ NoDup(inbox') /\ OnlyLast(Shutdown, inbox')
      /\ m = Shutdown => inbox' = <<>>
      /\ inbox' \in Seq(Calls \cup {Shutdown})
  BY <1>a, TailElements DEF HandleRequest
<1>c. /\ tail \in Seq(Calls \cup {Shutdown}) /\ Shutdown \notin Elements(tail)
      /\ ShutdownComplete \notin Elements(outbox)
  BY <1>a DEF IInv, TypeOK, ShutdownOK
<1>d. m # Shutdown =>
        /\ m \in Calls /\ phase[m] = "none" /\ status[m] \notin {"none", "queued"}
        /\ kind[m] \in Kinds /\ kind[m].route \in Routes
        /\ kind[m].route = "query" => ~kind[m].mutation
        /\ kind[m].mutation => status[m] = "sent" \/ (status[m] = "unknown" /\ Gone)
  BY <1>a, <1>b DEF IInv, TypeOK, InboxOK, StatusOK, Kinds
<1>e. /\ Elements(Append(tail, m)) = Elements(tail) \cup {m}
      /\ OnlyLast(Shutdown, Append(tail, m))
      /\ Append(tail, m) \in Seq(Calls \cup {Shutdown})
      /\ Append(tail, m) # <<>>
      /\ tail # <<>> => Head(Append(tail, m)) = Head(tail)
  BY <1>a, <1>c, AppendElements
<1>f. /\ UNCHANGED <<kind, status, clientVars, worker, clean, effect, made, outbox>>
      /\ m = Shutdown =>
           /\ stopping' = TRUE /\ tail' = Append(tail, m)
           /\ UNCHANGED <<lane, phase>>
      /\ m # Shutdown =>
           /\ UNCHANGED stopping
           /\ phase' = [phase EXCEPT ![m] = IF kind[m].route = "query"
                                            THEN "executing" ELSE "waiting"]
           /\ tail' = IF kind[m].route = "tail" THEN Append(tail, m) ELSE tail
           /\ lane' = [l \in Lanes |-> IF kind[m].route = l THEN Append(lane[l], m) ELSE lane[l]]
  BY <1>a DEF HandleRequest, Receive, ReceiveShutdown
<1>g. m # Shutdown =>
        \A l \in Lanes : /\ lane[l] \in Seq(Calls) /\ lane'[l] \in Seq(Calls)
                         /\ Elements(lane'[l]) = Elements(lane[l])
                              \cup (IF kind[m].route = l THEN {m} ELSE {})
                         /\ lane[l] # <<>> =>
                              lane'[l] # <<>> /\ Head(lane'[l]) = Head(lane[l])
  <2>. SUFFICES ASSUME m # Shutdown, NEW l \in Lanes
                PROVE  /\ lane[l] \in Seq(Calls) /\ lane'[l] \in Seq(Calls)
                       /\ Elements(lane'[l]) = Elements(lane[l])
                            \cup (IF kind[m].route = l THEN {m} ELSE {})
                       /\ lane[l] # <<>> =>
                            lane'[l] # <<>> /\ Head(lane'[l]) = Head(lane[l])
    OBVIOUS
  <2>1. lane[l] \in Seq(Calls) /\ m \in Calls
    BY <1>d DEF IInv, TypeOK
  <2>2. lane'[l] = IF kind[m].route = l THEN Append(lane[l], m) ELSE lane[l]
    BY <1>f
  <2>3. CASE kind[m].route = l
    BY <2>1, <2>2, <2>3, AppendElements
  <2>4. CASE kind[m].route # l
    BY <2>1, <2>2, <2>4
  <2>. QED  BY <2>3, <2>4
<1>1. TypeOK'
  <2>1. phase' \in [Calls -> {"none", "waiting", "executing", "done"}]
    BY <1>a, <1>d, <1>f DEF IInv, TypeOK
  <2>2. lane' \in [Lanes -> Seq(Calls)]
    BY <1>a, <1>d, <1>f, <1>g DEF IInv, TypeOK
  <2>3. tail' \in Seq(Calls \cup {Shutdown})
    BY <1>a, <1>c, <1>e, <1>f
  <2>. QED  BY <1>a, <1>b, <1>f, <2>1, <2>2, <2>3 DEF IInv, TypeOK, clientVars
<1>2. ClientOK'
  BY <1>a, <1>b, <1>c, <1>d, <1>e, <1>f DEF IInv, Routes, clientVars,
     workerVars, TypeOK, ClientOK, Pending
<1>3. ShutdownOK'
  BY <1>a, <1>b, <1>c, <1>d, <1>e, <1>f DEF IInv, Routes, clientVars,
     workerVars, TypeOK, ClientOK, ShutdownOK
<1>4. InboxOK'
  BY <1>a, <1>b, <1>c, <1>d, <1>e, <1>f DEF IInv, Routes, clientVars,
     workerVars, TypeOK, ClientOK, InboxOK, PhaseOK, Gone
<1>5. PhaseOK'
  BY <1>a, <1>b, <1>c, <1>d, <1>e, <1>f DEF IInv, Routes, clientVars,
     workerVars, TypeOK, ClientOK, InboxOK, PhaseOK, Gone, Write
<1>6. ChainOK'
  <2>. SUFFICES ASSUME NEW c \in Calls, phase'[c] # "none", kind[c].route # "query"
                PROVE  /\ phase'[c] = "waiting" =>
                            \/ kind[c].route = "tail" /\ c \in Elements(tail')
                            \/ kind[c].route \in Lanes /\ c \in Elements(lane'[kind[c].route])
                       /\ phase'[c] = "executing" => AtHead(c)'
    BY <1>f DEF ChainOK
  <2>1. CASE m = Shutdown
    BY <1>a, <1>c, <1>e, <1>f, <2>1 DEF IInv, ChainOK, AtHead
  <2>2. CASE m = c /\ m # Shutdown
    <3>1. phase'[c] = "waiting"
      BY <1>d, <1>f, <2>2 DEF IInv, TypeOK
    <3>. QED  BY <1>d, <1>e, <1>f, <1>g, <2>2, <3>1, LanesAssumption DEF Routes
  <2>3. CASE m # c /\ m # Shutdown
    <3>1. phase'[c] = phase[c]
      BY <1>d, <1>f, <2>3 DEF IInv, TypeOK
    <3>2. AtHead(c) => AtHead(c)'
      BY <1>d, <1>e, <1>f, <1>g, <2>3 DEF AtHead
    <3>. QED  BY <1>d, <1>e, <1>f, <1>g, <2>3, <3>1, <3>2 DEF IInv, ChainOK
  <2>. QED  BY <2>1, <2>2, <2>3
<1>7. StatusOK'
  BY <1>a, <1>b, <1>c, <1>d, <1>e, <1>f DEF IInv, Routes, clientVars,
     workerVars, TypeOK, StatusOK, PhaseOK, Write
<1>8. OutboxOK'
  BY <1>a, <1>b, <1>c, <1>d, <1>e, <1>f DEF IInv, Routes, clientVars,
     workerVars, TypeOK, OutboxOK, PhaseOK
<1>9. SentOK'
  <2>. SUFFICES ASSUME NEW c \in Calls, status[c] = "sent"
                PROVE  \/ c \in Elements(inbox') \/ phase'[c] \in {"waiting", "executing"}
                       \/ \E a \in Answers : Answer(c, a) \in Elements(outbox)
                       \/ kind[c].route = "query" /\ phase'[c] = "done"
                            /\ worker \in {"drained", "exited"}
    BY <1>f DEF SentOK
  <2>1. CASE c = m
    BY <1>d, <1>f, <2>1, CallsAssumption DEF IInv, TypeOK
  <2>2. CASE c # m
    <3>1. phase'[c] = phase[c]
      BY <1>d, <1>f, <2>2 DEF IInv, TypeOK
    <3>. QED  BY <1>b, <2>2, <3>1 DEF IInv, SentOK
  <2>. QED  BY <2>1, <2>2
<1>10. DrainedOK'
  BY <1>a, <1>b, <1>c, <1>d, <1>e, <1>f DEF IInv, Routes, clientVars,
     workerVars, TypeOK, DrainedOK
<1>. QED  BY <1>1, <1>2, <1>3, <1>4, <1>5, <1>6, <1>7, <1>8, <1>9, <1>10 DEF
   IInv

(* The end of a handler.                                                    *)
LEMMA FinishPreserves ==
  ASSUME IInv, NEW c \in Calls, Finish(c)
  PROVE  IInv'
<1>a. /\ phase[c] = "executing" /\ ~terminated
      /\ worker \in {"running", "drained"}
      /\ kind[c] \in Kinds /\ kind[c].route \in Routes
      /\ phase' = [phase EXCEPT ![c] = "done"]
      /\ UNCHANGED <<kind, status, clientVars, inbox, worker, clean, stopping, effect, made>>
  BY DEF Finish, IInv, TypeOK, PhaseOK, StatusOK, Kinds
<1>b. /\ kind[c].route = "tail" => tail # <<>> /\ Head(tail) = c
      /\ kind[c].route \in Lanes =>
           lane[kind[c].route] # <<>> /\ Head(lane[kind[c].route]) = c
  BY <1>a, LanesAssumption DEF IInv, ChainOK, AtHead
<1>c. /\ tail' \in Seq(Calls \cup {Shutdown}) /\ OnlyLast(Shutdown, tail')
      /\ Elements(tail') \subseteq Elements(tail)
      /\ kind[c].route # "tail" => tail' = tail
      /\ \A d \in Elements(tail) : d # c => d \in Elements(tail')
  BY <1>b, TailElements DEF Finish, IInv, TypeOK, ShutdownOK
<1>d. \A l \in Lanes : /\ lane'[l] \in Seq(Calls)
                       /\ kind[c].route # l => lane'[l] = lane[l]
                       /\ \A d \in Elements(lane[l]) : d # c => d \in Elements(lane'[l])
  <2>. SUFFICES ASSUME NEW l \in Lanes
                PROVE  /\ lane'[l] \in Seq(Calls)
                       /\ kind[c].route # l => lane'[l] = lane[l]
                       /\ \A d \in Elements(lane[l]) : d # c => d \in Elements(lane'[l])
    OBVIOUS
  <2>1. lane[l] \in Seq(Calls)
    BY DEF IInv, TypeOK
  <2>2. lane'[l] = IF kind[c].route = l THEN Tail(lane[l]) ELSE lane[l]
    BY DEF Finish
  <2>3. CASE kind[c].route = l
    BY <1>b, <2>1, <2>2, <2>3, TailElements
  <2>4. CASE kind[c].route # l
    BY <2>1, <2>2, <2>4
  <2>. QED  BY <2>3, <2>4
<1>e. PICK a \in HandlerAnswers(c) :
        outbox' = IF worker = "running" THEN Append(outbox, Answer(c, a)) ELSE outbox
  BY DEF Finish
<1>f. /\ a \in Answers /\ a # "failed"
      /\ a = "unknown" => kind[c].mutation
      /\ kind[c].mutation => /\ a = "result" => effect[c]
                             /\ a \in {"rejected", "notExecuted"} => ~effect[c]
  BY <1>e DEF HandlerAnswers, Unexpected, Answers
<1>g. /\ worker = "drained" => kind[c].route = "query" /\ outbox' = outbox
      /\ worker = "running" => /\ ShutdownComplete \notin Elements(outbox)
                               /\ Elements(outbox') = Elements(outbox) \cup {Answer(c, a)}
                               /\ OnlyLast(ShutdownComplete, outbox')
                               /\ outbox' \in Seq(Messages)
  <2>1. worker = "drained" => kind[c].route = "query" /\ outbox' = outbox
    BY <1>a, <1>e DEF IInv, DrainedOK
  <2>2. Answer(c, a) \in Messages /\ outbox \in Seq(Messages)
    BY <1>f DEF Messages, IInv, TypeOK
  <2>3. worker = "running" => ShutdownComplete \notin Elements(outbox)
    BY DEF IInv, ShutdownOK
  <2>. QED  BY <1>e, <2>1, <2>2, <2>3, AppendElements
<1>1. TypeOK'
  <2>1. lane' \in [Lanes -> Seq(Calls)]
    BY <1>d DEF Finish
  <2>. QED  BY <1>a, <1>c, <1>g, <2>1 DEF IInv, TypeOK, clientVars
<1>2. ClientOK'
  BY <1>a DEF IInv, Gone, clientVars, workerVars, TypeOK, ClientOK, Pending
<1>3. ShutdownOK'
  BY <1>a, <1>c, <1>g, MessageKinds DEF IInv, Gone, clientVars, workerVars,
     TypeOK, ClientOK, ShutdownOK
<1>4. InboxOK'
  BY <1>a DEF IInv, Gone, clientVars, workerVars, TypeOK, ClientOK, InboxOK,
     PhaseOK
<1>5. PhaseOK'
  BY <1>a DEF IInv, Gone, clientVars, workerVars, TypeOK, ClientOK, InboxOK,
     PhaseOK, Write
<1>6. ChainOK'
  BY <1>a, <1>b, <1>c, <1>d, LanesAssumption DEF IInv, Gone, clientVars,
     workerVars, TypeOK, ChainOK, AtHead
<1>7. StatusOK'
  BY <1>a DEF IInv, Gone, clientVars, workerVars, TypeOK, StatusOK, PhaseOK,
     Write
<1>8. OutboxOK'
  BY <1>a, <1>f, <1>g, MessageKinds DEF IInv, Gone, clientVars, workerVars,
     TypeOK, OutboxOK, PhaseOK
<1>9. SentOK'
  BY <1>a, <1>f, <1>g DEF IInv, Gone, clientVars, workerVars, TypeOK, SentOK
<1>10. DrainedOK'
  BY <1>a, <1>g, MessageKinds DEF IInv, Gone, clientVars, workerVars, TypeOK,
     DrainedOK
<1>. QED  BY <1>1, <1>2, <1>3, <1>4, <1>5, <1>6, <1>7, <1>8, <1>9, <1>10 DEF
   IInv

(* The stores are closed.                                                   *)
LEMMA DrainPreserves ==
  ASSUME IInv, Drain
  PROVE  IInv'
<1>a. /\ worker = "running" /\ ~terminated
      /\ tail \in Seq(Calls \cup {Shutdown})
      /\ tail # <<>> /\ Head(tail) = Shutdown /\ tail' = <<>> /\ stopping
  BY TailElements DEF Drain, Alive, IInv, TypeOK, ShutdownOK
<1>b. Elements(tail) = {Shutdown}
  BY <1>a, TailElements, EmptyElements DEF Drain
<1>c. /\ ShutdownComplete \notin Elements(outbox)
      /\ Elements(outbox') = Elements(outbox) \cup {ShutdownComplete}
      /\ OnlyLast(ShutdownComplete, outbox')
      /\ outbox' \in Seq(Messages)
  <2>1. ShutdownComplete \notin Elements(outbox) /\ outbox \in Seq(Messages)
    BY <1>a DEF IInv, TypeOK, ShutdownOK
  <2>2. ShutdownComplete \in Messages /\ outbox' = Append(outbox, ShutdownComplete)
    BY DEF Drain, Messages
  <2>. QED  BY <2>1, <2>2, AppendElements
<1>d. /\ worker' = "drained"
      /\ UNCHANGED <<kind, status, clientVars, inbox, clean, stopping, lane, phase, effect, made>>
  BY DEF Drain
<1>e. \A c \in Calls : phase[c] \in {"waiting", "executing"} => kind[c].route = "query"
  <2>. SUFFICES ASSUME NEW c \in Calls, phase[c] \in {"waiting", "executing"},
                       kind[c].route # "query"
                PROVE  FALSE
    OBVIOUS
  <2>1. \A l \in Lanes : lane[l] = <<>>
    BY DEF Drain, LanesEmpty
  <2>2. CASE phase[c] = "waiting"
    BY <1>b, <2>1, <2>2, EmptyElements, CallsAssumption DEF IInv, ChainOK
  <2>3. CASE phase[c] = "executing"
    BY <1>a, <2>1, <2>3, CallsAssumption DEF IInv, ChainOK, AtHead
  <2>. QED  BY <2>2, <2>3
<1>1. TypeOK'
  BY <1>a, <1>c, <1>d, EmptyElements DEF IInv, Gone, clientVars, workerVars,
     TypeOK
<1>2. ClientOK'
  BY <1>a, <1>d DEF IInv, Gone, clientVars, workerVars, TypeOK, ClientOK,
     Pending
<1>3. ShutdownOK'
  BY <1>a, <1>c, <1>d, EmptyElements DEF IInv, Gone, clientVars, workerVars,
     TypeOK, ClientOK, ShutdownOK
<1>4. InboxOK'
  BY <1>a, <1>d DEF IInv, Gone, clientVars, workerVars, TypeOK, ClientOK,
     InboxOK, PhaseOK
<1>5. PhaseOK'
  BY <1>a, <1>d DEF IInv, Gone, clientVars, workerVars, TypeOK, ClientOK,
     InboxOK, PhaseOK, Write
<1>6. ChainOK'
  BY <1>d, <1>e DEF IInv, Gone, clientVars, workerVars, TypeOK, ChainOK,
     AtHead
<1>7. StatusOK'
  BY <1>a, <1>d DEF IInv, Gone, clientVars, workerVars, TypeOK, StatusOK,
     PhaseOK, Write
<1>8. OutboxOK'
  BY <1>c, <1>d, MessageKinds DEF IInv, Gone, clientVars, workerVars, TypeOK,
     OutboxOK, PhaseOK
<1>9. SentOK'
  BY <1>c, <1>d DEF IInv, Gone, clientVars, workerVars, TypeOK, SentOK
<1>10. DrainedOK'
  BY <1>d, <1>e DEF IInv, Gone, clientVars, workerVars, TypeOK, DrainedOK
<1>. QED  BY <1>1, <1>2, <1>3, <1>4, <1>5, <1>6, <1>7, <1>8, <1>9, <1>10 DEF
   IInv

(* The worker is ready: the queued requests are sent.                      *)
LEMMA HandleReadyPreserves ==
  ASSUME IInv, HandleReady
  PROVE  IInv'
<1>a. PICK order \in Selections(Len(queued)), broken \in 1 .. Len(queued) + 1 :
        SendQueued(order, broken)
  BY DEF HandleReady
<1>b. /\ queued \in Seq(Calls) /\ outbox \in Seq(Messages) /\ outbox # <<>>
      /\ inbox \in Seq(Calls \cup {Shutdown})
      /\ NoDup(queued) /\ NoDup(inbox) /\ OnlyLast(Shutdown, inbox)
      /\ Len(queued) \in Nat
  BY DEF HandleReady, IInv, TypeOK, ClientOK, InboxOK, ShutdownOK
<1>c. /\ outbox' \in Seq(Messages) /\ Elements(outbox) = Elements(outbox') \cup {Ready}
      /\ OnlyLast(ShutdownComplete, outbox')
  BY <1>b, TailElements DEF HandleReady, IInv, ShutdownOK
<1>x. PICK acc : acc = [i \in DOMAIN order |-> queued[order[i]]]
  OBVIOUS
<1>y. PICK bef : bef = {queued[order[i]] : i \in {j \in DOMAIN order : order[j] < broken}}
  OBVIOUS
<1>d. /\ acc \in Seq(Calls) /\ DOMAIN acc = DOMAIN order
      /\ \A i \in DOMAIN order : order[i] \in 1 .. Len(queued)
      /\ Elements(acc) \subseteq Elements(queued)
      /\ NoDup(acc) /\ (queued = <<>> => acc = <<>>)
  BY <1>b, <1>x, SelectionElements
<1>e. /\ inbox' = inbox \o acc
      /\ IF broken <= Len(queued)
         THEN FailWith(Pending, {c \in Calls : status[c] = "sent"} \cup bef)
         ELSE /\ ready' = TRUE
              /\ queued' = <<>>
              /\ status' = [c \in Calls |-> IF status[c] # "queued" THEN status[c]
                                            ELSE IF c \in bef THEN "sent" ELSE "failed"]
              /\ UNCHANGED <<closed, faulted, terminated>>
  BY <1>a, <1>x, <1>y DEF SendQueued
<1>f. /\ bef \subseteq Elements(acc)
      /\ broken > Len(queued) => Elements(acc) = bef
  <2>1. \A i \in DOMAIN order : acc[i] = queued[order[i]]
    BY <1>x
  <2>2. broken > Len(queued) => \A i \in DOMAIN order : order[i] < broken
    BY <1>b, <1>d
  <2>. QED  BY <1>d, <1>y, <2>1, <2>2 DEF Elements
<1>g. /\ \A c \in Elements(acc) : c \in Calls /\ status[c] = "queued" /\ phase[c] = "none"
      /\ \A c \in Calls \cap Elements(inbox) : status[c] # "queued"
      /\ Shutdown \notin Elements(acc)
  <2>1. \A c \in Elements(acc) : c \in Calls /\ status[c] = "queued" /\ phase[c] = "none"
    <3>1. Elements(acc) \subseteq Calls
      BY <1>d DEF Elements
    <3>. QED  BY <1>d, <3>1 DEF IInv, ClientOK, PhaseOK
  <2>2. \A c \in Calls \cap Elements(inbox) : status[c] # "queued"
    BY DEF IInv, InboxOK
  <2>. QED  BY <2>1, <2>2, CallsAssumption
<1>h. /\ inbox' \in Seq(Calls \cup {Shutdown})
      /\ Elements(inbox') = Elements(inbox) \cup Elements(acc)
      /\ NoDup(inbox')
  <2>1. acc \in Seq(Calls \cup {Shutdown})
    BY <1>d
  <2>2. Elements(inbox) \cap Elements(acc) = {}
    BY <1>g
  <2>. QED  BY <1>b, <1>d, <1>e, <2>1, <2>2, ConcatElements
<1>i. /\ closed => inbox' = inbox
      /\ OnlyLast(Shutdown, inbox')
  <2>1. ASSUME closed PROVE inbox' = inbox
    BY <1>b, <1>d, <1>e, <2>1 DEF IInv, ClientOK
  <2>2. ASSUME ~closed PROVE OnlyLast(Shutdown, inbox')
    BY <1>g, <1>h, <2>2 DEF IInv, ShutdownOK, OnlyLast, Elements
  <2>. QED  BY <1>b, <2>1, <2>2
<1>j. UNCHANGED <<kind, closing, exitSeen, workerVars, made>> /\ ~exitSeen
  BY DEF HandleReady, IInv, ClientOK
<1>k. CASE broken <= Len(queued)
  <2>a. /\ FailWith(Pending, {c \in Calls : status[c] = "sent"} \cup bef) /\ ~closed /\ ~faulted
    BY <1>b, <1>e, <1>k, EmptyElements DEF IInv, ClientOK
  <2>b. /\ faulted' = TRUE /\ closed' = TRUE /\ terminated' = TRUE /\ ready' = FALSE
        /\ queued' = <<>>
        /\ status' \in [Calls -> {"none", "queued", "sent"} \cup Answers]
        /\ \A c \in Calls :
             IF status[c] = "sent" THEN status'[c] = IF kind[c].mutation THEN "unknown" ELSE "failed"
             ELSE IF status[c] = "queued"
             THEN status'[c] = "failed" \/ (status'[c] = "unknown" /\ kind[c].mutation)
             ELSE status'[c] = status[c]
    BY <2>a DEF FailWith, Pending, Unanswered, IInv, TypeOK, Answers
  <2>1. TypeOK'
    BY <1>c, <1>h, <1>j, <2>b, EmptyElements DEF IInv, workerVars, TypeOK
  <2>2. ClientOK'
    BY <1>j, <2>b, EmptyElements DEF IInv, workerVars, TypeOK, ClientOK,
       Pending
  <2>3. ShutdownOK'
    BY <1>c, <1>g, <1>h, <1>i, <1>j, <2>a, <2>b DEF IInv, workerVars, TypeOK,
       ClientOK, ShutdownOK
  <2>4. InboxOK'
    BY <1>g, <1>h, <1>j, <2>a, <2>b DEF IInv, workerVars, TypeOK, ClientOK,
       InboxOK, PhaseOK, Gone
  <2>5. PhaseOK'
    BY <1>g, <1>h, <1>j, <2>a, <2>b DEF IInv, workerVars, TypeOK, ClientOK,
       InboxOK, PhaseOK, Gone, Write
  <2>6. ChainOK'
    BY <1>g, <1>h, <1>j, <2>a, <2>b DEF IInv, workerVars, TypeOK, ChainOK,
       AtHead
  <2>7. StatusOK'
    BY <1>g, <1>h, <1>j, <2>a, <2>b DEF IInv, workerVars, TypeOK, StatusOK,
       PhaseOK, Write
  <2>8. OutboxOK'
    BY <1>c, <1>j, MessageKinds DEF IInv, workerVars, TypeOK, OutboxOK,
       PhaseOK
  <2>9. SentOK'
    BY <1>c, <1>h, <1>j, <2>b, MessageKinds DEF IInv, workerVars, TypeOK,
       SentOK
  <2>10. DrainedOK'
    BY <1>c, <1>j DEF IInv, workerVars, TypeOK, DrainedOK
  <2>. QED  BY <2>1, <2>2, <2>3, <2>4, <2>5, <2>6, <2>7, <2>8, <2>9, <2>10 DEF
     IInv
<1>l. CASE ~(broken <= Len(queued))
  <2>a. /\ queued' = <<>> /\ ready' = TRUE
        /\ UNCHANGED <<closed, faulted, terminated>>
        /\ Elements(acc) = bef
        /\ status' \in [Calls -> {"none", "queued", "sent"} \cup Answers]
        /\ \A c \in Calls :
             IF status[c] # "queued" THEN status'[c] = status[c]
             ELSE status'[c] = IF c \in Elements(acc) THEN "sent" ELSE "failed"
    <3>1. /\ queued' = <<>> /\ ready' = TRUE
          /\ UNCHANGED <<closed, faulted, terminated>>
          /\ Elements(acc) = bef
          /\ status' = [c \in Calls |-> IF status[c] # "queued" THEN status[c]
                                        ELSE IF c \in bef THEN "sent" ELSE "failed"]
      BY <1>b, <1>e, <1>f, <1>l
    <3>2. status' \in [Calls -> {"none", "queued", "sent"} \cup Answers]
      BY <3>1 DEF IInv, TypeOK, Answers
    <3>. QED  BY <3>1, <3>2
  <2>1. TypeOK'
    BY <1>c, <1>h, <1>j, <2>a, EmptyElements DEF IInv, workerVars, TypeOK
  <2>2. ClientOK'
    BY <1>g, <1>j, <2>a, EmptyElements DEF IInv, workerVars, TypeOK, ClientOK,
       Pending
  <2>3. ShutdownOK'
    BY <1>c, <1>g, <1>h, <1>i, <1>j, <2>a DEF IInv, workerVars, TypeOK,
       ClientOK, ShutdownOK
  <2>4. InboxOK'
    BY <1>g, <1>h, <1>j, <2>a DEF IInv, workerVars, TypeOK, ClientOK, InboxOK,
       PhaseOK, Gone
  <2>5. PhaseOK'
    BY <1>g, <1>h, <1>j, <2>a DEF IInv, workerVars, TypeOK, ClientOK, InboxOK,
       PhaseOK, Gone, Write
  <2>6. ChainOK'
    BY <1>g, <1>h, <1>j, <2>a DEF IInv, workerVars, TypeOK, ChainOK, AtHead
  <2>7. StatusOK'
    BY <1>g, <1>h, <1>j, <2>a DEF IInv, workerVars, TypeOK, StatusOK, PhaseOK,
       Write
  <2>8. OutboxOK'
    BY <1>c, <1>j, MessageKinds DEF IInv, workerVars, TypeOK, OutboxOK,
       PhaseOK
  <2>9. SentOK'
    <3>. SUFFICES ASSUME NEW c \in Calls, status'[c] = "sent"
                  PROVE  \/ c \in Elements(inbox') \/ phase[c] \in {"waiting", "executing"}
                         \/ \E a \in Answers : Answer(c, a) \in Elements(outbox')
                         \/ kind[c].route = "query" /\ phase[c] = "done"
                              /\ worker \in {"drained", "exited"}
      BY <1>j DEF SentOK, workerVars
    <3>1. CASE status[c] = "queued"
      BY <1>h, <2>a, <3>1
    <3>2. CASE status[c] # "queued"
      <4>1. status[c] = "sent"
        BY <2>a, <3>2
      <4>2. \A a \in Answers : Answer(c, a) \in Elements(outbox) => Answer(c, a) \in Elements(outbox')
        BY <1>c, MessageKinds
      <4>. QED  BY <1>h, <4>1, <4>2 DEF IInv, SentOK
    <3>. QED  BY <3>1, <3>2
  <2>10. DrainedOK'
    BY <1>c, <1>j DEF IInv, workerVars, TypeOK, DrainedOK
  <2>. QED  BY <2>1, <2>2, <2>3, <2>4, <2>5, <2>6, <2>7, <2>8, <2>9, <2>10 DEF
     IInv
<1>. QED  BY <1>k, <1>l

(* A call: refused, queued, sent, or the end of the client.                *)
LEMMA CallPreserves ==
  ASSUME IInv, NEW c \in Calls, NEW k \in Kinds, Call(c, k)
  PROVE  IInv'
<1>a. /\ status[c] = "none" /\ phase[c] = "none" /\ ~effect[c]
      /\ kind \in [Calls -> Kinds \cup {NoKind}] /\ status \in [Calls -> {"none", "queued", "sent"} \cup Answers]
      /\ c \notin Elements(inbox)
      /\ \A a \in Answers : Answer(c, a) \notin Elements(outbox)
      /\ c \notin Elements(queued)
  BY DEF Call, IInv, TypeOK, PhaseOK, InboxOK, OutboxOK, ClientOK
<1>b. /\ kind' = [kind EXCEPT ![c] = k]
      /\ made' \in Seq(Calls)
      /\ UNCHANGED <<outbox, workerVars, closing, exitSeen>>
  BY DEF Call, IInv, TypeOK, clientVars
<1>c. /\ kind'[c] = k /\ k # NoKind
      /\ \A d \in Calls : d # c => kind'[d] = kind[d]
  BY <1>a, <1>b, KindsAssumption
<1>. DEFINE Refused == /\ status' = [status EXCEPT ![c] = "failed"]
                       /\ UNCHANGED <<clientVars, inbox>>
<1>. DEFINE Queued == /\ ~closed /\ ~faulted
                      /\ status' = [status EXCEPT ![c] = "queued"]
                      /\ queued' = Append(queued, c)
                      /\ UNCHANGED <<ready, closed, faulted, terminated, inbox>>
<1>. DEFINE Sent == /\ ~closed /\ ~faulted
                    /\ status' = [status EXCEPT ![c] = "sent"]
                    /\ inbox' = Append(inbox, c)
                    /\ UNCHANGED clientVars
<1>. DEFINE Broken == /\ ~closed /\ ~faulted
                      /\ FailWith(Pending \cup {c}, {d \in Calls : status[d] = "sent"})
                      /\ UNCHANGED inbox
<1>d. Refused \/ Queued \/ Sent \/ Broken
  BY DEF Call
<1>e. CASE Refused
  <2>a. /\ status' \in [Calls -> {"none", "queued", "sent"} \cup Answers]
        /\ status'[c] = "failed" /\ \A d \in Calls : d # c => status'[d] = status[d]
    BY <1>a, <1>e DEF Answers
  <2>1. TypeOK'
    BY <1>a, <1>b, <1>c, <1>e, <2>a DEF IInv, clientVars, workerVars, TypeOK
  <2>2. ClientOK'
    BY <1>a, <1>b, <1>c, <1>e, <2>a DEF IInv, clientVars, workerVars, TypeOK,
       ClientOK, Pending
  <2>3. ShutdownOK'
    BY <1>a, <1>b, <1>c, <1>e, <2>a DEF IInv, clientVars, workerVars, TypeOK,
       ClientOK, ShutdownOK
  <2>4. InboxOK'
    BY <1>a, <1>b, <1>c, <1>e, <2>a DEF IInv, clientVars, workerVars, TypeOK,
       ClientOK, InboxOK, PhaseOK, Gone
  <2>5. PhaseOK'
    BY <1>a, <1>b, <1>c, <1>e, <2>a DEF IInv, clientVars, workerVars, TypeOK,
       ClientOK, InboxOK, PhaseOK, Gone, Write
  <2>6. ChainOK'
    BY <1>a, <1>b, <1>c, <1>e, <2>a DEF IInv, clientVars, workerVars, TypeOK,
       ChainOK, AtHead
  <2>7. StatusOK'
    BY <1>a, <1>b, <1>c, <1>e, <2>a DEF IInv, clientVars, workerVars, TypeOK,
       StatusOK, PhaseOK, Write
  <2>8. OutboxOK'
    BY <1>a, <1>b, <1>c, <1>e, <2>a DEF IInv, clientVars, workerVars, TypeOK,
       OutboxOK, PhaseOK
  <2>9. SentOK'
    BY <1>a, <1>b, <1>c, <1>e, <2>a DEF IInv, clientVars, workerVars, TypeOK,
       SentOK
  <2>10. DrainedOK'
    BY <1>a, <1>b, <1>c, <1>e, <2>a DEF IInv, clientVars, workerVars, TypeOK,
       DrainedOK
  <2>. QED  BY <2>1, <2>2, <2>3, <2>4, <2>5, <2>6, <2>7, <2>8, <2>9, <2>10 DEF
     IInv
<1>f. CASE Queued
  <2>a. /\ status' \in [Calls -> {"none", "queued", "sent"} \cup Answers]
        /\ status'[c] = "queued" /\ \A d \in Calls : d # c => status'[d] = status[d]
    BY <1>a, <1>f
  <2>b. /\ queued' \in Seq(Calls) /\ NoDup(queued')
        /\ Elements(queued') = Elements(queued) \cup {c}
    <3>1. queued \in Seq(Calls) /\ NoDup(queued) /\ queued' = Append(queued, c)
      BY <1>f DEF IInv, TypeOK, ClientOK
    <3>. QED  BY <1>a, <3>1, AppendElements
  <2>1. TypeOK'
    BY <1>a, <1>b, <1>c, <1>f, <2>a, <2>b DEF IInv, clientVars, workerVars,
       TypeOK
  <2>2. ClientOK'
    BY <1>a, <1>b, <1>c, <1>f, <2>a, <2>b DEF IInv, clientVars, workerVars,
       TypeOK, ClientOK, Pending
  <2>3. ShutdownOK'
    BY <1>a, <1>b, <1>c, <1>f, <2>a, <2>b DEF IInv, clientVars, workerVars,
       TypeOK, ClientOK, ShutdownOK
  <2>4. InboxOK'
    BY <1>a, <1>b, <1>c, <1>f, <2>a, <2>b DEF IInv, clientVars, workerVars,
       TypeOK, ClientOK, InboxOK, PhaseOK, Gone
  <2>5. PhaseOK'
    BY <1>a, <1>b, <1>c, <1>f, <2>a, <2>b DEF IInv, clientVars, workerVars,
       TypeOK, ClientOK, InboxOK, PhaseOK, Gone, Write
  <2>6. ChainOK'
    BY <1>a, <1>b, <1>c, <1>f, <2>a, <2>b DEF IInv, clientVars, workerVars,
       TypeOK, ChainOK, AtHead
  <2>7. StatusOK'
    BY <1>a, <1>b, <1>c, <1>f, <2>a, <2>b DEF IInv, clientVars, workerVars,
       TypeOK, StatusOK, PhaseOK, Write
  <2>8. OutboxOK'
    BY <1>a, <1>b, <1>c, <1>f, <2>a, <2>b DEF IInv, clientVars, workerVars,
       TypeOK, OutboxOK, PhaseOK
  <2>9. SentOK'
    BY <1>a, <1>b, <1>c, <1>f, <2>a, <2>b DEF IInv, clientVars, workerVars,
       TypeOK, SentOK
  <2>10. DrainedOK'
    BY <1>a, <1>b, <1>c, <1>f, <2>a, <2>b DEF IInv, clientVars, workerVars,
       TypeOK, DrainedOK
  <2>. QED  BY <2>1, <2>2, <2>3, <2>4, <2>5, <2>6, <2>7, <2>8, <2>9, <2>10 DEF
     IInv
<1>g. CASE Sent
  <2>a. /\ status' \in [Calls -> {"none", "queued", "sent"} \cup Answers]
        /\ status'[c] = "sent" /\ \A d \in Calls : d # c => status'[d] = status[d]
    BY <1>a, <1>g
  <2>b. /\ inbox' \in Seq(Calls \cup {Shutdown}) /\ NoDup(inbox')
        /\ Elements(inbox') = Elements(inbox) \cup {c}
        /\ OnlyLast(Shutdown, inbox') /\ Shutdown \notin Elements(inbox')
    <3>1. /\ inbox \in Seq(Calls \cup {Shutdown}) /\ NoDup(inbox) /\ inbox' = Append(inbox, c)
          /\ Shutdown \notin Elements(inbox)
      BY <1>g DEF IInv, TypeOK, InboxOK, ShutdownOK
    <3>. QED  BY <1>a, <3>1, AppendElements, CallsAssumption
  <2>1. TypeOK'
    BY <1>a, <1>b, <1>c, <1>g, <2>a, <2>b DEF IInv, clientVars, workerVars,
       TypeOK
  <2>2. ClientOK'
    BY <1>a, <1>b, <1>c, <1>g, <2>a, <2>b DEF IInv, clientVars, workerVars,
       TypeOK, ClientOK, Pending
  <2>3. ShutdownOK'
    BY <1>a, <1>b, <1>c, <1>g, <2>a, <2>b, EmptyElements DEF IInv, clientVars,
       workerVars, TypeOK, ClientOK, ShutdownOK
  <2>4. InboxOK'
    BY <1>a, <1>b, <1>c, <1>g, <2>a, <2>b DEF IInv, clientVars, workerVars,
       TypeOK, ClientOK, InboxOK, PhaseOK, Gone
  <2>5. PhaseOK'
    BY <1>a, <1>b, <1>c, <1>g, <2>a, <2>b DEF IInv, clientVars, workerVars,
       TypeOK, ClientOK, InboxOK, PhaseOK, Gone, Write
  <2>6. ChainOK'
    BY <1>a, <1>b, <1>c, <1>g, <2>a, <2>b DEF IInv, clientVars, workerVars,
       TypeOK, ChainOK, AtHead
  <2>7. StatusOK'
    BY <1>a, <1>b, <1>c, <1>g, <2>a, <2>b DEF IInv, clientVars, workerVars,
       TypeOK, StatusOK, PhaseOK, Write
  <2>8. OutboxOK'
    BY <1>a, <1>b, <1>c, <1>g, <2>a, <2>b DEF IInv, clientVars, workerVars,
       TypeOK, OutboxOK, PhaseOK
  <2>9. SentOK'
    BY <1>a, <1>b, <1>c, <1>g, <2>a, <2>b DEF IInv, clientVars, workerVars,
       TypeOK, SentOK
  <2>10. DrainedOK'
    BY <1>a, <1>b, <1>c, <1>g, <2>a, <2>b DEF IInv, clientVars, workerVars,
       TypeOK, DrainedOK
  <2>. QED  BY <2>1, <2>2, <2>3, <2>4, <2>5, <2>6, <2>7, <2>8, <2>9, <2>10 DEF
     IInv
<1>h. CASE Broken
  <2>a. /\ faulted' = TRUE /\ closed' = TRUE /\ terminated' = TRUE /\ ready' = FALSE
        /\ queued' = <<>> /\ UNCHANGED inbox
        /\ status' \in [Calls -> {"none", "queued", "sent"} \cup Answers]
        /\ status'[c] = "failed"
        /\ \A d \in Calls : d # c =>
             IF status[d] = "sent" THEN status'[d] = IF kind[d].mutation THEN "unknown" ELSE "failed"
             ELSE IF status[d] = "queued" THEN status'[d] = "failed"
             ELSE status'[d] = status[d]
    <3>1. status' = [d \in Calls |-> IF d \in Pending \cup {c}
                       THEN IF status[d] = "sent" /\ kind[d].mutation THEN "unknown" ELSE "failed"
                       ELSE status[d]]
      BY <1>h DEF FailWith, Unanswered
    <3>2. status' \in [Calls -> {"none", "queued", "sent"} \cup Answers]
      BY <1>a, <3>1 DEF Answers
    <3>3. \A d \in Calls : status'[d] = IF d \in Pending \cup {c}
                       THEN IF status[d] = "sent" /\ kind[d].mutation THEN "unknown" ELSE "failed"
                       ELSE status[d]
      BY <3>1
    <3>. QED  BY <1>a, <1>h, <3>2, <3>3 DEF FailWith, Pending
  <2>1. TypeOK'
    BY <1>a, <1>b, <1>c, <1>h, <2>a, EmptyElements DEF IInv, clientVars,
       workerVars, TypeOK
  <2>2. ClientOK'
    BY <1>a, <1>b, <1>c, <1>h, <2>a, EmptyElements DEF IInv, clientVars,
       workerVars, TypeOK, ClientOK, Pending
  <2>3. ShutdownOK'
    BY <1>a, <1>b, <1>c, <1>h, <2>a DEF IInv, clientVars, workerVars, TypeOK,
       ClientOK, ShutdownOK
  <2>4. InboxOK'
    BY <1>a, <1>b, <1>c, <1>h, <2>a DEF IInv, clientVars, workerVars, TypeOK,
       ClientOK, InboxOK, PhaseOK, Gone
  <2>5. PhaseOK'
    BY <1>a, <1>b, <1>c, <1>h, <2>a DEF IInv, clientVars, workerVars, TypeOK,
       ClientOK, InboxOK, PhaseOK, Gone, Write
  <2>6. ChainOK'
    BY <1>a, <1>b, <1>c, <1>h, <2>a DEF IInv, clientVars, workerVars, TypeOK,
       ChainOK, AtHead
  <2>7. StatusOK'
    BY <1>a, <1>b, <1>c, <1>h, <2>a DEF IInv, clientVars, workerVars, TypeOK,
       StatusOK, PhaseOK, Write
  <2>8. OutboxOK'
    BY <1>a, <1>b, <1>c, <1>h, <2>a DEF IInv, clientVars, workerVars, TypeOK,
       OutboxOK, PhaseOK
  <2>9. SentOK'
    BY <1>a, <1>b, <1>c, <1>h, <2>a DEF IInv, clientVars, workerVars, TypeOK,
       SentOK
  <2>10. DrainedOK'
    BY <1>a, <1>b, <1>c, <1>h, <2>a DEF IInv, clientVars, workerVars, TypeOK,
       DrainedOK
  <2>. QED  BY <2>1, <2>2, <2>3, <2>4, <2>5, <2>6, <2>7, <2>8, <2>9, <2>10 DEF
     IInv
<1>. QED  BY <1>d, <1>e, <1>f, <1>g, <1>h

-----------------------------------------------------------------------------
(* The initial state.                                                       *)
LEMMA InitEstablishes == Init => IInv
<1>. SUFFICES ASSUME Init PROVE IInv
  OBVIOUS
<1>. USE EmptyElements DEF Init
<1>1. TypeOK
  BY DEF TypeOK
<1>2. ClientOK /\ ShutdownOK /\ DrainedOK
  BY DEF ClientOK, ShutdownOK, DrainedOK, Pending
<1>3. InboxOK /\ PhaseOK /\ ChainOK /\ StatusOK /\ OutboxOK /\ SentOK
  BY KindsAssumption DEF InboxOK, PhaseOK, ChainOK, StatusOK, OutboxOK, SentOK, Write
<1>. QED  BY <1>1, <1>2, <1>3 DEF IInv

(* Every step.                                                              *)
LEMMA NextPreserves ==
  ASSUME IInv, [Next]_vars
  PROVE  IInv'
<1>1. CASE \E c \in Calls : (\E k \in Kinds : Call(c, k)) \/ Execute(c) \/ Commit(c) \/ Finish(c)
  BY <1>1, CallPreserves, ExecutePreserves, CommitPreserves, FinishPreserves
<1>2. CASE Close
  BY <1>2, ClosePreserves
<1>3. CASE Client
  BY <1>3, HandleReadyPreserves, HandleAnswerPreserves, HandleShutdownCompletePreserves,
     HandleErrorPreserves, HandleExitPreserves DEF Client
<1>4. CASE Worker
  BY <1>4, StartPreserves, HandleRequestPreserves, DrainPreserves, ExitPreserves,
     DiePreserves DEF Worker
<1>5. CASE UNCHANGED vars
  BY <1>5 DEF vars, clientVars, workerVars, IInv, TypeOK, ClientOK, ShutdownOK, InboxOK,
              PhaseOK, ChainOK, StatusOK, OutboxOK, SentOK, DrainedOK, Pending, Gone, Write,
              AtHead
<1>. QED  BY <1>1, <1>2, <1>3, <1>4, <1>5 DEF Next

(* Where every request and answer is, and what each side knows of it, from  *)
(* the call to its settling, whatever dies in between: all of client, both  *)
(* channels and worker.                                                     *)
THEOREM WorkerInvariant == Spec => []IInv
<1>1. Init => IInv
  BY InitEstablishes
<1>2. IInv /\ [Next]_vars => IInv'
  BY NextPreserves
<1>. QED  BY <1>1, <1>2, PTL DEF Spec

(* The states are those of StorageWorkerClient and of the worker's chains.  *)
THEOREM WorkerTypes == Spec => []TypeOK
<1>1. IInv => TypeOK
  BY DEF IInv
<1>. QED  BY <1>1, WorkerInvariant, PTL

(* A result means that the write is committed, and every error but the      *)
(* unknown outcome that it is not (fail, rejectPendingForWorkerExit and     *)
(* serializeStorageWorkerError).                                            *)
THEOREM AnswersAreTrue == Spec => []AnswerIsTruthful
<1>1. IInv => AnswerIsTruthful
  BY DEF IInv, AnswerIsTruthful, StatusOK, PhaseOK, TypeOK, Write
<1>. QED  BY <1>1, WorkerInvariant, PTL

(* A read never has an unknown outcome: no request follows a shutdown into  *)
(* the worker, which would answer so.                                       *)
THEOREM ReadsCanBeRepeated == Spec => []ReadsAreNeverUnknown
<1>1. IInv => ReadsAreNeverUnknown
  BY DEF IInv, ReadsAreNeverUnknown, StatusOK
<1>. QED  BY <1>1, WorkerInvariant, PTL

(* The worker closes its stores when only queries are left, and the client  *)
(* learns of it when every write is answered.                               *)
THEOREM ClosesInOrder == Spec => []CloseIsOrderly
<1>1. IInv => CloseIsOrderly
  <2>. SUFFICES ASSUME IInv PROVE CloseIsOrderly
    OBVIOUS
  <2>1. worker = "drained" =>
          \A c \in Calls : phase[c] \in {"waiting", "executing"} => kind[c].route = "query"
    BY DEF IInv, DrainedOK
  <2>2. ASSUME outbox # <<>>, Head(outbox) = ShutdownComplete,
               NEW c \in Calls, status[c] = "sent"
        PROVE  ~kind[c].mutation
    <3>1. Elements(outbox) = {ShutdownComplete} /\ inbox = <<>>
      BY <2>2, TailElements, EmptyElements DEF IInv, TypeOK, ShutdownOK
    <3>2. kind[c].route = "query"
      BY <2>2, <3>1, EmptyElements, MessageKinds DEF IInv, SentOK, DrainedOK
    <3>3. kind[c] \in Kinds
      BY <2>2 DEF IInv, TypeOK, StatusOK
    <3>. QED  BY <3>2, <3>3 DEF Kinds
  <2>. QED  BY <2>1, <2>2 DEF CloseIsOrderly
<1>. QED  BY <1>1, WorkerInvariant, PTL

-----------------------------------------------------------------------------
(* The contract: the variables of StorageCallContract.                      *)

CStatus == [c \in Calls |-> IF status[c] \in {"queued", "sent"} THEN "open" ELSE status[c]]
CWrites == {c \in Calls : kind[c] # NoKind /\ kind[c].mutation}
CVars == <<CStatus, CWrites, effect, faulted, closing = "done">>

(* Steps that settle calls, and whatever else they do, commit nothing.      *)
LEMMA SettleRefines ==
  ASSUME IInv, IInv', UNCHANGED <<kind, effect>>,
         faulted => faulted', closing = "done" => closing' = "done",
         \A c \in Calls :
           \/ status'[c] = status[c]
           \/ status[c] = "queued" /\ status'[c] \in {"sent", "failed"}
           \/ status[c] \in {"queued", "sent"} /\ kind[c].mutation /\ status'[c] = "unknown"
           \/ status[c] = "sent" /\ ~kind[c].mutation /\ status'[c] = "failed"
  PROVE  Contract!Settle
<1>. SUFFICES ASSUME NEW c \in Calls
              PROVE  \/ CStatus'[c] = CStatus[c]
                     \/ /\ CStatus[c] = "open"
                        /\ \/ CStatus'[c] = "failed" /\ (c \in CWrites => ~effect[c])
                           \/ CStatus'[c] = "unknown" /\ c \in CWrites
  <2>1. faulted' => \A c \in Calls : CStatus'[c] # "open"
    BY DEF IInv, TypeOK, Answers, ClientOK, Pending, CStatus
  <2>2. CWrites' = CWrites
    BY DEF CWrites
  <2>. QED  BY <2>1, <2>2 DEF Contract!Settle, Contract!Truthful, CStatus, CWrites
<1>1. CStatus[c] = (IF status[c] \in {"queued", "sent"} THEN "open" ELSE status[c])
      /\ CStatus'[c] = (IF status'[c] \in {"queued", "sent"} THEN "open" ELSE status'[c])
  BY DEF CStatus
<1>2. status[c] = "queued" => ~effect[c]
  BY DEF IInv, PhaseOK, TypeOK
<1>3. status[c] \in {"queued", "sent"} => kind[c] # NoKind
  BY DEF IInv, StatusOK
<1>. QED  BY <1>1, <1>2, <1>3 DEF CWrites


(* A commit: its caller still waits, or its worker is to be terminated.     *)
LEMMA CommitRefines ==
  ASSUME IInv, NEW c \in Calls, Commit(c)
  PROVE  Contract!TakesEffect(c)
<1>1. /\ status[c] = "sent" \/ (status[c] = "unknown" /\ faulted)
      /\ kind[c] # NoKind /\ closing # "done"
  BY DEF Commit, IInv, PhaseOK, StatusOK, ClientOK, TypeOK, Gone
<1>2. /\ c \in CWrites
      /\ CStatus[c] = "open" \/ (CStatus[c] = "unknown" /\ faulted)
      /\ CStatus' = CStatus /\ CWrites' = CWrites
  BY <1>1 DEF Commit, CWrites, CStatus, clientVars
<1>. QED  BY <1>1, <1>2 DEF Commit, Contract!TakesEffect, CStatus, CWrites, clientVars

(* An answer is given to an open call, or nobody sees it.                   *)
LEMMA AnswerRefines ==
  ASSUME IInv, HandleAnswer
  PROVE  (\E c \in Calls, a \in Answers : Contract!Answered(c, a)) \/ UNCHANGED CVars
<1>a. PICK c \in Calls, a \in Answers :
        Head(outbox) = Answer(c, a) /\ Head(outbox).id = c /\ Head(outbox).answer = a
  BY MessageKinds DEF HandleAnswer, IInv, TypeOK
<1>b. Answer(c, a) \in Elements(outbox)
  BY <1>a, TailElements DEF HandleAnswer, IInv, TypeOK
<1>c. /\ a # "failed" /\ (a = "unknown" => kind[c].mutation)
      /\ kind[c].mutation => /\ a = "result" => effect[c]
                             /\ a \in {"rejected", "notExecuted"} => ~effect[c]
  BY <1>b DEF IInv, OutboxOK
<1>d. UNCHANGED <<kind, effect, faulted, closing>>
  BY DEF HandleAnswer, clientVars, workerVars
<1>1. CASE c \in Pending
  <2>1. /\ status' = [status EXCEPT ![c] = a] /\ status[c] \in {"queued", "sent"}
        /\ ~faulted /\ kind[c] # NoKind
    BY <1>a, <1>1 DEF HandleAnswer, IInv, ClientOK, StatusOK, Pending
  <2>2. /\ CStatus[c] = "open" /\ CStatus' = [CStatus EXCEPT ![c] = a]
        /\ CWrites' = CWrites
    BY <1>d, <2>1 DEF CStatus, CWrites, Answers, IInv, TypeOK
  <2>3. Contract!Truthful(c, a)
    BY <1>c, <2>1 DEF Contract!Truthful, Answers
  <2>. QED  BY <1>d, <2>2, <2>3 DEF Contract!Answered, CStatus, CWrites
<1>2. CASE c \notin Pending
  BY <1>a, <1>d, <1>2 DEF HandleAnswer, CVars, CStatus, CWrites
<1>. QED  BY <1>1, <1>2

(* A call is asked, or settled at once with whatever else is open.          *)
LEMMA CallRefines ==
  ASSUME IInv, IInv', NEW c \in Calls, NEW k \in Kinds, Call(c, k)
  PROVE  Contract!Next
<1>a. /\ status[c] = "none" /\ kind' = [kind EXCEPT ![c] = k] /\ k # NoKind
      /\ kind \in [Calls -> Kinds \cup {NoKind}]
      /\ status \in [Calls -> {"none", "queued", "sent"} \cup Answers]
      /\ kind[c] = NoKind /\ k.mutation \in BOOLEAN
      /\ UNCHANGED <<effect, closing>>
  BY KindsAssumption DEF Call, IInv, TypeOK, StatusOK, Kinds, clientVars, workerVars
<1>b. CWrites' = IF k.mutation THEN CWrites \cup {c} ELSE CWrites
  BY <1>a DEF CWrites
<1>c. CStatus[c] = "none"
  BY <1>a DEF CStatus
<1>1. CASE UNCHANGED faulted /\ \E s \in {"queued", "sent"} : status' = [status EXCEPT ![c] = s]
  <2>1. CStatus' = [CStatus EXCEPT ![c] = "open"]
    BY <1>a, <1>1 DEF CStatus
  <2>2. Contract!Ask(c, k.mutation)
    BY <1>a, <1>b, <1>c, <1>1, <2>1 DEF Contract!Ask, CStatus, CWrites
  <2>. QED  BY <1>a, <2>2 DEF Contract!Next
<1>2. CASE /\ status'[c] = "failed"
           /\ faulted => faulted'
           /\ \A d \in Calls : d # c =>
                \/ status'[d] = status[d]
                \/ status[d] = "queued" /\ status'[d] = "failed"
                \/ status[d] = "sent" /\ kind[d].mutation /\ status'[d] = "unknown"
                \/ status[d] = "sent" /\ ~kind[d].mutation /\ status'[d] = "failed"
  <2>1. \A d \in Calls : CStatus'[d] = IF status'[d] \in {"queued", "sent"} THEN "open"
                                       ELSE status'[d]
    BY DEF CStatus
  <2>2. ASSUME NEW d \in Calls, d # c
        PROVE  \/ CStatus'[d] = CStatus[d]
               \/ CStatus[d] = "open" /\ CStatus'[d] = "failed" /\ (d \in CWrites => ~effect[d])
               \/ CStatus[d] = "open" /\ CStatus'[d] = "unknown" /\ d \in CWrites
    <3>1. status[d] = "queued" => ~effect[d]
      BY DEF IInv, PhaseOK, TypeOK
    <3>2. status[d] \in {"queued", "sent"} => kind[d] # NoKind
      BY DEF IInv, StatusOK
    <3>3. CStatus[d] = IF status[d] \in {"queued", "sent"} THEN "open" ELSE status[d]
      BY DEF CStatus
    <3>. QED  BY <1>2, <2>1, <2>2, <3>1, <3>2, <3>3 DEF CWrites
  <2>3. CStatus'[c] = "failed"
    BY <1>2, <2>1
  <2>4. faulted' => \A d \in Calls : CStatus'[d] # "open"
    BY DEF IInv, TypeOK, Answers, ClientOK, Pending, CStatus
  <2>5. Contract!Settle
    BY <1>a, <1>b, <1>c, <1>2, <2>2, <2>3, <2>4
       DEF Contract!Settle, Contract!Truthful, CStatus, CWrites
  <2>. QED  BY <2>5 DEF Contract!Next
<1>3. CASE FailWith(Pending \cup {c}, {d \in Calls : status[d] = "sent"})
  <2>1. \A d \in Calls :
          status'[d] = IF d \in Pending \cup {c}
                       THEN IF status[d] = "sent" /\ kind'[d].mutation THEN "unknown" ELSE "failed"
                       ELSE status[d]
    BY <1>a, <1>3 DEF FailWith, Unanswered
  <2>2. faulted'
    BY <1>3 DEF FailWith
  <2>. QED  BY <1>a, <1>2, <2>1, <2>2 DEF Pending
<1>4. CASE status' = [status EXCEPT ![c] = "failed"] /\ UNCHANGED faulted
  BY <1>a, <1>2, <1>4
<1>. QED  BY <1>1, <1>3, <1>4 DEF Call, clientVars


(* The client settles calls: it closes or fails, the worker is ready,       *)
(* drained or gone.                                                         *)
LEMMA ClientRefines ==
  ASSUME IInv, IInv',
         Close \/ HandleReady \/ HandleShutdownComplete \/ HandleError \/ HandleExit
  PROVE  Contract!Settle
<1>1. UNCHANGED <<kind, effect>>
  BY DEF Close, HandleReady, HandleShutdownComplete, HandleError, HandleExit, workerVars
<1>. DEFINE Settled(c) ==
       \/ status'[c] = status[c]
       \/ status[c] = "queued" /\ status'[c] \in {"sent", "failed"}
       \/ status[c] \in {"queued", "sent"} /\ kind[c].mutation /\ status'[c] = "unknown"
       \/ status[c] = "sent" /\ ~kind[c].mutation /\ status'[c] = "failed"
<1>a. \A before : FailWith(Pending, {c \in Calls : status[c] = "sent"} \cup before) =>
        faulted' /\ \A c \in Calls : Settled(c)
  BY DEF FailWith, Pending, Unanswered
<1>b. Fail => (faulted => faulted') /\ \A c \in Calls : Settled(c)
  BY DEF Fail, FailWith, Pending, Unanswered
<1>c. RejectPending => \A c \in Calls : Settled(c)
  BY DEF RejectPending, Pending, Unanswered
<1>2. CASE Close
  <2>1. \A c \in Calls : Settled(c)
    BY <1>2 DEF Close
  <2>2. (faulted => faulted') /\ (closing = "done" => closing' = "done")
    BY <1>2 DEF Close
  <2>. QED  BY <1>1, <2>1, <2>2, SettleRefines
<1>3. CASE HandleReady
  <2>1. PICK order, broken : SendQueued(order, broken)
    BY <1>3 DEF HandleReady
  <2>2. PICK before : before = {queued[order[i]] : i \in {j \in DOMAIN order : order[j] < broken}}
    OBVIOUS
  <2>3. (faulted => faulted') /\ \A c \in Calls : Settled(c)
    <3>1. CASE broken <= Len(queued)
      BY <1>a, <2>1, <2>2, <3>1 DEF SendQueued
    <3>2. CASE ~(broken <= Len(queued))
      BY <2>1, <3>2 DEF SendQueued
    <3>. QED  BY <3>1, <3>2
  <2>. QED  BY <1>1, <1>3, <2>3, SettleRefines DEF HandleReady
<1>4. CASE HandleShutdownComplete
  BY <1>1, <1>4, <1>c, SettleRefines DEF HandleShutdownComplete, clientVars
<1>5. CASE HandleError
  BY <1>1, <1>5, <1>b, SettleRefines DEF HandleError
<1>6. CASE HandleExit
  <2>1. (faulted => faulted') /\ \A c \in Calls : Settled(c)
    BY <1>6, <1>b, <1>c DEF HandleExit
  <2>2. closing = "done" => closing' = "done"
    BY <1>6 DEF HandleExit
  <2>. QED  BY <1>1, <2>1, <2>2, SettleRefines
<1>. QED  BY <1>2, <1>3, <1>4, <1>5, <1>6

(* Every step is one of the contract, or nobody sees it.                    *)
LEMMA StepRefines ==
  ASSUME IInv, IInv', [Next]_vars
  PROVE  Contract!Next \/ UNCHANGED CVars
<1>1. ASSUME NEW c \in Calls, (\E k \in Kinds : Call(c, k)) \/ Commit(c)
      PROVE  Contract!Next
  BY <1>1, CallRefines, CommitRefines DEF Contract!Next
<1>2. CASE Close \/ HandleReady \/ HandleShutdownComplete \/ HandleError \/ HandleExit
  BY <1>2, ClientRefines DEF Contract!Next
<1>3. CASE HandleAnswer
  <2>1. CASE \E c \in Calls, a \in Answers : Contract!Answered(c, a)
    BY <2>1 DEF Contract!Next, Answers, Contract!Answers
  <2>. QED  BY <1>3, <2>1, AnswerRefines
<1>4. ASSUME UNCHANGED <<status, kind, effect, faulted, closing>>
      PROVE  UNCHANGED CVars
  BY <1>4 DEF CVars, CStatus, CWrites
<1>5. ASSUME NEW c \in Calls, Execute(c) \/ Finish(c)
      PROVE  UNCHANGED CVars
  BY <1>4, <1>5 DEF Execute, Finish, clientVars
<1>6. CASE Worker
  BY <1>4, <1>6 DEF Worker, Start, HandleRequest, Drain, Exit, Die, clientVars
<1>7. CASE UNCHANGED vars
  BY <1>4, <1>7 DEF vars, clientVars, workerVars
<1>. QED  BY <1>1, <1>2, <1>3, <1>5, <1>6, <1>7 DEF Next, Client

(* To the services the client and its worker are the storage of             *)
(* StorageCallContract: whatever dies, an answer is given once and is true, *)
(* and after an unknown outcome a storage that still answers has no write   *)
(* of that call left to commit.                                             *)
THEOREM WorkerImplementsContract == Spec => ImplementsContract
<1>1. Init => Contract!Init
  BY KindsAssumption DEF Init, Contract!Init
<1>2. IInv /\ IInv' /\ [Next]_vars => Contract!Next \/ UNCHANGED CVars
  BY StepRefines
<1>. QED  BY <1>1, <1>2, WorkerInvariant, PTL
          DEF Spec, ImplementsContract, Contract!Spec, CVars, CStatus, CWrites

(* After close() returned nothing more is committed: the files may be       *)
(* removed, or opened by another worker.                                    *)
THEOREM ClosedStaysQuiet == Spec => ClosedIsQuiet
<1>1. IInv /\ [Next]_vars => (closing = "done" => UNCHANGED effect)
  <2>. SUFFICES ASSUME IInv, [Next]_vars, closing = "done" PROVE UNCHANGED effect
    OBVIOUS
  <2>1. worker = "exited"
    BY DEF IInv, ClientOK
  <2>2. ASSUME NEW c \in Calls,
               (\E k \in Kinds : Call(c, k)) \/ Execute(c) \/ Commit(c) \/ Finish(c)
        PROVE  UNCHANGED effect
    BY <2>1, <2>2 DEF Call, Execute, Commit, Finish, workerVars
  <2>3. CASE Close \/ Client \/ Worker
    BY <2>3 DEF Close, Client, HandleReady, HandleAnswer, HandleShutdownComplete, HandleError,
                HandleExit, Worker, Start, HandleRequest, Drain, Exit, Die, workerVars
  <2>. QED  BY <2>2, <2>3 DEF Next, vars, workerVars
<1>. QED  BY <1>1, WorkerInvariant, PTL DEF Spec, ClosedIsQuiet

-----------------------------------------------------------------------------
(* The order of two elements of a sequence.                                 *)

Precedes(x, y, s) == \E i, j \in DOMAIN s : i < j /\ s[i] = x /\ s[j] = y

(* What t keeps of s, as far as the elements of S go, stays in its order.   *)
Kept(s, t, S) ==
  \A x, y \in S : x \in Elements(t) /\ y \in Elements(t) =>
    x \in Elements(s) /\ (Precedes(x, y, s) => Precedes(x, y, t))

(* Only elements have an order.                                             *)
LEMMA PrecedesElements ==
  /\ \A x, y, s : Precedes(x, y, s) => x \in Elements(s) /\ y \in Elements(s)
  /\ \A x, y : ~Precedes(x, y, <<>>)
  /\ \A s, S : Kept(s, s, S)
BY DEF Precedes, Elements, Kept

(* What is appended comes after the others.                                 *)
LEMMA AppendPrecedes ==
  ASSUME NEW S, NEW s \in Seq(S), NEW e, NEW x, NEW y
  PROVE  Precedes(x, y, Append(s, e)) <=> Precedes(x, y, s) \/ (x \in Elements(s) /\ y = e)
<1>. DEFINE t == Append(s, e)
<1>1. /\ DOMAIN s = 1 .. Len(s) /\ DOMAIN t = 1 .. Len(s) + 1 /\ Len(s) \in Nat
      /\ \A i \in 1 .. Len(s) : t[i] = s[i]
      /\ t[Len(s) + 1] = e
  OBVIOUS
<1>. HIDE DEF t
<1>2. ASSUME Precedes(x, y, t) PROVE Precedes(x, y, s) \/ (x \in Elements(s) /\ y = e)
  <2>1. PICK i \in DOMAIN t, j \in DOMAIN t : i < j /\ t[i] = x /\ t[j] = y
    BY <1>2 DEF Precedes
  <2>2. i \in 1 .. Len(s) /\ (j \in 1 .. Len(s) \/ j = Len(s) + 1)
    BY <1>1, <2>1
  <2>. QED  BY <1>1, <2>1, <2>2 DEF Precedes, Elements
<1>3. ASSUME Precedes(x, y, s) PROVE Precedes(x, y, t)
  BY <1>1, <1>3 DEF Precedes
<1>4. ASSUME x \in Elements(s), y = e PROVE Precedes(x, y, t)
  <2>1. PICK i \in DOMAIN s : s[i] = x
    BY <1>4 DEF Elements
  <2>2. i \in DOMAIN t /\ Len(s) + 1 \in DOMAIN t /\ i < Len(s) + 1
    BY <1>1
  <2>. QED  BY <1>1, <1>4, <2>1, <2>2 DEF Precedes
<1>. QED  BY <1>2, <1>3, <1>4 DEF t

(* What is concatenated comes after the others.                             *)
LEMMA ConcatPrecedes ==
  ASSUME NEW S, NEW s \in Seq(S), NEW t \in Seq(S), NEW x, NEW y
  PROVE  Precedes(x, y, s \o t) <=>
           \/ Precedes(x, y, s) \/ Precedes(x, y, t)
           \/ x \in Elements(s) /\ y \in Elements(t)
<1>. DEFINE u == s \o t
<1>1. /\ DOMAIN s = 1 .. Len(s) /\ DOMAIN t = 1 .. Len(t)
      /\ DOMAIN u = 1 .. Len(s) + Len(t)
      /\ Len(s) \in Nat /\ Len(t) \in Nat
      /\ \A i \in 1 .. Len(s) : u[i] = s[i]
      /\ \A i \in Len(s) + 1 .. Len(s) + Len(t) : u[i] = t[i - Len(s)]
  OBVIOUS
<1>. HIDE DEF u
<1>2. \A i \in DOMAIN t : Len(s) + i \in DOMAIN u /\ u[Len(s) + i] = t[i]
  BY <1>1
<1>3. ASSUME Precedes(x, y, u)
      PROVE  \/ Precedes(x, y, s) \/ Precedes(x, y, t)
             \/ x \in Elements(s) /\ y \in Elements(t)
  <2>1. PICK i \in DOMAIN u, j \in DOMAIN u : i < j /\ u[i] = x /\ u[j] = y
    BY <1>3 DEF Precedes
  <2>2. CASE j <= Len(s)
    <3>1. i \in DOMAIN s /\ j \in DOMAIN s /\ s[i] = x /\ s[j] = y
      BY <1>1, <2>1, <2>2
    <3>. QED  BY <2>1, <3>1 DEF Precedes
  <2>3. CASE i > Len(s)
    <3>1. /\ i - Len(s) \in DOMAIN t /\ j - Len(s) \in DOMAIN t /\ i - Len(s) < j - Len(s)
          /\ t[i - Len(s)] = x /\ t[j - Len(s)] = y
      BY <1>1, <2>1, <2>3
    <3>. QED  BY <3>1 DEF Precedes
  <2>4. CASE i <= Len(s) /\ j > Len(s)
    <3>1. /\ i \in DOMAIN s /\ s[i] = x
          /\ j - Len(s) \in DOMAIN t /\ t[j - Len(s)] = y
      BY <1>1, <2>1, <2>4
    <3>. QED  BY <3>1 DEF Elements
  <2>. QED  BY <1>1, <2>1, <2>2, <2>3, <2>4
<1>4. ASSUME Precedes(x, y, s) PROVE Precedes(x, y, u)
  BY <1>1, <1>4 DEF Precedes
<1>5. ASSUME Precedes(x, y, t) PROVE Precedes(x, y, u)
  <2>1. PICK i \in DOMAIN t, j \in DOMAIN t : i < j /\ t[i] = x /\ t[j] = y
    BY <1>5 DEF Precedes
  <2>2. /\ Len(s) + i \in DOMAIN u /\ Len(s) + j \in DOMAIN u /\ Len(s) + i < Len(s) + j
        /\ u[Len(s) + i] = x /\ u[Len(s) + j] = y
    BY <1>1, <1>2, <2>1
  <2>. QED  BY <2>2 DEF Precedes
<1>6. ASSUME x \in Elements(s), y \in Elements(t) PROVE Precedes(x, y, u)
  <2>1. PICK i \in DOMAIN s, j \in DOMAIN t : s[i] = x /\ t[j] = y
    BY <1>6 DEF Elements
  <2>2. /\ i \in DOMAIN u /\ Len(s) + j \in DOMAIN u /\ i < Len(s) + j
        /\ u[i] = x /\ u[Len(s) + j] = y
    BY <1>1, <1>2, <2>1
  <2>. QED  BY <2>2 DEF Precedes
<1>. QED  BY <1>3, <1>4, <1>5, <1>6 DEF u

(* Nothing comes before the first element, and taking it away leaves the    *)
(* order of the others.                                                     *)
LEMMA TailPrecedes ==
  ASSUME NEW S, NEW s \in Seq(S), s # <<>>, NoDup(s)
  PROVE  /\ \A x : ~Precedes(x, Head(s), s)
         /\ \A x, y : x # Head(s) /\ Precedes(x, y, s) => Precedes(x, y, Tail(s))
<1>. DEFINE t == Tail(s)
<1>1. /\ DOMAIN s = 1 .. Len(s) /\ DOMAIN t = 1 .. Len(s) - 1
      /\ Len(s) \in Nat /\ Len(s) > 0
      /\ \A i \in 1 .. Len(s) - 1 : t[i] = s[i + 1]
      /\ Head(s) = s[1]
  OBVIOUS
<1>. HIDE DEF t
<1>2. ASSUME NEW x, Precedes(x, Head(s), s) PROVE FALSE
  <2>1. PICK i \in DOMAIN s, j \in DOMAIN s : i < j /\ s[i] = x /\ s[j] = s[1]
    BY <1>1, <1>2 DEF Precedes
  <2>2. j = 1
    BY <1>1, <2>1 DEF NoDup
  <2>. QED  BY <1>1, <2>1, <2>2
<1>3. ASSUME NEW x, NEW y, x # Head(s), Precedes(x, y, s) PROVE Precedes(x, y, t)
  <2>1. PICK i \in DOMAIN s, j \in DOMAIN s : i < j /\ s[i] = x /\ s[j] = y
    BY <1>3 DEF Precedes
  <2>2. i # 1
    BY <1>1, <1>3, <2>1
  <2>3. /\ i - 1 \in DOMAIN t /\ j - 1 \in DOMAIN t /\ i - 1 < j - 1
        /\ t[i - 1] = x /\ t[j - 1] = y
    BY <1>1, <2>1, <2>2
  <2>. QED  BY <2>3 DEF Precedes
<1>. QED  BY <1>2, <1>3 DEF t

(* A selection keeps the order.                                             *)
LEMMA SelectionPrecedes ==
  ASSUME NEW S, NEW s \in Seq(S), NEW order \in Selections(Len(s)), NoDup(s),
         NEW t, t = [i \in DOMAIN order |-> s[order[i]]],
         NEW x \in Elements(t), NEW y \in Elements(t), Precedes(x, y, s)
  PROVE  Precedes(x, y, t)
<1>1. PICK m \in 0 .. Len(s) : order \in [1 .. m -> 1 .. Len(s)]
  BY DEF Selections
<1>2. \A i, j \in DOMAIN order : i < j => order[i] < order[j]
  BY DEF Selections
<1>3. DOMAIN order = 1 .. m /\ m \in Nat /\ DOMAIN t = 1 .. m /\ Len(s) \in Nat
  BY <1>1
<1>4. PICK i \in 1 .. m, j \in 1 .. m : t[i] = x /\ t[j] = y
  BY <1>3 DEF Elements
<1>5. PICK k \in DOMAIN s, l \in DOMAIN s : k < l /\ s[k] = x /\ s[l] = y
  BY DEF Precedes
<1>6. /\ order[i] \in DOMAIN s /\ order[j] \in DOMAIN s
      /\ s[order[i]] = x /\ s[order[j]] = y
  BY <1>1, <1>3, <1>4
<1>7. order[i] = k /\ order[j] = l
  BY <1>5, <1>6 DEF NoDup
<1>8. k \in Nat /\ l \in Nat
  BY <1>5
<1>9. i < j
  BY <1>2, <1>3, <1>5, <1>7, <1>8
<1>. QED  BY <1>3, <1>4, <1>9 DEF Precedes

(* Three sequences in a row.                                                *)
LEMMA RowPrecedes ==
  ASSUME NEW S, NEW a \in Seq(S), NEW b \in Seq(S), NEW c \in Seq(S)
  PROVE  /\ a \o b \o c \in Seq(S)
         /\ Elements(a \o b \o c) = Elements(a) \cup Elements(b) \cup Elements(c)
         /\ \A x, y : Precedes(x, y, a \o b \o c) <=>
              \/ Precedes(x, y, a) \/ Precedes(x, y, b) \/ Precedes(x, y, c)
              \/ x \in Elements(a) /\ y \in Elements(b) \cup Elements(c)
              \/ x \in Elements(b) /\ y \in Elements(c)
<1>1. a \o b \in Seq(S) /\ Elements(a \o b) = Elements(a) \cup Elements(b)
  BY ConcatElements
<1>a. \A u \in Seq(S) : u \o c \in Seq(S) /\ Elements(u \o c) = Elements(u) \cup Elements(c)
  BY ConcatElements
<1>2. a \o b \o c \in Seq(S) /\ Elements(a \o b \o c) = Elements(a \o b) \cup Elements(c)
  BY <1>1, <1>a
<1>3. ASSUME NEW x, NEW y
      PROVE  Precedes(x, y, a \o b \o c) <=>
              \/ Precedes(x, y, a) \/ Precedes(x, y, b) \/ Precedes(x, y, c)
              \/ x \in Elements(a) /\ y \in Elements(b) \cup Elements(c)
              \/ x \in Elements(b) /\ y \in Elements(c)
  <2>1. Precedes(x, y, a \o b) <=> \/ Precedes(x, y, a) \/ Precedes(x, y, b)
                                   \/ x \in Elements(a) /\ y \in Elements(b)
    BY ConcatPrecedes
  <2>2. Precedes(x, y, a \o b \o c) <=> \/ Precedes(x, y, a \o b) \/ Precedes(x, y, c)
                                        \/ x \in Elements(a \o b) /\ y \in Elements(c)
    BY <1>1, ConcatPrecedes
  <2>. QED  BY <1>1, <2>1, <2>2
<1>. QED  BY <1>1, <1>2, <1>3

(* Each of three sequences in a row keeps its order and nothing moves: the  *)
(* row keeps its order.                                                     *)
LEMMA RowKept ==
  ASSUME NEW S, NEW a \in Seq(S), NEW b \in Seq(S), NEW c \in Seq(S),
         NEW a2 \in Seq(S), NEW b2 \in Seq(S), NEW c2 \in Seq(S), NEW T,
         Kept(a, a2, T), Kept(b, b2, T), Kept(c, c2, T),
         \A x \in T : /\ x \in Elements(a) => x \notin Elements(b) \cup Elements(c)
                      /\ x \in Elements(b) => x \notin Elements(c)
  PROVE  Kept(a \o b \o c, a2 \o b2 \o c2, T)
<1>. DEFINE s == a \o b \o c
            t == a2 \o b2 \o c2
<1>1. /\ Elements(s) = Elements(a) \cup Elements(b) \cup Elements(c)
      /\ \A x, y : Precedes(x, y, s) <=>
              \/ Precedes(x, y, a) \/ Precedes(x, y, b) \/ Precedes(x, y, c)
              \/ x \in Elements(a) /\ y \in Elements(b) \cup Elements(c)
              \/ x \in Elements(b) /\ y \in Elements(c)
  BY RowPrecedes
<1>2. /\ Elements(t) = Elements(a2) \cup Elements(b2) \cup Elements(c2)
      /\ \A x, y : Precedes(x, y, t) <=>
              \/ Precedes(x, y, a2) \/ Precedes(x, y, b2) \/ Precedes(x, y, c2)
              \/ x \in Elements(a2) /\ y \in Elements(b2) \cup Elements(c2)
              \/ x \in Elements(b2) /\ y \in Elements(c2)
  BY RowPrecedes
<1>3. \A x \in T : /\ x \in Elements(a2) => x \in Elements(a)
                   /\ x \in Elements(b2) => x \in Elements(b)
                   /\ x \in Elements(c2) => x \in Elements(c)
  BY DEF Kept
<1>. HIDE DEF s, t
<1>4. ASSUME NEW x \in T, NEW y \in T, x \in Elements(t), y \in Elements(t)
      PROVE  x \in Elements(s) /\ (Precedes(x, y, s) => Precedes(x, y, t))
  <2>1. x \in Elements(s)
    BY <1>1, <1>2, <1>3, <1>4
  <2>2. ASSUME Precedes(x, y, a) PROVE Precedes(x, y, t)
    <3>1. x \in Elements(a2) /\ y \in Elements(a2)
      BY <1>2, <1>3, <1>4, <2>2, PrecedesElements
    <3>. QED  BY <1>2, <2>2, <3>1 DEF Kept
  <2>3. ASSUME Precedes(x, y, b) PROVE Precedes(x, y, t)
    <3>1. x \in Elements(b2) /\ y \in Elements(b2)
      BY <1>2, <1>3, <1>4, <2>3, PrecedesElements
    <3>. QED  BY <1>2, <2>3, <3>1 DEF Kept
  <2>4. ASSUME Precedes(x, y, c) PROVE Precedes(x, y, t)
    <3>1. x \in Elements(c2) /\ y \in Elements(c2)
      BY <1>2, <1>3, <1>4, <2>4, PrecedesElements
    <3>. QED  BY <1>2, <2>4, <3>1 DEF Kept
  <2>5. ASSUME \/ x \in Elements(a) /\ y \in Elements(b) \cup Elements(c)
               \/ x \in Elements(b) /\ y \in Elements(c)
        PROVE  Precedes(x, y, t)
    BY <1>2, <1>3, <1>4, <2>5
  <2>. QED  BY <1>1, <2>1, <2>2, <2>3, <2>4, <2>5
<1>. QED  BY <1>4 DEF Kept, s, t
-----------------------------------------------------------------------------
(* Requests of one route form one line: those that were received, then      *)
(* those in the channel, then those that wait for the worker.               *)

Chained == {"tail"} \cup Lanes
Chain(r) == IF r = "tail" THEN tail ELSE lane[r]
Line(r) == Chain(r) \o inbox \o queued
OfRoute(r) == {c \in Calls : kind[c].route = r}

(* The calls that were made, and where those that wait are.                 *)
MadeOK ==
  /\ NoDup(made)
  /\ \A c \in Calls : c \in Elements(made) <=> kind[c] # NoKind
  /\ \A c \in Calls : status[c] = "queued" => c \in Elements(queued)
  /\ ready => queued = <<>>

(* A chain holds the requests of its route that are not done; a request     *)
(* that was never received is on its way, or its call has failed.           *)
PlaceOK ==
  /\ \A r \in Chained : NoDup(Chain(r))
  /\ \A r \in Chained : \A c \in Calls : c \in Elements(Chain(r)) =>
       kind[c].route = r /\ phase[c] \in {"waiting", "executing"}
  /\ \A c \in Calls : phase[c] = "none" =>
       c \in Elements(inbox) \/ status[c] \in {"none", "queued", "failed"}

(* No call overtakes an earlier one of its route that is still in the line. *)
LineOK ==
  \A r \in Chained : \A c, d \in OfRoute(r) :
    Precedes(c, d, made) /\ c \in Elements(Line(r)) =>
      /\ phase[d] # "done"
      /\ d \in Elements(Line(r)) => Precedes(c, d, Line(r))

OInv == MadeOK /\ PlaceOK /\ LineOK

(* The parts of a line have no request in common.                           *)
LEMMA LineParts ==
  ASSUME IInv, PlaceOK, NEW r \in Chained
  PROVE  /\ Chain(r) \in Seq(Calls \cup {Shutdown})
         /\ inbox \in Seq(Calls \cup {Shutdown}) /\ queued \in Seq(Calls \cup {Shutdown})
         /\ \A c \in Calls :
              /\ c \in Elements(Chain(r)) => c \notin Elements(inbox) \cup Elements(queued)
              /\ c \in Elements(inbox) => c \notin Elements(queued)
         /\ Elements(Line(r)) = Elements(Chain(r)) \cup Elements(inbox) \cup Elements(queued)
<1>1. Chain(r) \in Seq(Calls \cup {Shutdown})
  <2>1. tail \in Seq(Calls \cup {Shutdown}) /\ (r # "tail" => lane[r] \in Seq(Calls))
    BY DEF Chained, IInv, TypeOK
  <2>. QED  BY <2>1 DEF Chain
<1>2. inbox \in Seq(Calls \cup {Shutdown}) /\ queued \in Seq(Calls \cup {Shutdown})
  BY DEF IInv, TypeOK
<1>3. ASSUME NEW c \in Calls
      PROVE  /\ c \in Elements(Chain(r)) => c \notin Elements(inbox) \cup Elements(queued)
             /\ c \in Elements(inbox) => c \notin Elements(queued)
  BY DEF IInv, PlaceOK, PhaseOK, InboxOK, ClientOK
<1>4. Elements(Line(r)) = Elements(Chain(r)) \cup Elements(inbox) \cup Elements(queued)
  BY <1>1, <1>2, RowPrecedes DEF Line
<1>. QED  BY <1>1, <1>2, <1>3, <1>4

(* A step after which every line keeps its order leaves no call overtaken,  *)
(* if whatever it ends is at the front.                                     *)
LEMMA LineStep ==
  ASSUME LineOK, UNCHANGED <<kind, made>>,
         \A r \in Chained : Kept(Line(r), Line(r)', OfRoute(r)),
         \A r \in Chained : \A d \in OfRoute(r) : phase'[d] = "done" /\ phase[d] # "done" =>
           d \in Elements(Line(r)) /\ \A c : ~Precedes(c, d, Line(r))
  PROVE  LineOK'
<1>. SUFFICES ASSUME NEW r \in Chained, NEW c \in OfRoute(r), NEW d \in OfRoute(r),
                     Precedes(c, d, made), c \in Elements(Line(r)')
              PROVE  /\ phase'[d] # "done"
                     /\ d \in Elements(Line(r)') => Precedes(c, d, Line(r)')
  BY DEF LineOK, OfRoute
<1>1. Kept(Line(r), Line(r)', OfRoute(r))
  OBVIOUS
<1>2. c \in Elements(Line(r))
  BY <1>1 DEF Kept
<1>3. phase[d] # "done" /\ (d \in Elements(Line(r)) => Precedes(c, d, Line(r)))
  BY <1>2 DEF LineOK
<1>4. phase'[d] # "done"
  BY <1>3
<1>5. d \in Elements(Line(r)') => Precedes(c, d, Line(r)')
  BY <1>1, <1>3 DEF Kept
<1>. QED  BY <1>4, <1>5

(* The parts keep their order, and so does the line.                        *)
LEMMA LineKept ==
  ASSUME IInv, PlaceOK, IInv', NEW r \in Chained, NEW T \in SUBSET Calls,
         Kept(Chain(r), Chain(r)', T), Kept(inbox, inbox', T), Kept(queued, queued', T)
  PROVE  Kept(Line(r), Line(r)', T)
<1>1. /\ Chain(r) \in Seq(Calls \cup {Shutdown})
      /\ inbox \in Seq(Calls \cup {Shutdown}) /\ queued \in Seq(Calls \cup {Shutdown})
      /\ \A c \in Calls :
           /\ c \in Elements(Chain(r)) => c \notin Elements(inbox) \cup Elements(queued)
           /\ c \in Elements(inbox) => c \notin Elements(queued)
  BY LineParts
<1>2. /\ Chain(r)' \in Seq(Calls \cup {Shutdown})
      /\ inbox' \in Seq(Calls \cup {Shutdown}) /\ queued' \in Seq(Calls \cup {Shutdown})
  <2>1. tail' \in Seq(Calls \cup {Shutdown}) /\ (r # "tail" => lane'[r] \in Seq(Calls))
        /\ inbox' \in Seq(Calls \cup {Shutdown}) /\ queued' \in Seq(Calls)
    BY DEF Chained, IInv, TypeOK
  <2>. QED  BY <2>1 DEF Chain
<1>3. PICK a, a2 \in Seq(Calls \cup {Shutdown}) : a = Chain(r) /\ a2 = Chain(r)'
  BY <1>1, <1>2
<1>4. Kept(a \o inbox \o queued, a2 \o inbox' \o queued', T)
  BY <1>1, <1>2, <1>3, RowKept
<1>. QED  BY <1>3, <1>4 DEF Line

(* Steps that leave every line as it is and end nothing.                    *)
LEMMA QuietInOrder ==
  ASSUME IInv, OInv,
         UNCHANGED <<kind, made, queued, inbox, tail, lane>>, ready' => ready \/ queued = <<>>,
         \A c \in Calls :
           /\ phase'[c] = phase[c] \/ (phase[c] = "waiting" /\ phase'[c] = "executing")
           /\ status'[c] = "queued" => status[c] = "queued"
           /\ phase[c] = "none" /\ status[c] \in {"none", "queued", "failed"} =>
                status'[c] \in {"none", "queued", "failed"}
  PROVE  OInv'
<1>1. MadeOK'
  BY DEF OInv, MadeOK
<1>a. \A r : Chain(r)' = Chain(r) /\ Line(r)' = Line(r)
  BY DEF Chain, Line
<1>2. PlaceOK'
  BY <1>a DEF OInv, PlaceOK
<1>b. \A r : Kept(Line(r), Line(r)', OfRoute(r))
  BY <1>a, PrecedesElements
<1>c. \A c \in Calls : phase'[c] = "done" => phase[c] = "done"
  OBVIOUS
<1>3. LineOK'
  BY <1>b, <1>c, LineStep DEF OInv, OfRoute
<1>. QED  BY <1>1, <1>2, <1>3 DEF OInv

(* Dispatching, committing, dying, exiting, starting, and taking an answer. *)
LEMMA QuietSteps ==
  ASSUME IInv, OInv,
         \/ \E c \in Calls : Execute(c) \/ Commit(c)
         \/ Exit \/ Die \/ Start \/ HandleAnswer \/ HandleShutdownComplete
         \/ UNCHANGED vars
  PROVE  OInv'
<1>1. CASE \E c \in Calls : Execute(c) \/ Commit(c)
  BY <1>1, QuietInOrder DEF Execute, Commit, clientVars, IInv, TypeOK
<1>2. CASE Exit \/ Die \/ Start
  BY <1>2, QuietInOrder DEF Exit, Die, Start, clientVars
<1>3. CASE HandleAnswer
  <2>1. PICK c \in Calls, a \in Answers :
          Head(outbox) = Answer(c, a) /\ Head(outbox).id = c /\ Head(outbox).answer = a
    BY <1>3, MessageKinds DEF HandleAnswer, IInv, TypeOK
  <2>2. Answer(c, a) \in Elements(outbox)
    BY <1>3, <2>1, TailElements DEF HandleAnswer, IInv, TypeOK
  <2>3. phase[c] = "done" /\ a # "queued"
    BY <2>2 DEF IInv, OutboxOK, Answers
  <2>4. /\ status' = IF c \in Pending THEN [status EXCEPT ![c] = a] ELSE status
        /\ UNCHANGED <<kind, queued, ready, inbox, tail, lane, phase, made>>
    BY <1>3, <2>1 DEF HandleAnswer, clientVars, workerVars
  <2>5. \A d \in Calls : status'[d] = status[d] \/ (d = c /\ status'[d] = a)
    BY <2>4 DEF IInv, TypeOK
  <2>. QED  BY <2>3, <2>4, <2>5, QuietInOrder
<1>4. CASE HandleShutdownComplete
  <2>1. UNCHANGED <<kind, queued, ready, inbox, tail, lane, phase, made>>
    BY <1>4 DEF HandleShutdownComplete, clientVars, workerVars
  <2>2. \A c \in Calls :
          /\ status'[c] # "queued"
          /\ status[c] \in {"none", "queued", "failed"} => status'[c] \in {"none", "failed"}
    BY <1>4 DEF HandleShutdownComplete, RejectPending, Pending, Unanswered
  <2>. QED  BY <2>1, <2>2, QuietInOrder
<1>5. CASE UNCHANGED vars
  BY <1>5, QuietInOrder DEF vars, clientVars, workerVars
<1>. QED  BY <1>1, <1>2, <1>3, <1>4, <1>5

(* Failing and closing settle what waits for the worker.                    *)
LEMMA ClearQueue ==
  ASSUME IInv, IInv', OInv, UNCHANGED <<kind, made, tail, lane, phase>>,
         queued' = <<>>, inbox' = inbox \/ inbox' = Append(inbox, Shutdown),
         \A c \in Calls :
           /\ status'[c] # "queued"
           /\ status[c] \in {"none", "queued", "failed"} => status'[c] \in {"none", "failed"}
  PROVE  OInv'
<1>1. MadeOK'
  BY DEF OInv, MadeOK
<1>a. \A r : Chain(r)' = Chain(r)
  BY DEF Chain
<1>b. inbox \in Seq(Calls \cup {Shutdown})
  BY DEF IInv, TypeOK
<1>c. Elements(inbox) \subseteq Elements(inbox')
  BY <1>b, AppendElements
<1>2. PlaceOK'
  BY <1>a, <1>c DEF OInv, PlaceOK
<1>d. Kept(inbox, inbox', Calls)
  <2>1. CASE inbox' = inbox
    BY <2>1, PrecedesElements
  <2>2. CASE inbox' = Append(inbox, Shutdown)
    BY <1>b, <2>2, AppendElements, AppendPrecedes, CallsAssumption DEF Kept
  <2>. QED  BY <2>1, <2>2
<1>e. Kept(queued, queued', Calls)
  BY EmptyElements DEF Kept
<1>3. ASSUME NEW r \in Chained PROVE Kept(Line(r), Line(r)', OfRoute(r))
  <2>1. Kept(Line(r), Line(r)', Calls)
    BY <1>2, <1>a, <1>d, <1>e, LineKept, PrecedesElements DEF OInv
  <2>. QED  BY <2>1 DEF Kept, OfRoute
<1>4. LineOK'
  BY <1>3, LineStep DEF OInv
<1>. QED  BY <1>1, <1>2, <1>4 DEF OInv

(* The client fails or is closed.                                           *)
LEMMA ClosingInOrder ==
  ASSUME IInv, IInv', OInv, Close \/ HandleError \/ HandleExit
  PROVE  OInv'
<1>. DEFINE Cleared == \A c \in Calls :
       /\ status'[c] # "queued"
       /\ status[c] \in {"none", "queued", "failed"} => status'[c] \in {"none", "failed"}
<1>a. UNCHANGED <<kind, made, tail, lane, phase>>
  BY DEF Close, HandleError, HandleExit, workerVars
<1>b. faulted \/ closed => queued = <<>>
  BY DEF IInv, ClientOK
<1>c. faulted => \A c \in Calls : status[c] # "queued"
  BY DEF IInv, ClientOK, Pending
<1>d. Fail => queued' = <<>> /\ Cleared
  BY <1>b, <1>c DEF Fail, FailWith, Pending, Unanswered
<1>1. CASE Close
  <2>1. queued' = <<>> /\ Cleared
    BY <1>1, <1>b, <1>c DEF Close
  <2>2. inbox' = inbox \/ inbox' = Append(inbox, Shutdown)
    BY <1>1 DEF Close
  <2>. QED  BY <1>a, <2>1, <2>2, ClearQueue
<1>2. CASE HandleError
  <2>1. inbox' = inbox /\ Fail
    BY <1>2 DEF HandleError
  <2>. QED  BY <1>a, <1>d, <2>1, ClearQueue
<1>3. CASE HandleExit
  <2>1. RejectPending => Cleared
    BY DEF RejectPending, Pending, Unanswered
  <2>2. queued' = <<>> /\ Cleared
    BY <1>3, <1>b, <1>d, <2>1 DEF HandleExit
  <2>3. inbox' = inbox
    BY <1>3 DEF HandleExit
  <2>. QED  BY <1>a, <2>2, <2>3, ClearQueue
<1>. QED  BY <1>1, <1>2, <1>3

(* The channel takes over the end of the line.                              *)
LEMMA RowHandedOver ==
  ASSUME NEW S, NEW a \in Seq(S), NEW b \in Seq(S), NEW c \in Seq(S), NEW t \in Seq(S), NEW T,
         Kept(a \o b \o c, a \o b \o t, T)
  PROVE  Kept(a \o b \o c, a \o (b \o t) \o <<>>, T)
<1>1. /\ Elements(a \o b \o t) = Elements(a) \cup Elements(b) \cup Elements(t)
      /\ \A x, y : Precedes(x, y, a \o b \o t) <=>
              \/ Precedes(x, y, a) \/ Precedes(x, y, b) \/ Precedes(x, y, t)
              \/ x \in Elements(a) /\ y \in Elements(b) \cup Elements(t)
              \/ x \in Elements(b) /\ y \in Elements(t)
  BY RowPrecedes
<1>a. b \o t \in Seq(S)
  OBVIOUS
<1>2. PICK bt \in Seq(S) : bt = b \o t
  BY <1>a
<1>3. /\ Elements(bt) = Elements(b) \cup Elements(t)
      /\ \A x, y : Precedes(x, y, bt) <=> \/ Precedes(x, y, b) \/ Precedes(x, y, t)
                                          \/ x \in Elements(b) /\ y \in Elements(t)
  BY <1>2, ConcatElements, ConcatPrecedes
<1>4. PICK e \in Seq(S) : e = <<>>
  BY EmptyElements
<1>5. /\ Elements(a \o bt \o e) = Elements(a) \cup Elements(bt) \cup Elements(e)
      /\ \A x, y : Precedes(x, y, a \o bt \o e) <=>
              \/ Precedes(x, y, a) \/ Precedes(x, y, bt) \/ Precedes(x, y, e)
              \/ x \in Elements(a) /\ y \in Elements(bt) \cup Elements(e)
              \/ x \in Elements(bt) /\ y \in Elements(e)
  BY RowPrecedes
<1>6. /\ Elements(a \o bt \o e) = Elements(a \o b \o t)
      /\ \A x, y : Precedes(x, y, a \o b \o t) => Precedes(x, y, a \o bt \o e)
  BY <1>1, <1>3, <1>4, <1>5, EmptyElements
<1>. QED  BY <1>2, <1>4, <1>6 DEF Kept

(* The chain takes over the front of the channel.                           *)
LEMMA RowReceived ==
  ASSUME NEW S, NEW a \in Seq(S), NEW b \in Seq(S), NEW c \in Seq(S), NEW T,
         b # <<>>, NoDup(b)
  PROVE  Kept(a \o b \o c, Append(a, Head(b)) \o Tail(b) \o c, T)
<1>1. /\ Elements(a \o b \o c) = Elements(a) \cup Elements(b) \cup Elements(c)
      /\ \A x, y : Precedes(x, y, a \o b \o c) <=>
              \/ Precedes(x, y, a) \/ Precedes(x, y, b) \/ Precedes(x, y, c)
              \/ x \in Elements(a) /\ y \in Elements(b) \cup Elements(c)
              \/ x \in Elements(b) /\ y \in Elements(c)
  BY RowPrecedes
<1>a. Head(b) \in S /\ Tail(b) \in Seq(S)
  OBVIOUS
<1>b. Append(a, Head(b)) \in Seq(S)
  BY <1>a
<1>2. PICK a2 \in Seq(S), b2 \in Seq(S) : a2 = Append(a, Head(b)) /\ b2 = Tail(b)
  BY <1>a, <1>b
<1>3. /\ Elements(a2) = Elements(a) \cup {Head(b)}
      /\ \A x, y : Precedes(x, y, a2) <=> Precedes(x, y, a) \/ (x \in Elements(a) /\ y = Head(b))
  BY <1>2, AppendElements, AppendPrecedes
<1>4. /\ Elements(b) = Elements(b2) \cup {Head(b)}
      /\ \A x : ~Precedes(x, Head(b), b)
      /\ \A x, y : x # Head(b) /\ Precedes(x, y, b) => Precedes(x, y, b2)
  BY <1>2, TailElements, TailPrecedes
<1>5. /\ Elements(a2 \o b2 \o c) = Elements(a2) \cup Elements(b2) \cup Elements(c)
      /\ \A x, y : Precedes(x, y, a2 \o b2 \o c) <=>
              \/ Precedes(x, y, a2) \/ Precedes(x, y, b2) \/ Precedes(x, y, c)
              \/ x \in Elements(a2) /\ y \in Elements(b2) \cup Elements(c)
              \/ x \in Elements(b2) /\ y \in Elements(c)
  BY RowPrecedes
<1>6. Elements(a2 \o b2 \o c) = Elements(a \o b \o c)
  BY <1>1, <1>3, <1>4, <1>5
<1>7. ASSUME NEW x, NEW y, Precedes(x, y, a \o b \o c) PROVE Precedes(x, y, a2 \o b2 \o c)
  <2>1. CASE Precedes(x, y, b)
    <3>1. y \in Elements(b2)
      BY <1>4, <2>1, PrecedesElements
    <3>. QED  BY <1>3, <1>4, <1>5, <2>1, <3>1
  <2>2. CASE x \in Elements(a) /\ y \in Elements(b) \cup Elements(c)
    BY <1>3, <1>4, <1>5, <2>2
  <2>3. CASE x \in Elements(b) /\ y \in Elements(c)
    BY <1>3, <1>4, <1>5, <2>3
  <2>4. CASE Precedes(x, y, a) \/ Precedes(x, y, c)
    BY <1>3, <1>5, <2>4
  <2>. QED  BY <1>1, <1>7, <2>1, <2>2, <2>3, <2>4
<1>. QED  BY <1>2, <1>6, <1>7 DEF Kept

(* The queued requests are sent.                                            *)
LEMMA HandleReadyInOrder ==
  ASSUME IInv, IInv', OInv, HandleReady
  PROVE  OInv'
<1>a. PICK order \in Selections(Len(queued)), broken \in 1 .. Len(queued) + 1 :
        /\ \A i \in DOMAIN order : order[i] # broken
        /\ SendQueued(order, broken)
  BY DEF HandleReady
<1>b. PICK t : t = [i \in DOMAIN order |-> queued[order[i]]]
  OBVIOUS
<1>c. queued \in Seq(Calls) /\ inbox \in Seq(Calls \cup {Shutdown}) /\ NoDup(queued)
      /\ queued \in Seq(Calls \cup {Shutdown})
  BY DEF IInv, TypeOK, ClientOK
<1>d. t \in Seq(Calls) /\ DOMAIN t = DOMAIN order /\ Elements(t) \subseteq Elements(queued)
  BY <1>b, <1>c, SelectionElements
<1>e. PICK before : before = {queued[order[i]] : i \in {j \in DOMAIN order : order[j] < broken}}
  OBVIOUS
<1>f. before \subseteq Elements(t)
  BY <1>b, <1>d, <1>e DEF Elements
<1>g. /\ inbox' = inbox \o t /\ queued' = <<>>
      /\ UNCHANGED <<kind, made, tail, lane, phase>>
      /\ \A c \in Calls :
           /\ status'[c] # "queued"
           /\ status'[c] = status[c] \/ status[c] \in {"queued", "sent"}
           /\ status[c] = "queued" => status'[c] = "failed" \/ c \in before
  <2>1. inbox' = inbox \o t /\ UNCHANGED <<kind, made, tail, lane, phase>>
    BY <1>a, <1>b DEF HandleReady, SendQueued, workerVars
  <2>2. CASE broken <= Len(queued)
    BY <1>a, <1>e, <2>1, <2>2 DEF SendQueued, FailWith, Pending, Unanswered
  <2>3. CASE ~(broken <= Len(queued))
    BY <1>a, <1>e, <2>1, <2>3 DEF SendQueued
  <2>. QED  BY <2>1, <2>2, <2>3
<1>h. Elements(inbox') = Elements(inbox) \cup Elements(t)
  BY <1>c, <1>d, <1>g, ConcatElements
<1>i. \A r : Chain(r)' = Chain(r)
  BY <1>g DEF Chain
<1>1. MadeOK'
  BY <1>g DEF OInv, MadeOK
<1>2. PlaceOK'
  BY <1>f, <1>g, <1>h, <1>i DEF OInv, PlaceOK
<1>3. ASSUME NEW r \in Chained PROVE Kept(Line(r), Line(r)', OfRoute(r))
  <2>1. \A x, y \in Elements(t) : Precedes(x, y, queued) => Precedes(x, y, t)
    BY <1>b, <1>c, SelectionPrecedes
  <2>2. Kept(queued, t, Calls)
    BY <1>d, <2>1 DEF Kept
  <2>3. PICK a \in Seq(Calls \cup {Shutdown}) : a = Chain(r)
    BY LineParts DEF OInv
  <2>4. t \in Seq(Calls \cup {Shutdown})
    BY <1>d
  <2>5. \A c \in Calls :
          /\ c \in Elements(a) => c \notin Elements(inbox) \cup Elements(queued)
          /\ c \in Elements(inbox) => c \notin Elements(queued)
    BY <2>3, LineParts DEF OInv
  <2>6. Kept(a \o inbox \o queued, a \o inbox \o t, Calls)
    BY <1>c, <2>2, <2>4, <2>5, RowKept, PrecedesElements
  <2>7. Kept(a \o inbox \o queued, a \o (inbox \o t) \o <<>>, Calls)
    BY <1>c, <2>4, <2>6, RowHandedOver
  <2>. QED  BY <1>g, <1>i, <2>3, <2>7 DEF Line, Kept, OfRoute
<1>4. LineOK'
  BY <1>3, <1>g, LineStep DEF OInv
<1>. QED  BY <1>1, <1>2, <1>4 DEF OInv

(* Receiving a request, or the shutdown.                                    *)
LEMMA HandleRequestInOrder ==
  ASSUME IInv, IInv', OInv, HandleRequest
  PROVE  OInv'
<1>. DEFINE m == Head(inbox)
<1>a. /\ inbox \in Seq(Calls \cup {Shutdown}) /\ inbox # <<>> /\ NoDup(inbox)
      /\ OnlyLast(Shutdown, inbox) /\ ~stopping
      /\ tail \in Seq(Calls \cup {Shutdown}) /\ Shutdown \notin Elements(tail)
      /\ lane \in [Lanes -> Seq(Calls)] /\ phase \in [Calls -> {"none", "waiting", "executing", "done"}]
  BY DEF HandleRequest, Alive, IInv, TypeOK, InboxOK, ShutdownOK
<1>b. /\ m \in Elements(inbox) /\ inbox' = Tail(inbox)
      /\ Elements(inbox) = Elements(inbox') \cup {m}
      /\ m = Shutdown => inbox' = <<>>
      /\ m \in Calls \cup {Shutdown}
  BY <1>a, TailElements DEF HandleRequest
<1>c. /\ UNCHANGED <<kind, status, queued, ready, made>>
      /\ m = Shutdown => tail' = Append(tail, m) /\ UNCHANGED <<lane, phase>>
      /\ m # Shutdown =>
           /\ phase' = [phase EXCEPT ![m] = IF kind[m].route = "query"
                                            THEN "executing" ELSE "waiting"]
           /\ tail' = IF kind[m].route = "tail" THEN Append(tail, m) ELSE tail
           /\ lane' = [l \in Lanes |-> IF kind[m].route = l THEN Append(lane[l], m) ELSE lane[l]]
  BY <1>a DEF HandleRequest, Receive, ReceiveShutdown, clientVars
<1>d. m # Shutdown => m \in Calls /\ phase[m] = "none"
  BY <1>b DEF IInv, InboxOK
<1>e. ASSUME NEW r \in Chained
      PROVE  \/ Chain(r)' = Append(Chain(r), m) /\ m \notin Elements(Chain(r))
                /\ (m \in Calls => kind[m].route = r)
             \/ Chain(r)' = Chain(r) /\ (m # Shutdown => kind[m].route # r)
  <2>1. m # Shutdown => m \notin Elements(Chain(r))
    BY <1>d DEF OInv, PlaceOK
  <2>2. CASE r = "tail"
    BY <1>a, <1>c, <2>1, <2>2, CallsAssumption DEF Chain
  <2>3. CASE r # "tail"
    <3>1. r \in Lanes
      BY <2>3 DEF Chained
    <3>. QED  BY <1>c, <2>1, <2>3, <3>1 DEF Chain
  <2>. QED  BY <2>2, <2>3
<1>f. \A r \in Chained : Chain(r) \in Seq(Calls \cup {Shutdown})
  BY LineParts DEF OInv
<1>1. MadeOK'
  BY <1>c DEF OInv, MadeOK
<1>2. PlaceOK'
  <2>1. ASSUME NEW r \in Chained
        PROVE  /\ NoDup(Chain(r)')
               /\ \A c \in Calls : c \in Elements(Chain(r)') =>
                    kind[c].route = r /\ phase'[c] \in {"waiting", "executing"}
    <3>0. PICK a \in Seq(Calls \cup {Shutdown}) : a = Chain(r)
      BY <1>f
    <3>1. /\ NoDup(a)
          /\ \A c \in Calls : c \in Elements(a) =>
               kind[c].route = r /\ phase[c] \in {"waiting", "executing"}
      BY <3>0 DEF OInv, PlaceOK
    <3>2. \A c \in Calls : phase[c] \in {"waiting", "executing"} => phase'[c] = phase[c]
      BY <1>a, <1>c, <1>d
    <3>3. CASE Chain(r)' = Append(a, m) /\ m \notin Elements(a)
               /\ (m \in Calls => kind[m].route = r)
      <4>1. NoDup(Append(a, m)) /\ Elements(Append(a, m)) = Elements(a) \cup {m}
        BY <3>1, <3>3, AppendElements
      <4>2. m \in Calls => phase'[m] \in {"waiting", "executing"}
        BY <1>a, <1>c, CallsAssumption
      <4>. QED  BY <3>1, <3>2, <3>3, <4>1, <4>2
    <3>4. CASE Chain(r)' = a
      BY <3>1, <3>2, <3>4
    <3>. QED  BY <1>e, <3>0, <3>3, <3>4
  <2>2. \A c \in Calls : phase'[c] = "none" =>
          c \in Elements(inbox') \/ status[c] \in {"none", "queued", "failed"}
    BY <1>a, <1>b, <1>c, <1>d, CallsAssumption DEF OInv, PlaceOK
  <2>. QED  BY <1>c, <2>1, <2>2 DEF PlaceOK
<1>3. ASSUME NEW r \in Chained PROVE Kept(Line(r), Line(r)', OfRoute(r))
  <2>0. PICK a \in Seq(Calls \cup {Shutdown}) : a = Chain(r)
    BY <1>f
  <2>1. queued \in Seq(Calls \cup {Shutdown})
    BY DEF IInv, TypeOK
  <2>2. CASE Chain(r)' = Append(a, m)
    <3>1. Kept(a \o inbox \o queued, Append(a, m) \o Tail(inbox) \o queued, OfRoute(r))
      BY <1>a, <2>1, RowReceived
    <3>. QED  BY <1>b, <1>c, <2>0, <2>2, <3>1 DEF Line
  <2>3. CASE Chain(r)' = a
    <3>1. /\ \A x, y : x # m /\ Precedes(x, y, inbox) => Precedes(x, y, inbox')
          /\ m \notin Elements(inbox')
      BY <1>a, <1>b, TailPrecedes, TailElements
    <3>2. Kept(inbox, inbox', Calls)
      BY <1>b, <3>1 DEF Kept
    <3>3. Kept(Line(r), Line(r)', Calls)
      BY <1>c, <2>0, <2>3, <3>2, LineKept, PrecedesElements DEF OInv
    <3>. QED  BY <3>3 DEF Kept, OfRoute
  <2>. QED  BY <1>e, <2>0, <2>2, <2>3
<1>4. LineOK'
  <2>1. \A d \in Calls : phase'[d] = "done" => phase[d] = "done"
    BY <1>a, <1>c, <1>d
  <2>. QED  BY <1>3, <1>c, <2>1, LineStep DEF OInv, OfRoute
<1>. QED  BY <1>1, <1>2, <1>4 DEF OInv

(* A handler ends: its request leaves the front of its line.                *)
LEMMA FinishInOrder ==
  ASSUME IInv, IInv', OInv, NEW c \in Calls, Finish(c)
  PROVE  OInv'
<1>a. /\ phase[c] = "executing" /\ kind[c] # NoKind
      /\ phase \in [Calls -> {"none", "waiting", "executing", "done"}]
      /\ phase' = [phase EXCEPT ![c] = "done"]
      /\ UNCHANGED <<kind, status, queued, ready, inbox, made>>
      /\ tail' = IF kind[c].route = "tail" THEN Tail(tail) ELSE tail
      /\ lane' = [l \in Lanes |-> IF kind[c].route = l THEN Tail(lane[l]) ELSE lane[l]]
  BY DEF Finish, IInv, TypeOK, PhaseOK, StatusOK, clientVars
<1>b. ASSUME NEW r \in Chained, kind[c].route = r
      PROVE  Chain(r) # <<>> /\ Head(Chain(r)) = c /\ Chain(r)' = Tail(Chain(r))
  <2>1. AtHead(c)
    BY <1>a, <1>b, LanesAssumption DEF IInv, ChainOK, Chained
  <2>. QED  BY <1>a, <1>b, <2>1, LanesAssumption DEF AtHead, Chain, Chained
<1>c. ASSUME NEW r \in Chained, kind[c].route # r PROVE Chain(r)' = Chain(r)
  BY <1>a, <1>c DEF Chain, Chained
<1>d. ASSUME NEW r \in Chained
      PROVE  /\ NoDup(Chain(r)') /\ Kept(Chain(r), Chain(r)', Calls)
             /\ \A d \in Calls : d \in Elements(Chain(r)') => d \in Elements(Chain(r)) /\ d # c
             /\ kind[c].route = r => c \in Elements(Chain(r)) /\ \A d : ~Precedes(d, c, Chain(r))
  <2>0. PICK a \in Seq(Calls \cup {Shutdown}) : a = Chain(r)
    BY LineParts DEF OInv
  <2>1. NoDup(a)
    BY <2>0 DEF OInv, PlaceOK
  <2>2. CASE kind[c].route = r
    <3>1. a # <<>> /\ Head(a) = c /\ Chain(r)' = Tail(a)
      BY <1>b, <2>0, <2>2
    <3>2. /\ c \in Elements(a) /\ Elements(a) = Elements(Tail(a)) \cup {c}
          /\ NoDup(Tail(a)) /\ c \notin Elements(Tail(a))
      BY <2>1, <3>1, TailElements
    <3>3. /\ \A d : ~Precedes(d, c, a)
          /\ \A x, y : x # c /\ Precedes(x, y, a) => Precedes(x, y, Tail(a))
      BY <2>1, <3>1, TailPrecedes
    <3>4. Kept(a, Tail(a), Calls)
      BY <3>2, <3>3 DEF Kept
    <3>. QED  BY <2>0, <3>1, <3>2, <3>3, <3>4
  <2>3. CASE kind[c].route # r
    <3>1. c \notin Elements(a)
      BY <2>0, <2>3 DEF OInv, PlaceOK
    <3>. QED  BY <1>c, <2>0, <2>1, <2>3, <3>1, PrecedesElements
  <2>. QED  BY <2>2, <2>3
<1>1. MadeOK'
  BY <1>a DEF OInv, MadeOK
<1>2. PlaceOK'
  <2>1. \A d \in Calls : d # c => phase'[d] = phase[d]
    BY <1>a
  <2>2. phase'[c] = "done"
    BY <1>a
  <2>. QED  BY <1>a, <1>d, <2>1, <2>2 DEF OInv, PlaceOK
<1>3. ASSUME NEW r \in Chained PROVE Kept(Line(r), Line(r)', OfRoute(r))
  <2>1. Kept(Line(r), Line(r)', Calls)
    BY <1>a, <1>d, LineKept, PrecedesElements DEF OInv
  <2>. QED  BY <2>1 DEF Kept, OfRoute
<1>4. ASSUME NEW r \in Chained, NEW d \in OfRoute(r), phase'[d] = "done", phase[d] # "done"
      PROVE  d \in Elements(Line(r)) /\ \A x : ~Precedes(x, d, Line(r))
  <2>1. d = c /\ kind[c].route = r
    BY <1>a, <1>4 DEF OfRoute
  <2>2. c \in Elements(Chain(r)) /\ \A x : ~Precedes(x, c, Chain(r))
    BY <1>d, <2>1
  <2>3. c \notin Elements(inbox) \cup Elements(queued) /\ c \in Elements(Line(r))
    BY <2>2, LineParts DEF OInv
  <2>4. \A x : Precedes(x, c, Line(r)) <=>
              \/ Precedes(x, c, Chain(r)) \/ Precedes(x, c, inbox) \/ Precedes(x, c, queued)
              \/ x \in Elements(Chain(r)) /\ c \in Elements(inbox) \cup Elements(queued)
              \/ x \in Elements(inbox) /\ c \in Elements(queued)
    <3>1. /\ Chain(r) \in Seq(Calls \cup {Shutdown})
          /\ inbox \in Seq(Calls \cup {Shutdown}) /\ queued \in Seq(Calls \cup {Shutdown})
      BY LineParts DEF OInv
    <3>. QED  BY <3>1, RowPrecedes DEF Line
  <2>. QED  BY <2>1, <2>2, <2>3, <2>4, PrecedesElements
<1>5. LineOK'
  BY <1>a, <1>3, <1>4, LineStep DEF OInv
<1>. QED  BY <1>1, <1>2, <1>5 DEF OInv

(* The shutdown leaves the tail.                                            *)
LEMMA DrainInOrder ==
  ASSUME IInv, IInv', OInv, Drain
  PROVE  OInv'
<1>a. /\ tail \in Seq(Calls \cup {Shutdown}) /\ tail # <<>> /\ Head(tail) = Shutdown
      /\ tail' = Tail(tail) /\ OnlyLast(Shutdown, tail)
      /\ UNCHANGED <<kind, status, queued, ready, inbox, lane, phase, made>>
  BY DEF Drain, IInv, TypeOK, ShutdownOK, clientVars
<1>b. tail' = <<>>
  BY <1>a, TailElements
<1>c. \A r : Chain(r)' = IF r = "tail" THEN <<>> ELSE Chain(r)
  BY <1>a, <1>b DEF Chain
<1>1. MadeOK'
  BY <1>a DEF OInv, MadeOK
<1>2. PlaceOK'
  BY <1>a, <1>c, EmptyElements DEF OInv, PlaceOK
<1>3. ASSUME NEW r \in Chained PROVE Kept(Line(r), Line(r)', OfRoute(r))
  <2>1. Kept(Chain(r), Chain(r)', Calls)
    BY <1>c, EmptyElements, PrecedesElements DEF Kept
  <2>2. Kept(Line(r), Line(r)', Calls)
    BY <1>a, <2>1, LineKept, PrecedesElements DEF OInv
  <2>. QED  BY <2>2 DEF Kept, OfRoute
<1>4. LineOK'
  BY <1>3, <1>a, LineStep DEF OInv
<1>. QED  BY <1>1, <1>2, <1>4 DEF OInv

(* A call takes the last place of its line, or settles at once.             *)
LEMMA CallInOrder ==
  ASSUME IInv, IInv', OInv, NEW c \in Calls, NEW k \in Kinds, Call(c, k)
  PROVE  OInv'
<1>a. /\ status[c] = "none" /\ kind[c] = NoKind /\ phase[c] = "none" /\ k # NoKind
      /\ kind \in [Calls -> Kinds \cup {NoKind}] /\ made \in Seq(Calls)
      /\ status \in [Calls -> {"none", "queued", "sent"} \cup Answers]
      /\ queued \in Seq(Calls) /\ inbox \in Seq(Calls \cup {Shutdown})
      /\ kind' = [kind EXCEPT ![c] = k] /\ made' = Append(made, c)
      /\ UNCHANGED <<tail, lane, phase>>
  BY KindsAssumption DEF Call, IInv, TypeOK, StatusOK, PhaseOK, workerVars
<1>b. /\ c \notin Elements(made) /\ c \notin Elements(queued) /\ c \notin Elements(inbox)
      /\ \A r \in Chained : c \notin Elements(Chain(r))
  BY <1>a DEF OInv, MadeOK, PlaceOK, IInv, ClientOK, InboxOK
<1>c. \A r : Chain(r)' = Chain(r)
  BY <1>a DEF Chain
<1>d. \/ /\ queued' = queued /\ inbox' = inbox /\ UNCHANGED ready
         /\ status' = [status EXCEPT ![c] = "failed"]
      \/ /\ queued' = Append(queued, c) /\ inbox' = inbox /\ ~ready'
         /\ status' = [status EXCEPT ![c] = "queued"]
      \/ /\ inbox' = Append(inbox, c) /\ queued' = <<>> /\ UNCHANGED <<queued, ready>>
         /\ status' = [status EXCEPT ![c] = "sent"]
      \/ /\ queued' = <<>> /\ inbox' = inbox
         /\ status' = [d \in Calls |-> IF d \in Pending \cup {c}
                         THEN IF status[d] = "sent" /\ kind'[d].mutation THEN "unknown" ELSE "failed"
                         ELSE status[d]]
  BY <1>a DEF Call, FailWith, Unanswered, clientVars, OInv, MadeOK
<1>e. /\ Elements(inbox) \subseteq Elements(inbox') /\ Elements(inbox') \subseteq Elements(inbox) \cup {c}
      /\ Elements(queued') \subseteq Elements(queued) \cup {c}
      /\ c \in Elements(inbox') => queued' = <<>>
      /\ c \notin Elements(inbox') \/ c \notin Elements(queued')
      /\ Kept(inbox, inbox', Calls \ {c}) /\ Kept(queued, queued', Calls \ {c})
      /\ \A x : /\ c \in Elements(inbox') /\ x \in Elements(inbox) => Precedes(x, c, inbox')
                /\ c \in Elements(queued') /\ x \in Elements(queued) => Precedes(x, c, queued')
  <2>1. /\ Elements(Append(inbox, c)) = Elements(inbox) \cup {c}
        /\ \A x, y : Precedes(x, y, Append(inbox, c)) <=>
             Precedes(x, y, inbox) \/ (x \in Elements(inbox) /\ y = c)
    BY <1>a, AppendElements, AppendPrecedes
  <2>2. /\ Elements(Append(queued, c)) = Elements(queued) \cup {c}
        /\ \A x, y : Precedes(x, y, Append(queued, c)) <=>
             Precedes(x, y, queued) \/ (x \in Elements(queued) /\ y = c)
    BY <1>a, AppendElements, AppendPrecedes
  <2>3. Kept(inbox, inbox', Calls \ {c})
    BY <1>d, <2>1 DEF Kept
  <2>4. Kept(queued, queued', Calls \ {c})
    BY <1>d, <2>2, EmptyElements DEF Kept
  <2>5. Elements(<<>>) = {}
    BY EmptyElements
  <2>6. CASE queued' = queued /\ inbox' = inbox
    BY <1>b, <2>3, <2>4, <2>6
  <2>7. CASE queued' = Append(queued, c) /\ inbox' = inbox
    BY <1>b, <2>2, <2>3, <2>4, <2>7
  <2>8. CASE inbox' = Append(inbox, c) /\ queued' = <<>>
    BY <1>b, <2>1, <2>3, <2>4, <2>5, <2>8
  <2>9. CASE queued' = <<>> /\ inbox' = inbox
    BY <1>b, <2>3, <2>4, <2>5, <2>9
  <2>. QED  BY <1>d, <2>6, <2>7, <2>8, <2>9
<1>1. MadeOK'
  <2>1. NoDup(made') /\ Elements(made') = Elements(made) \cup {c}
    BY <1>a, <1>b, AppendElements DEF OInv, MadeOK
  <2>2. \A d \in Calls : d \in Elements(made') <=> kind'[d] # NoKind
    BY <1>a, <2>1 DEF OInv, MadeOK
  <2>3. \A d \in Calls : status'[d] = "queued" => d \in Elements(queued')
    <3>1. Elements(Append(queued, c)) = Elements(queued) \cup {c}
      BY <1>a, AppendElements
    <3>2. ready => \A d \in Calls : status[d] # "queued"
      BY EmptyElements DEF OInv, MadeOK
    <3>. QED  BY <1>a, <1>d, <3>1, <3>2 DEF OInv, MadeOK, Pending
  <2>4. ready' => queued' = <<>>
    BY <1>d DEF OInv, MadeOK
  <2>. QED  BY <2>1, <2>2, <2>3, <2>4 DEF MadeOK
<1>2. PlaceOK'
  <2>1. \A d \in Calls : phase[d] = "none" =>
          d \in Elements(inbox') \/ status'[d] \in {"none", "queued", "failed"}
    <3>1. Elements(Append(inbox, c)) = Elements(inbox) \cup {c}
      BY <1>a, AppendElements
    <3>. QED  BY <1>a, <1>b, <1>d, <3>1 DEF OInv, PlaceOK, Pending
  <2>2. \A r \in Chained : \A d \in Calls : d \in Elements(Chain(r)) => kind'[d].route = kind[d].route
    BY <1>a, <1>b
  <2>. QED  BY <1>a, <1>c, <2>1, <2>2 DEF OInv, PlaceOK
<1>3. ASSUME NEW r \in Chained, NEW x \in Calls, x # c, c \in Elements(Line(r)'),
             x \in Elements(Line(r)')
      PROVE  Precedes(x, c, Line(r)')
  <2>0. PICK a \in Seq(Calls \cup {Shutdown}) : a = Chain(r)
    BY LineParts DEF OInv
  <2>1. inbox' \in Seq(Calls \cup {Shutdown}) /\ queued' \in Seq(Calls \cup {Shutdown})
    BY DEF IInv, TypeOK
  <2>2. Line(r)' = a \o inbox' \o queued'
    BY <1>c, <2>0 DEF Line
  <2>3. /\ Elements(Line(r)') = Elements(a) \cup Elements(inbox') \cup Elements(queued')
        /\ Precedes(x, c, Line(r)') <=>
              \/ Precedes(x, c, a) \/ Precedes(x, c, inbox') \/ Precedes(x, c, queued')
              \/ x \in Elements(a) /\ c \in Elements(inbox') \cup Elements(queued')
              \/ x \in Elements(inbox') /\ c \in Elements(queued')
    BY <2>1, <2>2, RowPrecedes
  <2>4. c \notin Elements(a)
    BY <1>b, <2>0
  <2>. QED  BY <1>3, <1>e, <2>3, <2>4, EmptyElements
<1>4. ASSUME NEW r \in Chained
      PROVE  Kept(Line(r), Line(r)', Calls \ {c})
  BY <1>c, <1>e, <1>4, LineKept, PrecedesElements DEF OInv
<1>5. LineOK'
  <2>. SUFFICES ASSUME NEW r \in Chained, NEW x \in Calls, NEW y \in Calls,
                       kind'[x].route = r, kind'[y].route = r,
                       Precedes(x, y, made'), x \in Elements(Line(r)')
                PROVE  /\ phase'[y] # "done"
                       /\ y \in Elements(Line(r)') => Precedes(x, y, Line(r)')
    BY DEF LineOK, OfRoute
  <2>1. Precedes(x, y, made) \/ (x \in Elements(made) /\ y = c)
    BY <1>a, AppendPrecedes
  <2>2. x # c
    BY <1>b, <2>1, PrecedesElements
  <2>3. CASE y = c
    BY <1>3, <1>a, <2>2, <2>3
  <2>4. CASE y # c
    <3>1. x \in OfRoute(r) /\ y \in OfRoute(r) /\ Precedes(x, y, made)
      BY <1>a, <2>1, <2>2, <2>4 DEF OfRoute
    <3>2. x \in Calls \ {c} /\ y \in Calls \ {c}
      BY <2>2, <2>4
    <3>3. x \in Elements(Line(r))
      BY <1>4, <3>2 DEF Kept
    <3>4. phase[y] # "done" /\ (y \in Elements(Line(r)) => Precedes(x, y, Line(r)))
      BY <3>1, <3>3 DEF OInv, LineOK
    <3>. QED  BY <1>4, <1>a, <3>2, <3>4 DEF Kept
  <2>. QED  BY <2>3, <2>4
<1>. QED  BY <1>1, <1>2, <1>5 DEF OInv

(* Every step keeps the lines in order.                                     *)
LEMMA NextInOrder ==
  ASSUME IInv, IInv', OInv, [Next]_vars
  PROVE  OInv'
<1>1. ASSUME NEW c \in Calls, (\E k \in Kinds : Call(c, k)) \/ Execute(c) \/ Commit(c) \/ Finish(c)
      PROVE  OInv'
  BY <1>1, CallInOrder, FinishInOrder, QuietSteps
<1>2. CASE Close \/ HandleError \/ HandleExit
  BY <1>2, ClosingInOrder
<1>3. CASE HandleReady \/ HandleRequest \/ Drain
  BY <1>3, HandleReadyInOrder, HandleRequestInOrder, DrainInOrder
<1>4. CASE HandleAnswer \/ HandleShutdownComplete \/ Start \/ Exit \/ Die \/ UNCHANGED vars
  BY <1>4, QuietSteps
<1>. QED  BY <1>1, <1>2, <1>3, <1>4 DEF Next, Client, Worker

(* Nothing was called yet.                                                  *)
LEMMA InitInOrder ==
  ASSUME Init
  PROVE  OInv
<1>1. Elements(made) = {} /\ NoDup(made) /\ \A r \in Chained : Chain(r) = <<>>
  BY EmptyElements DEF Init, Chain, Chained
<1>2. MadeOK
  BY <1>1 DEF Init, MadeOK
<1>3. PlaceOK
  BY <1>1, EmptyElements DEF Init, PlaceOK
<1>4. LineOK
  BY <1>1, PrecedesElements DEF LineOK
<1>. QED  BY <1>2, <1>3, <1>4 DEF OInv

(* Calls of the tail, and of one resource lane, keep the order in which     *)
(* they were made through the wait for the worker, the channel and the      *)
(* chain.                                                                   *)
THEOREM LinesKeepTheirOrder == Spec => []OInv
<1>1. Init => OInv
  BY InitInOrder
<1>2. IInv /\ IInv' /\ OInv /\ [Next]_vars => OInv'
  BY NextInOrder
<1>. QED  BY <1>1, <1>2, WorkerInvariant, PTL DEF Spec

(* A request is executed when every earlier one of its route is done or has *)
(* failed without reaching the worker, so a service that does not await a   *)
(* write still reads it.                                                    *)
THEOREM RequestsInOrder == Spec => []InOrder
<1>1. IInv /\ OInv => InOrder
  <2>. SUFFICES ASSUME IInv, OInv, NEW i \in DOMAIN made, NEW j \in DOMAIN made, i < j,
                       kind[made[i]].route = kind[made[j]].route,
                       kind[made[i]].route # "query",
                       phase[made[j]] \in {"executing", "done"},
                       phase[made[i]] # "done"
                PROVE  phase[made[i]] = "none" /\ status[made[i]] = "failed"
    BY DEF InOrder
  <2>1. PICK c \in Calls, d \in Calls : c = made[i] /\ d = made[j]
    BY DEF IInv, TypeOK
  <2>2. Precedes(c, d, made) /\ c \in Elements(made) /\ d \in Elements(made)
    BY <2>1 DEF Precedes, Elements
  <2>3. kind[c] \in Kinds /\ kind[d] \in Kinds /\ status[c] # "none"
    BY <2>2 DEF OInv, MadeOK, IInv, TypeOK, StatusOK
  <2>4. PICK r \in Chained : kind[c].route = r /\ kind[d].route = r
    BY <2>1, <2>3 DEF Kinds, Routes, Chained
  <2>5. c \notin Elements(Line(r))
    <3>. SUFFICES ASSUME c \in Elements(Line(r)) PROVE FALSE
      OBVIOUS
    <3>1. phase[d] # "done" /\ (d \in Elements(Line(r)) => Precedes(c, d, Line(r)))
      BY <2>2, <2>4 DEF OInv, LineOK, OfRoute
    <3>2. AtHead(d)
      BY <2>1, <2>4, <3>1 DEF IInv, ChainOK
    <3>3. PICK a \in Seq(Calls \cup {Shutdown}) : a = Chain(r)
      BY LineParts DEF OInv
    <3>4. a # <<>> /\ Head(a) = d
      BY <2>4, <3>2, <3>3, LanesAssumption DEF AtHead, Chain, Chained
    <3>5. d \in Elements(a) /\ ~Precedes(c, d, a)
      BY <3>3, <3>4, TailElements, TailPrecedes DEF OInv, PlaceOK
    <3>6. d \notin Elements(inbox) \cup Elements(queued) /\ d \in Elements(Line(r))
      BY <3>3, <3>5, LineParts DEF OInv
    <3>7. inbox \in Seq(Calls \cup {Shutdown}) /\ queued \in Seq(Calls \cup {Shutdown})
      BY LineParts DEF OInv
    <3>8. Precedes(c, d, Line(r)) <=>
              \/ Precedes(c, d, a) \/ Precedes(c, d, inbox) \/ Precedes(c, d, queued)
              \/ c \in Elements(a) /\ d \in Elements(inbox) \cup Elements(queued)
              \/ c \in Elements(inbox) /\ d \in Elements(queued)
      BY <3>3, <3>7, RowPrecedes DEF Line
    <3>. QED  BY <3>1, <3>5, <3>6, <3>8, PrecedesElements
  <2>6. c \notin Elements(Chain(r)) /\ c \notin Elements(inbox) /\ c \notin Elements(queued)
    BY <2>5, LineParts DEF OInv
  <2>7. phase[c] = "none"
    <3>1. phase[c] # "waiting"
      BY <2>4, <2>6, LanesAssumption DEF IInv, ChainOK, Chain, Chained
    <3>2. phase[c] # "executing"
      <4>. SUFFICES ASSUME phase[c] = "executing" PROVE FALSE
        OBVIOUS
      <4>1. AtHead(c)
        BY <2>1, <2>4 DEF IInv, ChainOK
      <4>2. PICK a \in Seq(Calls \cup {Shutdown}) : a = Chain(r)
        BY LineParts DEF OInv
      <4>3. a # <<>> /\ Head(a) = c
        BY <2>4, <4>1, <4>2, LanesAssumption DEF AtHead, Chain, Chained
      <4>. QED  BY <2>6, <4>2, <4>3, TailElements
    <3>. QED  BY <2>1, <3>1, <3>2 DEF IInv, TypeOK
  <2>. QED  BY <2>1, <2>3, <2>6, <2>7 DEF OInv, MadeOK, PlaceOK
<1>. QED  BY <1>1, WorkerInvariant, LinesKeepTheirOrder, PTL

-----------------------------------------------------------------------------
(* Until the client is ready or has failed, the worker has still to say     *)
(* that it is ready, or is at its end.                                      *)
ReadyComes ==
  ready \/ faulted \/ worker \in {"starting", "exited"} \/ Ready \in Elements(outbox)

(* Every step keeps it.                                                     *)
LEMMA ReadyStep == IInv /\ ReadyComes /\ [Next]_vars => ReadyComes'
<1>. SUFFICES ASSUME IInv, ReadyComes, [Next]_vars, ~ready', ~faulted'
              PROVE  worker' \in {"starting", "exited"} \/ Ready \in Elements(outbox')
  BY DEF ReadyComes
<1>1. outbox \in Seq(Messages)
  BY DEF IInv, TypeOK
<1>2. \A m \in Messages : Elements(Append(outbox, m)) = Elements(outbox) \cup {m}
  BY <1>1, AppendElements
<1>3. outbox # <<>> => Elements(outbox) = Elements(Tail(outbox)) \cup {Head(outbox)}
  BY <1>1, TailElements
<1>4. CASE UNCHANGED vars
  BY <1>4 DEF vars, clientVars, workerVars, ReadyComes
<1>5. ASSUME NEW c \in Calls, NEW k \in Kinds, Call(c, k)
      PROVE  worker' \in {"starting", "exited"} \/ Ready \in Elements(outbox')
  BY <1>5 DEF Call, clientVars, workerVars, FailWith, ReadyComes
<1>6. ASSUME NEW c \in Calls, Execute(c) \/ Commit(c)
      PROVE  worker' \in {"starting", "exited"} \/ Ready \in Elements(outbox')
  BY <1>6 DEF Execute, Commit, clientVars, ReadyComes
<1>7. ASSUME NEW c \in Calls, Finish(c)
      PROVE  worker' \in {"starting", "exited"} \/ Ready \in Elements(outbox')
  <2>1. HandlerAnswers(c) \subseteq Answers
    BY DEF HandlerAnswers, Unexpected, Answers
  <2>2. Elements(outbox) \subseteq Elements(outbox')
    BY <1>2, <1>7, <2>1 DEF Finish, Messages
  <2>. QED  BY <1>7, <2>2 DEF Finish, clientVars, ReadyComes
<1>8. CASE Close
  BY <1>8 DEF Close, workerVars, ReadyComes
<1>9. CASE HandleReady
  BY <1>9 DEF HandleReady, SendQueued, FailWith
<1>10. CASE HandleAnswer
  BY <1>3, <1>10 DEF HandleAnswer, Ready, clientVars, workerVars, ReadyComes
<1>11. CASE HandleShutdownComplete
  BY <1>3, <1>11 DEF HandleShutdownComplete, Ready, ShutdownComplete, clientVars, workerVars, ReadyComes
<1>12. CASE HandleError \/ HandleExit \/ Exit \/ Die
  BY <1>12 DEF HandleError, HandleExit, Exit, Die, workerVars
<1>13. CASE Start
  BY <1>2, <1>13 DEF Start, Messages
<1>14. CASE HandleRequest
  <2>1. /\ worker' = worker /\ UNCHANGED clientVars
        /\ Elements(outbox) \subseteq Elements(outbox')
    <3>1. CASE UNCHANGED outbox
      BY <1>14, <3>1 DEF HandleRequest
    <3>2. CASE Head(inbox) # Shutdown /\ outbox' = Append(outbox, Answer(Head(inbox), "unknown"))
      <4>1. Head(inbox) \in Calls
        BY <1>14, <3>2, TailElements DEF HandleRequest, IInv, TypeOK
      <4>. QED  BY <1>2, <1>14, <3>2, <4>1 DEF HandleRequest, Messages, Answers
    <3>. QED  BY <1>14, <3>1, <3>2 DEF HandleRequest, Receive, ReceiveShutdown
  <2>. QED  BY <2>1 DEF clientVars, ReadyComes
<1>15. CASE Drain
  BY <1>2, <1>15 DEF Drain, Alive, Messages, clientVars, ReadyComes
<1>. QED  BY <1>4, <1>5, <1>6, <1>7, <1>8, <1>9, <1>10, <1>11, <1>12, <1>13, <1>14, <1>15
          DEF Next, Client, Worker

(* Where the answer of a call that is pending comes from: a call that waits *)
(* for the worker is sent when it says that it is ready, or failed by       *)
(* close(); one that was sent is in the channel, with the worker or         *)
(* answered, or the worker is at its end and the client has still to        *)
(* handle that.                                                             *)
Awaited(c) ==
  /\ ~faulted /\ ~exitSeen
  /\ status[c] = "queued" =>
       /\ c \in Elements(queued) /\ ~ready /\ ~closed
       /\ worker \in {"starting", "exited"} \/ Ready \in Elements(outbox)
  /\ status[c] = "sent" =>
       \/ c \in Elements(inbox)
       \/ phase[c] \in {"waiting", "executing"}
       \/ \E a \in Answers : Answer(c, a) \in Elements(outbox)
       \/ worker \in {"drained", "exited"}

(* No call is forgotten: as long as one is pending there is something that  *)
(* will answer it, however the worker ended and whenever close() was called *)
(* (StorageWorkerClient: call, resolveMessage, rejectPendingForWorkerExit). *)
(* This is the part of EveryCallAnswered that does not rest on fairness.    *)
THEOREM NoCallIsForgotten == Spec => [](\A c \in Pending : Awaited(c))
<1>1. ASSUME IInv, OInv, ReadyComes, NEW c \in Pending PROVE Awaited(c)
  <2>1. c \in Calls /\ ~faulted /\ ~exitSeen
    BY <1>1 DEF Pending, IInv, ClientOK
  <2>2. ASSUME status[c] = "queued" PROVE c \in Elements(queued) /\ ~ready /\ ~closed
    <3>1. c \in Elements(queued)
      BY <1>1, <2>1, <2>2 DEF OInv, MadeOK
    <3>2. queued # <<>>
      BY <3>1, EmptyElements
    <3>. QED  BY <1>1, <3>1, <3>2 DEF OInv, MadeOK, IInv, ClientOK
  <2>. QED  BY <1>1, <2>1, <2>2 DEF Awaited, IInv, SentOK, ReadyComes
<1>2. IInv /\ OInv /\ ReadyComes => \A c \in Pending : Awaited(c)
  BY <1>1
<1>3. Init => ReadyComes
  BY DEF Init, ReadyComes
<1>4. IInv /\ ReadyComes /\ [Next]_vars => ReadyComes'
  BY ReadyStep
<1>. QED  BY WorkerInvariant, LinesKeepTheirOrder, <1>2, <1>3, <1>4, PTL DEF Spec
=============================================================================
