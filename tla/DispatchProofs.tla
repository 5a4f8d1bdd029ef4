--------------------------- MODULE DispatchProofs ---------------------------
(***************************************************************************)
(* Proofs about Dispatch for every number of commits, workers and slots    *)
(* and every combination of faults.                                        *)
(***************************************************************************)
EXTENDS Dispatch, FiniteSetTheorems, TLAPS

\* The inductive invariant.  AtMostOneHolder needs HeldNotQueued (a claim is
\* won on a queued row, so nobody holds it yet); HeldNotQueued needs
\* AtMostOneHolder (a release requeues a row that no other coroutine holds);
\* the range of sem needs SlotAccounting.
\* That a final status stays needs RowFollows: nobody but its holder writes the
\* row of a held commit, so what the holder is about to overwrite is known.
RowFor(state, s) ==
  /\ state = "prepare" => s = "PROCESSING"
  /\ state = "tests" => s = "RUNNING"
  /\ state = "store" => s = "FINAL"

RowFollows == \A x \in Coro : RowFor(coro[x], status[job[x]])

IInv ==
  TypeOK /\ AtMostOneHolder /\ HeldNotQueued /\ RowFollows /\ SlotAccounting

-----------------------------------------------------------------------------
(* Constants and slots *)

\* QueueMax is a number.
LEMMA QueueMaxNat == QueueMax \in Nat
  BY FS_CardinalityType, WorkerAssumption, ConcurrencyAssumption DEF QueueMax

\* The coroutines in flight of a worker are a finite set.
LEMMA InFlightFinite ==
  ASSUME NEW w \in Worker
  PROVE  /\ IsFiniteSet(InFlight(w))
         /\ Cardinality(InFlight(w)) \in Nat
  <1>1. InFlight(w) \in SUBSET Task
    BY DEF InFlight
  <1>2. IsFiniteSet(InFlight(w))
    BY <1>1, FS_Subset, TaskAssumption
  <1> QED
    BY <1>2, FS_CardinalityType

\* A worker with a free permit has a free coroutine name, so Spawn never
\* overwrites a running coroutine.
LEMMA FreeTaskExists ==
  ASSUME NEW w \in Worker, SlotAccounting, sem[w] \in Nat, sem[w] > 0
  PROVE  FreeTask(w) \in Task /\ coro[<<w, FreeTask(w)>>] = "idle"
  <1>1. InFlight(w) # Task
    <2>1. Cardinality(InFlight(w)) <= Concurrency
      BY InFlightFinite, ConcurrencyAssumption DEF SlotAccounting
    <2>2. Cardinality(Task) \in Nat
      BY FS_CardinalityType, TaskAssumption
    <2> QED
      BY <2>1, <2>2, TaskAssumption, ConcurrencyAssumption, InFlightFinite
  <1>2. \E t \in Task : coro[<<w, t>>] = "idle"
    BY <1>1 DEF InFlight
  <1> QED
    BY <1>2 DEF FreeTask

\* A worker none of whose coroutines runs has all its permits or none is
\* counted as in flight.
LEMMA NoneInFlight ==
  ASSUME NEW w \in Worker, \A t \in Task : coro[<<w, t>>] = "idle"
  PROVE  Cardinality(InFlight(w)) = 0
  <1>1. InFlight(w) = {}
    BY DEF InFlight
  <1> QED
    BY <1>1, FS_EmptySet

-----------------------------------------------------------------------------
(* Initial states *)

LEMMA InitIInv == Init => IInv
  <1> SUFFICES ASSUME Init PROVE IInv
    OBVIOUS
  <1> USE DEF Init
  <1>1. TypeOK
    BY QueueMaxNat, ConcurrencyAssumption, NoneAssumption
    DEF TypeOK, Status, PollerState, WorkerState, CoroState, Item, Ended
  <1>2. AtMostOneHolder /\ HeldNotQueued /\ RowFollows
    BY DEF AtMostOneHolder, HeldNotQueued, Holding, RowFollows, RowFor
  <1>3. SlotAccounting
    <2> SUFFICES ASSUME NEW w \in Worker
                 PROVE  sem[w] + Cardinality(InFlight(w)) = Concurrency
      BY DEF SlotAccounting
    <2>1. \A t \in Task : coro[<<w, t>>] = "idle"
      BY DEF Coro
    <2> QED
      BY <2>1, NoneInFlight, ConcurrencyAssumption
  <1> QED
    BY <1>1, <1>2, <1>3 DEF IInv

-----------------------------------------------------------------------------
(* Steps of the environment and of the parent: they leave the workers alone *)

\* What concerns only the workers survives a step that leaves them alone.
LEMMA WorkersFrame ==
  ASSUME IInv, UNCHANGED workerVars
  PROVE  /\ SlotAccounting' /\ AtMostOneHolder'
         /\ UNCHANGED status => HeldNotQueued' /\ RowFollows'
  BY DEF IInv, workerVars, SlotAccounting, InFlight, AtMostOneHolder,
         HeldNotQueued, Holding, RowFollows

LEMMA SubmitStep ==
  ASSUME IInv, NEW c \in Commit, Submit(c)
  PROVE  IInv'
  <1> USE DEF Submit, parentVars, workerVars
  <1>1. TypeOK'
    BY DEF IInv, TypeOK, Status, Ended
  <1>2. HeldNotQueued' /\ RowFollows'
    BY DEF IInv, HeldNotQueued, Holding, TypeOK, RowFollows, RowFor
  <1> QED
    BY <1>1, <1>2, WorkersFrame DEF IInv

LEMMA ExpireStep ==
  ASSUME IInv, NEW c \in Commit, Expire(c)
  PROVE  IInv'
  <1> USE DEF Expire, workerVars
  <1>1. TypeOK'
    BY DEF IInv, TypeOK, Ended
  <1> QED
    BY <1>1, WorkersFrame DEF IInv

LEMMA ParentStep ==
  ASSUME IInv, Parent
  PROVE  IInv'
  <1> USE DEF workerVars
  <1>t. TypeOK
    BY DEF IInv
  <1>1. CASE Poll
    <2>1. TypeOK'
      BY <1>1, <1>t DEF Poll, TypeOK, Ended, InQueue, Pruned, PollerState
    <2> QED
      BY <1>1, <2>1, WorkersFrame DEF Poll, IInv
  <1>2. CASE Put
    <2>1. PICK c \in Earliest : /\ queue' = Append(queue, c)
                                /\ recent' = recent \cup {c}
                                /\ batch' = batch \ {c}
      BY <1>2 DEF Put
    <2>2. c \in Commit
      BY <1>t DEF TypeOK, Earliest
    <2>3. /\ queue' \in Seq(Item)
          /\ Len(queue') <= QueueMax
      BY <1>2, <2>1, <2>2, <1>t, QueueMaxNat DEF Put, HasRoom, TypeOK, Item
    <2>4. TypeOK'
      BY <1>2, <2>1, <2>2, <2>3, <1>t DEF Put, TypeOK, Ended, PollerState
    <2> QED
      BY <1>2, <2>4, WorkersFrame DEF Put, IInv
  <1>3. CASE Hint
    <2>1. /\ queue' \in Seq(Item)
          /\ Len(queue') <= QueueMax
      BY <1>3, <1>t, QueueMaxNat DEF Hint, HasRoom, TypeOK, Item
    <2>2. TypeOK'
      BY <1>3, <2>1, <1>t DEF Hint, TypeOK, Ended, PollerState
    <2> QED
      BY <1>3, <2>2, WorkersFrame DEF Hint, IInv
  <1>4. CASE StartJoin
    <2>1. TypeOK'
      BY <1>4, <1>t DEF StartJoin, TypeOK, Ended, PollerState
    <2> QED
      BY <1>4, <2>1, WorkersFrame DEF StartJoin, IInv
  <1>5. CASE Join
    <2>1. TypeOK'
      BY <1>5, <1>t DEF Join, TypeOK, Ended, PollerState
    <2> QED
      BY <1>5, <2>1, WorkersFrame DEF Join, IInv
  <1>6. ASSUME NEW w \in Worker, LookAt(w) PROVE IInv'
    <2>1. TypeOK'
      BY <1>6, <1>t DEF LookAt, TypeOK, Ended, PollerState
    <2> QED
      BY <1>6, <2>1, WorkersFrame DEF LookAt, IInv
  <1>7. ASSUME NEW i \in Item, OrphanPut(i) PROVE IInv'
    <2>1. /\ queue' \in Seq(Item)
          /\ Len(queue') <= QueueMax
      BY <1>7, <1>t, QueueMaxNat DEF OrphanPut, HasRoom, TypeOK, Item
    <2>2. TypeOK'
      BY <1>7, <2>1, <1>t DEF OrphanPut, TypeOK, Ended
    <2> QED
      BY <1>7, <2>2, WorkersFrame DEF OrphanPut, IInv
  <1> QED
    BY <1>1, <1>2, <1>3, <1>4, <1>5, <1>6, <1>7 DEF Parent

-----------------------------------------------------------------------------
(* Ctrl-C and crashes: coroutines vanish, none appears *)

LEMMA CtrlCStep ==
  ASSUME IInv, CtrlC
  PROVE  IInv'
  <1>t. TypeOK
    BY DEF IInv
  <1>1. CASE Interrupt
    <2>1. PICK surviving \in SUBSET Earliest : orphans' = orphans \cup surviving
      BY <1>1 DEF Interrupt
    <2>2. orphans' \subseteq Item
      BY <2>1, <1>t DEF TypeOK, Earliest, Item
    <2>3. TypeOK'
      BY <1>1, <2>2, <1>t DEF Interrupt, TypeOK, Ended, PollerState, workerVars
    <2> QED
      BY <1>1, <2>3, WorkersFrame DEF Interrupt, IInv, workerVars
  <1>2. CASE Escape
    <2>1. TypeOK'
      BY <1>2, <1>t DEF Escape, TypeOK, Ended, PollerState, workerVars, Item
    <2> QED
      BY <1>2, <2>1, WorkersFrame DEF Escape, IInv, workerVars
  <1>3. CASE Terminate
    <2> USE <1>3 DEF Terminate
    <2>1. TypeOK'
      BY <1>t, NoneAssumption, ConcurrencyAssumption
      DEF TypeOK, Ended, PollerState, WorkerState, CoroState, Item
    <2>2. AtMostOneHolder' /\ HeldNotQueued' /\ RowFollows'
      BY DEF AtMostOneHolder, HeldNotQueued, Holding, RowFollows, RowFor
    <2>3. SlotAccounting'
      <3> SUFFICES ASSUME NEW w \in Worker
                   PROVE  (sem[w] + Cardinality(InFlight(w)) = Concurrency)'
        BY DEF SlotAccounting
      <3>1. InFlight(w)' = {}
        BY DEF InFlight, Coro
      <3> QED
        BY <3>1, FS_EmptySet, ConcurrencyAssumption
    <2> QED
      BY <2>1, <2>2, <2>3 DEF IInv
  <1> QED
    BY <1>1, <1>2, <1>3 DEF CtrlC

LEMMA CrashStep ==
  ASSUME IInv, NEW w \in Worker, Crash(w)
  PROVE  IInv'
  <1> USE DEF Crash
  <1>t. TypeOK
    BY DEF IInv
  <1>w. PICK state \in {"dead", "jammed"} :
            worker' = [worker EXCEPT ![w] = state]
    OBVIOUS
  <1>1. TypeOK'
    <2>1. worker' \in [Worker -> WorkerState]
      BY <1>w, <1>t DEF TypeOK, WorkerState
    <2>2. /\ \A v \in Worker \ {w} : worker'[v] = worker[v] /\ pulled'[v] = pulled[v]
          /\ worker'[w] \in {"dead", "jammed"} /\ pulled'[w] = None
      BY <1>w, <1>t DEF TypeOK
    <2>3. \A v \in Worker : (pulled[v] # None <=> worker[v] = "acquire")'
      BY <2>2, <1>t DEF TypeOK
    <2>4. \A x \in Coro : (coro[x] # "idle" => ~Ended(x[1]))'
      BY <2>2, <1>t DEF TypeOK, Ended, Coro
    <2> QED
      BY <2>1, <2>3, <2>4, <1>t, NoneAssumption, ConcurrencyAssumption
      DEF TypeOK, CoroState, Item, parentVars
  <1>2. AtMostOneHolder'
    BY DEF IInv, TypeOK, AtMostOneHolder, Holding
  <1>3. HeldNotQueued' /\ RowFollows'
    BY DEF IInv, TypeOK, HeldNotQueued, Holding, RowFollows, RowFor
  <1>4. SlotAccounting'
    <2> SUFFICES ASSUME NEW v \in Worker
                 PROVE  (sem[v] + Cardinality(InFlight(v)) = Concurrency)'
      BY DEF SlotAccounting
    <2>1. CASE v = w
      <3>1. InFlight(v)' = {}
        BY <2>1 DEF InFlight, Coro
      <3> QED
        BY <2>1, <3>1, <1>t, FS_EmptySet, ConcurrencyAssumption DEF TypeOK
    <2>2. CASE v # w
      <3>1. InFlight(v)' = InFlight(v) /\ sem'[v] = sem[v]
        BY <2>2, <1>t DEF InFlight, Coro, TypeOK
      <3> QED
        BY <3>1 DEF IInv, SlotAccounting
    <2> QED
      BY <2>1, <2>2
  <1> QED
    BY <1>1, <1>2, <1>3, <1>4 DEF IInv

-----------------------------------------------------------------------------
(* The pull loop *)

\* What concerns only the coroutines survives a step that leaves them alone.
LEMMA CorosFrame ==
  ASSUME IInv, UNCHANGED <<status, sem, coro, job>>
  PROVE  SlotAccounting' /\ AtMostOneHolder' /\ HeldNotQueued' /\ RowFollows'
  BY DEF IInv, SlotAccounting, InFlight, AtMostOneHolder, HeldNotQueued, Holding,
         RowFollows

\* Starting one coroutine costs one permit.
LEMMA SpawnStep ==
  ASSUME IInv, NEW w \in Worker, Spawn(w)
  PROVE  IInv'
  <1> DEFINE t == FreeTask(w)
             x == <<w, t>>
  <1> USE DEF Spawn
  <1>t. TypeOK
    BY DEF IInv
  <1>1. t \in Task /\ coro[x] = "idle"
    BY <1>t, FreeTaskExists DEF IInv, TypeOK
  <1>2. x \in Coro
    BY <1>1 DEF Coro
  <1>3. /\ coro' = [coro EXCEPT ![x] = "claim"]
        /\ job' = [job EXCEPT ![x] = pulled[w]]
    OBVIOUS
  <1> HIDE DEF t
  <1>4. TypeOK'
    <2>1. pulled[w] # None /\ pulled[w] \in Item
      BY <1>t DEF TypeOK
    <2>2. /\ coro' \in [Coro -> CoroState]
          /\ job' \in [Coro -> Item]
          /\ \A y \in Coro : (job[y] = None <=> coro[y] = "idle")'
      BY <1>2, <1>3, <1>t, <2>1 DEF TypeOK, CoroState
    <2>3. sem' \in [Worker -> 0..Concurrency]
      BY <1>t, ConcurrencyAssumption DEF TypeOK
    <2>4. /\ worker' \in [Worker -> WorkerState]
          /\ pulled' \in [Worker -> Item]
          /\ \A v \in Worker : (pulled[v] # None <=> worker[v] = "acquire")'
          /\ \A v \in Worker : Ended(v)' <=> Ended(v)
      BY <1>t DEF TypeOK, LoopHead, WorkerState, Item, Ended
    <2>5. ~Ended(w)
      BY DEF Ended
    <2>6. \A y \in Coro : (coro[y] # "idle" => ~Ended(y[1]))'
      BY <1>2, <1>3, <1>t, <2>4, <2>5 DEF TypeOK, Coro
    <2> QED
      BY <1>t, <2>2, <2>3, <2>4, <2>6 DEF TypeOK, parentVars
  <1>5. AtMostOneHolder' /\ HeldNotQueued' /\ RowFollows'
    BY <1>1, <1>2, <1>3, <1>t
    DEF IInv, TypeOK, AtMostOneHolder, HeldNotQueued, Holding, RowFollows, RowFor
  <1>6. SlotAccounting'
    <2> SUFFICES ASSUME NEW v \in Worker
                 PROVE  (sem[v] + Cardinality(InFlight(v)) = Concurrency)'
      BY DEF SlotAccounting
    <2>1. CASE v = w
      <3>1. InFlight(v)' = InFlight(v) \cup {t} /\ t \notin InFlight(v)
        BY <2>1, <1>1, <1>2, <1>3, <1>t DEF InFlight, Coro, TypeOK
      <3>2. Cardinality(InFlight(v)') = Cardinality(InFlight(v)) + 1
        BY <3>1, InFlightFinite, FS_AddElement
      <3> QED
        BY <2>1, <3>2, <1>t, InFlightFinite, ConcurrencyAssumption
        DEF IInv, SlotAccounting, TypeOK
    <2>2. CASE v # w
      <3>1. InFlight(v)' = InFlight(v) /\ sem'[v] = sem[v]
        BY <2>2, <1>2, <1>3, <1>t DEF InFlight, Coro, TypeOK
      <3> QED
        BY <3>1 DEF IInv, SlotAccounting
    <2> QED
      BY <2>1, <2>2
  <1> QED
    BY <1>4, <1>5, <1>6 DEF IInv

LEMMA PullLoopStep ==
  ASSUME IInv, NEW w \in Worker, PullLoop(w)
  PROVE  IInv'
  <1> USE DEF parentVars
  <1>t. TypeOK
    BY DEF IInv
  <1>1. CASE GetItem(w)
    <2>1. /\ Head(queue) \in Item
          /\ queue' \in Seq(Item)
          /\ Len(queue') <= QueueMax
      BY <1>1, <1>t, QueueMaxNat DEF GetItem, TypeOK
    <2>2. /\ worker' \in [Worker -> WorkerState]
          /\ pulled' \in [Worker -> Item]
      BY <1>1, <2>1, <1>t DEF GetItem, TypeOK, WorkerState
    <2>3. pulled[w] = None
      BY <1>1, <1>t DEF GetItem, TypeOK
    <2>4. \A v \in Worker : (pulled[v] # None <=> worker[v] = "acquire")'
      <3>1. CASE Head(queue) = None
        BY <1>1, <2>3, <3>1, <1>t DEF GetItem, TypeOK
      <3>2. CASE Head(queue) # None
        BY <1>1, <3>2, <1>t DEF GetItem, TypeOK
      <3> QED
        BY <3>1, <3>2
    <2>5. \A v \in Worker : Ended(v)' <=> Ended(v)
      BY <1>1, <1>t DEF GetItem, TypeOK, Ended
    <2>6. TypeOK'
      BY <1>1, <2>1, <2>2, <2>4, <2>5, <1>t DEF GetItem, TypeOK, Coro
    <2> QED
      BY <1>1, <2>6, CorosFrame DEF GetItem, IInv
  <1>2. CASE GetEmpty(w)
    <2>1. TypeOK'
      BY <1>2, <1>t DEF GetEmpty, TypeOK, Ended, WorkerState, LoopHead
    <2> QED
      BY <1>2, <2>1, CorosFrame DEF GetEmpty, IInv
  <1>3. CASE GetFails(w)
    <2>1. queue' \in Seq(Item) /\ Len(queue') <= QueueMax
      <3>1. CASE UNCHANGED queue
        BY <3>1, <1>t DEF TypeOK
      <3>2. CASE queue # <<>> /\ queue' = Tail(queue)
        BY <3>2, <1>t, QueueMaxNat DEF TypeOK
      <3> QED
        BY <1>3, <3>1, <3>2 DEF GetFails
    <2>2. PICK next \in {"drain", "get"} : worker' = [worker EXCEPT ![w] = next]
      BY <1>3 DEF GetFails, LoopHead
    <2>3. TypeOK'
      BY <1>3, <2>1, <2>2, <1>t DEF GetFails, TypeOK, Ended, WorkerState
    <2> QED
      BY <1>3, <2>3, CorosFrame DEF GetFails, IInv
  <1>4. CASE Spawn(w)
    BY <1>4, SpawnStep
  <1>5. CASE SpawnFails(w)
    <2>1. PICK next \in {"drain", "get"} : worker' = [worker EXCEPT ![w] = next]
      BY <1>5 DEF SpawnFails, LoopHead
    <2>2. TypeOK'
      BY <1>5, <2>1, <1>t DEF SpawnFails, TypeOK, Ended, WorkerState, Item
    <2> QED
      BY <1>5, <2>2, CorosFrame DEF SpawnFails, IInv
  <1>6. CASE Drained(w)
    <2>1. \A t \in Task : coro[<<w, t>>] = "idle"
      BY <1>6 DEF Drained, InFlight
    <2>2. \A x \in Coro : x[1] = w => coro[x] = "idle"
      BY <2>1 DEF Coro
    <2>3. TypeOK'
      BY <1>6, <2>2, <1>t DEF Drained, TypeOK, Ended, WorkerState
    <2> QED
      BY <1>6, <2>3, CorosFrame DEF Drained, IInv
  <1> QED
    BY <1>1, <1>2, <1>3, <1>4, <1>5, <1>6 DEF PullLoop

-----------------------------------------------------------------------------
(* The coroutines *)

\* The step of a coroutine that keeps running.
LEMMA KeepsSlot ==
  ASSUME IInv, NEW x \in Coro, NEW state, state # "idle", coro[x] # "idle",
         SetCoro(x, state), UNCHANGED sem
  PROVE  SlotAccounting'
  <1>1. \A w \in Worker, t \in Task : coro'[<<w, t>>] = "idle" <=> coro[<<w, t>>] = "idle"
    BY DEF SetCoro, Coro, IInv, TypeOK
  <1>2. \A w \in Worker : InFlight(w)' = InFlight(w)
    BY <1>1 DEF InFlight
  <1> QED
    BY <1>2 DEF IInv, SlotAccounting

\* Return(x) frees exactly the slot of x.
LEMMA FreesSlot ==
  ASSUME IInv, NEW x \in Coro, coro[x] # "idle", Return(x)
  PROVE  SlotAccounting' /\ sem' \in [Worker -> 0..Concurrency]
  <1> DEFINE w == x[1]
             t == x[2]
  <1>t. TypeOK
    BY DEF IInv
  <1>1. w \in Worker /\ t \in Task /\ x = <<w, t>>
    BY DEF Coro
  <1>2. coro' = [coro EXCEPT ![<<w, t>>] = "idle"] /\ sem' = [sem EXCEPT ![w] = @ + 1]
    BY <1>1 DEF Return, SetCoro
  <1> HIDE DEF w, t
  <1>3. t \in InFlight(w) /\ InFlight(w)' = InFlight(w) \ {t}
    BY <1>1, <1>2, <1>t DEF InFlight, Coro, TypeOK
  <1>4. /\ Cardinality(InFlight(w)') = Cardinality(InFlight(w)) - 1
        /\ Cardinality(InFlight(w)) > 0
    <2>1. Cardinality(InFlight(w)) # 0
      BY <1>1, <1>3, InFlightFinite, FS_EmptySet
    <2>2. Cardinality(InFlight(w) \ {t}) = Cardinality(InFlight(w)) - 1
      BY <1>1, <1>3, InFlightFinite, FS_RemoveElement
    <2>3. Cardinality(InFlight(w)') = Cardinality(InFlight(w)) - 1
      BY <1>3, <2>2
    <2> QED
      BY <1>1, <2>1, <2>3, InFlightFinite
  <1>5. \A v \in Worker : v # w => InFlight(v)' = InFlight(v) /\ sem'[v] = sem[v]
    BY <1>1, <1>2, <1>t DEF InFlight, Coro, TypeOK
  <1>6. sem[w] \in 0..Concurrency /\ sem'[w] = sem[w] + 1
    BY <1>1, <1>2, <1>t DEF TypeOK
  <1>7. sem[w] + Cardinality(InFlight(w)) = Concurrency
    BY <1>1 DEF IInv, SlotAccounting
  <1>8. sem' \in [Worker -> 0..Concurrency]
    BY <1>1, <1>2, <1>4, <1>6, <1>7, <1>t, InFlightFinite, ConcurrencyAssumption
    DEF TypeOK
  <1>9. sem'[w] + Cardinality(InFlight(w)') = Concurrency
    BY <1>1, <1>4, <1>6, <1>7, InFlightFinite, ConcurrencyAssumption
  <1> QED
    BY <1>5, <1>8, <1>9 DEF IInv, SlotAccounting

\* A coroutine that returns and leaves the row alone.
LEMMA ReturnStep ==
  ASSUME IInv, NEW x \in Coro, coro[x] # "idle", Return(x),
         UNCHANGED <<status, parentVars, queue, worker, pulled>>,
         fatal' \in [Worker -> BOOLEAN]
  PROVE  IInv'
  <1>t. TypeOK
    BY DEF IInv
  <1>1. TypeOK'
    BY <1>t, FreesSlot, NoneAssumption
    DEF Return, SetCoro, TypeOK, Ended, CoroState, Item, parentVars
  <1>2. AtMostOneHolder' /\ HeldNotQueued' /\ RowFollows'
    BY <1>t DEF IInv, TypeOK, Return, SetCoro, AtMostOneHolder, HeldNotQueued,
                Holding, RowFollows, RowFor
  <1> QED
    BY <1>1, <1>2, FreesSlot DEF IInv

\* A coroutine that already holds its commit moves on and writes a status
\* that is not up for a claim.
LEMMA HolderStep ==
  ASSUME IInv, NEW x \in Coro, Holding(x),
         NEW state \in CoroState, state \notin {"idle", "claim"}, SetCoro(x, state),
         NEW s \in Status \ {"ABSENT", "IN_QUEUE"},
         status' = [status EXCEPT ![job[x]] = s] \/ status' = status,
         RowFor(state, status'[job[x]]),
         UNCHANGED <<parentVars, queue, worker, pulled, fatal, sem, job>>
  PROVE  IInv'
  <1>t. TypeOK
    BY DEF IInv
  <1>1. TypeOK'
    BY <1>t DEF SetCoro, TypeOK, Ended, parentVars, Holding
  <1>2. AtMostOneHolder'
    BY <1>t DEF IInv, TypeOK, SetCoro, AtMostOneHolder, Holding
  <1>3. HeldNotQueued'
    BY <1>t DEF IInv, TypeOK, SetCoro, HeldNotQueued, Holding, Item
  <1>4. RowFollows'
    <2> SUFFICES ASSUME NEW y \in Coro
                 PROVE  RowFor(coro'[y], status'[job[y]])
      BY DEF RowFollows
    <2>1. CASE y = x
      BY <2>1, <1>t DEF SetCoro, TypeOK
    <2>2. CASE y # x /\ Holding(y)
      <3>1. job[y] # job[x]
        BY <2>2 DEF IInv, AtMostOneHolder
      <3>2. job[y] \in Commit
        BY <2>2, <1>t DEF TypeOK, Holding, Item
      <3>3. status'[job[y]] = status[job[y]]
        BY <3>1, <3>2, <1>t DEF TypeOK
      <3>4. coro'[y] = coro[y]
        BY <2>2, <1>t DEF SetCoro, TypeOK
      <3> QED
        BY <3>3, <3>4 DEF IInv, RowFollows
    <2>3. CASE y # x /\ ~Holding(y)
      BY <2>3, <1>t DEF SetCoro, TypeOK, Holding, RowFor
    <2> QED
      BY <2>1, <2>2, <2>3
  <1>5. SlotAccounting'
    BY KeepsSlot DEF Holding
  <1> QED
    BY <1>1, <1>2, <1>3, <1>4, <1>5 DEF IInv

\* A won claim: the row was queued, so nobody holds the commit yet.
LEMMA ClaimWinsStep ==
  ASSUME IInv, NEW x \in Coro, ClaimWins(x)
  PROVE  IInv'
  <1> USE DEF ClaimWins, Claimable, SetCoro
  <1>t. TypeOK
    BY DEF IInv
  <1>1. job[x] \in Commit
    BY <1>t DEF TypeOK, Item
  <1>2. \A y \in Coro : Holding(y) => job[y] # job[x]
    BY DEF IInv, HeldNotQueued
  <1>3. TypeOK'
    BY <1>t, <1>1 DEF TypeOK, Ended, CoroState, Status, parentVars
  <1>4. AtMostOneHolder'
    BY <1>t, <1>2 DEF IInv, TypeOK, AtMostOneHolder, Holding
  <1>5. HeldNotQueued' /\ RowFollows'
    BY <1>t, <1>1, <1>2
    DEF IInv, TypeOK, HeldNotQueued, Holding, RowFollows, RowFor
  <1>6. SlotAccounting'
    BY KeepsSlot
  <1> QED
    BY <1>3, <1>4, <1>5, <1>6 DEF IInv

\* An unacknowledged claim: the row is taken and the coroutine gone.
LEMMA ClaimUnackedStep ==
  ASSUME IInv, NEW x \in Coro, ClaimUnacked(x)
  PROVE  IInv'
  <1> USE DEF ClaimUnacked, Claimable
  <1>t. TypeOK
    BY DEF IInv
  <1>1. job[x] \in Commit
    BY <1>t DEF TypeOK, Item
  <1>2. TypeOK'
    BY <1>t, <1>1, FreesSlot, NoneAssumption
    DEF Return, SetCoro, TypeOK, Ended, CoroState, Status, Item, parentVars
  <1>2a. \A y \in Coro : Holding(y) => job[y] # job[x]
    BY DEF IInv, HeldNotQueued
  <1>3. AtMostOneHolder' /\ HeldNotQueued' /\ RowFollows'
    BY <1>t, <1>1, <1>2a
    DEF IInv, TypeOK, Return, SetCoro, AtMostOneHolder, HeldNotQueued, Holding,
        RowFollows, RowFor
  <1> QED
    BY <1>2, <1>3, FreesSlot DEF IInv

\* A release: no other coroutine holds the commit whose row is put back.
LEMMA ReleaseStep ==
  ASSUME IInv, NEW x \in Coro, Release(x)
  PROVE  IInv'
  <1> USE DEF Release
  <1>t. TypeOK
    BY DEF IInv
  <1>1. job[x] \in Commit /\ Holding(x)
    BY <1>t DEF TypeOK, Item, Holding
  <1>2. \A y \in Coro : Holding(y) /\ y # x => job[y] # job[x]
    BY <1>1 DEF IInv, AtMostOneHolder
  <1>3. TypeOK'
    BY <1>t, <1>1, FreesSlot, NoneAssumption
    DEF Return, SetCoro, TypeOK, Ended, CoroState, Status, Item, parentVars
  <1>4. AtMostOneHolder'
    BY <1>t DEF IInv, TypeOK, Return, SetCoro, AtMostOneHolder, Holding
  <1>5. HeldNotQueued' /\ RowFollows'
    BY <1>t, <1>1, <1>2
    DEF IInv, TypeOK, Return, SetCoro, HeldNotQueued, Holding, RowFollows, RowFor
  <1> QED
    BY <1>3, <1>4, <1>5, FreesSlot DEF IInv

LEMMA RunCommitStep ==
  ASSUME IInv, NEW x \in Coro, RunCommit(x)
  PROVE  IInv'
  <1>t. TypeOK
    BY DEF IInv
  <1>1. CASE ClaimWins(x)
    BY <1>1, ClaimWinsStep
  <1>2. CASE ClaimDrops(x)
    BY <1>2, <1>t, ReturnStep DEF ClaimDrops, TypeOK
  <1>3. CASE ClaimUnacked(x)
    BY <1>3, ClaimUnackedStep
  <1>4. CASE StartTests(x)
    <2>1. job[x] \in Commit
      BY <1>4, <1>t DEF StartTests, TypeOK, Item
    <2>2. status'[job[x]] = "RUNNING"
      BY <1>4, <1>t, <2>1 DEF StartTests, TypeOK
    <2> QED
      BY <1>4, <2>2, HolderStep DEF StartTests, Holding, CoroState, Status, RowFor
  <1>5. CASE Settle(x)
    <2>1. job[x] \in Commit
      BY <1>5, <1>t DEF Settle, TypeOK, Item
    <2>2. status'[job[x]] = "FINAL"
      BY <1>5, <1>t, <2>1 DEF Settle, TypeOK
    <2> QED
      BY <1>5, <2>2, HolderStep DEF Settle, Holding, CoroState, Status, RowFor
  <1>6. CASE Finish(x)
    BY <1>6, <1>t, ReturnStep DEF Finish, TypeOK
  <1>7. CASE Fail(x)
    <2>1. "FINAL" \in Status \ {"ABSENT", "IN_QUEUE"}
      BY DEF Status
    <2> QED
      BY <1>7, <2>1, HolderStep DEF Fail, Holding, CoroState, RowFor
  <1>8. CASE FailFatal(x)
    BY <1>8, <1>t, ReturnStep DEF FailFatal, TypeOK
  <1>9. CASE Release(x)
    BY <1>9, ReleaseStep
  <1>10. CASE ReleaseFails(x)
    BY <1>10, <1>t, ReturnStep DEF ReleaseFails, TypeOK
  <1> QED
    BY <1>1, <1>2, <1>3, <1>4, <1>5, <1>6, <1>7, <1>8, <1>9, <1>10 DEF RunCommit

-----------------------------------------------------------------------------
(* The theorems *)

LEMMA StepIInv ==
  ASSUME IInv, [Next]_vars
  PROVE  IInv'
  <1>1. CASE UNCHANGED vars
    <2>1. TypeOK'
      BY <1>1 DEF IInv, TypeOK, Ended, vars, parentVars, workerVars
    <2> QED
      BY <1>1, <2>1, WorkersFrame DEF IInv, vars
  <1>2. ASSUME NEW c \in Commit, Submit(c) PROVE IInv'
    BY <1>2, SubmitStep
  <1>3. ASSUME NEW c \in Commit, Expire(c) PROVE IInv'
    BY <1>3, ExpireStep
  <1>4. CASE Parent
    BY <1>4, ParentStep
  <1>5. CASE CtrlC
    BY <1>5, CtrlCStep
  <1>6. ASSUME NEW w \in Worker, PullLoop(w) PROVE IInv'
    BY <1>6, PullLoopStep
  <1>7. ASSUME NEW w \in Worker, Crash(w) PROVE IInv'
    BY <1>7, CrashStep
  <1>8. ASSUME NEW x \in Coro, RunCommit(x) PROVE IInv'
    BY <1>8, RunCommitStep
  <1> QED
    BY <1>1, <1>2, <1>3, <1>4, <1>5, <1>6, <1>7, <1>8 DEF Next

\* The inductive invariant holds in every reachable state, whatever the number
\* of commits, workers and slots and whichever faults occur.
THEOREM Invariance == Spec => []IInv
  <1>1. Init => IInv
    BY InitIInv
  <1>2. IInv /\ [Next]_vars => IInv'
    BY StepIInv
  <1> QED
    BY <1>1, <1>2, PTL DEF Spec

\* Every variable keeps its type, the queue its bound, and an ended worker has
\* no coroutine left.
THEOREM TypeCorrect == Spec => []TypeOK
  <1>1. IInv => TypeOK
    BY DEF IInv
  <1> QED
    BY <1>1, Invariance, PTL

\* Mutual exclusion of the claim protocol: run_commit never has two coroutines
\* processing the same commit.
THEOREM ExclusiveClaims == Spec => []AtMostOneHolder
  <1>1. IInv => AtMostOneHolder
    BY DEF IInv
  <1> QED
    BY <1>1, Invariance, PTL

\* A commit that is being processed, or whose release is pending, is not up for
\* another claim.
THEOREM HeldIsNotQueued == Spec => []HeldNotQueued
  <1>1. IInv => HeldNotQueued
    BY DEF IInv
  <1> QED
    BY <1>1, Invariance, PTL

\* The semaphore of every worker counts its coroutines exactly, so never more
\* than concurrency_per_worker run.
THEOREM SlotsAccounted == Spec => []SlotAccounting
  <1>1. IInv => SlotAccounting
    BY DEF IInv
  <1> QED
    BY <1>1, Invariance, PTL

\* No step takes a final status back: a write to the row of a commit is made by
\* its holder before it settles, or by a claim or release guarded by the status.
THEOREM FinalStays == Spec => FinalIsFinal
  <1>1. ASSUME IInv, [Next]_vars, NEW c \in Commit, status[c] = "FINAL"
        PROVE  status'[c] = "FINAL"
    <2>t. TypeOK /\ RowFollows
      BY <1>1 DEF IInv
    <2>1. CASE UNCHANGED status
      BY <1>1, <2>1
    <2>2. ASSUME NEW d \in Commit, Submit(d) PROVE status'[c] = "FINAL"
      BY <1>1, <2>2, <2>t DEF Submit, TypeOK
    <2>3. ASSUME NEW x \in Coro, RunCommit(x) PROVE status'[c] = "FINAL"
      <3>1. CASE ClaimWins(x) \/ ClaimUnacked(x)
        BY <1>1, <3>1, <2>t DEF ClaimWins, ClaimUnacked, Claimable, TypeOK
      <3>2. CASE StartTests(x) \/ Settle(x)
        BY <1>1, <3>2, <2>t DEF StartTests, Settle, RowFollows, RowFor, TypeOK
      <3>3. CASE Release(x)
        BY <1>1, <3>3, <2>t DEF Release, TypeOK
      <3>4. CASE ClaimDrops(x) \/ Finish(x) \/ Fail(x) \/ FailFatal(x) \/ ReleaseFails(x)
        BY <1>1, <3>4 DEF ClaimDrops, Finish, Fail, FailFatal, ReleaseFails
      <3> QED
        BY <2>3, <3>1, <3>2, <3>3, <3>4 DEF RunCommit
    <2>4. UNCHANGED status \/ (\E d \in Commit : Submit(d)) \/ (\E x \in Coro : RunCommit(x))
      BY <1>1 DEF Next, vars, Expire, Parent, Poll, Put, Hint, StartJoin, Join,
                  LookAt, OrphanPut, CtrlC, Interrupt, Terminate, Escape, PullLoop,
                  GetItem, GetEmpty, GetFails, Spawn, SpawnFails, Drained, Crash
    <2> QED
      BY <2>1, <2>2, <2>3, <2>4
  <1>2. IInv /\ [Next]_vars =>
          [\A c \in Commit : status[c] = "FINAL" => status'[c] = "FINAL"]_vars
    BY <1>1
  <1> QED
    BY <1>2, Invariance, PTL DEF Spec, FinalIsFinal
=============================================================================
