------------------------- MODULE EntryIntakeProofs --------------------------
(***************************************************************************)
(* Theorems of EntryIntake: for all symbols and frames, all thresholds,    *)
(* and any number of starts at any moment.                                 *)
(*                                                                         *)
(* The bot's tick holds what it read before a start: an age, a list of     *)
(* jobs, a verdict, its way through the gate.  The invariant says how old  *)
(* that may be (InStep), and that the queue's memory forgets no job but    *)
(* those of torn (Remembered).                                             *)
(***************************************************************************)
EXTENDS EntryIntake, TLAPS

Places == {"idle", "elapsed", "candidates", "seed", "enqueue", "append", "drain", "pop", "fetch",
           "judge", "verdict", "close", "gate", "scan", "limits", "entries"}
Passing == {"scan", "limits", "entries"}

WarmupState == [active : BOOLEAN, ready : BOOLEAN, age : Young..Due,
                candidates : SUBSET Symbols, seeded : BOOLEAN]
TickState == [pc : Places, t : Young..Due, since : Nat, todo : SUBSET Jobs,
              job : Jobs \cup {NoJob}, ran : 0..MaxJobs, verdict : BOOLEAN, passed : Nat]

\* IntakeTypeOK, with the tick as a record.
Typed ==
    /\ warm \in WarmupState /\ tick \in TickState
    /\ queue \in Seq(Jobs)
    /\ seen \subseteq Jobs /\ store \subseteq Jobs /\ tried \subseteq Jobs /\ torn \subseteq Jobs
    /\ starting \in {"", "queue", "seen"}
    /\ pending \subseteq Symbols /\ open \subseteq Symbols /\ left \in [Symbols -> 0..Timeout]
    /\ era \in Nat

\* Only the jobs of "also" are more than once in q.
Once(q, also) == \A i, k \in DOMAIN q : q[i] = q[k] /\ i # k => q[i] \in also

Remembered ==
    /\ ToSet(queue) \cup tried \subseteq seen \cup torn
    /\ starting = "seen" => ToSet(queue) \cup tried \subseteq torn

\* How far what the tick holds may be behind the warm-up.
InStep ==
    /\ tick.since <= era /\ (tick.since = era => tick.t <= warm.age)
    /\ tick.verdict => tick.t >= Early
    /\ tick.pc = "elapsed" => ~tick.verdict
    /\ tick.pc = "close" => tick.verdict
    /\ warm.active /\ warm.ready => tick.pc = "close"

\* Past the gate no warm-up is on, unless it began since.
PastTheGate ==
    /\ tick.passed <= era
    /\ tick.pc \in Passing /\ tick.passed = era => ~Warming

\* A job that is remembered and not yet queued is nowhere else, or is torn.
OnTheWay ==
    tick.pc = "append" /\ tick.job \in ToSet(queue) \cup tried => tick.job \in torn

\* A drain has room for the job it is about to take.
RoomForOne ==
    /\ tick.pc \in {"pop", "fetch"} => tick.ran < MaxJobs
    /\ tick.pc \in {"append", "fetch"} => tick.job \in Jobs

QueueInv == FetchedOnce /\ Remembered
TickInv == InStep /\ PastTheGate /\ RoomForOne
IntakeInv == Typed /\ QueueInv /\ TickInv
IInv == IntakeInv /\ OnTheWay

-----------------------------------------------------------------------------
(***************************************************************************)
(* Queues.                                                                 *)
(***************************************************************************)
LEMMA Bounds == MaxJobs \in Nat /\ MaxJobs >= 1 /\ Timeout \in Nat
  BY IntakeAssumption DEF IntakeAssumption

LEMMA Ages == Young = 0 /\ Drains = 1 /\ Early = 2 /\ Due = 3
  BY DEF Young, Drains, Early, Due

LEMMA Joined ==
    ASSUME NEW S, NEW q \in Seq(S), NEW e \in S, NEW also, NEW more,
           Once(q, also), also \subseteq more, e \in ToSet(q) => e \in more
    PROVE  /\ Append(q, e) \in Seq(S)
           /\ ToSet(Append(q, e)) = ToSet(q) \cup {e}
           /\ Once(Append(q, e), more)
  <1> DEFINE n == Len(q)
             r == Append(q, e)
  <1>1. /\ n \in Nat /\ DOMAIN q = 1..n
        /\ r \in Seq(S) /\ DOMAIN r = 1..(n + 1)
        /\ \A i \in 1..n : r[i] = q[i]
        /\ r[n + 1] = e
    OBVIOUS
  <1>2. \A i \in 1..(n + 1) : i \in 1..n \/ i = n + 1
    BY <1>1
  <1>3. 1..n \subseteq 1..(n + 1) /\ n + 1 \in 1..(n + 1)
    BY <1>1
  <1> HIDE DEF n, r
  <1>4. ToSet(r) = ToSet(q) \cup {e}
    <2>1. ToSet(q) = {q[i] : i \in 1..n} /\ ToSet(r) = {r[i] : i \in 1..(n + 1)}
      BY <1>1 DEF ToSet
    <2>2. ASSUME NEW x \in ToSet(r) PROVE x \in ToSet(q) \cup {e}
      BY <1>1, <1>2, <2>1
    <2>3. ASSUME NEW x \in ToSet(q) \cup {e} PROVE x \in ToSet(r)
      BY <1>1, <1>3, <2>1
    <2> QED
      BY <2>2, <2>3
  <1>5. ASSUME NEW i \in 1..(n + 1), NEW k \in 1..(n + 1), r[i] = r[k], i # k
        PROVE  r[i] \in more
    <2>1. \A j \in 1..n : q[j] \in ToSet(q)
      BY <1>1 DEF ToSet
    <2>2. CASE i \in 1..n /\ k \in 1..n
      BY <1>1, <1>5, <2>2 DEF Once
    <2>3. CASE i = n + 1 /\ k \in 1..n
      BY <1>1, <1>5, <2>1, <2>3
    <2>4. CASE k = n + 1 /\ i \in 1..n
      BY <1>1, <1>5, <2>1, <2>4
    <2> QED
      BY <1>2, <1>5, <2>2, <2>3, <2>4
  <1>6. Once(r, more)
    BY <1>1, <1>5 DEF Once
  <1> QED
    BY <1>1, <1>4, <1>6 DEF r

LEMMA Taken ==
    ASSUME NEW S, NEW q \in Seq(S), q # <<>>, NEW also, Once(q, also)
    PROVE  /\ Head(q) \in S /\ Head(q) \in ToSet(q) /\ Tail(q) \in Seq(S)
           /\ ToSet(Tail(q)) \subseteq ToSet(q)
           /\ Once(Tail(q), also)
           /\ Head(q) \in ToSet(Tail(q)) => Head(q) \in also
  <1> DEFINE n == Len(q)
             r == Tail(q)
  <1>1. /\ n \in Nat /\ n >= 1 /\ DOMAIN q = 1..n
        /\ r \in Seq(S) /\ DOMAIN r = 1..(n - 1)
        /\ \A i \in 1..(n - 1) : r[i] = q[i + 1]
        /\ Head(q) = q[1] /\ q[1] \in S
    OBVIOUS
  <1>2. 1 \in 1..n /\ \A i \in 1..(n - 1) : i + 1 \in 1..n /\ i + 1 # 1
    BY <1>1
  <1>3. \A i, k \in 1..(n - 1) : i # k => i + 1 # k + 1
    BY <1>1
  <1> HIDE DEF n, r
  <1>4. ToSet(q) = {q[i] : i \in 1..n} /\ ToSet(r) = {r[i] : i \in 1..(n - 1)}
    BY <1>1 DEF ToSet
  <1>5. Head(q) \in ToSet(q) /\ ToSet(r) \subseteq ToSet(q)
    BY <1>1, <1>2, <1>4
  <1>6. \A i, k \in 1..n : q[i] = q[k] /\ i # k => q[i] \in also
    BY <1>1 DEF Once
  <1>7. Once(r, also)
    BY <1>1, <1>2, <1>3, <1>6 DEF Once
  <1>8. Head(q) \in ToSet(r) => Head(q) \in also
    BY <1>1, <1>2, <1>4, <1>6
  <1> QED
    BY <1>1, <1>5, <1>7, <1>8 DEF r

LEMMA NothingQueued ==
    /\ <<>> \in Seq(Jobs) /\ ToSet(<<>>) = {} /\ \A also : Once(<<>>, also)
  <1>1. <<>> \in Seq(Jobs) /\ DOMAIN <<>> = {}
    OBVIOUS
  <1> QED
    BY <1>1 DEF ToSet, Once

LEMMA QueueKept ==
    ASSUME QueueInv, UNCHANGED <<queue, seen, tried, torn>>, starting' = "seen" => starting = "seen"
    PROVE  QueueInv'
  BY DEF QueueInv, FetchedOnce, Remembered, Once

LEMMA QueueCleared ==
    ASSUME ClearQueue
    PROVE  QueueInv'
  <1>1. queue' = <<>> /\ tried' = {} /\ torn' = {}
    BY DEF ClearQueue
  <1>2. ToSet(queue') = {} /\ Once(queue', torn')
    BY <1>1, NothingQueued
  <1> QED
    BY <1>1, <1>2 DEF QueueInv, FetchedOnce, Remembered, Once

-----------------------------------------------------------------------------
(***************************************************************************)
(* The tick.                                                               *)
(***************************************************************************)
LEMMA Fields ==
    ASSUME Typed
    PROVE  /\ tick.pc \in Places /\ tick.t \in Young..Due /\ tick.since \in Nat
           /\ tick.todo \in SUBSET Jobs /\ tick.job \in Jobs \cup {NoJob}
           /\ tick.ran \in 0..MaxJobs /\ tick.verdict \in BOOLEAN /\ tick.passed \in Nat
           /\ warm.active \in BOOLEAN /\ warm.ready \in BOOLEAN /\ warm.age \in Young..Due
           /\ warm.candidates \subseteq Symbols /\ warm.seeded \in BOOLEAN /\ era \in Nat
  BY DEF Typed, TickState, WarmupState

LEMMA Moved ==
    ASSUME Typed, NEW place \in Places, GoTo(place)
    PROVE  /\ tick' \in TickState /\ tick'.pc = place
           /\ tick'.t = tick.t /\ tick'.since = tick.since /\ tick'.todo = tick.todo
           /\ tick'.job = tick.job /\ tick'.ran = tick.ran /\ tick'.verdict = tick.verdict
           /\ tick'.passed = tick.passed
  BY DEF Typed, TickState, GoTo

LEMMA IdleTyped ==
    /\ Idle \in TickState /\ Idle.pc = "idle" /\ Idle.t = 0 /\ Idle.since = 0
    /\ ~Idle.verdict /\ Idle.passed = 0
  <1>1. 0 \in 0..MaxJobs /\ Young \in Young..Due
    BY Bounds, Ages
  <1>2. "idle" \in Places /\ {} \in SUBSET Jobs /\ NoJob \in Jobs \cup {NoJob}
    BY DEF Places
  <1> HIDE DEF Jobs, NoJob
  <1>3. Idle \in TickState
    BY <1>1, <1>2 DEF Idle, TickState
  <1> QED
    BY <1>3 DEF Idle, Young

\* The age of the warm-up as a tick at rest sees it.
LEMMA Rested ==
    ASSUME Typed, TickInv, tick.pc # "close",
           tick' = Idle, UNCHANGED <<warm, era>>
    PROVE  TickInv' /\ tick' \in TickState
  <1>1. warm.age >= 0 /\ era >= 0
    BY Fields, Ages
  <1>2. ~(warm.active /\ warm.ready)
    BY DEF TickInv, InStep
  <1>3. InStep'
    BY <1>1, <1>2, IdleTyped DEF InStep
  <1>4. PastTheGate'
    BY <1>1, IdleTyped DEF PastTheGate, Passing
  <1>5. RoomForOne'
    BY IdleTyped DEF RoomForOne
  <1> QED
    BY <1>3, <1>4, <1>5, IdleTyped DEF TickInv

\* A step from one place to another that is not past the gate.
LEMMA MoveOn ==
    ASSUME Typed, TickInv, NEW place \in Places \ (Passing \cup {"elapsed", "close", "append", "fetch"}),
           GoTo(place), UNCHANGED era, tick.pc # "close",
           place = "pop" => tick.ran < MaxJobs,
           warm'.age = warm.age, warm'.active /\ warm'.ready => warm.active /\ warm.ready
    PROVE  TickInv'
  <1>1. /\ tick'.pc = place /\ tick'.t = tick.t /\ tick'.since = tick.since
        /\ tick'.ran = tick.ran /\ tick'.verdict = tick.verdict /\ tick'.passed = tick.passed
    BY Moved
  <1>2. InStep'
    BY <1>1 DEF TickInv, InStep
  <1>3. PastTheGate'
    BY <1>1 DEF TickInv, PastTheGate
  <1>4. RoomForOne'
    BY <1>1 DEF RoomForOne
  <1> QED
    BY <1>2, <1>3, <1>4 DEF TickInv

\* A new warm-up leaves what the tick holds behind.
LEMMA ResetUnder ==
    ASSUME Typed, TickInv, Reset, era' = era + 1, UNCHANGED tick
    PROVE  TickInv' /\ warm' \in WarmupState
  <1>1. warm' \in WarmupState /\ warm'.active /\ ~warm'.ready
    BY Ages DEF Reset, WarmupState
  <1>2. tick.since <= era /\ tick.passed <= era
    BY DEF TickInv, InStep, PastTheGate
  <1>3. tick.since \in Nat /\ tick.passed \in Nat /\ era \in Nat /\ era' = era + 1
    BY Fields
  <1>4. tick.since < era' /\ tick.passed < era'
    BY <1>2, <1>3
  <1>5. /\ tick.since <= era' /\ tick.since # era'
        /\ tick.passed <= era' /\ tick.passed # era'
    BY <1>3, <1>4
  <1>6. InStep'
    BY <1>1, <1>5 DEF TickInv, InStep
  <1>7. PastTheGate' /\ RoomForOne'
    BY <1>5 DEF TickInv, PastTheGate, RoomForOne
  <1> QED
    BY <1>1, <1>6, <1>7 DEF TickInv

-----------------------------------------------------------------------------
(***************************************************************************)
(* The steps of the tick.                                                  *)
(***************************************************************************)
\* Enqueued, DrainGoes and DrainStops.
LEMMA MoveStep ==
    ASSUME IntakeInv, NEW place \in {"drain", "pop", "judge"}, GoTo(place),
           UNCHANGED <<data, starting, book, era>>, tick.pc # "close",
           place = "pop" => tick.ran < MaxJobs
    PROVE  IntakeInv'
  <1>1. place \in Places \ (Passing \cup {"elapsed", "close", "append", "fetch"})
    BY DEF Places, Passing
  <1>2. Typed /\ TickInv /\ QueueInv
    BY DEF IntakeInv
  <1>3. UNCHANGED <<warm, queue, seen, store, tried, torn, starting, pending, left, open, era>>
    BY DEF data, book
  <1>4. tick' \in TickState
    BY <1>1, <1>2, Moved
  <1>5. Typed'
    BY <1>2, <1>3, <1>4 DEF Typed
  <1>6. TickInv'
    BY <1>1, <1>2, <1>3, MoveOn
  <1>7. QueueInv'
    BY <1>2, <1>3, QueueKept
  <1> QED
    BY <1>5, <1>6, <1>7 DEF IntakeInv

LEMMA FullScanStep ==
    ASSUME IntakeInv, FullScan
    PROVE  IntakeInv'
  <1>1. Typed /\ TickInv /\ QueueInv /\ tick.pc = "idle"
    BY DEF IntakeInv, FullScan, At
  <1>2. /\ tick' \in TickState /\ tick'.pc = "elapsed" /\ tick'.t = 0 /\ tick'.since = 0
        /\ ~tick'.verdict /\ tick'.passed = 0
    BY IdleTyped DEF FullScan, TickState, Places
  <1>3. UNCHANGED <<store, starting, pending, left, open>>
    BY DEF FullScan, book
  <1>4. RoomForOne'
    BY <1>2 DEF RoomForOne
  <1>5. CASE warm.active \/ warm.ready
    <2>1. UNCHANGED <<warm, queue, seen, tried, torn, era>>
      BY <1>5 DEF FullScan
    <2>2. warm.age >= 0 /\ era >= 0
      BY <1>1, Fields, Ages
    <2>3. ~(warm.active /\ warm.ready)
      BY <1>1 DEF TickInv, InStep
    <2>4. InStep' /\ PastTheGate'
      BY <1>2, <2>1, <2>2, <2>3 DEF InStep, PastTheGate, Passing
    <2>5. Typed'
      BY <1>1, <1>2, <1>3, <2>1 DEF Typed
    <2>6. QueueInv'
      BY <1>1, <1>3, <2>1, QueueKept
    <2> QED
      BY <1>4, <2>4, <2>5, <2>6 DEF IntakeInv, TickInv
  <1>6. CASE ~(warm.active \/ warm.ready)
    <2>1. Reset /\ ClearQueue /\ ClearSeen /\ era' = era + 1
      BY <1>6 DEF FullScan
    <2>2. warm' \in WarmupState /\ warm'.age = 0 /\ ~warm'.ready
      BY <2>1, Ages DEF Reset, WarmupState
    <2>3. era \in Nat /\ era' \in Nat /\ 0 <= era'
      BY <1>1, <2>1, Fields
    <2>4. InStep' /\ PastTheGate'
      BY <1>2, <2>2, <2>3 DEF InStep, PastTheGate, Passing
    <2>5. Typed'
      BY <1>1, <1>2, <1>3, <2>1, <2>2, <2>3, NothingQueued DEF Typed, ClearQueue, ClearSeen
    <2>6. QueueInv'
      BY <2>1, QueueCleared
    <2> QED
      BY <1>4, <2>4, <2>5, <2>6 DEF IntakeInv, TickInv
  <1> QED
    BY <1>5, <1>6

LEMMA ElapsedStep ==
    ASSUME IntakeInv, Elapsed
    PROVE  IntakeInv'
  <1>1. Typed /\ TickInv /\ QueueInv /\ tick.pc = "elapsed" /\ ~tick.verdict
    BY DEF IntakeInv, Elapsed, At, TickInv, InStep
  <1>2. UNCHANGED <<warm, queue, seen, store, tried, torn, starting, pending, left, open, era>>
    BY DEF Elapsed, data, book
  <1>3. QueueInv'
    BY <1>1, <1>2, QueueKept
  <1>4. CASE warm.active
    <2>1. tick' = [tick EXCEPT !.pc = "candidates", !.t = warm.age, !.since = era]
      BY <1>4 DEF Elapsed
    <2>2. /\ tick' \in TickState /\ tick'.pc = "candidates" /\ tick'.t = warm.age
          /\ tick'.since = era /\ tick'.verdict = tick.verdict /\ tick'.passed = tick.passed
      BY <1>1, <2>1, Fields DEF Typed, TickState, Places
    <2>3. InStep'
      BY <1>1, <1>2, <2>2, Fields, Ages DEF TickInv, InStep
    <2>4. PastTheGate' /\ RoomForOne'
      BY <1>1, <1>2, <2>2 DEF TickInv, PastTheGate, RoomForOne, Passing
    <2>5. Typed'
      BY <1>1, <1>2, <2>2 DEF Typed
    <2> QED
      BY <1>3, <2>3, <2>4, <2>5 DEF IntakeInv, TickInv
  <1>5. CASE ~warm.active
    <2>1. GoTo("gate")
      BY <1>5 DEF Elapsed, GoTo
    <2>2. "gate" \in Places \ (Passing \cup {"elapsed", "close", "append", "fetch"})
      BY DEF Places, Passing
    <2>3. tick' \in TickState
      BY <1>1, <2>1, <2>2, Moved
    <2>4. TickInv'
      BY <1>1, <1>2, <2>1, <2>2, MoveOn
    <2>5. Typed'
      BY <1>1, <1>2, <2>3 DEF Typed
    <2> QED
      BY <1>3, <2>4, <2>5 DEF IntakeInv
  <1> QED
    BY <1>4, <1>5

LEMMA CandidatesStep ==
    ASSUME IntakeInv, NEW coins \in SUBSET Symbols, TakeCandidates(coins)
    PROVE  IntakeInv'
  <1>1. Typed /\ TickInv /\ QueueInv /\ tick.pc = "candidates"
    BY DEF IntakeInv, TakeCandidates, At
  <1>2. UNCHANGED <<queue, seen, store, tried, torn, starting, pending, left, open, era>>
    BY DEF TakeCandidates, book
  <1>3. QueueInv'
    BY <1>1, <1>2, QueueKept
  <1>4. PICK place \in {"seed", "drain"} : GoTo(place)
    BY DEF TakeCandidates
  <1>5. place \in Places \ (Passing \cup {"elapsed", "close", "append", "fetch", "pop"})
    BY DEF Places, Passing
  <1>6. /\ warm' \in WarmupState /\ warm'.age = warm.age
        /\ (warm'.active <=> warm.active) /\ (warm'.ready <=> warm.ready)
    BY <1>1 DEF TakeCandidates, Typed, WarmupState
  <1>7. tick' \in TickState
    BY <1>1, <1>4, <1>5, Moved
  <1>8. TickInv'
    BY <1>1, <1>2, <1>4, <1>5, <1>6, MoveOn
  <1>9. Typed'
    BY <1>1, <1>2, <1>6, <1>7 DEF Typed
  <1> QED
    BY <1>3, <1>8, <1>9 DEF IntakeInv

\* A step within the tick: the place and the list change, nothing of InStep.
LEMMA Within ==
    ASSUME Typed, TickInv, UNCHANGED era,
           tick'.pc \in Places \ (Passing \cup {"elapsed", "close", "pop"}),
           tick'.t = tick.t, tick'.since = tick.since, tick'.passed = tick.passed,
           tick'.verdict => tick.verdict \/ tick.t >= Early,
           tick'.pc = "fetch" => tick'.ran < MaxJobs,
           tick'.pc \in {"append", "fetch"} => tick'.job \in Jobs,
           tick.pc # "close",
           warm'.age = warm.age, warm'.active /\ warm'.ready => warm.active /\ warm.ready
    PROVE  TickInv'
  <1>1. InStep'
    BY DEF TickInv, InStep
  <1>2. PastTheGate' /\ RoomForOne'
    BY DEF TickInv, PastTheGate, RoomForOne
  <1> QED
    BY <1>1, <1>2 DEF TickInv

LEMMA SeedStep ==
    ASSUME IntakeInv, NEW found, Seed(found)
    PROVE  IntakeInv'
  <1>1. Typed /\ TickInv /\ QueueInv /\ tick.pc = "seed"
    BY DEF IntakeInv, Seed, At
  <1>2. UNCHANGED <<queue, seen, tried, torn, starting, pending, left, open, era>>
    BY DEF Seed, book
  <1>3. warm.candidates \X Bars \subseteq Jobs
    BY <1>1, Fields DEF Jobs
  <1>4. store' \subseteq Jobs
    BY <1>1, <1>3 DEF Seed, Typed
  <1>5. /\ warm' \in WarmupState /\ warm'.age = warm.age
        /\ (warm'.active <=> warm.active) /\ (warm'.ready <=> warm.ready)
    BY <1>1 DEF Seed, Typed, WarmupState
  <1>6. PICK todo \in SUBSET Jobs : tick' = [tick EXCEPT !.pc = "enqueue", !.todo = todo]
    BY <1>3 DEF Seed
  <1> HIDE DEF Jobs
  <1>7. /\ tick' \in TickState /\ tick'.pc = "enqueue" /\ tick'.t = tick.t
        /\ tick'.since = tick.since /\ tick'.passed = tick.passed /\ tick'.verdict = tick.verdict
    BY <1>1, <1>6 DEF Typed, TickState, Places
  <1>8. TickInv'
    BY <1>1, <1>2, <1>5, <1>7, Within DEF Places, Passing
  <1>9. Typed'
    BY <1>1, <1>2, <1>4, <1>5, <1>7 DEF Typed
  <1> QED
    BY <1>1, <1>2, <1>8, <1>9, QueueKept DEF IntakeInv

LEMMA EnqueueStep ==
    ASSUME IntakeInv, NEW j \in tick.todo, Enqueue(j)
    PROVE  IntakeInv'
  <1>1. Typed /\ TickInv /\ QueueInv /\ tick.pc = "enqueue"
    BY DEF IntakeInv, Enqueue, At
  <1>2. UNCHANGED <<warm, queue, store, tried, torn, starting, pending, left, open, era>>
    BY DEF Enqueue, book
  <1>3. j \in Jobs
    BY <1>1, Fields
  <1>4. seen' \in {seen, seen \cup {j}}
    BY DEF Enqueue
  <1>5. /\ tick' \in TickState /\ tick'.pc \in {"enqueue", "append"} /\ tick'.t = tick.t
        /\ tick'.since = tick.since /\ tick'.passed = tick.passed /\ tick'.verdict = tick.verdict
        /\ (tick'.pc = "append" => tick'.job \in Jobs)
    <2>1. PICK todo \in SUBSET Jobs : todo = tick.todo \ {j}
      BY <1>1, Fields
    <2>2. CASE tick' = [tick EXCEPT !.todo = todo]
      BY <1>1, <2>2 DEF Typed, TickState
    <2>3. CASE tick' = [tick EXCEPT !.pc = "append", !.todo = todo, !.job = j]
      <3> HIDE DEF Jobs
      <3> QED  BY <1>1, <1>3, <2>3 DEF Typed, TickState, Places
    <2> QED
      BY <2>1, <2>2, <2>3 DEF Enqueue
  <1>6. TickInv'
    BY <1>1, <1>2, <1>5, Within DEF Places, Passing
  <1>7. QueueInv'
    BY <1>1, <1>2, <1>4 DEF QueueInv, FetchedOnce, Remembered, Once
  <1>8. Typed'
    BY <1>1, <1>2, <1>3, <1>4, <1>5 DEF Typed
  <1> QED
    BY <1>6, <1>7, <1>8 DEF IntakeInv

\* What is appended is nowhere else, or torn (OnTheWay); what the memory does
\* not hold any more, or will not hold, becomes torn.
LEMMA AppendStep ==
    ASSUME IntakeInv, OnTheWay, AppendJob
    PROVE  IntakeInv'
  <1> DEFINE j == tick.job
  <1>1. Typed /\ TickInv /\ QueueInv /\ tick.pc = "append" /\ j \in Jobs
    BY DEF IntakeInv, TickInv, RoomForOne, AppendJob, At
  <1>2. /\ UNCHANGED <<warm, seen, store, tried, starting, pending, left, open, era>>
        /\ queue' = Append(queue, j)
        /\ torn' = IF starting = "seen" \/ j \notin seen THEN torn \cup {j} ELSE torn
    BY DEF AppendJob, book
  <1>3. /\ tick' \in TickState /\ tick'.pc = "enqueue" /\ tick'.t = tick.t
        /\ tick'.since = tick.since /\ tick'.passed = tick.passed /\ tick'.verdict = tick.verdict
    <2> HIDE DEF Jobs, NoJob
    <2>1. NoJob \in Jobs \cup {NoJob}
      OBVIOUS
    <2> QED
      BY <1>1, <2>1 DEF AppendJob, Typed, TickState, Places
  <1>4. TickInv'
    BY <1>1, <1>2, <1>3, Within DEF Places, Passing
  <1> HIDE DEF j
  <1>5. j \in ToSet(queue) \cup tried => j \in torn
    BY <1>1 DEF OnTheWay, j
  <1>6. Once(queue, torn) /\ ToSet(queue) \cap tried \subseteq torn
    BY <1>1 DEF QueueInv, FetchedOnce, Once
  <1>7. torn \subseteq torn' /\ torn' \subseteq torn \cup {j}
    BY <1>2
  <1>8. queue \in Seq(Jobs)
    BY <1>1 DEF Typed
  <1>9. /\ queue' \in Seq(Jobs) /\ ToSet(queue') = ToSet(queue) \cup {j}
        /\ Once(queue', torn')
    <2>1. j \in Jobs /\ (j \in ToSet(queue) => j \in torn') /\ Once(queue, torn)
      BY <1>1, <1>5, <1>6, <1>7
    <2>2. /\ Append(queue, j) \in Seq(Jobs)
          /\ ToSet(Append(queue, j)) = ToSet(queue) \cup {j}
          /\ Once(Append(queue, j), torn')
      BY <1>7, <1>8, <2>1, Joined
    <2> QED
      BY <1>2, <2>2
  <1>10. FetchedOnce'
    BY <1>2, <1>5, <1>6, <1>7, <1>9 DEF FetchedOnce, Once
  <1>11. Remembered'
    BY <1>1, <1>2, <1>7, <1>9 DEF QueueInv, Remembered
  <1>12. Typed'
    BY <1>1, <1>2, <1>3, <1>7, <1>9 DEF Typed
  <1> QED
    BY <1>4, <1>10, <1>11, <1>12 DEF IntakeInv, QueueInv

\* A job is put on its way only when the memory has neither it nor, but for
\* torn, a trace of it; a start under way only takes from queue and tried.
LEMMA OnTheWaySteps == IInv /\ [Next]_vars => OnTheWay'
  <1> SUFFICES ASSUME IInv, [Next]_vars, tick'.pc = "append", tick'.job \in ToSet(queue') \cup tried'
               PROVE  tick'.job \in torn'
    BY DEF OnTheWay
  <1>1. IntakeInv /\ OnTheWay /\ Typed /\ Remembered
    BY DEF IInv, IntakeInv, QueueInv
  <1>2. CASE UNCHANGED tick
    <2>1. \/ UNCHANGED <<queue, tried, torn>>
          \/ ClearQueue
      BY <1>2, <1>1, Fields DEF Next, Tick, Scan, FullScan, Elapsed, Enqueued, DrainGoes, DrainStops,
         Pop, Verdict, Close, TakeCandidates, Seed, Enqueue, AppendJob, Fetch, Judge, Gate, StaleData,
         ScanEnds, Analyse, ProcessLimits, Enter, StartResets, StartClearsQueue, StartClearsSeen,
         TimePasses, Exit, data, book, vars, At, GoTo, Typed, TickState
    <2>2. CASE ClearQueue
      BY <2>2, NothingQueued DEF ClearQueue
    <2> QED
      BY <1>1, <1>2, <2>1, <2>2 DEF OnTheWay
  <1>3. CASE ~UNCHANGED tick
    <2>1. PICK j \in tick.todo : Enqueue(j) /\ Fresh(j)
      BY <1>1, <1>3, Fields, IdleTyped DEF Next, Tick, Scan, FullScan, Elapsed, Enqueued, DrainGoes,
         DrainStops, Pop, Verdict, Close, TakeCandidates, Seed, Enqueue, AppendJob, Fetch, Judge, Gate,
         StaleData, ScanEnds, Analyse, ProcessLimits, Enter, StartResets, StartClearsQueue,
         StartClearsSeen, TimePasses, Exit, vars, At, GoTo, Typed, TickState
    <2>2. tick'.job = j /\ UNCHANGED <<queue, tried, torn>>
      BY <1>1, <2>1 DEF Enqueue, Typed, TickState
    <2> QED
      BY <1>1, <2>1, <2>2 DEF Fresh, Remembered
  <1> QED
    BY <1>2, <1>3

LEMMA PopStep ==
    ASSUME IntakeInv, Pop
    PROVE  IntakeInv'
  <1>1. Typed /\ TickInv /\ QueueInv /\ tick.pc = "pop" /\ tick.ran < MaxJobs
    BY DEF IntakeInv, Pop, At, TickInv, RoomForOne
  <1>2. UNCHANGED <<warm, seen, store, torn, starting, pending, left, open, era>>
    BY DEF Pop, book
  <1>3. CASE queue = <<>>
    <2>1. tick' = Idle /\ UNCHANGED <<queue, tried>>
      BY <1>3 DEF Pop
    <2>2. TickInv' /\ tick' \in TickState
      BY <1>1, <1>2, <2>1, Rested
    <2>3. QueueInv'
      BY <1>1, <1>2, <2>1, QueueKept
    <2>4. Typed'
      BY <1>1, <1>2, <2>1, <2>2 DEF Typed
    <2> QED
      BY <2>2, <2>3, <2>4 DEF IntakeInv
  <1>4. CASE queue # <<>>
    <2>1. /\ tick' = [tick EXCEPT !.pc = "fetch", !.job = Head(queue)]
          /\ queue' = Tail(queue) /\ tried' = tried \cup {Head(queue)}
      BY <1>4 DEF Pop
    <2>2. Once(queue, torn) /\ ToSet(queue) \cap tried \subseteq torn /\ queue \in Seq(Jobs)
      BY <1>1 DEF QueueInv, FetchedOnce, Once, Typed
    <2>3. /\ Head(queue) \in Jobs /\ Head(queue) \in ToSet(queue) /\ queue' \in Seq(Jobs)
          /\ ToSet(queue') \subseteq ToSet(queue) /\ Once(queue', torn)
          /\ Head(queue) \in ToSet(queue') => Head(queue) \in torn
      BY <1>4, <2>1, <2>2, Taken
    <2>4. FetchedOnce'
      BY <1>2, <2>1, <2>2, <2>3 DEF FetchedOnce, Once
    <2>5. Remembered'
      BY <1>1, <1>2, <2>1, <2>3 DEF QueueInv, Remembered
    <2>6. /\ tick' \in TickState /\ tick'.pc = "fetch" /\ tick'.t = tick.t
          /\ tick'.since = tick.since /\ tick'.passed = tick.passed
          /\ tick'.verdict = tick.verdict /\ tick'.ran = tick.ran /\ tick'.job \in Jobs
      BY <1>1, <2>1, <2>3 DEF Typed, TickState, Places
    <2>7. TickInv'
      BY <1>1, <1>2, <2>6, Within DEF Places, Passing
    <2>8. Typed'
      BY <1>1, <1>2, <2>1, <2>3, <2>6 DEF Typed
    <2> QED
      BY <2>4, <2>5, <2>7, <2>8 DEF IntakeInv, QueueInv
  <1> QED
    BY <1>3, <1>4

LEMMA FetchStep ==
    ASSUME IntakeInv, NEW good \in BOOLEAN, Fetch(good)
    PROVE  IntakeInv'
  <1>1. /\ Typed /\ TickInv /\ QueueInv /\ tick.pc = "fetch"
        /\ tick.ran < MaxJobs /\ tick.job \in Jobs
    BY DEF IntakeInv, Fetch, At, TickInv, RoomForOne
  <1>2. UNCHANGED <<warm, queue, seen, tried, torn, starting, pending, left, open, era>>
    BY DEF Fetch, book
  <1>3. tick.ran + 1 \in 0..MaxJobs
    BY <1>1, Fields, Bounds
  <1>4. /\ tick' \in TickState /\ tick'.pc = "drain" /\ tick'.t = tick.t
        /\ tick'.since = tick.since /\ tick'.passed = tick.passed /\ tick'.verdict = tick.verdict
    <2>1. tick' = [tick EXCEPT !.pc = "drain", !.job = NoJob, !.ran = tick.ran + 1]
      BY DEF Fetch
    <2> HIDE DEF Jobs, NoJob
    <2> QED
      BY <1>1, <1>3, <2>1 DEF Typed, TickState, Places
  <1>5. TickInv'
    BY <1>1, <1>2, <1>4, Within DEF Places, Passing
  <1>6. store' \subseteq Jobs
    BY <1>1 DEF Fetch, Typed
  <1>7. Typed'
    BY <1>1, <1>2, <1>4, <1>6 DEF Typed
  <1> QED
    BY <1>1, <1>2, <1>5, <1>7, QueueKept DEF IntakeInv

LEMMA JudgeStep ==
    ASSUME IntakeInv, NEW feedOk \in BOOLEAN, NEW bucketOk \in BOOLEAN, Judge(feedOk, bucketOk)
    PROVE  IntakeInv'
  <1>1. Typed /\ TickInv /\ QueueInv /\ tick.pc = "judge"
    BY DEF IntakeInv, Judge, At
  <1>2. UNCHANGED <<warm, queue, seen, store, tried, torn, starting, pending, left, open, era>>
    BY DEF Judge, data, book
  <1>3. Earned(feedOk, bucketOk) \in BOOLEAN /\ (Earned(feedOk, bucketOk) => tick.t >= Early)
    BY <1>1, Fields, Ages DEF Earned
  <1>4. PICK earned \in BOOLEAN : /\ tick' = [tick EXCEPT !.pc = "verdict", !.verdict = earned]
                                  /\ earned => tick.t >= Early
    BY <1>3 DEF Judge
  <1>5. /\ tick' \in TickState /\ tick'.pc = "verdict" /\ tick'.t = tick.t
        /\ tick'.since = tick.since /\ tick'.passed = tick.passed
        /\ tick'.verdict => tick.t >= Early
    BY <1>1, <1>4 DEF Typed, TickState, Places
  <1>6. TickInv'
    BY <1>1, <1>2, <1>5, Within DEF Places, Passing
  <1>7. Typed'
    BY <1>1, <1>2, <1>5 DEF Typed
  <1> QED
    BY <1>1, <1>2, <1>6, <1>7, QueueKept DEF IntakeInv

LEMMA VerdictStep ==
    ASSUME IntakeInv, Verdict
    PROVE  IntakeInv'
  <1>1. Typed /\ TickInv /\ QueueInv /\ tick.pc = "verdict"
    BY DEF IntakeInv, Verdict, At
  <1>2. UNCHANGED <<queue, seen, store, tried, torn, starting, pending, left, open, era>>
    BY DEF Verdict, book
  <1>3. CASE ~tick.verdict
    <2>1. GoTo("gate") /\ warm' = warm
      BY <1>3 DEF Verdict
    <2>2. "gate" \in Places \ (Passing \cup {"elapsed", "close", "append", "fetch", "pop"})
      BY DEF Places, Passing
    <2>3. tick' \in TickState
      BY <1>1, <2>1, <2>2, Moved
    <2>4. TickInv'
      BY <1>1, <1>2, <2>1, <2>2, MoveOn
    <2>5. Typed'
      BY <1>1, <1>2, <2>1, <2>3 DEF Typed
    <2> QED
      BY <1>1, <1>2, <2>4, <2>5, QueueKept DEF IntakeInv
  <1>4. CASE tick.verdict
    <2>1. GoTo("close") /\ warm' = [warm EXCEPT !.ready = TRUE]
      BY <1>4 DEF Verdict
    <2>2. "close" \in Places
      BY DEF Places
    <2>3. /\ tick' \in TickState /\ tick'.pc = "close" /\ tick'.t = tick.t
          /\ tick'.since = tick.since /\ tick'.passed = tick.passed
          /\ tick'.verdict = tick.verdict
      BY <1>1, <2>1, <2>2, Moved
    <2>4. warm' \in WarmupState /\ warm'.age = warm.age
      BY <1>1, <2>1 DEF Typed, WarmupState
    <2>5. InStep'
      BY <1>1, <1>2, <1>4, <2>3, <2>4 DEF TickInv, InStep
    <2>6. PastTheGate' /\ RoomForOne'
      BY <1>1, <1>2, <2>3 DEF TickInv, PastTheGate, RoomForOne, Passing
    <2>7. Typed'
      BY <1>1, <1>2, <2>3, <2>4 DEF Typed
    <2> QED
      BY <1>1, <1>2, <2>5, <2>6, <2>7, QueueKept DEF IntakeInv, TickInv
  <1> QED
    BY <1>3, <1>4

LEMMA CloseStep ==
    ASSUME IntakeInv, Close
    PROVE  IntakeInv'
  <1>1. Typed /\ TickInv /\ QueueInv /\ tick.pc = "close"
    BY DEF IntakeInv, Close, At
  <1>2. UNCHANGED <<queue, seen, store, tried, torn, starting, pending, left, open, era>>
    BY DEF Close, book
  <1>3. GoTo("gate") /\ warm' = [warm EXCEPT !.active = FALSE]
    BY DEF Close
  <1>4. "gate" \in Places
    BY DEF Places
  <1>5. /\ tick' \in TickState /\ tick'.pc = "gate" /\ tick'.t = tick.t
        /\ tick'.since = tick.since /\ tick'.passed = tick.passed /\ tick'.verdict = tick.verdict
    BY <1>1, <1>3, <1>4, Moved
  <1>6. warm' \in WarmupState /\ warm'.age = warm.age /\ ~warm'.active
    BY <1>1, <1>3 DEF Typed, WarmupState
  <1>7. InStep'
    BY <1>1, <1>2, <1>5, <1>6 DEF TickInv, InStep
  <1>8. PastTheGate' /\ RoomForOne'
    BY <1>1, <1>2, <1>5 DEF TickInv, PastTheGate, RoomForOne, Passing
  <1>9. Typed'
    BY <1>1, <1>2, <1>5, <1>6 DEF Typed
  <1> QED
    BY <1>1, <1>2, <1>7, <1>8, <1>9, QueueKept DEF IntakeInv, TickInv

-----------------------------------------------------------------------------
(***************************************************************************)
(* The steps past the gate, of the other threads and of time.              *)
(***************************************************************************)
\* The scan ends; what it opened or stored is typed.
LEMMA RestStep ==
    ASSUME IntakeInv, tick' = Idle, tick.pc # "close",
           UNCHANGED <<warm, queue, seen, tried, torn, starting, pending, left, open, era>>,
           store' \subseteq Jobs
    PROVE  IntakeInv'
  <1>1. Typed /\ TickInv /\ QueueInv
    BY DEF IntakeInv
  <1>2. TickInv' /\ tick' \in TickState
    BY <1>1, Rested
  <1>3. Typed'
    BY <1>1, <1>2 DEF Typed
  <1> QED
    BY <1>1, <1>2, <1>3, QueueKept DEF IntakeInv

LEMMA GateStep ==
    ASSUME IntakeInv, Gate
    PROVE  IntakeInv'
  <1>1. Typed /\ TickInv /\ QueueInv /\ tick.pc = "gate"
    BY DEF IntakeInv, Gate, At
  <1>2. UNCHANGED <<warm, queue, seen, store, tried, torn, starting, pending, left, open, era>>
    BY DEF Gate, data, book
  <1>3. CASE Warming
    <2>1. tick' = Idle /\ store' \subseteq Jobs
      BY <1>1, <1>2, <1>3 DEF Gate, Warms, Typed
    <2> QED
      BY <1>1, <1>2, <2>1, RestStep
  <1>4. CASE ~Warming
    <2>1. tick' = [Idle EXCEPT !.pc = "scan", !.passed = era]
      BY <1>4 DEF Gate, Warms
    <2>2. /\ tick' \in TickState /\ tick'.pc = "scan" /\ tick'.t = 0 /\ tick'.since = 0
          /\ ~tick'.verdict /\ tick'.passed = era
      BY <1>1, <2>1, IdleTyped, Fields DEF TickState, Places
    <2>3. warm.age >= 0 /\ era >= 0 /\ era <= era
      BY <1>1, Fields, Ages
    <2>4. ~(warm.active /\ warm.ready)
      BY <1>1 DEF TickInv, InStep
    <2>5. InStep'
      BY <1>2, <2>2, <2>3, <2>4 DEF InStep
    <2>6. PastTheGate' /\ RoomForOne'
      BY <1>2, <1>4, <2>2, <2>3 DEF PastTheGate, RoomForOne, Warming
    <2>7. Typed'
      BY <1>1, <1>2, <2>2 DEF Typed
    <2> QED
      BY <1>1, <1>2, <2>5, <2>6, <2>7, QueueKept DEF IntakeInv, TickInv
  <1> QED
    BY <1>3, <1>4

\* From one place past the gate to the next, or staying there.
LEMMA PassStep ==
    ASSUME IntakeInv, NEW place \in Passing, GoTo(place), tick.pc \in Passing,
           UNCHANGED <<warm, queue, seen, tried, torn, starting, era>>,
           store' \subseteq Jobs, pending' \subseteq Symbols, open' \subseteq Symbols,
           left' \in [Symbols -> 0..Timeout]
    PROVE  IntakeInv'
  <1>1. Typed /\ TickInv /\ QueueInv /\ place \in Places
    BY DEF IntakeInv, Passing, Places
  <1>2. /\ tick' \in TickState /\ tick'.pc = place /\ tick'.t = tick.t
        /\ tick'.since = tick.since /\ tick'.passed = tick.passed /\ tick'.verdict = tick.verdict
    BY <1>1, Moved
  <1>3. InStep' /\ RoomForOne'
    BY <1>1, <1>2 DEF TickInv, InStep, RoomForOne, Passing
  <1>4. PastTheGate'
    BY <1>1, <1>2 DEF TickInv, PastTheGate, Warming
  <1>5. Typed'
    BY <1>1, <1>2 DEF Typed
  <1> QED
    BY <1>1, <1>3, <1>4, <1>5, QueueKept DEF IntakeInv, TickInv

LEMMA AnalyseStep ==
    ASSUME IntakeInv, NEW new \in SUBSET Jobs, Analyse(new)
    PROVE  IntakeInv'
  <1>1. UNCHANGED <<warm, queue, seen, tried, torn, starting, pending, left, open, era>>
    BY DEF Analyse, book
  <1>2. /\ store' \subseteq Jobs /\ tick.pc = "scan"
        /\ pending \subseteq Symbols /\ open \subseteq Symbols
        /\ left \in [Symbols -> 0..Timeout]
    BY DEF Analyse, IntakeInv, Typed, At
  <1>3. CASE tick' = Idle
    BY <1>1, <1>2, <1>3, RestStep
  <1>4. CASE GoTo("limits")
    BY <1>1, <1>2, <1>4, PassStep DEF Passing
  <1> QED
    BY <1>3, <1>4 DEF Analyse

LEMMA LimitsStep ==
    ASSUME IntakeInv, NEW tagged \in SUBSET Symbols, NEW accepted \in SUBSET Symbols,
           ProcessLimits(tagged, accepted)
    PROVE  IntakeInv'
  <1>1. UNCHANGED <<warm, queue, seen, store, tried, torn, starting, left, era>>
    BY DEF ProcessLimits, data
  <1>2. /\ store' \subseteq Jobs /\ pending' \subseteq Symbols /\ open' \subseteq Symbols
        /\ left' \in [Symbols -> 0..Timeout]
    BY <1>1 DEF ProcessLimits, IntakeInv, Typed
  <1>3. GoTo("entries") /\ tick.pc = "limits"
    BY DEF ProcessLimits, At
  <1> QED
    BY <1>1, <1>2, <1>3, PassStep DEF Passing

LEMMA EnterStep ==
    ASSUME IntakeInv, NEW s \in Symbols, NEW limit \in BOOLEAN, Enter(s, limit)
    PROVE  IntakeInv'
  <1>1. UNCHANGED <<warm, queue, seen, store, tried, torn, tick, starting, era>>
    BY DEF Enter, data
  <1>2. /\ pending \subseteq Symbols /\ open \subseteq Symbols
        /\ left \in [Symbols -> 0..Timeout] /\ store \subseteq Jobs
        /\ tick \in TickState /\ tick.pc = "entries"
    BY DEF Enter, IntakeInv, Typed, At
  <1>3. Timeout \in 0..Timeout
    BY Bounds
  <1>4. pending' \subseteq Symbols /\ open' \subseteq Symbols
    BY <1>2 DEF Enter, Park
  <1>5. left' \in [Symbols -> 0..Timeout]
    BY <1>2, <1>3 DEF Enter, Park
  <1>6. GoTo("entries")
    BY <1>1, <1>2 DEF GoTo, TickState
  <1> QED
    BY <1>1, <1>2, <1>4, <1>5, <1>6, PassStep DEF Passing

LEMMA StartStep ==
    ASSUME IntakeInv, StartResets
    PROVE  IntakeInv'
  <1>1. Typed /\ TickInv /\ QueueInv
    BY DEF IntakeInv
  <1>2. /\ Reset /\ era' = era + 1 /\ starting' = "queue"
        /\ UNCHANGED <<queue, seen, store, tried, torn, tick, pending, left, open>>
    BY DEF StartResets, book
  <1>3. TickInv' /\ warm' \in WarmupState
    BY <1>1, <1>2, ResetUnder
  <1>4. era' \in Nat
    BY <1>1, <1>2, Fields
  <1>5. Typed'
    BY <1>1, <1>2, <1>3, <1>4 DEF Typed
  <1> QED
    BY <1>1, <1>2, <1>3, <1>5, QueueKept DEF IntakeInv

LEMMA ClearQueueStep ==
    ASSUME IntakeInv, StartClearsQueue
    PROVE  IntakeInv'
  <1>1. Typed /\ TickInv
    BY DEF IntakeInv
  <1>2. /\ ClearQueue /\ starting' = "seen"
        /\ UNCHANGED <<warm, seen, store, tick, pending, left, open, era>>
    BY DEF StartClearsQueue, book
  <1>3. Typed'
    BY <1>1, <1>2, NothingQueued DEF Typed, ClearQueue
  <1>4. TickInv'
    BY <1>1, <1>2 DEF TickInv, InStep, PastTheGate, RoomForOne, Warming
  <1> QED
    BY <1>2, <1>3, <1>4, QueueCleared DEF IntakeInv

\* What the memory forgets is torn: this is why the clear of the queue comes
\* first.
LEMMA ClearSeenStep ==
    ASSUME IntakeInv, StartClearsSeen
    PROVE  IntakeInv'
  <1>1. Typed /\ TickInv /\ QueueInv /\ starting = "seen"
    BY DEF IntakeInv, StartClearsSeen
  <1>2. /\ seen' = {} /\ starting' = ""
        /\ UNCHANGED <<warm, queue, store, tried, torn, tick, pending, left, open, era>>
    BY DEF StartClearsSeen, ClearSeen, book
  <1>3. FetchedOnce' /\ Remembered'
    BY <1>1, <1>2 DEF QueueInv, FetchedOnce, Remembered
  <1>4. Typed'
    BY <1>1, <1>2 DEF Typed
  <1>5. TickInv'
    BY <1>1, <1>2 DEF TickInv, InStep, PastTheGate, RoomForOne, Warming
  <1> QED
    BY <1>3, <1>4, <1>5 DEF IntakeInv, QueueInv

LEMMA ExitStep ==
    ASSUME IntakeInv, NEW s \in Symbols, Exit(s)
    PROVE  IntakeInv'
  <1>1. Typed /\ TickInv /\ QueueInv
    BY DEF IntakeInv
  <1>2. /\ open' = open \ {s}
        /\ UNCHANGED <<warm, queue, seen, store, tried, torn, tick, starting, pending, left, era>>
    BY DEF Exit, data
  <1>3. Typed'
    BY <1>1, <1>2 DEF Typed
  <1>4. TickInv'
    BY <1>1, <1>2 DEF TickInv, InStep, PastTheGate, RoomForOne, Warming
  <1> QED
    BY <1>1, <1>2, <1>3, <1>4, QueueKept DEF IntakeInv

LEMMA TimeStep ==
    ASSUME IntakeInv, TimePasses
    PROVE  IntakeInv'
  <1>1. Typed /\ TickInv /\ QueueInv
    BY DEF IntakeInv
  <1>2. UNCHANGED <<queue, seen, store, tried, torn, tick, starting, pending, open, era>>
    BY DEF TimePasses
  <1>3. PICK age : /\ age = IF warm.active /\ warm.age < Due THEN warm.age + 1 ELSE warm.age
                   /\ warm' = [warm EXCEPT !.age = age]
    BY DEF TimePasses
  <1>4. age \in Young..Due /\ age >= warm.age
    BY <1>1, <1>3, Fields, Ages
  <1>5. /\ warm' \in WarmupState /\ warm'.age = age
        /\ (warm'.active <=> warm.active) /\ (warm'.ready <=> warm.ready)
    BY <1>1, <1>3, <1>4 DEF Typed, WarmupState
  <1>6. left' \in [Symbols -> 0..Timeout]
    <2>1. left \in [Symbols -> 0..Timeout]
      BY <1>1 DEF Typed
    <2>2. \A s \in Symbols : left[s] > 0 => left[s] - 1 \in 0..Timeout
      BY <2>1, Bounds
    <2> QED
      BY <2>1, <2>2 DEF TimePasses
  <1>7. Typed'
    BY <1>1, <1>2, <1>5, <1>6 DEF Typed
  <1>8. tick.t <= warm.age => tick.t <= age
    BY <1>1, <1>4, Fields, Ages
  <1>9. InStep'
    BY <1>1, <1>2, <1>5, <1>8 DEF TickInv, InStep
  <1>10. PastTheGate' /\ RoomForOne'
    BY <1>1, <1>2, <1>5 DEF TickInv, PastTheGate, RoomForOne, Warming
  <1> QED
    BY <1>1, <1>2, <1>7, <1>9, <1>10, QueueKept DEF IntakeInv, TickInv

-----------------------------------------------------------------------------
LEMMA InitIntake == Init => IntakeInv
  <1> SUFFICES ASSUME Init PROVE IntakeInv
    OBVIOUS
  <1>1. warm = [active |-> FALSE, ready |-> FALSE, age |-> Young, candidates |-> {}, seeded |-> FALSE]
    BY DEF Init
  <1>2. warm \in WarmupState /\ warm.age = 0 /\ ~warm.active
    <2>1. Young \in Young..Due /\ Young = 0
      BY Ages
    <2> HIDE DEF Young, Due
    <2> QED
      BY <1>1, <2>1 DEF WarmupState
  <1>3. tick = Idle /\ era = 0 /\ starting = "" /\ queue = <<>> /\ tried = {} /\ torn = {}
    BY DEF Init
  <1>4. left \in [Symbols -> 0..Timeout]
    <2>1. 0 \in 0..Timeout
      BY Bounds
    <2>2. left = [s \in Symbols |-> 0]
      BY DEF Init
    <2> QED
      BY <2>1, <2>2, Zenon
  <1>5. seen = {} /\ store = {} /\ pending = {} /\ open = {} /\ era \in Nat
    BY DEF Init
  <1>6. Typed
    BY <1>2, <1>3, <1>4, <1>5, IdleTyped, NothingQueued DEF Typed
  <1>7. QueueInv
    BY <1>3, NothingQueued DEF QueueInv, FetchedOnce, Once, Remembered
  <1>8. /\ tick.pc = "idle" /\ tick.t = 0 /\ tick.since = 0 /\ tick.passed = 0 /\ era = 0
        /\ ~tick.verdict
    BY <1>3, IdleTyped
  <1>9. InStep /\ RoomForOne /\ PastTheGate
    BY <1>2, <1>8 DEF InStep, RoomForOne, PastTheGate, Passing
  <1> QED
    BY <1>6, <1>7, <1>9 DEF IntakeInv, TickInv

LEMMA TickSteps == IInv /\ Tick => IntakeInv'
  <1> SUFFICES ASSUME IntakeInv, OnTheWay, Tick PROVE IntakeInv'
    BY DEF IInv
  <1>1. CASE FullScan
    BY <1>1, FullScanStep
  <1>2. CASE Elapsed
    BY <1>2, ElapsedStep
  <1>3. CASE Enqueued
    BY <1>3, MoveStep DEF Enqueued, At
  <1>4. CASE DrainGoes
    BY <1>4, MoveStep DEF DrainGoes, At, More
  <1>5. CASE DrainStops
    BY <1>5, MoveStep DEF DrainStops, At
  <1>6. CASE Pop
    BY <1>6, PopStep
  <1>7. CASE Verdict
    BY <1>7, VerdictStep
  <1>8. CASE Close
    BY <1>8, CloseStep
  <1>9. ASSUME NEW coins \in SUBSET Symbols, TakeCandidates(coins) PROVE IntakeInv'
    BY <1>9, CandidatesStep
  <1>10. ASSUME NEW found \in SUBSET Jobs, Seed(found) PROVE IntakeInv'
    BY <1>10, SeedStep
  <1>11. ASSUME NEW j \in tick.todo, Enqueue(j) PROVE IntakeInv'
    BY <1>11, EnqueueStep
  <1>12. ASSUME NEW good \in BOOLEAN, Fetch(good) PROVE IntakeInv'
    BY <1>12, FetchStep
  <1>13. ASSUME NEW feedOk \in BOOLEAN, NEW bucketOk \in BOOLEAN, Judge(feedOk, bucketOk)
         PROVE  IntakeInv'
    BY <1>13, JudgeStep
  <1>14. CASE AppendJob
    BY <1>14, AppendStep
  <1> QED
    BY <1>1, <1>2, <1>3, <1>4, <1>5, <1>6, <1>7, <1>8, <1>9, <1>10, <1>11, <1>12, <1>13, <1>14 DEF Tick

LEMMA ScanSteps == IntakeInv /\ Scan => IntakeInv'
  <1> SUFFICES ASSUME IntakeInv, Scan PROVE IntakeInv'
    OBVIOUS
  <1>1. CASE Gate
    BY <1>1, GateStep
  <1>2. CASE StaleData
    BY <1>2, RestStep DEF StaleData, At, data, book, IntakeInv, Typed
  <1>3. CASE ScanEnds
    BY <1>3, RestStep DEF ScanEnds, At, data, book, IntakeInv, Typed
  <1>4. ASSUME NEW new \in SUBSET Jobs, Analyse(new) PROVE IntakeInv'
    BY <1>4, AnalyseStep
  <1>5. ASSUME NEW tagged \in SUBSET Symbols, NEW accepted \in SUBSET Symbols,
               ProcessLimits(tagged, accepted)
        PROVE  IntakeInv'
    BY <1>5, LimitsStep
  <1>6. ASSUME NEW s \in Symbols, NEW limit \in BOOLEAN, Enter(s, limit) PROVE IntakeInv'
    BY <1>6, EnterStep
  <1> QED
    BY <1>1, <1>2, <1>3, <1>4, <1>5, <1>6 DEF Scan

LEMMA IntakeSteps == IInv /\ [Next]_vars => IntakeInv'
  <1> SUFFICES ASSUME IInv, IntakeInv, [Next]_vars PROVE IntakeInv'
    BY DEF IInv
  <1>1. CASE UNCHANGED vars
    <2>1. UNCHANGED <<warm, queue, seen, store, tick, starting, pending, left, open, era, tried, torn>>
      BY <1>1 DEF vars
    <2>2. QueueInv'
      BY <2>1, QueueKept DEF IntakeInv
    <2> QED
      BY <2>1, <2>2
         DEF IntakeInv, Typed, TickInv, InStep, PastTheGate, RoomForOne, Warming
  <1>2. CASE Tick
    BY <1>2, TickSteps
  <1>3. CASE Scan
    BY <1>3, ScanSteps
  <1>4. CASE StartResets
    BY <1>4, StartStep
  <1>5. CASE StartClearsQueue
    BY <1>5, ClearQueueStep
  <1>6. CASE StartClearsSeen
    BY <1>6, ClearSeenStep
  <1>7. CASE TimePasses
    BY <1>7, TimeStep
  <1>8. ASSUME NEW s \in Symbols, Exit(s) PROVE IntakeInv'
    BY <1>8, ExitStep
  <1> QED
    BY <1>1, <1>2, <1>3, <1>4, <1>5, <1>6, <1>7, <1>8 DEF Next

LEMMA IntakeInvariant == Spec => []IntakeInv
  <1>1. Init => OnTheWay
    BY InitIntake, NothingQueued DEF Init, OnTheWay, Idle
  <1>2. Init => IInv
    BY <1>1, InitIntake DEF IInv
  <1>3. IInv /\ [Next]_vars => IInv'
    BY IntakeSteps, OnTheWaySteps DEF IInv
  <1>4. IInv => IntakeInv
    BY DEF IInv
  <1> QED
    BY <1>2, <1>3, <1>4, PTL DEF Spec

-----------------------------------------------------------------------------
(***************************************************************************)
(* The theorems.                                                           *)
(***************************************************************************)
\* Every variable of warm-up, queue, store and limits keeps its type, and a
\* drain keeps to its budget (backfill_queue.py).
THEOREM IntakeTypes == Spec => []IntakeTypeOK
  <1>1. IntakeInv => IntakeTypeOK
    <2> SUFFICES ASSUME IntakeInv PROVE IntakeTypeOK
      OBVIOUS
    <2>1. Typed
      BY DEF IntakeInv
    <2>2. tick.todo \subseteq Jobs /\ tick.pc \in Places
      BY <2>1, Fields
    <2>3. {seen, store, tried, torn} \subseteq SUBSET Jobs /\ {pending, open} \subseteq SUBSET Symbols
      BY <2>1 DEF Typed
    <2>4. {tick.since, tick.passed, era} \subseteq Nat
      BY <2>1, Fields
    <2>5. /\ warm \in WarmupState /\ queue \in Seq(Jobs) /\ starting \in {"", "queue", "seen"}
          /\ left \in [Symbols -> 0..Timeout]
      BY <2>1 DEF Typed
    <2>6. /\ tick.t \in Young..Due /\ tick.job \in Jobs \cup {NoJob}
          /\ tick.ran \in 0..MaxJobs /\ tick.verdict \in BOOLEAN
      BY <2>1, Fields
    <2> QED
      BY <2>1, <2>2, <2>3, <2>4, <2>5, <2>6, Zenon DEF IntakeTypeOK, WarmupState, Places, At
  <1> QED
    BY <1>1, IntakeInvariant, PTL

\* The queue's memory keeps every frame from a second fetch, but for those a
\* tick queues while start_trading is between its clears (warmup.py), or has
\* remembered before them and appends after them (backfill_queue.py).
THEOREM FramesAreFetchedOnce == Spec => []FetchedOnce
  <1>1. IntakeInv => FetchedOnce
    BY DEF IntakeInv, QueueInv
  <1> QED
    BY <1>1, IntakeInvariant, PTL

\* A warm-up is ended by its own age, or by a tick that began before it.
THEOREM WarmupsAreOwn == Spec => WarmupIsOwn
  <1>1. IntakeInv /\ [Next]_vars =>
            [warm.active /\ ~warm'.active => warm.age >= Early \/ tick.since < era]_vars
    <2> SUFFICES ASSUME IntakeInv, Next, warm.active, ~warm'.active
                 PROVE  warm.age >= Early \/ tick.since < era
      BY Zenon
    <2>1. warm \in WarmupState
      BY DEF IntakeInv, Typed
    <2>2. \/ UNCHANGED warm \/ Reset \/ Verdict \/ Close \/ TimePasses
          \/ \E coins : TakeCandidates(coins)
          \/ \E found : Seed(found)
      BY DEF Next, Tick, Scan, FullScan, Elapsed, Enqueued, DrainGoes, DrainStops, Pop,
             Enqueue, AppendJob, Fetch, Judge, Gate, StaleData, ScanEnds, Analyse, ProcessLimits, Enter,
             StartResets, StartClearsQueue, StartClearsSeen, Exit, data
    <2>3. Verdict \/ TimePasses \/ (\E coins : TakeCandidates(coins)) \/ (\E found : Seed(found))
              => warm'.active
      <3>1. Verdict => warm'.active
        BY <2>1 DEF Verdict, WarmupState
      <3>2. TimePasses => warm'.active
        BY <2>1 DEF TimePasses, WarmupState
      <3>3. (\E coins : TakeCandidates(coins)) => warm'.active
        BY <2>1 DEF TakeCandidates, WarmupState
      <3>4. (\E found : Seed(found)) => warm'.active
        BY <2>1 DEF Seed, WarmupState
      <3> QED
        BY <3>1, <3>2, <3>3, <3>4
    <2>4. Close
      BY <2>2, <2>3 DEF Reset
    <2>5. tick.t >= Early /\ tick.since <= era /\ (tick.since = era => tick.t <= warm.age)
      BY <2>4 DEF Close, At, IntakeInv, TickInv, InStep
    <2> QED
      BY <2>5, Fields, Ages DEF IntakeInv
  <1> QED
    BY <1>1, IntakeInvariant, PTL DEF Spec, WarmupIsOwn

\* Nothing is parked or opened during a warm-up, but by a scan that was past
\* the gate before it (app.py).
THEOREM TheGateHolds == Spec => GateHolds
  <1>1. IntakeInv /\ [Next]_vars =>
            [Warming /\ (pending' \ pending # {} \/ open' \ open # {}) => tick.passed < era]_vars
    <2> SUFFICES ASSUME IntakeInv, Next, Warming,
                        pending' \ pending # {} \/ open' \ open # {}
                 PROVE  tick.passed < era
      BY Zenon
    <2>1. tick.pc \in Passing
      BY DEF Next, Tick, Scan, FullScan, Elapsed, Enqueued, DrainGoes, DrainStops, Pop, Verdict,
             Close, TakeCandidates, Seed, Enqueue, AppendJob, Fetch, Judge, Gate, StaleData, ScanEnds,
             Analyse, ProcessLimits, Enter, StartResets, StartClearsQueue, StartClearsSeen,
             TimePasses, Exit, book, At, Passing
    <2>2. tick.passed <= era /\ tick.passed # era
      BY <2>1 DEF IntakeInv, TickInv, PastTheGate
    <2> QED
      BY <2>2, Fields DEF IntakeInv
  <1> QED
    BY <1>1, IntakeInvariant, PTL DEF Spec, GateHolds
-----------------------------------------------------------------------------
(***************************************************************************)
(* The deadline of a parked limit.                                         *)
(***************************************************************************)
\* While a limit is parked its deadline only comes nearer, whoever repeats its
\* signal, and each time the queue is processed what is past it goes, whether
\* the price touched it or not.
LimitsRunOut ==
    [][/\ \A s \in pending \cap pending' : left'[s] <= left[s]
       /\ At("limits") /\ tick' # tick => \A s \in pending' : left'[s] > 0]_vars

\* Parked limits run out (_park_limit and process_limit_queue of
\* paper_trader.py): the safety behind LimitSettles, and why a limit that is
\* filled late is filled the first time the queue is looked at after its deadline.
THEOREM ParkedLimitsRunOut == Spec => LimitsRunOut
  <1>1. ASSUME IntakeInv, Next
        PROVE  /\ \A s \in pending \cap pending' : left'[s] <= left[s]
               /\ At("limits") /\ tick' # tick => \A s \in pending' : left'[s] > 0
    <2>1. left \in [Symbols -> 0..Timeout] /\ pending \subseteq Symbols /\ Timeout \in Nat
      BY <1>1, Bounds DEF IntakeInv, Typed
    <2>2. \/ UNCHANGED <<pending, left>> /\ (At("limits") => tick' = tick)
          \/ TimePasses
          \/ \E tagged, accepted \in SUBSET Symbols : ProcessLimits(tagged, accepted)
          \/ \E s \in Symbols : Enter(s, TRUE)
      BY <1>1 DEF Next, Tick, Scan, FullScan, Elapsed, Enqueued, DrainGoes, DrainStops, Pop,
             Verdict, Close, TakeCandidates, Seed, Enqueue, AppendJob, Fetch, Judge, Gate, StaleData,
             ScanEnds, Analyse, Enter, StartResets, StartClearsQueue, StartClearsSeen, Exit,
             At, book, data
    <2>3. CASE UNCHANGED <<pending, left>> /\ (At("limits") => tick' = tick)
      BY <2>1, <2>3
    <2>4. CASE TimePasses
      <3>1. UNCHANGED <<tick, pending>>
        BY <2>4 DEF TimePasses
      <3>2. \A s \in Symbols : left'[s] <= left[s]
        BY <2>1, <2>4 DEF TimePasses
      <3>. QED  BY <2>1, <3>1, <3>2
    <2>5. ASSUME NEW tagged \in SUBSET Symbols, NEW accepted \in SUBSET Symbols,
                 ProcessLimits(tagged, accepted)
          PROVE  left' = left /\ \A s \in pending' : left'[s] > 0
      BY <2>5 DEF ProcessLimits
    <2>6. ASSUME NEW s \in Symbols, Enter(s, TRUE)
          PROVE  ~At("limits") /\ \A r \in pending : left'[r] = left[r]
      BY <2>1, <2>6 DEF Enter, Park, At
    <2>7. CASE \E tagged, accepted \in SUBSET Symbols : ProcessLimits(tagged, accepted)
      <3>1. left' = left /\ \A s \in pending' : left'[s] > 0
        BY <2>5, <2>7
      <3>. QED  BY <2>1, <3>1
    <2>8. CASE \E s \in Symbols : Enter(s, TRUE)
      <3>1. ~At("limits") /\ \A r \in pending : left'[r] = left[r]
        BY <2>6, <2>8
      <3>. QED  BY <2>1, <3>1
    <2>. QED  BY <2>2, <2>3, <2>4, <2>7, <2>8
  <1>2. IntakeInv /\ [Next]_vars =>
            [/\ \A s \in pending \cap pending' : left'[s] <= left[s]
             /\ At("limits") /\ tick' # tick => \A s \in pending' : left'[s] > 0]_vars
    BY <1>1
  <1>. QED  BY <1>2, IntakeInvariant, PTL DEF Spec, LimitsRunOut
=============================================================================
