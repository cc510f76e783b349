---------------------------- MODULE EntryIntake -----------------------------
(***************************************************************************)
(* What stands between a full scan of the bot and an entry: the warm-up of *)
(* the market data (warmup.py, backfill_queue.py, market_store.py) and the *)
(* queue of parked limit entries (paper_trader.py).                        *)
(*                                                                         *)
(* One bot thread scans.  start_trading, in another thread, begins a new   *)
(* warm-up under its feet: the warm-up, the backfill queue and the store   *)
(* of frames are shared, and only the store has a lock.                    *)
(***************************************************************************)
EXTENDS Integers, FiniteSets, SequencesExt

CONSTANTS
    Symbols,
    Bars,         \* the frames a pair needs
    NeedDue,      \* ready pairs that end a warm-up at its full duration
    NeedEarly,    \* ready pairs that end it early
    MaxJobs,      \* fetches of one drain
    Timeout,      \* lifetime of a parked limit
    MaxStarts     \* bound: calls of start_trading

ASSUME IntakeAssumption ==
    /\ IsFiniteSet(Symbols) /\ IsFiniteSet(Bars)
    /\ {NeedDue, NeedEarly, MaxJobs, Timeout, MaxStarts} \subseteq Nat
    /\ MaxJobs >= 1

VARIABLES
    warm,     \* WarmupController
    queue,    \* BACKFILL.q
    seen,     \* BACKFILL.seen
    store,    \* the frames in STORE that have enough candles
    tick,     \* the bot: where it is and what it holds
    starting, \* what the WARMUP.start of start_trading has still to clear
    pending,  \* symbols with a parked limit
    left,     \* time to the deadline of each
    open,     \* symbols with a position
    era,      \* history: calls of WARMUP.start
    tried,    \* history: jobs taken from the queue since it was cleared
    torn      \* history: jobs the memory has lost: queued between the two clears,
              \* or forgotten before they were queued

data == <<warm, queue, seen, store, tried, torn>>
book == <<pending, left, open>>
vars == <<warm, queue, seen, store, tick, starting, pending, left, open, era, tried, torn>>

Jobs == Symbols \X Bars
JobsOf(s) == {s} \X Bars

\* The age of a warm-up, by what its age allows.
Young == 0      \* nothing is fetched yet
Drains == 1     \* phases backfill and gate
Early == 2      \* WARMUP_ALLOW_EARLY_READY, from 60 s on
Due == 3        \* WARMUP_SECONDS

NoJob == <<>>
Idle == [pc |-> "idle", t |-> Young, since |-> 0, todo |-> {}, job |-> NoJob,
         ran |-> 0, verdict |-> FALSE, passed |-> 0]

Init ==
    /\ warm = [active |-> FALSE, ready |-> FALSE, age |-> Young, candidates |-> {}, seeded |-> FALSE]
    /\ queue = <<>> /\ seen = {} /\ store = {} /\ tried = {} /\ torn = {}
    /\ tick = Idle /\ starting = ""
    /\ pending = {} /\ left = [s \in Symbols |-> 0] /\ open = {}
    /\ era = 0

-----------------------------------------------------------------------------
(***************************************************************************)
(* WARMUP.start: the controller, then the queue, then its memory.          *)
(***************************************************************************)
\* One step for the writes of the controller: who reads between active and ready
\* sees a warm-up that is over, as before the start.
Reset ==
    warm' = [active |-> TRUE, ready |-> FALSE, age |-> Young, candidates |-> {}, seeded |-> FALSE]

ClearQueue == queue' = <<>> /\ tried' = {} /\ torn' = {}
ClearSeen == seen' = {}

-----------------------------------------------------------------------------
(***************************************************************************)
(* The bot: tick of the warm-up.                                           *)
(***************************************************************************)
At(place) == tick.pc = place
GoTo(place) == tick' = [tick EXCEPT !.pc = place]

\* A full scan begins; the first one begins the first warm-up.
FullScan ==
    /\ At("idle") /\ tick' = [Idle EXCEPT !.pc = "elapsed"]
    /\ IF warm.active \/ warm.ready
       THEN UNCHANGED <<warm, queue, seen, tried, torn, era>>
       ELSE Reset /\ ClearQueue /\ ClearSeen /\ era' = era + 1
    /\ UNCHANGED <<store, starting, book>>

Elapsed ==
    /\ At("elapsed")
    /\ tick' = IF warm.active
               THEN [tick EXCEPT !.pc = "candidates", !.t = warm.age, !.since = era]
               ELSE [tick EXCEPT !.pc = "gate"]
    /\ UNCHANGED <<data, starting, book, era>>

\* The coins of the scan become the candidates, once per warm-up.
TakeCandidates(coins) ==
    /\ At("candidates")
    /\ IF warm.candidates = {}
       THEN GoTo("seed") /\ warm' = [warm EXCEPT !.candidates = coins]
       ELSE GoTo("drain") /\ UNCHANGED warm
    /\ UNCHANGED <<queue, seen, store, tried, torn, starting, book, era>>

\* seed_klines: fresh frames on disk, once per warm-up.
Seed(found) ==
    /\ At("seed") /\ found \subseteq warm.candidates \X Bars
    /\ store' = IF warm.seeded THEN store ELSE store \cup found
    /\ warm' = [warm EXCEPT !.seeded = TRUE]
    /\ tick' = [tick EXCEPT !.pc = "enqueue", !.todo = warm.candidates \X Bars]
    /\ UNCHANGED <<queue, seen, tried, torn, starting, book, era>>

MissingOnly(j) == j \notin store             \* mutant: seen is not asked

\* BACKFILL.enqueue drops what it has seen.
Fresh(j) == j \notin store \cup seen

\* seen.add
Enqueue(j) ==
    /\ At("enqueue") /\ j \in tick.todo
    /\ IF Fresh(j)
       THEN /\ seen' = seen \cup {j}
            /\ tick' = [tick EXCEPT !.pc = "append", !.todo = @ \ {j}, !.job = j]
       ELSE /\ tick' = [tick EXCEPT !.todo = @ \ {j}]
            /\ UNCHANGED seen
    /\ UNCHANGED <<warm, queue, store, tried, torn, starting, book, era>>

\* q.append: a start may have cleared queue and memory since.
AppendJob ==
    /\ At("append") /\ queue' = Append(queue, tick.job)
    /\ torn' = IF starting = "seen" \/ tick.job \notin seen THEN torn \cup {tick.job} ELSE torn
    /\ tick' = [tick EXCEPT !.pc = "enqueue", !.job = NoJob]
    /\ UNCHANGED <<warm, seen, store, tried, starting, book, era>>

Enqueued ==
    /\ At("enqueue") /\ tick.todo = {} /\ GoTo("drain")
    /\ UNCHANGED <<data, starting, book, era>>

MayDrainBeforeGate == tick.t \in Drains..Early   \* mutant: the gate fetches nothing

MayDrain == tick.t >= Drains

MoreThanOneDrain == MayDrain /\ queue # <<>>    \* mutant: a drain has no budget

More == MayDrain /\ queue # <<>> /\ tick.ran < MaxJobs

DrainGoes ==
    /\ At("drain") /\ More /\ GoTo("pop")
    /\ UNCHANGED <<data, starting, book, era>>

\* Nothing more to do, or the bucket is low before the first job.
DrainStops ==
    /\ At("drain") /\ (More => tick.ran = 0) /\ GoTo("judge")
    /\ UNCHANGED <<data, starting, book, era>>

\* The queue may have been cleared since drain looked: popleft then raises,
\* out of tick, and the scan ends.
Pop ==
    /\ At("pop")
    /\ IF queue = <<>>
       THEN tick' = Idle /\ UNCHANGED <<queue, tried>>
       ELSE /\ tick' = [tick EXCEPT !.pc = "fetch", !.job = Head(queue)]
            /\ queue' = Tail(queue) /\ tried' = tried \cup {Head(queue)}
    /\ UNCHANGED <<warm, seen, store, torn, starting, book, era>>

\* An empty answer, an exception, or too few candles leave the frame missing;
\* the job is gone all the same.
Fetch(good) ==
    /\ At("fetch")
    /\ store' = IF good THEN store \cup {tick.job} ELSE store
    /\ tick' = [tick EXCEPT !.pc = "drain", !.job = NoJob, !.ran = @ + 1]
    /\ UNCHANGED <<warm, queue, seen, tried, torn, starting, book, era>>

ReadyPairs == Cardinality({s \in warm.candidates : JobsOf(s) \subseteq store})

\* Mutant: pairs that are ready suffice, whatever the age.
EarnedAtAnyAge(feedOk, bucketOk) == feedOk /\ ReadyPairs >= NeedDue

\* The age is the one the tick began with.
Earned(feedOk, bucketOk) ==
    /\ feedOk
    /\ \/ tick.t >= Due /\ ReadyPairs >= NeedDue
       \/ tick.t >= Early /\ ReadyPairs >= NeedEarly /\ bucketOk

Judge(feedOk, bucketOk) ==
    /\ At("judge")
    /\ tick' = [tick EXCEPT !.pc = "verdict", !.verdict = Earned(feedOk, bucketOk)]
    /\ UNCHANGED <<data, starting, book, era>>

\* "ready" is set, and "active" dropped, one after the other.
Verdict ==
    /\ At("verdict") /\ GoTo(IF tick.verdict THEN "close" ELSE "gate")
    /\ warm' = IF tick.verdict THEN [warm EXCEPT !.ready = TRUE] ELSE warm
    /\ UNCHANGED <<queue, seen, store, tried, torn, starting, book, era>>

Close ==
    /\ At("close") /\ GoTo("gate")
    /\ warm' = [warm EXCEPT !.active = FALSE]
    /\ UNCHANGED <<queue, seen, store, tried, torn, starting, book, era>>

-----------------------------------------------------------------------------
(***************************************************************************)
(* The bot: the rest of a full scan.                                       *)
(***************************************************************************)
Warming == warm.active /\ ~warm.ready

WarmingAsTicked == tick.since > 0 /\ ~tick.verdict   \* mutant: the answer of tick decides

Warms == Warming

Gate ==
    /\ At("gate")
    /\ tick' = IF Warms THEN Idle ELSE [Idle EXCEPT !.pc = "scan", !.passed = era]
    /\ UNCHANGED <<data, starting, book, era>>

\* Stale quotations: positions are managed, nothing else.
StaleData ==
    /\ At("scan") /\ tick' = Idle
    /\ UNCHANGED <<data, starting, book, era>>

\* generate_signals fetches for itself and fills the store.  Whether trading is
\* on is a choice here: PaperEngine models the halts and commands.
Analyse(new) ==
    /\ At("scan") /\ store' = store \cup new
    /\ GoTo("limits") \/ tick' = Idle
    /\ UNCHANGED <<warm, queue, seen, tried, torn, starting, book, era>>

\* process_limit_queue: a tagged limit leaves the queue and may become a
\* position, one past its deadline leaves it without.
ProcessLimits(tagged, accepted) ==
    /\ At("limits") /\ GoTo("entries")
    /\ tagged \subseteq pending /\ accepted \subseteq tagged \ open
    /\ pending' = {s \in pending \ tagged : left[s] > 0}
    /\ open' = open \cup accepted
    /\ UNCHANGED <<data, starting, left, era>>

\* Mutant: a repeated signal parks again, with a new deadline.
ParkAnew(s) ==
    /\ pending' = pending \cup {s}
    /\ left' = [left EXCEPT ![s] = Timeout]

\* _park_limit: the first signal keeps its deadline.
Park(s) ==
    /\ pending' = pending \cup {s}
    /\ left' = IF s \in pending THEN left ELSE [left EXCEPT ![s] = Timeout]

\* An accepted signal: a V2 limit is parked, any other opens.
Enter(s, limit) ==
    /\ At("entries") /\ s \notin open
    /\ IF limit THEN Park(s) /\ UNCHANGED open
                ELSE open' = open \cup {s} /\ UNCHANGED <<pending, left>>
    /\ UNCHANGED <<data, tick, starting, era>>

ScanEnds ==
    /\ At("entries") /\ tick' = Idle
    /\ UNCHANGED <<data, starting, book, era>>

-----------------------------------------------------------------------------
(***************************************************************************)
(* Other threads, and time.                                                *)
(***************************************************************************)
StartResets ==
    /\ starting = "" /\ era < MaxStarts + 1
    /\ starting' = "queue" /\ Reset /\ era' = era + 1
    /\ UNCHANGED <<queue, seen, store, tried, torn, tick, book>>

StartClearsQueue ==
    /\ starting = "queue" /\ starting' = "seen" /\ ClearQueue
    /\ UNCHANGED <<warm, seen, store, tick, book, era>>

StartClearsSeen ==
    /\ starting = "seen" /\ starting' = "" /\ ClearSeen
    /\ UNCHANGED <<warm, queue, store, tried, torn, tick, book, era>>

Exit(s) ==
    /\ s \in open /\ open' = open \ {s}
    /\ UNCHANGED <<data, tick, starting, pending, left, era>>

TimePasses ==
    /\ warm' = [warm EXCEPT !.age = IF warm.active /\ @ < Due THEN @ + 1 ELSE @]
    /\ left' = [s \in Symbols |-> IF s \in pending /\ left[s] > 0 THEN left[s] - 1 ELSE left[s]]
    /\ <<warm, left>>' # <<warm, left>>
    /\ UNCHANGED <<queue, seen, store, tried, torn, tick, starting, pending, open, era>>

Tick ==
    \/ FullScan \/ Elapsed \/ AppendJob \/ Enqueued \/ DrainGoes \/ DrainStops \/ Pop \/ Verdict \/ Close
    \/ \E coins \in SUBSET Symbols : TakeCandidates(coins)
    \/ \E found \in SUBSET Jobs : Seed(found)
    \/ \E j \in tick.todo : Enqueue(j)
    \/ \E good \in BOOLEAN : Fetch(good)
    \/ \E feedOk, bucketOk \in BOOLEAN : Judge(feedOk, bucketOk)

Scan ==
    \/ Gate \/ StaleData \/ ScanEnds
    \/ \E new \in SUBSET Jobs : Analyse(new)
    \/ \E tagged, accepted \in SUBSET Symbols : ProcessLimits(tagged, accepted)
    \/ \E s \in Symbols, limit \in BOOLEAN : Enter(s, limit)

Next ==
    \/ Tick \/ Scan
    \/ StartResets \/ StartClearsQueue \/ StartClearsSeen \/ TimePasses
    \/ \E s \in Symbols : Exit(s)

\* The loop goes on and no scan has signals without end, time passes,
\* start_trading returns; the bucket refills and quotations come, again and
\* again.
Fairness ==
    /\ WF_vars(Tick) /\ WF_vars(Scan) /\ SF_vars(ScanEnds)
    /\ WF_vars(TimePasses) /\ WF_vars(StartClearsQueue \/ StartClearsSeen)
    /\ SF_vars(DrainGoes) /\ SF_vars(Judge(TRUE, TRUE))

Spec == Init /\ [][Next]_vars /\ Fairness

-----------------------------------------------------------------------------
(***************************************************************************)
(* Properties.                                                             *)
(***************************************************************************)
IntakeTypeOK ==
    /\ warm \in [active : BOOLEAN, ready : BOOLEAN, age : Young..Due,
                 candidates : SUBSET Symbols, seeded : BOOLEAN]
    /\ queue \in Seq(Jobs) /\ {seen, store, tried, torn} \subseteq SUBSET Jobs
    /\ tick.pc \in {"idle", "elapsed", "candidates", "seed", "enqueue", "append", "drain",
                    "pop", "fetch", "judge", "verdict", "close", "gate", "scan", "limits", "entries"}
    /\ tick.t \in Young..Due /\ tick.todo \subseteq Jobs /\ tick.job \in Jobs \cup {NoJob}
    /\ tick.ran \in 0..MaxJobs /\ tick.verdict \in BOOLEAN /\ starting \in {"", "queue", "seen"}
    /\ {pending, open} \subseteq SUBSET Symbols /\ left \in [Symbols -> 0..Timeout]
    /\ {tick.since, tick.passed, era} \subseteq Nat

\* Between two starts no frame is queued or fetched twice, although a start
\* empties queue and memory under a tick that fills them: but for a job that is
\* queued between the two clears, or whose memory is cleared before it is queued.
FetchedOnce ==
    /\ \A i, k \in DOMAIN queue : queue[i] = queue[k] /\ i # k => queue[i] \in torn
    /\ ToSet(queue) \cap tried \subseteq torn

\* A warm-up is ended before its time by one tick only: the one whose age was
\* read before the start.
WarmupIsOwn ==
    [][warm.active /\ ~warm'.active => warm.age >= Early \/ tick.since < era]_vars

\* While the data warms up nothing is parked or opened, but by the scan that
\* had passed the gate before the warm-up began.
GateHolds ==
    [][Warming /\ (pending' \ pending # {} \/ open' \ open # {}) => tick.passed < era]_vars

\* The frames of this warm-up that nobody will fetch any more.
Lost ==
    IF At("seed") THEN {}
    ELSE {j \in (warm.candidates \X Bars) \ tick.todo :
             j \notin store \cup ToSet(queue) /\ j # tick.job}

\* Unless a fetch failed or a start emptied the queue of a running tick, a
\* warm-up with enough candidates ends.
WarmupEnds ==
    []<>(~warm.active \/ Lost # {} \/ Cardinality(warm.candidates) < NeedDue)

\* A limit does not stay parked for ever while the queue is processed, however
\* often its signal is repeated.
LimitSettles ==
    \A s \in Symbols : []<>At("limits") => []<>(s \notin pending)

\* process_limit_queue: "Fill a planned retest limit or cancel it after expiry."
NoLateFill ==
    [][\A s \in pending : s \in open' \ open /\ At("limits") => left[s] > 0]_vars

=============================================================================
