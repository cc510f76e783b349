----------------------------- MODULE CandleFeed -----------------------------
(***************************************************************************)
(* The candles of one symbol and interval, from the exchange to the frame  *)
(* the strategy reads: the WebSocket that recognises a closed candle by    *)
(* the first push of the next one (blofin_ws.py), the paged REST fetch     *)
(* with its caches in memory and on disk (blofin_feed.py, disk_cache.py)   *)
(* and the store of frames (market_store.py).                              *)
(*                                                                         *)
(* A cache key ends with the number of candles asked for, so a key is that *)
(* number.  Bars are numbered in time; what trades do to a candle is       *)
(* whether a copy of it has its final content.                             *)
(***************************************************************************)
EXTENDS Integers, FiniteSets, FiniteSetsExt

CONSTANTS
    Limits,       \* the keys: candles asked for by the callers
    Page,         \* rows of one reply
    NewestFirst,  \* the exchange answers "newer than" with its newest rows
    Kinds,        \* intervals: "5m", "15m" (also 1H and 4H), "1D" (also 1W)
    FirstBar,     \* the bar of the first state
    BarLen,       \* ticks of a bar
    Lag,          \* safety lag of a closed candle
    Slack,        \* STALE_KLINES_SECONDS
    ClosedAge,    \* how long a candle closed on the WebSocket is offered
    TtlShort, TtlLong,
    CallTime,     \* ticks a fetch may take
    MaxBar,       \* bound: the bar time ends in
    MaxRestarts   \* bound

ASSUME FeedAssumption ==
    /\ Limits \subseteq Nat \ {0} /\ Page \in Nat \ {0}
    /\ NewestFirst \in BOOLEAN /\ Kinds \subseteq {"5m", "15m", "1D"}
    /\ {FirstBar, BarLen, Lag, Slack, ClosedAge, TtlShort, TtlLong, CallTime} \subseteq Nat
    /\ {MaxBar, MaxRestarts} \subseteq Nat
    /\ CallTime < BarLen /\ Lag < BarLen /\ Slack < BarLen

VARIABLES
    kind,         \* the interval
    now,          \* time in ticks
    bar,          \* the bar that is forming
    opened,       \* when it began
    link,         \* the WebSocket: "down", "open", "fed" (subscribed), "dead"
    live,         \* _candles: the last pushed candle
    closed,       \* _last_closed_candles
    cache,        \* ohlc_cache
    disk,         \* disk_cache
    store,        \* STORE.ohlcv
    fetch,        \* the calls of fetch_klines_ohlcv
    restarts

\* _KLINE_DISK_PERSIST_BARS and _V2_STALE_BARS.
Persists == kind # "5m"
Watched == kind = "15m"

ws == <<link, live, closed>>
clock == <<kind, now, bar, opened>>
vars == <<kind, now, bar, opened, link, live, closed, cache, disk, store, fetch, restarts>>

-----------------------------------------------------------------------------
(***************************************************************************)
(* Frames: a set of bars and, of these, the ones whose content may not be  *)
(* final.                                                                  *)
(***************************************************************************)
NoFrame == [bars |-> {}, soft |-> {}]
Last(f) == Max(f.bars)

\* series[-n:] of a sorted series.
Newest(n, S) == {b \in S : Cardinality({c \in S : c > b}) < n}

Cut(n, f) == LET kept == Newest(n, f.bars) IN [bars |-> kept, soft |-> f.soft \cap kept]

\* The bar ended, at least Lag ago.  (For 1W the code's clock takes a bar to last
\* an hour; the exchange's mark of the forming row decides before it.)
Settled(b) == b < bar /\ (b = bar - 1 => now - opened >= Lag)

\* drop_unclosed_candle looks at the last candle only.
DropUnclosed(f) ==
    IF f.bars = {} \/ Settled(Last(f)) THEN f
    ELSE [bars |-> f.bars \ {Last(f)}, soft |-> f.soft \ {Last(f)}]

ParseUnconfirmed(bars, forming, n) ==     \* mutant: the confirm flag is not read
    DropUnclosed(Cut(n, [bars |-> bars, soft |-> bars \cap forming]))

\* _parse_kline_rows: rows that were forming when the exchange answered are
\* dropped, whatever the clock says now.
Parse(bars, forming, n) ==
    DropUnclosed(Cut(n, [bars |-> bars \ forming, soft |-> {}]))

JoinUntrimmed(old, new, n) ==             \* mutant: the history only grows
    [bars |-> old.bars \cup new.bars, soft |-> (old.soft \ new.bars) \cup new.soft]

\* _merge_parsed_klines: the new candle wins.
Join(old, new, n) ==
    Cut(n, [bars |-> old.bars \cup new.bars, soft |-> (old.soft \ new.bars) \cup new.soft])

\* The last open is more than two bars and the slack ago.
TooOldBar(b) == bar - b > 2 \/ (bar - b = 2 /\ now - opened > Slack)
TooOld(f) == Watched /\ f.bars # {} /\ TooOldBar(Last(f))

-----------------------------------------------------------------------------
(***************************************************************************)
(* The candle the WebSocket adds.                                          *)
(***************************************************************************)
NoCandle == [bar |-> -1, whole |-> TRUE, at |-> 0]

\* get_last_closed_candle
Offered == closed # NoCandle /\ now - closed.at <= ClosedAge

Newer(f) == f.bars # {} /\ Offered /\ closed.bar > Last(f)

\* One and a half bars, in whole bars.
Gap(f) == Newer(f) /\ closed.bar - Last(f) > 1

MergeOverGaps(f) ==                       \* mutant: gaps are not looked for
    IF ~Newer(f) THEN f
    ELSE [bars |-> f.bars \cup {closed.bar},
          soft |-> IF closed.whole THEN f.soft ELSE f.soft \cup {closed.bar}]

\* _merge_ws_closed_candle
Merged(f) ==
    IF ~Newer(f) \/ Gap(f) THEN f
    ELSE [bars |-> f.bars \cup {closed.bar},
          soft |-> IF closed.whole THEN f.soft ELSE f.soft \cup {closed.bar}]

PublishAnything(f) == store' = f          \* mutant: an empty frame is published too

\* _publish_ohlcv
Publish(f) == store' = IF f.bars = {} THEN store ELSE f

-----------------------------------------------------------------------------
NoEntry == [at |-> 0, frame |-> NoFrame]
Idle == [pc |-> "idle", data |-> NoFrame, rows |-> {}, forming |-> {}, since |-> 0]

Init ==
    /\ kind \in Kinds /\ now = 0 /\ bar = FirstBar /\ opened = 0
    /\ link = "down" /\ live = NoCandle /\ closed = NoCandle
    /\ cache = [n \in Limits |-> NoEntry] /\ disk = [n \in Limits |-> NoEntry]
    /\ store = NoFrame /\ fetch = [n \in Limits |-> Idle]
    /\ restarts = 0

-----------------------------------------------------------------------------
(***************************************************************************)
(* The WebSocket.                                                          *)
(***************************************************************************)
CloseOnAnyPush ==                         \* mutant: every push closes the candle before
    closed' = IF live = NoCandle THEN closed ELSE live

\* A candle whose timestamp changes has closed.
Rollover ==
    closed' = IF live = NoCandle \/ live.bar = bar THEN closed ELSE live

\* _store_candle for a push of the forming candle.
StoreCandle == Rollover /\ live' = [bar |-> bar, whole |-> TRUE, at |-> now]

Connect ==
    /\ link = "down" /\ link' = "open"
    /\ UNCHANGED <<clock, live, closed, cache, disk, store, fetch, restarts>>

\* The first push after the subscription, or a repeated one.
Push ==
    /\ link \in {"open", "fed"} /\ link' = "fed" /\ StoreCandle
    /\ UNCHANGED <<clock, cache, disk, store, fetch, restarts>>

\* A trade changes the forming candle, pushed to whoever is subscribed.
Trade ==
    /\ IF link = "fed" THEN StoreCandle
       ELSE /\ live' = IF live.bar = bar THEN [live EXCEPT !.whole = FALSE] ELSE live
            /\ UNCHANGED closed
    /\ UNCHANGED <<clock, link, cache, disk, store, fetch, restarts>>

\* The connection is dead, and the watchdog has not seen it yet.
Stall ==
    /\ link \in {"open", "fed"} /\ link' = "dead"
    /\ UNCHANGED <<clock, live, closed, cache, disk, store, fetch, restarts>>

Disconnect ==
    /\ link # "down" /\ link' = "down"
    /\ UNCHANGED <<clock, live, closed, cache, disk, store, fetch, restarts>>

-----------------------------------------------------------------------------
(***************************************************************************)
(* fetch_klines_ohlcv.                                                     *)
(***************************************************************************)
Ttl == IF link = "down" THEN TtlShort ELSE TtlLong

EntryFromDisk(n) ==                       \* mutant: the disk is read first
    IF disk[n] # NoEntry /\ Persists THEN disk[n] ELSE cache[n]

\* The entry in memory, or the one on disk.
Entry(n) == IF cache[n] = NoEntry /\ Persists THEN disk[n] ELSE cache[n]

Hit(n) ==
    LET f == Entry(n).frame IN
    /\ now - Entry(n).at < Ttl /\ ~Gap(f) /\ ~TooOld(Merged(f))

\* The bucket is below a fifth: what is there is returned, if not too old.
Spares(n, low) == low /\ ~TooOld(Entry(n).frame)

Answers(n, low) == Entry(n) # NoEntry /\ (Hit(n) \/ Spares(n, low))

Begins(n, place) ==
    fetch' = [fetch EXCEPT ![n] = [pc |-> place, data |-> Entry(n).frame,
                                   rows |-> {}, forming |-> {}, since |-> now]]

Look(n, low) ==
    /\ fetch[n].pc = "idle"
    /\ cache' = [cache EXCEPT ![n] = Entry(n)]
    /\ IF Answers(n, low)
       THEN Publish(Merged(Entry(n).frame)) /\ UNCHANGED fetch
       ELSE /\ Begins(n, IF Entry(n) # NoEntry /\ Persists THEN "delta" ELSE "full")
            /\ UNCHANGED store
    /\ UNCHANGED <<clock, ws, disk, restarts>>

At(n, place) == fetch[n].pc = place
Batch(n) == Min({n - Cardinality(fetch[n].rows), Page})

\* A reply: its rows, and whether the loop asks for another page.
Collects(n, chunk, next) ==
    fetch' = [fetch EXCEPT
        ![n].rows = @ \cup chunk,
        ![n].forming = @ \cup (chunk \cap {bar}),
        ![n].pc = IF Cardinality(chunk) < Batch(n)
                     \/ Cardinality(fetch[n].rows \cup chunk) >= n
                  THEN next ELSE @]

\* market/candles?before=: rows newer than the cursor.
Cursor(n) == IF fetch[n].rows = {} THEN Last(fetch[n].data) ELSE Max(fetch[n].rows)

DeltaPage(n) ==
    /\ At(n, "delta")
    /\ LET newer == (Cursor(n) + 1)..bar
           chunk == IF NewestFirst THEN {b \in newer : b > bar - Batch(n)}
                    ELSE {b \in newer : b <= Cursor(n) + Batch(n)}
       IN Collects(n, chunk, "merge")
    /\ UNCHANGED <<clock, ws, cache, disk, store, restarts>>

\* No answer to the first page: all is fetched anew; to a later one: what
\* there is will do.
DeltaFails(n) ==
    /\ At(n, "delta")
    /\ fetch' = [fetch EXCEPT ![n].pc = IF fetch[n].rows = {} THEN "full" ELSE "merge"]
    /\ UNCHANGED <<clock, ws, cache, disk, store, restarts>>

\* market/candles?after=: rows older than the oldest so far.
FullPage(n) ==
    /\ At(n, "full")
    /\ LET top == IF fetch[n].rows = {} THEN bar ELSE Min(fetch[n].rows) - 1
           chunk == {b \in 0..top : b > top - Batch(n)}
       IN Collects(n, chunk, "parse")
    /\ UNCHANGED <<clock, ws, cache, disk, store, restarts>>

\* Without a row the caller gets an empty frame.
FullFails(n) ==
    /\ At(n, "full")
    /\ fetch' = IF fetch[n].rows = {} THEN [fetch EXCEPT ![n] = Idle]
                ELSE [fetch EXCEPT ![n].pc = "parse"]
    /\ UNCHANGED <<clock, ws, cache, disk, store, restarts>>

\* Mutant: the frame that goes to the caller is kept.
KeepMerged(n, f, written) ==
    LET entry == [at |-> now, frame |-> Merged(f)] IN
    /\ cache' = [cache EXCEPT ![n] = entry]
    /\ disk' = IF written /\ Persists THEN [disk EXCEPT ![n] = entry] ELSE disk

\* The candle of the WebSocket is for the caller, not for the caches.
Keep(n, f, written) ==
    LET entry == [at |-> now, frame |-> f] IN
    /\ cache' = [cache EXCEPT ![n] = entry]
    /\ disk' = IF written /\ Persists THEN [disk EXCEPT ![n] = entry] ELSE disk

Ends(n, f, written) ==
    /\ fetch' = [fetch EXCEPT ![n] = Idle]
    /\ IF f.bars = {} THEN UNCHANGED <<cache, disk>> ELSE Keep(n, f, written)
    /\ Publish(Merged(f))
    /\ UNCHANGED <<clock, ws, restarts>>

\* The write to disk may fail.
EndDelta(n, written) ==
    /\ At(n, "merge")
    /\ Ends(n, Join(fetch[n].data, Parse(fetch[n].rows, fetch[n].forming, n), n), written)

EndFull(n, written) ==
    /\ At(n, "parse")
    /\ Ends(n, Parse(fetch[n].rows, fetch[n].forming, n), written)

\* WarmupController.seed_klines: a fresh frame of the disk.
Seed(n) ==
    /\ store = NoFrame /\ disk[n] # NoEntry /\ ~TooOld(disk[n].frame)
    /\ store' = disk[n].frame /\ cache' = [cache EXCEPT ![n] = disk[n]]
    /\ UNCHANGED <<clock, ws, disk, fetch, restarts>>

-----------------------------------------------------------------------------
(***************************************************************************)
(* Time, which each request's timeouts bound, and the process.             *)
(***************************************************************************)
Tick ==
    /\ \A n \in Limits : ~At(n, "idle") => now - fetch[n].since < CallTime
    /\ now' = now + 1
    /\ IF now' - opened = BarLen
       THEN bar < MaxBar /\ bar' = bar + 1 /\ opened' = now'
       ELSE UNCHANGED <<bar, opened>>
    /\ UNCHANGED <<kind, ws, cache, disk, store, fetch, restarts>>

Restart ==
    /\ restarts < MaxRestarts /\ restarts' = restarts + 1
    /\ link' = "down" /\ live' = NoCandle /\ closed' = NoCandle
    /\ cache' = [n \in Limits |-> NoEntry] /\ store' = NoFrame
    /\ fetch' = [n \in Limits |-> Idle]
    /\ UNCHANGED <<clock, disk>>

Feed(n) ==
    \/ \E low \in BOOLEAN : Look(n, low)
    \/ DeltaPage(n) \/ DeltaFails(n) \/ FullPage(n) \/ FullFails(n) \/ Seed(n)
    \/ \E written \in BOOLEAN : EndDelta(n, written) \/ EndFull(n, written)

Next ==
    \/ Connect \/ Push \/ Trade \/ Stall \/ Disconnect
    \/ \E n \in Limits : Feed(n)
    \/ Tick \/ Restart

Spec == Init /\ [][Next]_vars

-----------------------------------------------------------------------------
(***************************************************************************)
(* Properties.                                                             *)
(***************************************************************************)
Bars == 0..bar
Frames == {f \in [bars : SUBSET Bars, soft : SUBSET Bars] : f.soft \subseteq f.bars}
Candles == [bar : Bars, whole : BOOLEAN, at : 0..now] \cup {NoCandle}
Entries == [at : 0..now, frame : Frames]

Kept == {cache[n].frame : n \in Limits} \cup {disk[n].frame : n \in Limits}

CandleTypeOK ==
    /\ kind \in Kinds /\ now \in Nat /\ bar \in Nat /\ opened \in 0..now /\ now - opened < BarLen
    /\ link \in {"down", "open", "fed", "dead"} /\ live \in Candles /\ closed \in Candles
    /\ cache \in [Limits -> Entries] /\ disk \in [Limits -> Entries] /\ store \in Frames
    /\ fetch \in [Limits -> [pc : {"idle", "delta", "full", "merge", "parse"}, data : Frames,
                             rows : SUBSET Bars, forming : SUBSET Bars, since : 0..now]]
    /\ \A n \in Limits : Cardinality(cache[n].frame.bars) <= n /\ Cardinality(disk[n].frame.bars) <= n
    /\ restarts \in 0..MaxRestarts

\* "Luka >1 bar ... zrobiloby cicha dziure w serii": whatever page is lost and
\* whatever the WebSocket missed, no frame has a hole.
Unbroken(S) == \A a, c \in S : a..c \subseteq S
NoHoles == \A f \in Kept \cup {store} : Unbroken(f.bars)

\* "Never pass a known-open candle into indicators": not from a reply that
\* was under way when the bar ended, nor from the WebSocket.
OnlyClosed == \A f \in Kept \cup {store} : \A b \in f.bars : b < bar

\* What is kept has its final content; only the last candle of the frame of
\* the strategy can lack some trades.
KeptIsFinal ==
    /\ \A f \in Kept : f.soft = {}
    /\ \A b \in store.soft : b = Last(store)

\* Until the process ends no key forgets its newest candle, and the disk not
\* even then.
KnowledgeGrows ==
    [][\A n \in Limits :
        /\ disk[n] # NoEntry => disk'[n] # NoEntry /\ Last(disk'[n].frame) >= Last(disk[n].frame)
        /\ cache[n] # NoEntry /\ restarts' = restarts =>
               cache'[n] # NoEntry /\ Last(cache'[n].frame) >= Last(cache[n].frame)]_vars

(***************************************************************************)
(* The refinement mapping: of a frame only its bars are left.              *)
(***************************************************************************)
Promise == INSTANCE SeriesPromise WITH
               Keys  <- Limits,
               mem   <- [n \in Limits |-> cache[n].frame.bars],
               kept  <- [n \in Limits |-> disk[n].frame.bars],
               shown <- store.bars

\* The feed keeps its promise, where "newer than" is answered with the oldest
\* such rows: caches, disk and the frame of the strategy, through lost pages,
\* outages, failed writes and restarts, are runs of closed candles that only
\* move on, and the strategy sees at most one candle more than a cache.
KeepsSeries == Promise!Spec

\* get_last_closed_candle: "Ostatnia FAKTYCZNIE zamknieta swieca ... bezpieczna".
StoreIsFinal == store.soft = {}

\* Same place: the close of a bar is not "cos co powinno wygasac".
CloseIsRemembered ==
    [][link = "fed" /\ store.bars # {} /\ restarts' = restarts =>
           Last(store') >= Last(store)]_vars

\* disk_cache.py: "stara lista jest lepsza niz pusta po limicie".
OldBeatsNothing ==
    [][\A n \in Limits :
           At(n, "full") /\ fetch[n].rows = {} /\ fetch'[n] = Idle /\ restarts' = restarts =>
               cache[n] = NoEntry]_vars

=============================================================================
