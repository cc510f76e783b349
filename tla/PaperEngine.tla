---------------------------- MODULE PaperEngine ----------------------------
(***************************************************************************)
(* The running PAPER program: the bot thread of app.py (bot_loop), the     *)
(* threads that carry out operator commands (ThreadingHTTPServer and the   *)
(* UI call the methods of BotRuntime), and what they share: the engine     *)
(* flags, the risk state, the book of positions under trader.lock, the     *)
(* entry reservations, the protection attachments and the kill flag.       *)
(*                                                                         *)
(* trader.lock is re-entrant and guards closing; opening takes it only to  *)
(* append to the book.  Everything else open_position reads or writes (the *)
(* kill flag, the slots, the halt, the counter, the attachment) is done    *)
(* without it, so each of these is a step of its own.                      *)
(*                                                                         *)
(* Statements of one thread between which no other thread can do anything  *)
(* that matters to them are one step; so are the halt, the pause and the   *)
(* slot count at the head of a command.                                    *)
(*                                                                         *)
(* Prices, signals and sizes are a choice: any signal may appear, any gate *)
(* may refuse, any leg may earn or lose a unit.                            *)
(***************************************************************************)
EXTENDS RiskManager, FiniteSets, Functions

CONSTANTS
    Commanders,   \* threads that carry out operator commands
    Bot,          \* the thread of bot_loop
    Symbols,
    Nobody,       \* no thread holds the lock; no symbol; no attachment
    MaxTrades,    \* bound: positions ever opened
    Stages,       \* partial take-profits of a position (two in the code)
    MaxDays,      \* bound: midnights
    MaxBoots,     \* bound: restarts of the process
    Commands      \* bound: the commands the operator gives

ASSUME EngineAssumption ==
    /\ Bot \notin Commanders /\ Nobody \notin Commanders \cup {Bot}
    /\ Nobody \notin Symbols /\ IsFiniteSet(Symbols)
    /\ {MaxTrades, Stages, MaxDays, MaxBoots} \subseteq Nat
    /\ Commands \subseteq
          {"start_analysis", "start_trading", "stop_trading", "stop_engine",
           "pause", "resume", "reduce_only", "close_all", "close_symbol",
           "kill_switch", "refresh"}

VARIABLES
    engine,    \* engine_enabled
    trading,   \* trading_enabled
    risk,      \* the RiskManager record
    pos,       \* [Trades -> position]: the book and its history
    lock,      \* holder of trader.lock
    pc, task,  \* where a thread is, and why it wants the book
    target,    \* the symbol a thread works on
    seen,      \* the halt reason start_trading has read
    cap,       \* the paper_capital a thread's apply_demo_capital has read
    tick,      \* the kind of pass the bot is in
    work,      \* trades the holder of the lock has to close (or has passed)
    cands,     \* signals the scan has not tried yet
    rows,      \* symbols with an entry reservation
    armed,     \* [Symbols -> trade whose structural stop is attached]
    killed,    \* the kill flag, in memory and on disk
    today, boots,
    missed     \* history: legs booked while an account sync was under way

vars == <<engine, trading, risk, pos, lock, pc, task, target, seen, cap,
          tick, work, cands, rows, armed, killed, today, boots, missed>>

Threads == Commanders \cup {Bot}
Trades  == 1..MaxTrades
Legs    == {-1, 1}

Unborn == [st |-> "unborn", sym |-> Nobody, part |-> 0, stage |-> 0,
           res |-> 0, late |-> FALSE]

Open   == {t \in Trades : pos[t].st = "open"}            \* trader.positions
Born   == {t \in Trades : pos[t].st # "unborn"}
Traded == {t \in Born : pos[t].st \notin {"void", "gone"}}
Newest == Cardinality(Born)                              \* the last one opened
NumOpen == Cardinality(Open)

\* Mutant: a lock its own holder cannot take again.
LockIsFree(c) == lock = Nobody

\* The lock is re-entrant: its holder may take it again.
LockFreeFor(c) == lock \in {Nobody, c}

\* Thread c has nothing in hand and is given a command.
Given(c, command) == pc[c] = "idle" /\ command \in Commands

Goto(c, label) == pc' = [pc EXCEPT ![c] = label]

\* Thread c goes for the lock in order to do `why`.
WantBook(c, why) == Goto(c, "wait") /\ task' = [task EXCEPT ![c] = why]

book     == <<pos, lock, work>>
flags    == <<engine, trading>>
entry    == <<cands, rows>>
outside  == <<killed, today, boots, missed>>
thread   == <<target, seen, cap, tick>>

Init ==
    /\ engine = FALSE /\ trading = FALSE
    /\ today = 0 /\ boots = 0 /\ killed = FALSE
    /\ risk = FreshRisk(0)
    /\ pos = [t \in Trades |-> Unborn]
    /\ lock = Nobody /\ work = {}
    /\ pc = [c \in Threads |-> "idle"]
    /\ task = [c \in Threads |-> "none"]
    /\ target = [c \in Threads |-> Nobody]
    /\ seen = [c \in Threads |-> NoReason]
    /\ cap = [c \in Threads |-> 0] /\ tick = "monitor"
    /\ cands = {} /\ rows = {} /\ missed = 0
    /\ armed = [s \in Symbols |-> 0]

-----------------------------------------------------------------------------
(***************************************************************************)
(* Closing.  check_exits, close_by_symbol, on_engine_stop and close_all    *)
(* each take trader.lock and close positions under it, one after another.  *)
(***************************************************************************)

\* What the holder of the lock will close.  close_by_symbol looks the symbol
\* up again; on_engine_stop closes what is in profit, or nothing when the
\* prices are stale; close_all takes everything.
ToClose(c) ==
    CASE task[c] = "stop"   -> SUBSET Open
      [] task[c] = "symbol" -> {{t \in Open : pos[t].sym = target[c]}}
      [] OTHER              -> {Open}

TakeBook(c) ==
    /\ pc[c] = "wait" /\ LockFreeFor(c)
    /\ lock' = c
    /\ IF task[c] = "manage"
       THEN Goto(c, "checking") /\ work' = {}
       ELSE Goto(c, "closing") /\ work' \in ToClose(c)
    /\ UNCHANGED <<pos, risk, task, armed, flags, thread, entry, outside>>

Syncing == \E c \in Threads : pc[c] = "syncing"

\* A leg is booked, beside a sync or not.
Miss == missed' = IF Syncing THEN missed + 1 ELSE missed

\* check_exits meets a position whose next take-profit stage is reached.
PartialClose(c, t) ==
    /\ pc[c] = "checking" /\ t \in Open \ work /\ pos[t].stage < Stages
    /\ work' = work \cup {t}
    /\ \E leg \in Legs :
          /\ pos' = [pos EXCEPT ![t].part = @ + leg, ![t].stage = @ + 1]
          /\ risk' = UpdateCapital(risk, leg, today)
    /\ Miss
    /\ UNCHANGED <<lock, pc, task, armed, flags, thread, entry, killed, today, boots>>

\* check_exits has passed over the whole list: to_close is known.
DecideExits(c) ==
    /\ pc[c] = "checking"
    /\ work' \in SUBSET (Open \ work)
    /\ Goto(c, "closing")
    /\ UNCHANGED <<pos, lock, risk, task, armed, flags, thread, entry, outside>>

\* close_position, up to the removal from the list.  on_engine_stop only
\* closes what earns after costs.
CloseOne(c, t) ==
    /\ pc[c] = "closing" /\ t \in work
    /\ \E leg \in IF task[c] = "stop" THEN {1} ELSE Legs :
          pos' = [pos EXCEPT ![t].st = "booking", ![t].res = leg]
    /\ work' = work \ {t}
    /\ Goto(c, "booking")
    /\ UNCHANGED <<lock, risk, task, armed, flags, thread, entry, outside>>

BookAmount(c, t, amount) ==
    /\ pc[c] = "booking" /\ pos[t].st = "booking"
    /\ pos' = [pos EXCEPT ![t] = [Unborn EXCEPT !.st = "closed", !.late = pos[t].late,
                                   !.res = pos[t].res + pos[t].part]]
    /\ armed' = [armed EXCEPT ![pos[t].sym] = 0]
    /\ risk' = UpdateCapital(RegisterClose(risk), amount, today)
    /\ Goto(c, "closing") /\ Miss
    /\ UNCHANGED <<lock, work, task, flags, thread, entry, killed, today, boots>>

\* Mutant: the complete result is booked, partial legs a second time.
BookWholeResult(c, t) == BookAmount(c, t, pos[t].res + pos[t].part)

\* The rest of close_position: the counter, disarm, and the final leg only.
\* The closed position keeps its complete result.
BookClose(c, t) == BookAmount(c, t, pos[t].res)

\* What follows the locked section.
AfterBook(c) ==
    CASE task[c] = "manage" /\ tick # "monitor" -> "drawdown"
      [] task[c] = "drawdown"                   -> "daily"
      [] task[c] = "daily" /\ tick = "full"     -> "scan"
      [] task[c] = "kill"                       -> "flag"
      [] OTHER                                  -> "idle"

ReleaseBook(c) ==
    /\ pc[c] = "closing" /\ work = {}
    /\ lock' = Nobody
    /\ Goto(c, AfterBook(c))
    /\ task' = [task EXCEPT ![c] = "none"]
    /\ target' = [target EXCEPT ![c] = Nobody]
    /\ UNCHANGED <<pos, work, risk, seen, cap, tick, armed, flags, entry, outside>>

-----------------------------------------------------------------------------
(***************************************************************************)
(* Operator commands: the methods of BotRuntime.                           *)
(***************************************************************************)
StartAnalysis(c) ==
    /\ Given(c, "start_analysis")
    /\ engine' = TRUE
    /\ risk' = [risk EXCEPT !.paused = @ \/ ~trading]
    /\ UNCHANGED <<trading, pc, task, armed, book, thread, entry, outside>>

\* start_trading reads the halt reason first ...
StartTrading(c) ==
    /\ Given(c, "start_trading")
    /\ engine' = TRUE /\ trading' = TRUE
    /\ risk' = [risk EXCEPT !.paused = FALSE]
    /\ seen' = [seen EXCEPT ![c] = risk.reason]
    /\ Goto(c, "started")
    /\ UNCHANGED <<task, target, cap, tick, armed, book, entry, outside>>

\* ... and then clears the halt it finds, unless the reason it read is hard.
StartClears(c) ==
    /\ pc[c] = "started"
    /\ LET r == IF risk.halted /\ ~IsHardHalt(seen[c]) THEN Unhalt(risk) ELSE risk
       IN  risk' = SyncOpenCount(r, NumOpen)
    /\ seen' = [seen EXCEPT ![c] = NoReason]
    /\ Goto(c, "idle")
    /\ UNCHANGED <<task, target, cap, tick, armed, flags, book, entry, outside>>

StopTrading(c) ==
    /\ Given(c, "stop_trading")
    /\ trading' = FALSE
    /\ risk' = [risk EXCEPT !.paused = TRUE]
    /\ UNCHANGED <<engine, pc, task, armed, book, thread, entry, outside>>

StopEngine(c) ==
    /\ Given(c, "stop_engine")
    /\ engine' = FALSE /\ trading' = FALSE
    /\ risk' = [risk EXCEPT !.paused = TRUE]
    /\ WantBook(c, "stop")
    /\ UNCHANGED <<armed, book, thread, entry, outside>>

Pause(c) ==
    /\ Given(c, "pause")
    /\ risk' = [risk EXCEPT !.paused = TRUE]
    /\ UNCHANGED <<pc, task, armed, flags, book, thread, entry, outside>>

\* Clears a halt with a reason that is not hard; the program writes none.
Resume(c) ==
    /\ Given(c, "resume")
    /\ LET soft == risk.halted /\ risk.reason # NoReason /\ ~IsHardHalt(risk.reason)
           r == IF soft THEN Unhalt(risk) ELSE risk
       IN  risk' = [r EXCEPT !.paused = FALSE]
    /\ UNCHANGED <<pc, task, armed, flags, book, thread, entry, outside>>

SetReduceOnly(c, on) ==
    /\ Given(c, "reduce_only")
    /\ risk' = [risk EXCEPT !.reduceOnly = on]
    /\ UNCHANGED <<pc, task, armed, flags, book, thread, entry, outside>>

\* BotRuntime.close_all holds the lock around PaperTrader.close_all, which
\* takes it again.
CloseAll(c) ==
    /\ Given(c, "close_all")
    /\ Goto(c, "outer")
    /\ UNCHANGED <<risk, task, armed, flags, book, thread, entry, outside>>

CloseAllLocks(c) ==
    /\ pc[c] = "outer" /\ LockFreeFor(c)
    /\ lock' = c
    /\ WantBook(c, "close_all")
    /\ UNCHANGED <<risk, pos, work, armed, flags, thread, entry, outside>>

\* The position is looked up without the lock, for its price.
CloseSymbol(c, s) ==
    /\ Given(c, "close_symbol") /\ \E t \in Open : pos[t].sym = s
    /\ target' = [target EXCEPT ![c] = s]
    /\ WantBook(c, "symbol")
    /\ UNCHANGED <<risk, seen, cap, tick, armed, flags, book, entry, outside>>

\* kill_switch halts, closes everything, and sets the kill flag last.
KillSwitch(c) ==
    /\ Given(c, "kill_switch")
    /\ engine' = FALSE
    /\ risk' = KillHalt(risk)
    /\ WantBook(c, "kill")
    /\ UNCHANGED <<trading, armed, book, thread, entry, outside>>

\* AccountSync.sync in PAPER: apply_demo_capital restores the current capital
\* from paper_capital, without the lock.  It reads first.  (A close, too, takes
\* the two numbers one after the other; that order loses no more legs.)
BeginSync(c) == cap' = [cap EXCEPT ![c] = risk.paper] /\ Goto(c, "syncing")

\* The screens sync too, whenever they are refreshed.
RefreshScreen(c) ==
    /\ Given(c, "refresh") /\ BeginSync(c)
    /\ UNCHANGED <<risk, task, target, seen, tick, armed, flags, book, entry, outside>>

KillFlag(c) ==
    /\ pc[c] = "flag"
    /\ killed' = TRUE
    /\ Goto(c, "idle")
    /\ UNCHANGED <<risk, task, armed, today, boots, missed, flags, book, thread, entry>>

\* The bot carries out the control files PAUSE, RESUME and CLOSE_ALL itself.
ControlFile == Pause(Bot) \/ Resume(Bot) \/ CloseAll(Bot)

Command(c) ==
    \/ StartAnalysis(c) \/ StartTrading(c) \/ StopTrading(c) \/ StopEngine(c)
    \/ Pause(c) \/ Resume(c) \/ CloseAll(c) \/ KillSwitch(c) \/ RefreshScreen(c)
    \/ \E on \in BOOLEAN : SetReduceOnly(c, on)
    \/ \E s \in Symbols : CloseSymbol(c, s)

-----------------------------------------------------------------------------
(***************************************************************************)
(* The bot loop.  With the engine off it only watches open positions; with *)
(* the engine on a fast tick manages them, a full scan also tries entries. *)
(* A tick without fresh prices, or during warm-up, changes nothing here; a *)
(* scan on stale data only manages, like the watch.                        *)
(***************************************************************************)
\* A fast tick begins with the account sync.
TickStarts(kind) ==
    /\ pc[Bot] = "idle"
    /\ kind \in IF engine THEN {"monitor", "fast", "full"} ELSE {"monitor"}
    /\ tick' = kind
    /\ IF kind = "fast"
       THEN BeginSync(Bot) /\ UNCHANGED task
       ELSE (kind = "full" \/ Open # {}) /\ WantBook(Bot, "manage") /\ UNCHANGED cap
    /\ UNCHANGED <<risk, target, seen, armed, flags, book, entry, outside>>

\* The write of it.  The bot goes on with the positions, a screen does not.
SyncAccount(c) ==
    /\ pc[c] = "syncing"
    /\ risk' = ApplyDemoCapital(risk, cap[c])
    /\ cap' = [cap EXCEPT ![c] = 0]
    /\ IF c = Bot /\ Open # {} THEN WantBook(c, "manage") ELSE Goto(c, "idle") /\ UNCHANGED task
    /\ UNCHANGED <<target, seen, tick, armed, flags, book, entry, outside>>

\* check_drawdown: once something was traded, equity, open profit included,
\* may be any amount below its peak.  At the limit everything is closed.
DrawdownCheck ==
    /\ pc[Bot] = "drawdown"
    /\ \E deep \in IF Traded # {} THEN BOOLEAN ELSE {FALSE} :
          /\ risk' = IF deep THEN Halt(risk, Drawdown) ELSE risk
          /\ IF deep /\ Open # {}
             THEN WantBook(Bot, "drawdown")
             ELSE Goto(Bot, "daily") /\ UNCHANGED task
    /\ UNCHANGED <<armed, flags, book, thread, entry, outside>>

AfterDaily == IF tick = "full" THEN "scan" ELSE "idle"

\* Mutant: the daily halt only stops entries.
DailyCheckOnlyHalts ==
    /\ pc[Bot] = "daily"
    /\ Goto(Bot, AfterDaily)
    /\ UNCHANGED <<risk, task, armed, flags, book, thread, entry, outside>>

DailyCheck ==
    /\ pc[Bot] = "daily"
    /\ IF risk.halted /\ risk.reason = Daily /\ Open # {}
       THEN WantBook(Bot, "daily")
       ELSE Goto(Bot, AfterDaily) /\ UNCHANGED task
    /\ UNCHANGED <<risk, armed, flags, book, thread, entry, outside>>

\* The full scan resets the counter, then looks at the gates once.
Scan ==
    /\ pc[Bot] = "scan"
    /\ risk' = SyncOpenCount(risk, NumOpen)
    /\ IF trading /\ ~risk.paused /\ ~risk.halted
       THEN cands' \in SUBSET Symbols /\ Goto(Bot, "entries")
       ELSE cands' = {} /\ Goto(Bot, "idle")
    /\ UNCHANGED <<task, rows, armed, flags, book, thread, outside>>

-----------------------------------------------------------------------------
(***************************************************************************)
(* open_position, for one signal after another (a due limit order is one). *)
(***************************************************************************)
\* As a mutant: open_position does not ask the kill flag.
LookAnyway(s) ==
    /\ pc[Bot] = "entries" /\ s \in cands /\ Newest < MaxTrades
    /\ cands' = cands \ {s}
    /\ risk' = SyncOpenCount(risk, NumOpen)
    /\ target' = [target EXCEPT ![Bot] = s]
    /\ Goto(Bot, "looked")
    /\ UNCHANGED <<task, seen, cap, tick, rows, armed, flags, book, outside>>

\* The kill flag is asked first, and not again.
Look(s) == ~killed /\ LookAnyway(s)

\* Mutant: only the reservations are asked for the symbol, not the book.
ReserveOnRows ==
    /\ pc[Bot] = "looked"
    /\ LET s == target[Bot]
           free == s \notin rows /\ NumOpen + Cardinality(rows) < MaxPositions
       IN  IF free
           THEN rows' = rows \cup {s} /\ Goto(Bot, "reserved")
           ELSE UNCHANGED rows /\ Goto(Bot, "entries")
    /\ UNCHANGED <<risk, task, cands, armed, flags, book, thread, outside>>

\* One position per symbol, one reservation per symbol, and a slot.
Reserve ==
    /\ pc[Bot] = "looked"
    /\ LET s == target[Bot]
           free == /\ \A t \in Open : pos[t].sym # s
                   /\ s \notin rows
                   /\ NumOpen + Cardinality(rows) < MaxPositions
       IN  IF free
           THEN rows' = rows \cup {s} /\ Goto(Bot, "reserved")
           ELSE UNCHANGED rows /\ Goto(Bot, "entries")
    /\ UNCHANGED <<risk, task, cands, armed, flags, book, thread, outside>>

\* The kill flag, a full counter or the signal itself: no attempt is made.
PassOver(s) ==
    /\ pc[Bot] = "entries" /\ s \in cands
    /\ cands' = cands \ {s}
    /\ risk' = IF killed THEN risk ELSE SyncOpenCount(risk, NumOpen)
    /\ UNCHANGED <<pc, task, rows, armed, flags, book, thread, outside>>

EndEntries ==
    /\ pc[Bot] = "entries" /\ cands = {}
    /\ Goto(Bot, "idle")
    /\ UNCHANGED <<risk, task, armed, flags, book, thread, entry, outside>>

\* can_open_position; any other filter, the size or a parked limit refuses.
RiskGate ==
    /\ pc[Bot] = "reserved"
    /\ LET r == CheckNewDay(risk, today)
       IN  /\ risk' = r
           /\ \/ CanOpen(r) /\ Goto(Bot, "approved") /\ UNCHANGED rows
              \/ Goto(Bot, "entries") /\ rows' = rows \ {target[Bot]}
    /\ UNCHANGED <<task, cands, armed, flags, book, thread, outside>>

\* An exception: after reserve the row stays behind.  The limit queue goes on
\* to the signals, otherwise the cycle is over.
OpenRaises ==
    /\ pc[Bot] \in {"looked", "reserved", "approved"}
    /\ \/ Goto(Bot, "entries") /\ UNCHANGED cands
       \/ Goto(Bot, "idle") /\ cands' = {}
    /\ UNCHANGED <<risk, task, rows, armed, flags, book, thread, outside>>

RowExpires(s) ==
    /\ s \in rows
    /\ rows' = rows \ {s}
    /\ UNCHANGED <<risk, pc, task, cands, armed, flags, book, thread, outside>>

\* Mutant: the append does not wait for trader.lock.
AppendUnlocked ==
    /\ pc[Bot] = "approved"
    /\ pos' = [pos EXCEPT ![Newest + 1] =
                  [Unborn EXCEPT !.st = "open", !.sym = target[Bot], !.late = killed]]
    /\ rows' = rows \ {target[Bot]}
    /\ Goto(Bot, "appended")
    /\ UNCHANGED <<lock, work, risk, task, cands, armed, flags, thread, outside>>

Append == LockFreeFor(Bot) /\ AppendUnlocked

\* The risk invariant fails on the filled price: the position is taken back.
Void ==
    /\ pc[Bot] = "appended" /\ LockFreeFor(Bot)
    /\ pos' = IF Newest \in Open
              THEN [pos EXCEPT ![Newest] =
                      [Unborn EXCEPT !.st = "void", !.late = pos[Newest].late]]
              ELSE pos
    /\ Goto(Bot, "entries")
    /\ UNCHANGED <<lock, work, risk, task, armed, flags, thread, entry, outside>>

Register ==
    /\ pc[Bot] = "appended"
    /\ risk' = RegisterOpen(risk)
    /\ Goto(Bot, "registered")
    /\ UNCHANGED <<task, armed, flags, book, thread, entry, outside>>

\* attach_protection: an attachment still there keeps its structural stop.
Attach ==
    /\ pc[Bot] = "registered"
    /\ armed' = [armed EXCEPT ![target[Bot]] = IF @ = 0 THEN Newest ELSE @]
    /\ Goto(Bot, "entries")
    /\ UNCHANGED <<risk, task, flags, book, thread, entry, outside>>

-----------------------------------------------------------------------------
(***************************************************************************)
(* Around the threads.                                                     *)
(***************************************************************************)
DayRolls ==
    /\ today < MaxDays
    /\ today' = today + 1
    /\ UNCHANGED <<risk, pc, task, armed, killed, boots, missed, flags, book, thread, entry>>

\* get_status, which every reader of the state calls, notices the new day.
GetStatus ==
    /\ risk.day # today
    /\ risk' = CheckNewDay(risk, today)
    /\ UNCHANGED <<pc, task, armed, flags, book, thread, entry, outside>>

\* The process dies and starts again.  A PAPER session begins with an empty
\* book and its starting capital; the attachments and the kill flag are on
\* disk, and the flag halts and pauses the new session.
Restart ==
    /\ boots < MaxBoots /\ boots' = boots + 1
    /\ engine' = FALSE /\ trading' = FALSE
    /\ risk' = IF killed THEN KillHalt(FreshRisk(today)) ELSE FreshRisk(today)
    /\ pos' = [t \in Trades |->
                  IF t \in Born THEN [Unborn EXCEPT !.st = "gone", !.late = pos[t].late]
                  ELSE Unborn]
    /\ lock' = Nobody /\ work' = {}
    /\ pc' = [c \in Threads |-> "idle"]
    /\ task' = [c \in Threads |-> "none"]
    /\ target' = [c \in Threads |-> Nobody]
    /\ seen' = [c \in Threads |-> NoReason]
    /\ cap' = [c \in Threads |-> 0] /\ tick' = "monitor"
    /\ cands' = {} /\ rows' = {} /\ missed' = 0
    /\ UNCHANGED <<armed, killed, today>>

\* The steps of a thread that has begun something and is not waiting.
Proceeds(c) ==
    \/ \E t \in Trades : PartialClose(c, t) \/ CloseOne(c, t) \/ BookClose(c, t)
    \/ DecideExits(c) \/ ReleaseBook(c) \/ StartClears(c) \/ KillFlag(c) \/ SyncAccount(c)

BotProceeds ==
    \/ DrawdownCheck \/ DailyCheck \/ Scan
    \/ \E s \in Symbols : Look(s) \/ PassOver(s)
    \/ EndEntries \/ Reserve \/ RiskGate \/ OpenRaises
    \/ Append \/ Void \/ Register \/ Attach

Next ==
    \/ \E c \in Threads : TakeBook(c) \/ CloseAllLocks(c) \/ Proceeds(c)
    \/ \E c \in Commanders : Command(c)
    \/ ControlFile \/ BotProceeds
    \/ \E kind \in {"monitor", "fast", "full"} : TickStarts(kind)
    \/ \E s \in Symbols : RowExpires(s)
    \/ DayRolls \/ GetStatus \/ Restart

Spec == Init /\ [][Next]_vars

(***************************************************************************)
(* A thread goes on with what it has begun, and one that keeps asking for  *)
(* the lock gets it: a holder keeps it for one command only, and the bot   *)
(* sleeps between ticks.  While the engine is on and positions are open    *)
(* the loop comes to a tick with fresh prices.  Nothing makes an operator  *)
(* or a signal act.                                                        *)
(***************************************************************************)
Fairness ==
    /\ \A c \in Threads : /\ WF_vars(Proceeds(c))
                          /\ SF_vars(TakeBook(c) \/ CloseAllLocks(c))
    /\ WF_vars(BotProceeds)
    /\ SF_vars(TickStarts("fast") \/ TickStarts("full"))

FairSpec == Spec /\ Fairness

-----------------------------------------------------------------------------
(***************************************************************************)
(* Properties.                                                             *)
(***************************************************************************)
States == {"unborn", "open", "booking", "closed", "void", "gone"}

\* The variables have their types.  In particular open_positions_count stays
\* between zero and one more than the positions, though a command may close a
\* position before register_open has counted it, and start_trading may count
\* it first.
TypeOK ==
    /\ {engine, trading, killed} \subseteq BOOLEAN
    /\ today \in 0..MaxDays /\ boots \in 0..MaxBoots
    /\ risk \in [halted: BOOLEAN, paused: BOOLEAN, reduceOnly: BOOLEAN,
                 reason: {NoReason, Daily, Drawdown, Killed},
                 count: 0..(MaxTrades + 1), profit: Int, paper: Int, daily: Int,
                 day: 0..MaxDays]
    /\ pos \in [Trades -> [st: States, sym: Symbols \cup {Nobody}, part: Int,
                          stage: 0..Stages, res: Int, late: BOOLEAN]]
    /\ lock \in Threads \cup {Nobody} /\ work \subseteq Trades
    /\ DOMAIN pc = Threads /\ DOMAIN task = Threads
    /\ target \in [Threads -> Symbols \cup {Nobody}]
    /\ seen \in [Threads -> {NoReason, Daily, Drawdown, Killed}]
    /\ cap \in [Threads -> Int] /\ missed \in Nat /\ tick \in {"monitor", "fast", "full"}
    /\ cands \subseteq Symbols /\ rows \subseteq Symbols
    /\ armed \in [Symbols -> 0..MaxTrades]

\* What a trade has earned in this session: its partial legs while it is live,
\* its complete result once it is closed.
Earned(t) ==
    CASE pos[t].st = "closed" -> pos[t].res
      [] pos[t].st \in {"open", "booking"} -> pos[t].part
      [] OTHER -> 0

\* Every leg realised in this session: the partial legs of every position and
\* the final leg of the closed ones.
RealisedLegs == SumFunction([t \in Trades |-> Earned(t)])

\* The capital is the starting capital plus every leg realised, each once,
\* however commands and the bot race to close the positions.  What it can be
\* off by are the legs booked beside an account sync, and a sync is off by no
\* more however often it is repeated.
CapitalAddsUp == risk.profit - RealisedLegs \in (-missed)..missed

BeingOpened(t) == t = Newest /\ pc[Bot] \in {"appended", "registered"}

\* A position that open_position has finished opening has an attachment, so
\* the local stop watches it: no late disarm of an earlier position of the
\* same symbol takes it away.
ProtectedWhileOpen ==
    \A t \in Open : armed[pos[t].sym] # 0 \/ BeingOpened(t)

\* Once the kill flag is set at most one position is ever opened again, the
\* one already past the flag's check; restarts and Start included, and even
\* when midnight lifts a halt that a daily loss wrote over the kill's.
KillStopsEntries == Cardinality({t \in Trades : pos[t].late}) <= 1

DailyHalted == risk.halted /\ risk.reason = Daily

\* A daily-loss halt with positions open flattens the book, as long as the
\* engine stays on and nothing changes the halt.
DailyHaltFlattens ==
    (engine /\ DailyHalted /\ Open # {})
        ~> (Open = {} \/ ~engine \/ ~DailyHalted)

\* Every command returns: no command waits for trader.lock for ever, not
\* even close_all, which takes the lock twice.
CommandsReturn ==
    \A c \in Commanders : pc[c] # "idle" ~> pc[c] = "idle"

(***************************************************************************)
(* The refinement mapping.  A position being booked is still live: it is   *)
(* off the list, but its symbol, its attachment and its last leg are not   *)
(* settled.                                                                *)
(***************************************************************************)
LifeOf(t) ==
    CASE pos[t].st = "unborn" -> "new"
      [] pos[t].st \in {"open", "booking"} -> "live"
      [] pos[t].st = "closed" -> "settled"
      [] OTHER -> "over"

HeldBy(t) == IF LifeOf(t) = "live" THEN pos[t].sym ELSE Nobody

Statement == INSTANCE BookPromise WITH
                 life    <- [t \in Trades |-> LifeOf(t)],
                 holds   <- [t \in Trades |-> HeldBy(t)],
                 earned  <- [t \in Trades |-> Earned(t)],
                 capital <- risk.profit,
                 syncing <- Syncing,
                 missed  <- missed,
                 Total   <- SumFunction

\* The book keeps its promise: whatever threads do to it at a time, each trade
\* is opened and settled once, alone in its symbol, each leg is booked once and
\* in one step with its trade, and a sync loses no leg but those booked beside one.
KeepsBook == Statement!Spec

(***************************************************************************)
(* What the sources say and the code does not keep.                        *)
(***************************************************************************)
\* paper_trader.py: partial legs were credited when they filled, the final one
\* is booked by the close.  So paper_capital, from which every account sync
\* restores the capital, has every leg.
NoLegLost == risk.paper = RealisedLegs

\* runtime.py: hard halts are those a Start or Resume "must never clear".
StartKeepsHardHalt ==
    [][\A c \in Commanders :
          StartClears(c) /\ risk.halted /\ IsHardHalt(risk.reason)
              => risk'.halted]_vars

\* runtime.py: kill_switch halts at once, "zero new entries": nothing is
\* opened after it has closed the book.
NothingOpensAfterKill == \A t \in Trades : ~pos[t].late

\* protection.py: an attachment is the protection state of one position, so
\* the stop attached for a position is that position's.
AttachmentIsOwn ==
    \A t \in Open : armed[pos[t].sym] = t \/ BeingOpened(t)

=============================================================================
