----------------------------- MODULE LiveVenue ------------------------------
(***************************************************************************)
(* The LIVE program against its exchange account: the local book, the      *)
(* protective stops it keeps at the exchange (protection.py), the          *)
(* reconciler that compares book and account and blocks entries            *)
(* (position_reconciler.py, account_sync.py), the emergency close of the   *)
(* kill switch and of close_all (blofin_executor.py, runtime.py), and the  *)
(* recovery that runs before the loop (restart_recovery.py).               *)
(*                                                                         *)
(* In LIVE the simulator may not open positions and nothing else does: the *)
(* book holds what the state file restored, the account what its owner and *)
(* working orders bring.  One direction per symbol.  The halts are the     *)
(* subject of HaltFlags.                                                   *)
(*                                                                         *)
(* A stop is placed, or cancelled and placed again, request by request:    *)
(* between two of them, and between a request and its answer, the stop may *)
(* fire, the account may change and the process may die.  The bot keeps    *)
(* trader.lock all the while, so commands that close the book wait for it; *)
(* the kill's own requests do not.                                         *)
(***************************************************************************)
EXTENDS Integers, FiniteSets

CONSTANTS
    Symbols,
    MaxSize,      \* contracts of a position
    MaxLevel,     \* levels of a stop
    MaxBoots,     \* bound: restarts
    MaxMoves      \* bound: changes of the account made by others

ASSUME VenueAssumption ==
    /\ IsFiniteSet(Symbols)
    /\ {MaxSize, MaxLevel, MaxBoots, MaxMoves} \subseteq Nat
    /\ MaxSize >= 1 /\ MaxLevel >= 2

VARIABLES
    acct,     \* contracts the account holds
    working,  \* symbols with a working order of the program (prefix CE)
    stops,    \* protective stops resting at the exchange
    fired,    \* stops that fired
    placed,   \* number of stops sent, the source of their ids
    book,     \* trader.positions: size and stop, size 0 for none
    saved,    \* saved_positions of the state file
    att,      \* protection.by_key
    disk,     \* the attachments of the protection file
    drift,    \* drift_blocks_entries
    pc,       \* where recovery stands; "run" once the bot's thread is started
    todo,     \* symbols recovery still has to attach
    doing,    \* the update of a stop that is under way
    cmd,      \* the command that empties the account
    unseen,   \* history: the reconciler's last fetch was not answered
    ghosts,   \* history: stops whose cancel was carried out and not answered,
              \* until a replacement is saved
    boots, moves

account == <<acct, working, stops, fired, placed, moves>>
guard   == <<att, disk, doing, ghosts>>
control == <<pc, todo, cmd, boots>>
verdict == <<drift, unseen>>
program == <<book, saved, guard, control, verdict>>
vars == <<account, program>>

\* What becomes of a request: executed and answered, refused, or without an
\* answer, whether it was executed or not.
Outcomes == {"ok", "refused", "silent", "lost"}
Done(o)  == o \in {"ok", "silent"}

NoBook == [size |-> 0, sl |-> 0]
NoAtt  == [armed |-> FALSE, sl |-> 0, ok |-> FALSE, id |-> 0]
NoCmd  == [kind |-> "none", on |-> {}]
Idle   == [step |-> "none", symbol |-> "", ok |-> FALSE]
Held   == {s \in Symbols : book[s].size > 0}

\* A start in LIVE: the book and the attachments an earlier session saved.
Init ==
    /\ acct = [s \in Symbols |-> 0] /\ working \in SUBSET Symbols
    /\ stops = {} /\ fired = {} /\ placed = [s \in Symbols |-> 0]
    /\ book \in [Symbols -> {NoBook, [size |-> 1, sl |-> 1]}] /\ saved = book
    /\ \E lost \in SUBSET Symbols, ahead \in {0, 1} :
          att = [s \in Symbols |->
                   IF book[s] = NoBook \/ s \in lost THEN NoAtt
                   ELSE [armed |-> TRUE, sl |-> 1 + ahead, ok |-> FALSE, id |-> 0]]
    /\ disk = att /\ doing = Idle /\ ghosts = {}
    /\ pc = "rearm" /\ todo = {} /\ cmd = NoCmd
    /\ drift = FALSE /\ unseen = FALSE /\ boots = 0 /\ moves = 0

-----------------------------------------------------------------------------
(***************************************************************************)
(* The account, as its owner and the market move it.                       *)
(***************************************************************************)
OwnerTrades(s, n) ==
    /\ moves < MaxMoves /\ moves' = moves + 1
    /\ n # acct[s] /\ acct' = [acct EXCEPT ![s] = n]
    /\ UNCHANGED <<working, stops, fired, placed, program>>

OrderFills(s) ==
    /\ s \in working /\ acct[s] < MaxSize
    /\ working' = working \ {s} /\ acct' = [acct EXCEPT ![s] = @ + 1]
    /\ UNCHANGED <<stops, fired, placed, moves, program>>

StopFires(t) ==
    /\ acct[t.symbol] > 0
    /\ acct' = [acct EXCEPT ![t.symbol] = 0]
    /\ stops' = stops \ {t} /\ fired' = fired \cup {t}
    /\ UNCHANGED <<working, placed, moves, program>>

-----------------------------------------------------------------------------
(***************************************************************************)
(* Protective stops.                                                       *)
(***************************************************************************)
StopIdReused(s, level) == [symbol |-> s, id |-> placed[s], level |-> level]  \* mutant: ids start too low

Stop(s, level) == [symbol |-> s, id |-> placed[s] + 1, level |-> level]

\* The stop an attachment names.
Named(a, s) == [symbol |-> s, id |-> a[s].id, level |-> a[s].sl]

\* The update of s begins in memory: the stop at the exchange is still the old
\* one, and nothing is saved.
Begin(s, level, step) ==
    /\ att' = [att EXCEPT ![s].armed = TRUE, ![s].sl = level]
    /\ doing' = [Idle EXCEPT !.step = step, !.symbol = s]
    /\ UNCHANGED <<disk, ghosts>>

\* cancel_exchange_protection, by the id that is known.  Only an answer that
\* says ok is recorded, and saved; the result is not looked at.
Cancel(o) ==
    LET s == doing.symbol
        old == {t \in stops : t.symbol = s /\ t.id = att[s].id}
    IN  /\ doing.step = "cancel" /\ (Done(o) => old # {})
        /\ stops' = IF Done(o) THEN stops \ old ELSE stops
        /\ att' = IF o = "ok" THEN [att EXCEPT ![s].ok = FALSE, ![s].id = 0] ELSE att
        /\ disk' = IF o = "ok" THEN att' ELSE disk
        /\ ghosts' = IF o = "silent" THEN ghosts \cup old ELSE ghosts
        /\ doing' = [doing EXCEPT !.step = "place"]
        /\ UNCHANGED <<acct, working, fired, placed, moves, book, saved, control, verdict>>

\* _place_exchange_tpsl: the request.
Place(o) ==
    LET s == doing.symbol
    IN  /\ doing.step = "place"
        /\ placed' = [placed EXCEPT ![s] = @ + 1]
        /\ stops' = IF Done(o) THEN stops \cup {Stop(s, att[s].sl)} ELSE stops
        /\ doing' = [doing EXCEPT !.step = "answer", !.ok = (o = "ok")]
        /\ UNCHANGED <<acct, working, fired, moves, book, saved, att, disk, ghosts, control, verdict>>

\* The answer, or its absence, is recorded and saved.
Record(outcome) ==
    LET s == doing.symbol
    IN  /\ doing.step = "answer"
        /\ att' = [att EXCEPT ![s] = outcome] /\ disk' = att'
        /\ ghosts' = {t \in ghosts : t.symbol # s}
        /\ doing' = Idle
        /\ todo' = todo \ {s}
        /\ UNCHANGED <<account, book, saved, pc, cmd, boots, verdict>>

\* Mutant: a stop that was not answered counts as placed.
AnswerOnFaith ==
    LET s == doing.symbol
    IN  Record([att[s] EXCEPT !.ok = TRUE, !.id = placed[s]])

\* Mutant: the local stop is armed only with the one at the exchange.
AnswerOrNothing ==
    LET s == doing.symbol
    IN  Record([att[s] EXCEPT !.armed = doing.ok, !.ok = doing.ok,
                              !.id = IF doing.ok THEN placed[s] ELSE 0])

\* A stop that was not answered leaves no id behind.
Answer ==
    LET s == doing.symbol
    IN  Record([att[s] EXCEPT !.ok = doing.ok, !.id = IF doing.ok THEN placed[s] ELSE 0])

-----------------------------------------------------------------------------
(***************************************************************************)
(* The book.                                                               *)
(***************************************************************************)
\* The bot runs, and is not in the middle of an update.
Running == pc = "run" /\ doing = Idle

\* A tightened stop, by the callback of the position: update_exchange_sl.
Trail(s) ==
    /\ Running /\ s \in Held /\ book[s].sl < MaxLevel
    /\ book' = [book EXCEPT ![s].sl = @ + 1]
    /\ Begin(s, book[s].sl + 1, IF att[s].id # 0 THEN "cancel" ELSE "place")
    /\ UNCHANGED <<account, saved, control, verdict>>

\* close_position forgets the attachment, and says so to the file; its stop
\* stays where it is.
Closed(on) ==
    /\ book' = [s \in Symbols |-> IF s \in on THEN NoBook ELSE book[s]]
    /\ att' = [s \in Symbols |-> IF s \in on THEN NoAtt ELSE att[s]]
    /\ disk' = IF on # {} THEN att' ELSE disk
    /\ UNCHANGED <<doing, ghosts>>

Exit(s) ==
    /\ Running /\ s \in Held
    /\ Closed({s})
    /\ UNCHANGED <<account, saved, control, verdict>>

\* The end of a full scan.
SaveState ==
    /\ Running /\ boots < MaxBoots    \* nobody reads what is saved later
    /\ saved' = book
    /\ UNCHANGED <<account, book, guard, control, verdict>>

-----------------------------------------------------------------------------
(***************************************************************************)
(* Reconciliation.                                                         *)
(***************************************************************************)
\* fetch_exchange_positions: without an answer, BloFin's client returns no
\* positions and account_sync stores that.
Seen(answered) == [s \in Symbols |-> IF answered THEN acct[s] ELSE 0]

\* Mutant: a position only the account holds is no drift.
DiffersLocally(seen) == \E s \in Held : seen[s] # book[s].size

Differs(seen) == \E s \in Symbols : seen[s] # book[s].size

\* Mutant: a drift once found stays.
ReconcileSticky(answered) ==
    /\ Running
    /\ drift' = (drift \/ Differs(Seen(answered)))
    /\ unseen' = ~answered
    /\ UNCHANGED <<account, book, saved, guard, control>>

\* maybe_reconcile: every RECONCILE_EVERY_CYCLES, without executor and
\* protection, so orders and missing protection are not looked at.
Reconcile(answered) ==
    /\ Running
    /\ drift' = Differs(Seen(answered))
    /\ unseen' = ~answered
    /\ UNCHANGED <<account, book, saved, guard, control>>

-----------------------------------------------------------------------------
(***************************************************************************)
(* Commands.  Their threads are started after recovery.                    *)
(***************************************************************************)
Command(kind, on) ==
    /\ pc = "run" /\ cmd = NoCmd
    /\ cmd' = [kind |-> kind, on |-> on]
    /\ UNCHANGED <<account, saved, pc, todo, boots, verdict>>

\* kill_switch asks for the account first ...
KillSwitch ==
    /\ Command("kill", IF Held # {} THEN Held ELSE {s \in Symbols : att[s].armed})
    /\ UNCHANGED <<book, guard>>

\* ... and closes and disarms the book when every symbol was tried, whatever
\* the exchange answered.
KillBooks ==
    /\ cmd.kind = "kill" /\ cmd.on = {} /\ doing = Idle
    /\ Closed(Held) /\ cmd' = NoCmd
    /\ UNCHANGED <<account, saved, pc, todo, boots, verdict>>

\* close_all: the book first, in memory and in the state file, then the account.
CloseAll ==
    /\ pc = "run" /\ cmd = NoCmd /\ doing = Idle /\ Held # {}
    /\ cmd' = [kind |-> "close_all", on |-> Held]
    /\ Closed(Held) /\ saved' = book'
    /\ UNCHANGED <<account, pc, todo, boots, verdict>>

\* emergency_close_all, one symbol after another.
EmergencyClose(s, o) ==
    /\ s \in cmd.on
    /\ acct' = IF Done(o) THEN [acct EXCEPT ![s] = 0] ELSE acct
    /\ cmd' = IF cmd.kind = "close_all" /\ cmd.on = {s} THEN NoCmd
              ELSE [cmd EXCEPT !.on = @ \ {s}]
    /\ UNCHANGED <<working, stops, fired, placed, moves, book, saved, guard, pc, todo, boots, verdict>>

-----------------------------------------------------------------------------
(***************************************************************************)
(* Restart.                                                                *)
(***************************************************************************)
\* load_previous_state and step 1 of recovery; a fresh process knows of no
\* drift.
Boot ==
    /\ boots < MaxBoots /\ boots' = boots + 1
    /\ book' = saved /\ att' = disk /\ doing' = Idle
    /\ pc' = "rearm" /\ todo' = {} /\ cmd' = NoCmd
    /\ drift' = FALSE /\ unseen' = FALSE
    /\ UNCHANGED <<account, saved, disk, ghosts>>

\* Step 4: the positions the account shows (4a), then those of the book that
\* are attached by nothing (4b).
Rearm(answered) ==
    /\ pc = "rearm" /\ pc' = "attach"
    /\ todo' = {s \in Symbols : Seen(answered)[s] > 0} \cup {s \in Held : ~att[s].armed}
    /\ UNCHANGED <<account, book, saved, guard, cmd, boots, verdict>>

\* attach_protection: nothing that rests is cancelled first, and the tighter of
\* the position's stop and the saved one counts.
Attach(s) ==
    /\ pc = "attach" /\ s \in todo /\ doing = Idle
    /\ Begin(s, IF book[s].sl > att[s].sl THEN book[s].sl ELSE att[s].sl, "place")
    /\ UNCHANGED <<account, book, saved, control, verdict>>

\* Step 5: positions, working orders and attachments.  The test for a missing
\* attachment compares keys of two different shapes, so every position the
\* account shows counts as unprotected.
RecoveryReconcile(answered, ordersAnswered) ==
    LET seen == Seen(answered)
        shown == {s \in Symbols : seen[s] > 0}
    IN  /\ pc = "attach" /\ todo = {} /\ pc' = "orphans"
        /\ drift' = (\/ Differs(seen) \/ shown # {}
                     \/ ordersAnswered /\ working \ shown # {})
        /\ unseen' = ~answered
        /\ UNCHANGED <<account, book, saved, guard, todo, cmd, boots>>

\* cancel_orphan_orders, of the symbols a fresh fetch does not show.  Steps 6
\* and 7 follow; no error was recorded, so step 7 finds nothing to block.
CancelOrphans(answered, ordersAnswered, gone) ==
    LET shown == {s \in Symbols : Seen(answered)[s] > 0}
    IN  /\ pc = "orphans" /\ pc' = "run"
        /\ gone \subseteq (IF ordersAnswered THEN working \ shown ELSE {})
        /\ working' = working \ gone
        /\ UNCHANGED <<acct, stops, fired, placed, moves, book, saved, guard, todo, cmd, boots, verdict>>

-----------------------------------------------------------------------------
(***************************************************************************)
(* The steps of a thread that has begun something.                         *)
(***************************************************************************)
Updates == Answer \/ \E o \in Outcomes : Cancel(o) \/ Place(o)

Recovers ==
    \/ \E answered \in BOOLEAN : Rearm(answered)
    \/ \E s \in Symbols : Attach(s)
    \/ \E answered, ordersAnswered \in BOOLEAN :
          \/ RecoveryReconcile(answered, ordersAnswered)
          \/ \E gone \in SUBSET Symbols : CancelOrphans(answered, ordersAnswered, gone)

Commands == KillBooks \/ \E s \in Symbols, o \in Outcomes : EmergencyClose(s, o)

Next ==
    \/ \E s \in Symbols, n \in 0..MaxSize : OwnerTrades(s, n)
    \/ \E s \in Symbols : OrderFills(s) \/ Exit(s) \/ Trail(s)
    \/ \E t \in stops : StopFires(t)
    \/ \E answered \in BOOLEAN : Reconcile(answered)
    \/ Updates \/ Recovers \/ Commands
    \/ KillSwitch \/ CloseAll \/ SaveState \/ Boot

\* The engine is on, or is started again and again, so that its loop
\* reconciles; the exchange answers again and again; what a thread has begun
\* runs on, and the kill gets trader.lock from a bot that trails on.
Fairness ==
    /\ SF_vars(Reconcile(TRUE))
    /\ WF_vars(Updates) /\ WF_vars(Recovers) /\ SF_vars(Commands)

Spec == Init /\ [][Next]_vars /\ Fairness

-----------------------------------------------------------------------------
(***************************************************************************)
(* Properties.                                                             *)
(***************************************************************************)
Levels == 0..MaxLevel

VenueTypeOK ==
    /\ acct \in [Symbols -> 0..MaxSize] /\ working \subseteq Symbols
    /\ \A t \in stops \cup fired \cup ghosts :
          t.symbol \in Symbols /\ t.level \in Levels /\ t.id \in 1..placed[t.symbol]
    /\ placed \in [Symbols -> Nat]
    /\ {book, saved} \subseteq [Symbols -> [size : 0..MaxSize, sl : Levels]]
    /\ {att, disk} \subseteq [Symbols -> [armed : BOOLEAN, sl : Levels, ok : BOOLEAN, id : Nat]]
    /\ {drift, unseen} \subseteq BOOLEAN
    /\ pc \in {"run", "rearm", "attach", "orphans"} /\ todo \subseteq Symbols
    /\ doing = Idle \/ doing \in [step : {"cancel", "place", "answer"}, symbol : Symbols, ok : BOOLEAN]
    /\ cmd.kind \in {"none", "kill", "close_all"} /\ cmd.on \subseteq Symbols
    /\ boots \in 0..MaxBoots /\ moves \in 0..MaxMoves

\* An attachment that reports a stop at the exchange names one that rests
\* there at the level of the attachment, or that has fired: not one whose
\* placement was never answered, nor one a replacement cancelled.  While the
\* stop is being replaced the report is of the old one.  After a crash it may
\* be of a stop whose cancel was carried out and never answered, if the
\* process died before it saved the replacement; nothing else is left out.
ReportedStopRests ==
    \A s \in Symbols : att[s].ok /\ doing.symbol # s =>
        Named(att, s) \in stops \cup fired \cup ghosts

\* Once recovery has armed the book, no failure of the exchange costs one of
\* its positions the local stop or puts that stop behind the position's own,
\* not even while the one at the exchange is being replaced.
LocalStopKept ==
    pc \in {"orphans", "run"} => \A s \in Held : att[s].armed /\ att[s].sl >= book[s].sl

Diverged == \E s \in Symbols : acct[s] # book[s].size

\* A difference between book and account that stays is noticed, and blocks,
\* again and again.
DriftIsNoticed == <>[]Diverged => []<>drift

\* One that is gone is forgotten, and entries are possible again.
DriftIsForgotten == <>[]~Diverged => []<>~drift

\* protection.py: an attachment that reports a stop at the exchange has one,
\* over a crash as well.
NoGhostStop ==
    \A s \in Symbols : att[s].ok /\ doing.symbol # s =>
        Named(att, s) \in stops \cup fired

\* position_reconciler.py: no answer of the exchange is no proof of a flat
\* account, and LIVE fails closed.
UnknownIsNotFlat == unseen => drift

=============================================================================
