----------------------------- MODULE ExitLadder -----------------------------
(***************************************************************************)
(* The life of one position after its entry: the stop, break-even and the  *)
(* trailing stop, the two partial take-profits, the STOP of the engine,    *)
(* and the protection attachment that follows the stop.  Position and      *)
(* check_exits of paper_trader.py, v2_trade_lifecycle.py, exit_rules.py,   *)
(* the attachment of protection.py, and a start in LIVE mode, which        *)
(* restores the position from the state file and the attachment from its   *)
(* own (restart_recovery.py).                                              *)
(*                                                                         *)
(* A price is counted in steps of profit from the entry, so a LONG and a   *)
(* SHORT look the same: the code writes every comparison twice, once for   *)
(* each.  Distances that depend on volatility or configuration are a       *)
(* choice from Distances.  Each handler runs under trader.lock.            *)
(***************************************************************************)
EXTENDS Integers

CONSTANTS
    Engines,     \* the engines whose positions are studied
    Depth, Height,  \* the prices that occur: from -Depth to Height
    Distances,   \* distances of a trailing stop from the best price
    Widest,      \* bound on the distances
    Risk,        \* distance of the initial stop from the entry
    BreakEven, Tp1, Tp2,  \* levels, in steps of profit
    StopTp,      \* take-profit on_engine_stop sets
    MaxBoots     \* bound: restarts

ASSUME LadderAssumption ==
    /\ Engines \subseteq {"v2", "trend", "daytrading", "reversal"}
    /\ Widest \in Nat /\ Distances \subseteq 1..Widest
    /\ {Depth, Height, Risk, BreakEven, Tp1, Tp2, StopTp} \subseteq Nat \ {0}
    /\ BreakEven <= Risk /\ BreakEven < Tp1 /\ Tp1 < Tp2 /\ MaxBoots \in Nat

Prices == -Depth..Height

VARIABLES
    pos,     \* the position
    att,     \* its ProtectionAttach, in memory and on disk
    saved,   \* saved_positions of the state file
    passed,  \* history: the last check left open a position beyond its stop
    boots

vars == <<pos, att, saved, passed, boots>>

NoLevel == -(Depth + Risk + Widest) - 1       \* None, below every level
NoAttachment == [sl |-> NoLevel, structural |-> NoLevel]

Larger(a, b)  == IF a > b THEN a ELSE b
Smaller(a, b) == IF a < b THEN a ELSE b

\* What opens: Position(), then attach_protection.
Opened(engine) ==
    [open |-> TRUE, engine |-> engine, sl |-> -Risk, initial |-> -Risk,
     trail |-> NoLevel, trailing |-> FALSE, tp1 |-> FALSE, tp2 |-> FALSE,
     best |-> 0, tp |-> Tp2, hardTp |-> engine = "daytrading"]

Init ==
    /\ \E e \in Engines : pos = Opened(e)
    /\ att = [sl |-> -Risk, structural |-> -Risk]
    /\ saved = [pos EXCEPT !.open = FALSE]
    /\ passed = FALSE
    /\ boots = 0

-----------------------------------------------------------------------------
(***************************************************************************)
(* The stop.                                                               *)
(***************************************************************************)
\* Mutant: the clamp is lost, the stop follows the candidate.
TightenedBlindly(p, level) == [p EXCEPT !.sl = level]

\* _apply_tighter_sl: nearer to the price than it was, never past the initial.
Tightened(p, level) ==
    LET new == Larger(level, p.initial)
    IN  IF new > p.sl THEN [p EXCEPT !.sl = new] ELSE p

\* Mutant: the callback is not called.
NotFollowed(a, p) == a

\* on_sl_updated, update_exchange_sl: the attachment takes the new stop, and
\* is created when there is none.
Followed(a, p) == [a EXCEPT !.sl = p.sl]

\* Break-even before trailing: V2 once a partial is taken, daytrading from 1R.
BreakEvenDue(p, px) ==
    \/ p.engine = "v2" /\ p.tp1
    \/ p.engine = "daytrading" /\ px >= Risk

\* What starts the trail outside V2: a net profit, for daytrading 1.5R.
TrailDue(p, px) ==
    /\ p.engine # "v2" /\ px > 0
    /\ p.engine = "daytrading" => 2 * px >= 3 * Risk

\* Mutant: the trail of a LONG is placed as a SHORT's, above the best price.
UpdateTrailingWrongSide(p, px, dist, wait) ==
    LET t == [p EXCEPT !.trailing = @ \/ TrailDue(p, px)]
        new == t.best + dist
    IN  IF t.trailing /\ new > t.trail /\ (t.trail = NoLevel \/ ~wait)
        THEN [t EXCEPT !.trail = new, !.sl = Larger(@, new)]
        ELSE t

\* _update_trailing; it may hold still while the cooldown runs.
UpdateTrailing(p, px, dist, wait) ==
    LET b == IF BreakEvenDue(p, px) THEN Tightened(p, BreakEven) ELSE p
        t == [b EXCEPT !.trailing = @ \/ TrailDue(p, px)]
        new == t.best - dist
    IN  IF t.trailing /\ new > t.trail /\ (t.trail = NoLevel \/ ~wait)
        THEN [t EXCEPT !.trail = new, !.sl = Larger(@, new)]
        ELSE t

\* The chandelier of V2 after TP2: the best price less a distance, and not
\* below break-even (the last rule of decide_v2_lifecycle).
Chandelier(p, dist) ==
    LET anchor == Larger(p.best - dist, BreakEven)
    IN  IF anchor > p.sl
        THEN LET t == Tightened(p, anchor)
             IN  [t EXCEPT !.trail = t.sl, !.trailing = TRUE]
        ELSE p

\* update_pnl.  The exits it decides for V2 are not carried out, only the stop.
UpdatePnl(p, px, dist, wait) ==
    LET b == [p EXCEPT !.best = Larger(@, px)]
    IN  IF b.engine = "v2" /\ b.tp2
        THEN IF px <= b.sl THEN b ELSE Chandelier(b, dist)
        ELSE UpdateTrailing(b, px, dist, wait)

-----------------------------------------------------------------------------
(***************************************************************************)
(* Exits.                                                                  *)
(***************************************************************************)
\* partial_close, then the flags its caller sets.  When the lot is too
\* small to sell the stage is done all the same.
Partial(p, stage, price, dist, sold) ==
    LET t == IF sold /\ (p.engine # "reversal" \/ stage = 2)
             THEN [p EXCEPT !.trailing = TRUE, !.trail = price - dist]
             ELSE p
    IN  IF stage = 2 THEN [t EXCEPT !.tp2 = TRUE, !.trailing = @ \/ p.engine = "v2"]
        ELSE [t EXCEPT !.tp1 = TRUE, !.tp2 = @ \/ p.engine = "trend"]

\* Mutant: the second take-profit does not wait for the first.
DecidePriceSkipping(p, px) ==
    IF ~p.tp2 /\ px >= Tp2 THEN "tp2"
    ELSE IF ~p.tp1 /\ px >= Tp1 THEN "tp1"
    ELSE IF px <= p.sl THEN "close" ELSE "none"

\* decide_v2_lifecycle: the stop comes before the take-profits.
DecideV2(p, px) ==
    IF px <= p.sl THEN "close"
    ELSE IF ~p.tp1 /\ px >= Tp1 THEN "tp1"
    ELSE IF p.tp1 /\ ~p.tp2 /\ px >= Tp2 THEN "tp2"
    ELSE "none"

\* Mutant: a running trail replaces the stop.
DecidePriceTrailOnly(p, px) ==
    IF ~p.tp1 /\ px >= Tp1 THEN "tp1"
    ELSE IF p.tp1 /\ ~p.tp2 /\ px >= Tp2 THEN "tp2"
    ELSE IF px <= (IF p.trail # NoLevel THEN p.trail ELSE p.sl) THEN "close"
    ELSE "none"

\* decide_price_exit: the partials come before the stops.
DecidePrice(p, px) ==
    IF ~p.tp1 /\ px >= Tp1 THEN "tp1"
    ELSE IF p.tp1 /\ ~p.tp2 /\ px >= Tp2 THEN "tp2"
    ELSE IF \/ p.trailing /\ p.trail # NoLevel /\ px <= p.trail
            \/ px <= p.sl
            \/ p.hardTp /\ px >= p.tp
         THEN "close"
    ELSE "none"

\* check_local_protection, a little beyond the weaker of the two stops.
Emergency(a, px) ==
    LET structural == IF a.structural = NoLevel THEN a.sl ELSE a.structural
    IN  px < Smaller(a.sl, structural)

Close ==
    /\ pos' = [pos EXCEPT !.open = FALSE]
    /\ att' = NoAttachment

Keep(p) ==
    /\ pos' = p
    /\ att' = IF p.sl # pos.sl THEN Followed(att, p) ELSE att

\* update_positions: a quotation without a decision.
Quote(px, dist, wait) ==
    /\ pos.open
    /\ Keep(UpdatePnl(pos, px, dist, wait))
    /\ passed' = FALSE
    /\ UNCHANGED <<saved, boots>>

\* check_exits.  Time stops, invalidations and opposite signals may also ask
\* for the close when the price asks for nothing.
CheckExits(px, dist, wait, sold, other) ==
    /\ pos.open
    /\ LET p == UpdatePnl(pos, px, dist, wait)
           a == IF p.sl # pos.sl THEN Followed(att, p) ELSE att
           action == IF p.engine = "v2" THEN DecideV2(p, px) ELSE DecidePrice(p, px)
           \* V2 sells at the level, the others at the price
           price1 == IF p.engine = "v2" THEN Tp1 ELSE px
           price2 == IF p.engine = "v2" THEN Tp2 ELSE px
           first  == Partial(p, 1, price1, dist, sold)
       IN /\ IF Emergency(a, px) \/ action = "close" \/ (action = "none" /\ other)
             THEN Close
             ELSE Keep(CASE action = "tp1"  -> IF p.engine = "v2" THEN [first EXCEPT !.sl = BreakEven]
                                               ELSE first
                         [] action = "tp2"  -> Partial(p, 2, price2, dist, sold)
                         [] action = "none" -> p)
          /\ passed' = (pos'.open /\ px <= p.sl)
    /\ UNCHANGED <<saved, boots>>

\* on_engine_stop: what earns after costs is closed when the price is fresh,
\* the rest is left with a take-profit.
EngineStop(px, dist, wait, stale) ==
    /\ pos.open
    /\ IF px > 0 /\ ~stale
       THEN Close
       ELSE Keep([UpdatePnl(pos, px, dist, wait) EXCEPT !.tp = StopTp, !.hardTp = TRUE])
    /\ passed' = FALSE
    /\ UNCHANGED <<saved, boots>>

\* close_by_symbol, close_all, kill_switch.
CloseByHand == pos.open /\ Close /\ passed' = FALSE /\ UNCHANGED <<saved, boots>>

-----------------------------------------------------------------------------
(***************************************************************************)
(* Crash and restart.  A PAPER start restores nothing; a LIVE start        *)
(* restores what the session before it saved, in either mode, and it is    *)
(* the start modelled here.                                                *)
(***************************************************************************)
\* export_open_positions; the flag of the engine stop is not among the fields.
SaveState ==
    /\ boots < MaxBoots                 \* nobody reads what is saved later
    /\ saved' = [pos EXCEPT !.hardTp = pos.engine = "daytrading"]
    /\ passed' = FALSE
    /\ UNCHANGED <<pos, att, boots>>

\* restore_open_positions: the stop that was saved is the new initial stop.  The
\* initial risk, which the code computes anew from it, stays Risk here.
Restored(s) == [s EXCEPT !.initial = s.sl]

\* Mutant: recovery trusts the position snapshot.
RearmedFromSnapshot(a, p) == [a EXCEPT !.sl = p.sl]

\* Recovery, step 4a: the tighter of the restored and the attached stop.
Rearmed(a, p) ==
    [sl |-> Larger(p.sl, a.sl),
     structural |-> IF a.structural = NoLevel THEN Larger(p.sl, a.sl) ELSE a.structural]

\* Step 4a runs for a position the exchange shows, step 4b for the others,
\* and only when nothing is attached.
Restart(shown) ==
    /\ boots < MaxBoots /\ boots' = boots + 1
    /\ pos' = Restored(saved)
    /\ att' = IF saved.open /\ (shown \/ att = NoAttachment)
              THEN Rearmed(att, Restored(saved))
              ELSE att
    /\ passed' = FALSE
    /\ UNCHANGED saved

Next ==
    \/ \E px \in Prices, dist \in Distances, wait \in BOOLEAN :
          \/ Quote(px, dist, wait)
          \/ \E sold, other \in BOOLEAN : CheckExits(px, dist, wait, sold, other)
          \/ \E stale \in BOOLEAN : EngineStop(px, dist, wait, stale)
    \/ CloseByHand \/ SaveState
    \/ \E shown \in BOOLEAN : Restart(shown)

Spec == Init /\ [][Next]_vars

-----------------------------------------------------------------------------
(***************************************************************************)
(* Properties.                                                             *)
(***************************************************************************)
Position ==
    [open: BOOLEAN, engine: Engines, sl: Int, initial: Int, trail: Int,
     trailing: BOOLEAN, tp1: BOOLEAN, tp2: BOOLEAN, best: Int,
     tp: Int, hardTp: BOOLEAN]

\* Types, and the stages in order: no second partial before the first.
TypeOK ==
    /\ pos \in Position /\ saved \in Position
    /\ \A p \in {pos, saved} : p.tp2 => p.tp1
    /\ att \in [sl: Int, structural: Int]
    /\ passed \in BOOLEAN
    /\ boots \in 0..MaxBoots

\* Between two restarts no handler ever moves the stop away from the price:
\* not break-even, not a trail that a wider volatility recomputes, not the
\* stop a partial sets.
StopOnlyTightens == [][boots' = boots => pos'.sl >= pos.sl]_vars

\* The stop and the trail stay on the losing side of the best price seen, so
\* neither can close a position whose price never fell.
StopWithinReach == pos.sl <= pos.best /\ pos.trail <= pos.best

\* An open position is attached with a stop at least as tight as its own,
\* through every order of quotations, exits, saves, crashes and recoveries.
AttachedAsTight == pos.open => att.sl >= pos.sl

\* A restart never weakens the persisted stop of a position still open,
\* however old the position snapshot is.
RecoveryKeepsStop ==
    [][boots' # boots /\ att # NoAttachment => att'.sl >= att.sl]_vars

\* A check that finds the price at or beyond the stop closes the position;
\* only outside V2 may it take the next partial instead, and each just once.
StopIsHonoured ==
    [][passed' => /\ pos.engine # "v2"
                  /\ <<pos'.tp1, pos'.tp2>> # <<pos.tp1, pos.tp2>>]_vars

(***************************************************************************)
(* What the sources say and the code does not keep.                        *)
(***************************************************************************)
\* paper_trader.py: V2 goes to break-even after TP1 and trails after TP2.
TrailsAfterTp2 ==
    pos.open /\ pos.engine = "v2" /\ ~pos.tp2 => pos.sl \in {pos.initial, BreakEven}

\* restart_recovery.py: a persisted stop is never weakened with an older
\* snapshot of the position.
PersistedStopKept ==
    [][pos.open /\ pos'.open => att'.sl >= att.sl]_vars

\* exit_rules.py: after the STOP of the engine the take-profit it set counts.
StopTpCounts ==
    [][\A px \in Prices, dist \in Distances, wait, sold, other \in BOOLEAN :
          CheckExits(px, dist, wait, sold, other) /\ pos.hardTp /\ px >= pos.tp
              => ~pos'.open \/ <<pos'.tp1, pos'.tp2>> # <<pos.tp1, pos.tp2>>]_vars

=============================================================================
