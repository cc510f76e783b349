-------------------------- MODULE ExitLadderProofs --------------------------
(***************************************************************************)
(* Theorems of ExitLadder: for all levels, prices and distances, any       *)
(* number of restarts and every set of engines.                            *)
(*                                                                         *)
(* The inductive invariant adds to the types what the code relies on       *)
(* without saying it: the order of the levels of one position (Sane), for  *)
(* the position in memory and for the one in the state file alike, and     *)
(* that the saved position is never ahead of the attachment.               *)
(***************************************************************************)
EXTENDS ExitLadder, TLAPS

\* The stop never leaves the initial stop behind nor passes the best price;
\* a V2 position does not trail, and is not beyond break-even, before TP1.
Sane(p) ==
    /\ p.tp2 => p.tp1
    /\ -Risk <= p.initial /\ p.initial <= p.sl /\ p.sl <= p.best
    /\ 0 <= p.best /\ p.trail <= p.best
    /\ p.tp1 => p.best >= Tp1
    /\ p.engine = "v2" /\ ~p.tp1 => ~p.trailing /\ p.sl <= BreakEven

\* What is saved is behind what is attached, and behind the position.
SavedIsBehind ==
    /\ saved.open /\ att # NoAttachment => att.sl >= saved.sl
    /\ saved.open /\ pos.open => pos.sl >= saved.sl

LadderInv ==
    /\ TypeOK
    /\ Sane(pos) /\ Sane(saved)
    /\ AttachedAsTight
    /\ SavedIsBehind

-----------------------------------------------------------------------------
\* The assumption, with the memberships written out.
LEMMA Levels ==
    /\ Depth \in Int /\ Height \in Int /\ Risk \in Int /\ BreakEven \in Int
    /\ Tp1 \in Int /\ Tp2 \in Int /\ StopTp \in Int /\ Widest \in Int
    /\ Depth > 0 /\ Risk > 0 /\ BreakEven > 0 /\ Widest >= 0
    /\ BreakEven <= Risk /\ BreakEven < Tp1 /\ Tp1 < Tp2
    /\ \A d \in Distances : d \in Int /\ d >= 1
    /\ \A x \in Prices : x \in Int
    /\ NoLevel \in Int /\ NoLevel < -Risk
  BY LadderAssumption DEF LadderAssumption, Prices, NoLevel

\* What a new quotation may do to a position: the stop moves towards the
\* price if at all, and the stages stay.
Quoted(p, px, u) ==
    /\ u \in Position /\ Sane(u)
    /\ u.sl >= p.sl /\ u.best >= px
    /\ u.open = p.open /\ u.engine = p.engine /\ u.tp1 = p.tp1 /\ u.tp2 = p.tp2

LEMMA TightenedSane ==
    ASSUME NEW p \in Position, Sane(p), NEW level \in Int, level <= p.best,
           p.engine = "v2" => p.tp1
    PROVE  /\ Tightened(p, level) \in Position /\ Sane(Tightened(p, level))
           /\ Tightened(p, level).sl >= p.sl
           /\ Tightened(p, level) = [p EXCEPT !.sl = Tightened(p, level).sl]
  <1>1. CASE Larger(level, p.initial) > p.sl
    <2>1. Tightened(p, level) = [p EXCEPT !.sl = level]
      BY <1>1 DEF Tightened, Larger, Sane, Position
    <2>2. level > p.sl
      BY <1>1 DEF Larger, Sane, Position
    <2> QED
      BY <2>1, <2>2, Levels DEF Sane, Position
  <1>2. CASE ~(Larger(level, p.initial) > p.sl)
    <2>1. Tightened(p, level) = p
      BY <1>2 DEF Tightened
    <2> QED
      BY <2>1 DEF Position
  <1> QED
    BY <1>1, <1>2

LEMMA TrailingSane ==
    ASSUME NEW p \in Position, Sane(p), NEW px \in Prices, px <= p.best,
           NEW dist \in Distances, NEW wait \in BOOLEAN
    PROVE  Quoted(p, px, UpdateTrailing(p, px, dist, wait))
  <1> DEFINE b == IF BreakEvenDue(p, px) THEN Tightened(p, BreakEven) ELSE p
             t == [b EXCEPT !.trailing = @ \/ TrailDue(p, px)]
             new == t.best - dist
  <1>1. b \in Position /\ Sane(b) /\ b.sl >= p.sl /\ b = [p EXCEPT !.sl = b.sl]
    <2>1. CASE BreakEvenDue(p, px)
      <3>1. BreakEven <= p.best /\ (p.engine = "v2" => p.tp1)
        BY <2>1, Levels DEF BreakEvenDue, Sane, Position
      <3> QED
        BY <2>1, <3>1, TightenedSane, Levels
    <2>2. CASE ~BreakEvenDue(p, px)
      BY <2>2 DEF Position
    <2> QED
      BY <2>1, <2>2
  <1>2. t \in Position /\ t.sl = b.sl /\ t.best = p.best /\ t.trail = p.trail
        /\ t.initial = p.initial /\ t.open = p.open /\ t.engine = p.engine
        /\ t.tp1 = p.tp1 /\ t.tp2 = p.tp2
        /\ (t.engine = "v2" => t.trailing = p.trailing)
    BY <1>1 DEF Position, TrailDue
  <1>3. Sane(t)
    BY <1>1, <1>2 DEF Sane, Position
  <1> HIDE DEF b, t
  <1>4. new \in Int /\ new <= t.best
    BY <1>2, Levels DEF Position
  <1>5. CASE t.trailing /\ new > t.trail /\ (t.trail = NoLevel \/ ~wait)
    <2> DEFINE u == [t EXCEPT !.trail = new, !.sl = Larger(@, new)]
    <2>1. UpdateTrailing(p, px, dist, wait) = u
      BY <1>5 DEF UpdateTrailing, b, t
    <2>2. Larger(t.sl, new) \in Int /\ Larger(t.sl, new) >= t.sl /\ Larger(t.sl, new) <= t.best
      BY <1>2, <1>3, <1>4 DEF Larger, Sane, Position
    <2>3. u \in Position
      BY <1>2, <1>4, <2>2 DEF Position
    <2>4. Sane(u)
      BY <1>2, <1>3, <1>4, <1>5, <2>2 DEF Sane, Position
    <2> QED
      BY <1>1, <1>2, <2>1, <2>2, <2>3, <2>4, Levels DEF Quoted, Position
  <1>6. CASE ~(t.trailing /\ new > t.trail /\ (t.trail = NoLevel \/ ~wait))
    <2>1. UpdateTrailing(p, px, dist, wait) = t
      BY <1>6 DEF UpdateTrailing, b, t
    <2> QED
      BY <1>1, <1>2, <1>3, <2>1 DEF Quoted
  <1> QED
    BY <1>5, <1>6

LEMMA ChandelierSane ==
    ASSUME NEW p \in Position, Sane(p), NEW px \in Prices, px <= p.best, p.tp1,
           NEW dist \in Distances
    PROVE  Quoted(p, px, Chandelier(p, dist))
  <1> DEFINE anchor == Larger(p.best - dist, BreakEven)
             t == Tightened(p, anchor)
  <1>1. anchor \in Int /\ anchor <= p.best
    BY Levels DEF Larger, Sane, Position
  <1>2. t \in Position /\ Sane(t) /\ t.sl >= p.sl /\ t = [p EXCEPT !.sl = t.sl]
    BY <1>1, TightenedSane
  <1> HIDE DEF t
  <1>3. CASE anchor > p.sl
    <2> DEFINE u == [t EXCEPT !.trail = t.sl, !.trailing = TRUE]
    <2>1. Chandelier(p, dist) = u
      BY <1>3 DEF Chandelier, t
    <2>2. u \in Position /\ Sane(u)
      BY <1>2 DEF Sane, Position
    <2> QED
      BY <1>2, <2>1, <2>2 DEF Quoted, Position
  <1>4. CASE ~(anchor > p.sl)
    <2>1. Chandelier(p, dist) = p
      BY <1>4 DEF Chandelier
    <2>2. p.sl \in Int /\ p.best \in Int /\ px \in Int
      BY Levels DEF Position
    <2>3. Quoted(p, px, p)
      BY <2>2 DEF Quoted
    <2> QED
      BY <2>1, <2>3
  <1> QED
    BY <1>3, <1>4

LEMMA UpdateSane ==
    ASSUME NEW p \in Position, Sane(p), NEW px \in Prices,
           NEW dist \in Distances, NEW wait \in BOOLEAN
    PROVE  Quoted(p, px, UpdatePnl(p, px, dist, wait))
  <1> DEFINE b == [p EXCEPT !.best = Larger(@, px)]
  <1>1. Larger(p.best, px) \in Int /\ Larger(p.best, px) >= p.best /\ Larger(p.best, px) >= px
    BY Levels DEF Larger, Position
  <1>2. b \in Position /\ Sane(b) /\ px <= b.best /\ b.sl = p.sl /\ b.open = p.open
        /\ b.engine = p.engine /\ b.tp1 = p.tp1 /\ b.tp2 = p.tp2
    BY <1>1, Levels DEF Sane, Position
  <1> HIDE DEF b
  <1>3. UpdatePnl(p, px, dist, wait) \in
            {b, Chandelier(b, dist), UpdateTrailing(b, px, dist, wait)}
        /\ (b.engine = "v2" /\ b.tp2 => UpdatePnl(p, px, dist, wait) \in {b, Chandelier(b, dist)})
        /\ (~(b.engine = "v2" /\ b.tp2) => UpdatePnl(p, px, dist, wait) = UpdateTrailing(b, px, dist, wait))
    BY DEF UpdatePnl, b
  <1>4. CASE b.engine = "v2" /\ b.tp2
    <2>1. b.tp1
      BY <1>2, <1>4 DEF Sane
    <2>2. b.sl \in Int /\ b.best \in Int /\ px \in Int
      BY <1>2, Levels DEF Position
    <2>3. Quoted(b, px, b)
      BY <1>2, <2>2 DEF Quoted
    <2>4. Quoted(b, px, Chandelier(b, dist))
      BY <1>2, <2>1, ChandelierSane
    <2> QED
      BY <1>2, <1>3, <1>4, <2>3, <2>4 DEF Quoted
  <1>5. CASE ~(b.engine = "v2" /\ b.tp2)
    BY <1>2, <1>3, <1>5, TrailingSane DEF Quoted
  <1> QED
    BY <1>4, <1>5

LEMMA PartialSane ==
    ASSUME NEW p \in Position, Sane(p), NEW stage \in {1, 2}, NEW price \in Int,
           price <= p.best, p.best >= Tp1, stage = 2 => p.tp1,
           NEW dist \in Distances, NEW sold \in BOOLEAN
    PROVE  LET u == Partial(p, stage, price, dist, sold)
           IN  /\ u \in Position /\ Sane(u)
               /\ u.sl = p.sl /\ u.open = p.open /\ u.engine = p.engine
               /\ u.best = p.best /\ u.initial = p.initial
               /\ IF stage = 1 THEN u.tp1 ELSE u.tp1 = p.tp1 /\ u.tp2
  <1> DEFINE t == IF sold /\ (p.engine # "reversal" \/ stage = 2)
                  THEN [p EXCEPT !.trailing = TRUE, !.trail = price - dist]
                  ELSE p
  <1>1. price - dist \in Int /\ price - dist <= p.best
    BY Levels DEF Position
  <1>2. /\ t \in Position
        /\ t.sl = p.sl /\ t.initial = p.initial /\ t.best = p.best /\ t.trail <= p.best
        /\ t.open = p.open /\ t.engine = p.engine /\ t.tp1 = p.tp1 /\ t.tp2 = p.tp2
    BY <1>1 DEF Position, Sane
  <1> HIDE DEF t
  <1>3. CASE stage = 2
    <2> DEFINE u == [t EXCEPT !.tp2 = TRUE, !.trailing = @ \/ p.engine = "v2"]
    <2>1. Partial(p, stage, price, dist, sold) = u
      BY <1>3 DEF Partial, t
    <2>2. u \in Position /\ u.sl = t.sl /\ u.initial = t.initial /\ u.best = t.best /\ u.trail = t.trail
          /\ u.open = t.open /\ u.engine = t.engine /\ u.tp1 = t.tp1 /\ u.tp2
      BY <1>2 DEF Position
    <2> HIDE DEF u
    <2>3. Sane(u)
      BY <1>2, <1>3, <2>2 DEF Sane, Position
    <2> QED
      BY <1>2, <1>3, <2>1, <2>2, <2>3
  <1>4. CASE stage = 1
    <2> DEFINE u == [t EXCEPT !.tp1 = TRUE, !.tp2 = @ \/ p.engine = "trend"]
    <2>1. Partial(p, stage, price, dist, sold) = u
      BY <1>4 DEF Partial, t
    <2>2. u \in Position /\ u.sl = t.sl /\ u.initial = t.initial /\ u.best = t.best /\ u.trail = t.trail
          /\ u.open = t.open /\ u.engine = t.engine /\ u.tp1
      BY <1>2 DEF Position
    <2> HIDE DEF u
    <2>3. Sane(u)
      BY <1>2, <2>2 DEF Sane, Position
    <2> QED
      BY <1>2, <1>4, <2>1, <2>2, <2>3
  <1> QED
    BY <1>3, <1>4

-----------------------------------------------------------------------------
\* How a handler leaves a position: as it was kept, with the attachment
\* following its stop, or closed.
LEMMA KeepKeeps ==
    ASSUME LadderInv, pos.open, boots' = boots, passed' \in BOOLEAN, saved' = saved,
           NEW p \in Position, Sane(p), p.open, p.sl >= pos.sl, Keep(p)
    PROVE  LadderInv' /\ pos'.sl >= pos.sl
  <1>1. att' \in [sl: Int, structural: Int] /\ att'.sl >= p.sl
    <2>1. CASE p.sl # pos.sl
      BY <2>1 DEF Keep, Followed, LadderInv, TypeOK, Position
    <2>2. CASE p.sl = pos.sl
      BY <2>2 DEF Keep, LadderInv, TypeOK, AttachedAsTight
    <2> QED
      BY <2>1, <2>2
  <1>2. pos' = p
    BY DEF Keep
  <1>3. saved.open => p.sl >= saved.sl
    BY DEF LadderInv, SavedIsBehind, TypeOK, Position
  <1>4. TypeOK' /\ Sane(pos)' /\ Sane(saved)'
    BY <1>1, <1>2 DEF LadderInv, TypeOK, Sane
  <1>5. AttachedAsTight' /\ SavedIsBehind'
    BY <1>1, <1>2, <1>3 DEF LadderInv, TypeOK, Position, AttachedAsTight, SavedIsBehind
  <1> QED
    BY <1>2, <1>4, <1>5 DEF LadderInv

LEMMA CloseKeeps ==
    ASSUME LadderInv, boots' = boots, passed' \in BOOLEAN, saved' = saved, Close
    PROVE  LadderInv' /\ pos'.sl >= pos.sl /\ ~pos'.open
  <1>1. /\ pos' \in Position /\ ~pos'.open /\ Sane(pos)' /\ pos'.sl = pos.sl
        /\ pos'.tp1 = pos.tp1 /\ pos'.tp2 = pos.tp2
    BY DEF Close, LadderInv, TypeOK, Position, Sane
  <1>2. att' \in [sl: Int, structural: Int] /\ att' = NoAttachment
    BY Levels DEF Close, NoAttachment
  <1>3. TypeOK' /\ Sane(saved)'
    BY <1>1, <1>2 DEF LadderInv, TypeOK, Sane
  <1>4. AttachedAsTight' /\ SavedIsBehind'
    BY <1>1, <1>2 DEF AttachedAsTight, SavedIsBehind, NoAttachment
  <1> QED
    BY <1>1, <1>3, <1>4 DEF LadderInv, TypeOK, Position

-----------------------------------------------------------------------------
\* One lemma per handler.
LEMMA QuoteKeeps ==
    ASSUME LadderInv, NEW px \in Prices, NEW dist \in Distances, NEW wait \in BOOLEAN,
           Quote(px, dist, wait)
    PROVE  LadderInv' /\ pos'.sl >= pos.sl /\ ~passed' /\ boots' = boots
  <1> DEFINE p == UpdatePnl(pos, px, dist, wait)
  <1>1. pos \in Position /\ Sane(pos)
    BY DEF LadderInv, TypeOK
  <1>2. Quoted(pos, px, p)
    BY <1>1, UpdateSane
  <1>3. pos.open /\ Keep(p) /\ ~passed' /\ boots' = boots /\ saved' = saved /\ passed' \in BOOLEAN
    BY DEF Quote
  <1> HIDE DEF p
  <1> QED
    BY <1>2, <1>3, KeepKeeps DEF Quoted

LEMMA EngineStopKeeps ==
    ASSUME LadderInv, NEW px \in Prices, NEW dist \in Distances, NEW wait \in BOOLEAN,
           NEW stale \in BOOLEAN, EngineStop(px, dist, wait, stale)
    PROVE  LadderInv' /\ pos'.sl >= pos.sl /\ ~passed' /\ boots' = boots
  <1> DEFINE u == UpdatePnl(pos, px, dist, wait)
             p == [u EXCEPT !.tp = StopTp, !.hardTp = TRUE]
  <1>1. pos \in Position /\ Sane(pos)
    BY DEF LadderInv, TypeOK
  <1>2. Quoted(pos, px, u)
    BY <1>1, UpdateSane
  <1>3. pos.open /\ ~passed' /\ boots' = boots /\ saved' = saved /\ passed' \in BOOLEAN
    BY DEF EngineStop
  <1>4. Close \/ Keep(p)
    BY DEF EngineStop
  <1> HIDE DEF u
  <1>5. p \in Position /\ Sane(p) /\ p.sl >= pos.sl /\ p.open
    BY <1>2, <1>3, Levels DEF Quoted, Sane, Position
  <1> HIDE DEF p
  <1> QED
    BY <1>3, <1>4, <1>5, KeepKeeps, CloseKeeps

LEMMA DecisionFacts ==
    ASSUME NEW p \in Position, Sane(p), NEW px \in Prices
    PROVE  LET action == IF p.engine = "v2" THEN DecideV2(p, px) ELSE DecidePrice(p, px)
           IN  /\ action \in {"tp1", "tp2", "close", "none"}
               /\ action = "tp1" => px >= Tp1 /\ ~p.tp1
               /\ action = "tp2" => px >= Tp2 /\ p.tp1 /\ ~p.tp2
               /\ px <= p.sl => action # "none"
               /\ px <= p.sl /\ p.engine = "v2" => action = "close"
  <1>1. /\ DecideV2(p, px) \in {"tp1", "tp2", "close", "none"}
        /\ DecideV2(p, px) = "tp1" => px >= Tp1 /\ ~p.tp1
        /\ DecideV2(p, px) = "tp2" => px >= Tp2 /\ p.tp1 /\ ~p.tp2
        /\ px <= p.sl => DecideV2(p, px) = "close"
    BY DEF DecideV2
  <1>2. /\ DecidePrice(p, px) \in {"tp1", "tp2", "close", "none"}
        /\ DecidePrice(p, px) = "tp1" => px >= Tp1 /\ ~p.tp1
        /\ DecidePrice(p, px) = "tp2" => px >= Tp2 /\ p.tp1 /\ ~p.tp2
        /\ px <= p.sl => DecidePrice(p, px) # "none"
    BY DEF DecidePrice
  <1> QED
    BY <1>1, <1>2

LEMMA CheckExitsKeeps ==
    ASSUME LadderInv, NEW px \in Prices, NEW dist \in Distances, NEW wait \in BOOLEAN,
           NEW sold \in BOOLEAN, NEW other \in BOOLEAN,
           CheckExits(px, dist, wait, sold, other)
    PROVE  /\ LadderInv' /\ pos'.sl >= pos.sl /\ boots' = boots
           /\ passed' => /\ pos.engine # "v2"
                         /\ <<pos'.tp1, pos'.tp2>> # <<pos.tp1, pos.tp2>>
  <1> DEFINE p == UpdatePnl(pos, px, dist, wait)
             action == IF p.engine = "v2" THEN DecideV2(p, px) ELSE DecidePrice(p, px)
             price1 == IF p.engine = "v2" THEN Tp1 ELSE px
             price2 == IF p.engine = "v2" THEN Tp2 ELSE px
             first == Partial(p, 1, price1, dist, sold)
             second == Partial(p, 2, price2, dist, sold)
             next == CASE action = "tp1"  -> IF p.engine = "v2" THEN [first EXCEPT !.sl = BreakEven]
                                             ELSE first
                       [] action = "tp2"  -> second
                       [] action = "none" -> p
  <1>1. pos \in Position /\ Sane(pos)
    BY DEF LadderInv, TypeOK
  <1>2. Quoted(pos, px, p)
    BY <1>1, UpdateSane
  <1>3. p \in Position /\ Sane(p) /\ p.best >= px
    BY <1>2 DEF Quoted
  <1>4. /\ action \in {"tp1", "tp2", "close", "none"}
        /\ action = "tp1" => px >= Tp1 /\ ~p.tp1
        /\ action = "tp2" => px >= Tp2 /\ p.tp1 /\ ~p.tp2
        /\ px <= p.sl => action # "none"
        /\ px <= p.sl /\ p.engine = "v2" => action = "close"
    BY <1>3, DecisionFacts
  <1>5. /\ pos.open /\ boots' = boots /\ saved' = saved
        /\ passed' = (pos'.open /\ px <= p.sl)
        /\ Close \/ (action # "close" /\ Keep(next))
    BY DEF CheckExits
  <1>6. passed' \in BOOLEAN
    BY <1>1, <1>5 DEF Close, Keep
  <1> HIDE DEF p, action
  <1>7. ASSUME action = "tp1"
        PROVE  /\ first \in Position /\ Sane(first) /\ first.sl = p.sl /\ first.tp1
               /\ first.open = p.open /\ first.engine = p.engine /\ first.best = p.best
               /\ first.initial = p.initial
    <2>1. price1 \in Int /\ price1 <= p.best /\ p.best >= Tp1
      BY <1>3, <1>4, <1>7, Levels DEF Position
    <2> HIDE DEF price1
    <2> QED
      BY <1>3, <2>1, PartialSane
  <1>8. CASE Close
    BY <1>5, <1>6, <1>8, CloseKeeps
  <1>9. ASSUME action # "close", Keep(next)
        PROVE  /\ next \in Position /\ Sane(next) /\ next.sl >= p.sl /\ next.open = p.open
               /\ action # "none" => <<next.tp1, next.tp2>> # <<p.tp1, p.tp2>>
    <2>1. CASE action = "tp1" /\ p.engine = "v2"
      <3> DEFINE u == [first EXCEPT !.sl = BreakEven]
      <3>1. next = u
        BY <2>1
      <3>2. p.sl <= BreakEven /\ p.best >= Tp1
        BY <1>3, <1>4, <2>1, Levels DEF Sane, Position
      <3> HIDE DEF first
      <3>3. u \in Position /\ u.sl = BreakEven /\ u.tp1 /\ u.open = p.open /\ u.best = p.best
            /\ u.initial = p.initial /\ u.trail = first.trail /\ u.tp2 = first.tp2
        BY <1>7, <2>1, Levels DEF Position
      <3>4. Sane(u)
        BY <1>3, <1>7, <2>1, <3>2, <3>3, Levels DEF Sane, Position
      <3> HIDE DEF u, next
      <3> QED
        BY <1>3, <1>4, <2>1, <3>1, <3>2, <3>3, <3>4, Levels DEF Position
    <2>2. CASE action = "tp1" /\ p.engine # "v2"
      <3>1. next = first
        BY <2>2
      <3> HIDE DEF next, first
      <3> QED
        BY <1>3, <1>4, <1>7, <2>2, <3>1 DEF Position
    <2>3. CASE action = "tp2"
      <3>1. next = second
        BY <2>3
      <3>2. price2 \in Int /\ price2 <= p.best /\ p.best >= Tp1
        BY <1>3, <1>4, <2>3, Levels DEF Position
      <3> HIDE DEF price2
      <3>3. second \in Position /\ Sane(second) /\ second.sl = p.sl /\ second.open = p.open /\ second.tp2
        BY <1>3, <1>4, <2>3, <3>2, PartialSane
      <3> HIDE DEF next, second
      <3>4. next \in Position /\ Sane(next) /\ next.sl >= p.sl /\ next.open = p.open
        BY <1>3, <3>1, <3>3 DEF Position
      <3>5. next.tp2 # p.tp2
        BY <1>4, <2>3, <3>1, <3>3
      <3> QED
        BY <3>4, <3>5
    <2>4. CASE action = "none"
      <3>1. next = p
        BY <2>4
      <3> HIDE DEF next
      <3> QED
        BY <1>3, <2>4, <3>1 DEF Position
    <2> QED
      BY <1>4, <1>9, <2>1, <2>2, <2>3, <2>4
  <1> HIDE DEF next
  <1>10. ASSUME action # "close", Keep(next)
         PROVE  /\ LadderInv' /\ pos'.sl >= pos.sl
                /\ passed' => /\ pos.engine # "v2"
                              /\ <<pos'.tp1, pos'.tp2>> # <<pos.tp1, pos.tp2>>
    <2>1. next.sl >= pos.sl /\ next.open
      <3>1. p.sl >= pos.sl /\ p.open
        BY <1>2, <1>5 DEF Quoted
      <3>2. next \in Position /\ next.sl >= p.sl /\ next.open
        BY <1>9, <1>10, <3>1
      <3> QED
        BY <1>1, <1>3, <3>1, <3>2 DEF Position
    <2>2. LadderInv' /\ pos'.sl >= pos.sl
      BY <1>5, <1>6, <1>9, <1>10, <2>1, KeepKeeps
    <2>3. pos' = next
      BY <1>10 DEF Keep
    <2> QED
      BY <1>2, <1>4, <1>5, <1>9, <1>10, <2>2, <2>3 DEF Quoted
  <1> QED
    BY <1>5, <1>8, <1>10

-----------------------------------------------------------------------------
LEMMA RestartKeeps ==
    ASSUME LadderInv, NEW shown \in BOOLEAN, Restart(shown)
    PROVE  /\ LadderInv' /\ ~passed' /\ boots' # boots
           /\ att # NoAttachment => att'.sl >= att.sl
  <1> DEFINE p == Restored(saved)
  <1>1. /\ saved \in Position /\ Sane(saved) /\ att \in [sl: Int, structural: Int]
        /\ boots \in 0..MaxBoots /\ MaxBoots \in Nat
    BY LadderAssumption DEF LadderInv, TypeOK, LadderAssumption
  <1>2. p \in Position /\ Sane(p) /\ p.sl = saved.sl /\ p.open = saved.open
    BY <1>1, Levels DEF Restored, Sane, Position
  <1> HIDE DEF p
  <1>3. pos' = p /\ saved' = saved /\ ~passed' /\ passed' \in BOOLEAN /\ boots' = boots + 1 /\ boots < MaxBoots
    BY DEF Restart, p
  <1>4. att' = IF saved.open /\ (shown \/ att = NoAttachment) THEN Rearmed(att, p) ELSE att
    BY DEF Restart, p
  <1>5. /\ Rearmed(att, p) \in [sl: Int, structural: Int]
        /\ Rearmed(att, p).sl >= p.sl /\ Rearmed(att, p).sl >= att.sl
    BY <1>1, <1>2 DEF Rearmed, Larger, Position
  <1>6. att' \in [sl: Int, structural: Int] /\ att'.sl >= att.sl /\ (saved.open => att'.sl >= saved.sl)
    BY <1>1, <1>2, <1>4, <1>5 DEF LadderInv, SavedIsBehind
  <1>7. TypeOK' /\ Sane(pos)' /\ Sane(saved)'
    BY <1>1, <1>2, <1>3, <1>6 DEF LadderInv, TypeOK, Sane
  <1>8. AttachedAsTight' /\ SavedIsBehind'
    BY <1>1, <1>2, <1>3, <1>6 DEF AttachedAsTight, SavedIsBehind, Position
  <1> QED
    BY <1>1, <1>3, <1>6, <1>7, <1>8 DEF LadderInv

LEMMA SaveKeeps ==
    ASSUME LadderInv, SaveState
    PROVE  LadderInv' /\ pos' = pos /\ ~passed' /\ boots' = boots
  <1>1. pos \in Position /\ Sane(pos)
    BY DEF LadderInv, TypeOK
  <1>2. /\ saved' = [pos EXCEPT !.hardTp = pos.engine = "daytrading"]
        /\ passed' = FALSE /\ pos' = pos /\ att' = att /\ boots' = boots
    BY DEF SaveState
  <1>3. /\ saved' \in Position /\ saved'.open = pos.open /\ saved'.sl = pos.sl
        /\ Sane(saved)'
    BY <1>1, <1>2 DEF Position, Sane
  <1>4. TypeOK' /\ Sane(pos)'
    BY <1>1, <1>2, <1>3 DEF LadderInv, TypeOK, Sane
  <1>5. AttachedAsTight' /\ SavedIsBehind'
    BY <1>1, <1>2, <1>3 DEF LadderInv, AttachedAsTight, SavedIsBehind, Position
  <1> QED
    BY <1>2, <1>3, <1>4, <1>5 DEF LadderInv

\* What every step does, in the terms of the theorems.
LEMMA StepKeeps ==
    ASSUME LadderInv, [Next]_vars
    PROVE  /\ LadderInv'
           /\ boots' = boots => pos'.sl >= pos.sl
           /\ boots' # boots /\ att # NoAttachment => att'.sl >= att.sl
           /\ passed' /\ vars' # vars =>
                 /\ pos.engine # "v2"
                 /\ <<pos'.tp1, pos'.tp2>> # <<pos.tp1, pos.tp2>>
  <1>1. ASSUME NEW px \in Prices, NEW dist \in Distances, NEW wait \in BOOLEAN, Quote(px, dist, wait)
        PROVE  LadderInv' /\ pos'.sl >= pos.sl /\ ~passed' /\ boots' = boots
    BY <1>1, QuoteKeeps
  <1>2. ASSUME NEW px \in Prices, NEW dist \in Distances, NEW wait \in BOOLEAN,
               NEW sold \in BOOLEAN, NEW other \in BOOLEAN, CheckExits(px, dist, wait, sold, other)
        PROVE  /\ LadderInv' /\ pos'.sl >= pos.sl /\ boots' = boots
               /\ passed' => pos.engine # "v2" /\ <<pos'.tp1, pos'.tp2>> # <<pos.tp1, pos.tp2>>
    BY <1>2, CheckExitsKeeps
  <1>3. ASSUME NEW px \in Prices, NEW dist \in Distances, NEW wait \in BOOLEAN,
               NEW stale \in BOOLEAN, EngineStop(px, dist, wait, stale)
        PROVE  LadderInv' /\ pos'.sl >= pos.sl /\ ~passed' /\ boots' = boots
    BY <1>3, EngineStopKeeps
  <1>4. ASSUME CloseByHand
        PROVE  LadderInv' /\ pos'.sl >= pos.sl /\ ~passed' /\ boots' = boots
    BY <1>4, CloseKeeps DEF CloseByHand
  <1>5. ASSUME SaveState
        PROVE  LadderInv' /\ pos'.sl >= pos.sl /\ ~passed' /\ boots' = boots
    BY <1>5, SaveKeeps DEF LadderInv, TypeOK, Position
  <1>6. ASSUME NEW shown \in BOOLEAN, Restart(shown)
        PROVE  LadderInv' /\ ~passed' /\ boots' # boots /\ (att # NoAttachment => att'.sl >= att.sl)
    BY <1>6, RestartKeeps
  <1>7. ASSUME UNCHANGED vars
        PROVE  LadderInv' /\ pos'.sl >= pos.sl /\ boots' = boots
    BY <1>7 DEF vars, LadderInv, TypeOK, Position, Sane, AttachedAsTight, SavedIsBehind
  <1>8. CASE Next
    BY <1>1, <1>2, <1>3, <1>4, <1>5, <1>6, <1>8 DEF Next
  <1> QED
    BY <1>7, <1>8

LEMMA InitKeeps == Init => LadderInv
  <1> SUFFICES ASSUME Init PROVE LadderInv
    OBVIOUS
  <1>1. PICK e \in Engines : pos = Opened(e)
    BY DEF Init
  <1>2. /\ pos \in Position /\ Sane(pos) /\ pos.sl = -Risk /\ pos.open
    BY <1>1, Levels DEF Opened, Position, Sane
  <1>3. /\ saved = [pos EXCEPT !.open = FALSE] /\ att = [sl |-> -Risk, structural |-> -Risk]
        /\ passed = FALSE /\ boots = 0
    BY DEF Init
  <1>4. saved \in Position /\ Sane(saved) /\ ~saved.open
    BY <1>2, <1>3 DEF Position, Sane
  <1>5. TypeOK
    <2>1. att \in [sl: Int, structural: Int]
      BY <1>3, Levels
    <2>2. boots \in 0..MaxBoots
      BY <1>3, LadderAssumption DEF LadderAssumption
    <2>3. \A p \in {pos, saved} : p.tp2 => p.tp1
      BY <1>2, <1>4 DEF Sane
    <2> QED
      BY <1>2, <1>3, <1>4, <2>1, <2>2, <2>3 DEF TypeOK
  <1>6. AttachedAsTight /\ SavedIsBehind
    BY <1>2, <1>3, <1>4, Levels DEF AttachedAsTight, SavedIsBehind
  <1> QED
    BY <1>2, <1>4, <1>5, <1>6 DEF LadderInv

LEMMA LadderInvariant == Spec => []LadderInv
  <1>1. LadderInv /\ [Next]_vars => LadderInv'
    BY StepKeeps
  <1> QED
    BY <1>1, InitKeeps, PTL DEF Spec

-----------------------------------------------------------------------------
(***************************************************************************)
(* The theorems.                                                           *)
(***************************************************************************)
\* Types, and no second partial before the first, for every configuration of
\* paper_trader.py's levels.
THEOREM LadderTypes == Spec => []TypeOK
  <1>1. LadderInv => TypeOK
    BY DEF LadderInv
  <1> QED
    BY <1>1, LadderInvariant, PTL

\* Neither stop nor trail passes the best price the position has seen.
THEOREM StopsStayBehind == Spec => []StopWithinReach
  <1>1. LadderInv => StopWithinReach
    BY DEF LadderInv, Sane, StopWithinReach
  <1> QED
    BY <1>1, LadderInvariant, PTL

\* The attachment of an open position is as tight as its stop, through
\* crashes and recoveries.
THEOREM AttachmentFollows == Spec => []AttachedAsTight
  <1>1. LadderInv => AttachedAsTight
    BY DEF LadderInv
  <1> QED
    BY <1>1, LadderInvariant, PTL

\* No handler widens a stop.
THEOREM StopsOnlyTighten == Spec => StopOnlyTightens
  <1>1. LadderInv /\ [Next]_vars => [boots' = boots => pos'.sl >= pos.sl]_vars
    BY StepKeeps
  <1> QED
    BY <1>1, LadderInvariant, PTL DEF Spec, StopOnlyTightens

\* No restart weakens what was attached.
THEOREM RestartsKeepStops == Spec => RecoveryKeepsStop
  <1>1. LadderInv /\ [Next]_vars =>
            [boots' # boots /\ att # NoAttachment => att'.sl >= att.sl]_vars
    BY StepKeeps
  <1> QED
    BY <1>1, LadderInvariant, PTL DEF Spec, RecoveryKeepsStop

\* A price beyond the stop closes, or, outside V2, takes a partial still due.
THEOREM StopsAreHonoured == Spec => StopIsHonoured
  <1>1. LadderInv /\ [Next]_vars =>
            [passed' => /\ pos.engine # "v2"
                        /\ <<pos'.tp1, pos'.tp2>> # <<pos.tp1, pos.tp2>>]_vars
    BY StepKeeps
  <1> QED
    BY <1>1, LadderInvariant, PTL DEF Spec, StopIsHonoured
-----------------------------------------------------------------------------
(***************************************************************************)
(* Where the sentences of the sources that the code breaks do hold.        *)
(***************************************************************************)
\* Until the first restart the attachment is the stop, not only as tight.
InStep == boots = 0 /\ pos.open => att.sl = pos.sl

\* Before TP1 a V2 position stands still: no break-even, no trail.
V2Waits(p) == p.engine = "v2" /\ ~p.tp1 => p.sl = p.initial /\ ~p.trailing

V2StopWaits == V2Waits(pos)

\* A check keeps the position with some new stop, or closes it.
LEMMA ChecksKeepOrClose ==
    ASSUME NEW px \in Prices, NEW dist \in Distances, NEW wait \in BOOLEAN,
           NEW sold \in BOOLEAN, NEW other \in BOOLEAN,
           CheckExits(px, dist, wait, sold, other)
    PROVE  Close \/ \E p : Keep(p)
  BY DEF CheckExits

LEMMA StepInStep ==
    ASSUME LadderInv, InStep, [Next]_vars
    PROVE  InStep'
  <1>1. att \in [sl: Int, structural: Int] /\ boots \in 0..MaxBoots /\ MaxBoots \in Nat
    BY LadderAssumption DEF LadderInv, TypeOK, LadderAssumption
  <1>2. ASSUME pos.open, boots' = boots, NEW p, Keep(p) PROVE InStep'
    <2>1. CASE p.sl # pos.sl
      BY <1>1, <1>2, <2>1 DEF Keep, Followed, InStep
    <2>2. CASE p.sl = pos.sl
      BY <1>1, <1>2, <2>2 DEF Keep, InStep
    <2>. QED  BY <2>1, <2>2
  <1>3. ASSUME Close PROVE InStep'
    <2>1. pos \in Position
      BY DEF LadderInv, TypeOK
    <2>2. ~pos'.open
      BY <1>3, <2>1 DEF Close, Position
    <2>. QED  BY <2>2 DEF InStep
  <1>4. ASSUME NEW px \in Prices, NEW dist \in Distances, NEW wait \in BOOLEAN
        PROVE  /\ Quote(px, dist, wait) => InStep'
               /\ \A stale \in BOOLEAN : EngineStop(px, dist, wait, stale) => InStep'
    BY <1>2, <1>3 DEF Quote, EngineStop
  <1>5. ASSUME NEW px \in Prices, NEW dist \in Distances, NEW wait \in BOOLEAN,
               NEW sold \in BOOLEAN, NEW other \in BOOLEAN, CheckExits(px, dist, wait, sold, other)
        PROVE  InStep'
    <2>1. pos.open /\ boots' = boots
      BY <1>5 DEF CheckExits
    <2>. QED  BY <1>2, <1>3, <1>5, <2>1, ChecksKeepOrClose
  <1>6. CASE \E shown \in BOOLEAN : Restart(shown)
    BY <1>1, <1>6 DEF Restart, InStep
  <1>7. CASE CloseByHand
    BY <1>3, <1>7 DEF CloseByHand
  <1>8. CASE SaveState \/ UNCHANGED vars
    BY <1>8 DEF SaveState, vars, InStep
  <1>. QED  BY <1>4, <1>5, <1>6, <1>7, <1>8 DEF Next

\* restart_recovery.py's sentence, that a stop once attached is never weakened,
\* is true of every position that was not restored: what weakens it later is the
\* first tightening after a restart from an older snapshot.
THEOREM StopsAreKeptUntilRestart ==
    Spec => [][boots' = 0 /\ pos.open /\ pos'.open => att'.sl >= att.sl]_vars
  <1>1. Init => InStep
    BY DEF Init, InStep, Opened
  <1>2. LadderInv /\ InStep /\ [Next]_vars => InStep'
    BY StepInStep
  <1>3. LadderInv /\ InStep /\ LadderInv' /\ InStep' /\ [Next]_vars =>
           [boots' = 0 /\ pos.open /\ pos'.open => att'.sl >= att.sl]_vars
    <2> SUFFICES ASSUME LadderInv, InStep, InStep', [Next]_vars, boots' = 0, pos.open, pos'.open
                 PROVE  att'.sl >= att.sl
      OBVIOUS
    <2>1. boots = 0
      <3>1. boots' \in {boots, boots + 1} /\ boots \in Nat
        <4>1. boots \in Nat
          BY LadderAssumption DEF LadderInv, TypeOK, LadderAssumption
        <4>2. ASSUME NEW px \in Prices, NEW dist \in Distances, NEW wait \in BOOLEAN,
                     NEW sold \in BOOLEAN, NEW other \in BOOLEAN, CheckExits(px, dist, wait, sold, other)
              PROVE  boots' = boots
          BY <4>2 DEF CheckExits
        <4>. QED  BY <4>1, <4>2 DEF Next, Quote, EngineStop, CloseByHand, SaveState, Restart, vars
      <3>. QED  BY <3>1
    <2>2. pos'.sl >= pos.sl
      BY <2>1, StepKeeps
    <2>. QED  BY <2>1, <2>2 DEF InStep
  <1>. QED  BY <1>1, <1>2, <1>3, LadderInvariant, PTL DEF Spec

-----------------------------------------------------------------------------
\* The saved position waits with the one in memory.
WaitInv == V2Waits(pos) /\ V2Waits(saved)

\* A quotation moves neither stop nor trail of a V2 position before TP1.
LEMMA V2Unmoved ==
    ASSUME NEW p \in Position, p.engine = "v2", ~p.tp1, ~p.tp2, ~p.trailing, NEW px, NEW dist, NEW wait
    PROVE  LET u == UpdatePnl(p, px, dist, wait)
           IN  u.sl = p.sl /\ u.initial = p.initial /\ ~u.trailing
  <1> DEFINE b == [p EXCEPT !.best = Larger(@, px)]
             t == [b EXCEPT !.trailing = @ \/ TrailDue(b, px)]
  <1>1. /\ b.engine = "v2" /\ ~b.tp1 /\ ~b.tp2 /\ ~b.trailing /\ b.sl = p.sl /\ b.initial = p.initial
        /\ {"trailing", "sl", "initial"} \subseteq DOMAIN b
    BY DEF Position
  <1>2. UpdatePnl(p, px, dist, wait) = UpdateTrailing(b, px, dist, wait)
    BY <1>1 DEF UpdatePnl
  <1> HIDE DEF b
  <1>3. ~BreakEvenDue(b, px) /\ ~TrailDue(b, px)
    BY <1>1 DEF BreakEvenDue, TrailDue
  <1>4. ~t.trailing /\ t.sl = b.sl /\ t.initial = b.initial
    BY <1>1, <1>3
  <1> HIDE DEF t
  <1>5. UpdateTrailing(b, px, dist, wait) = t
    BY <1>3, <1>4 DEF UpdateTrailing, t
  <1>. QED  BY <1>1, <1>2, <1>4, <1>5

LEMMA QuoteWaits ==
    ASSUME LadderInv, WaitInv, NEW px \in Prices, NEW dist \in Distances, NEW wait \in BOOLEAN
    PROVE  LET u == UpdatePnl(pos, px, dist, wait) IN u \in Position /\ V2Waits(u)
  <1>1. pos \in Position /\ Sane(pos) /\ V2Waits(pos)
    BY DEF LadderInv, TypeOK, WaitInv
  <1>2. Quoted(pos, px, UpdatePnl(pos, px, dist, wait))
    BY <1>1, UpdateSane
  <1>3. CASE pos.engine = "v2" /\ ~pos.tp1
    <2>1. ~pos.tp2 /\ ~pos.trailing /\ pos.sl = pos.initial
      BY <1>1, <1>3 DEF Sane, V2Waits
    <2>. QED  BY <1>1, <1>2, <1>3, <2>1, V2Unmoved DEF Quoted, V2Waits
  <1>. QED  BY <1>2, <1>3 DEF Quoted, V2Waits

LEMMA ChecksWait ==
    ASSUME LadderInv, WaitInv, NEW px \in Prices, NEW dist \in Distances, NEW wait \in BOOLEAN,
           NEW sold \in BOOLEAN, NEW other \in BOOLEAN, CheckExits(px, dist, wait, sold, other)
    PROVE  Close \/ V2Waits(pos')
  <1> DEFINE p == UpdatePnl(pos, px, dist, wait)
             action == IF p.engine = "v2" THEN DecideV2(p, px) ELSE DecidePrice(p, px)
             price1 == IF p.engine = "v2" THEN Tp1 ELSE px
             price2 == IF p.engine = "v2" THEN Tp2 ELSE px
             first == Partial(p, 1, price1, dist, sold)
             second == Partial(p, 2, price2, dist, sold)
             next == CASE action = "tp1"  -> IF p.engine = "v2" THEN [first EXCEPT !.sl = BreakEven]
                                             ELSE first
                       [] action = "tp2"  -> second
                       [] action = "none" -> p
  <1>1. V2Waits(p) /\ p \in Position
    BY QuoteWaits
  <1>2. pos \in Position /\ Sane(pos) /\ Quoted(pos, px, p)
    BY UpdateSane DEF LadderInv, TypeOK
  <1>3. /\ action \in {"tp1", "tp2", "close", "none"}
        /\ action = "tp1" => px >= Tp1
        /\ action = "tp2" => px >= Tp2 /\ p.tp1 /\ ~p.tp2
    <2>1. p \in Position /\ Sane(p)
      BY <1>2 DEF Quoted
    <2>. QED  BY <2>1, DecisionFacts
  <1>4. Close \/ (action \in {"tp1", "tp2", "none"} /\ pos' = next)
    BY <1>3 DEF CheckExits, Keep
  <1>5. /\ Sane(p) /\ px <= p.best /\ px \in Int /\ p.best \in Int /\ Tp1 \in Int /\ Tp2 \in Int
        /\ Tp1 < Tp2
    BY <1>2, Levels DEF Quoted, Position
  <1>6. CASE action = "tp1" /\ pos' = next
    <2>1. price1 \in Int /\ price1 <= p.best /\ p.best >= Tp1
      BY <1>3, <1>5, <1>6
    <2>2. first.tp1 /\ first \in Position
      BY <1>1, <1>5, <2>1, PartialSane
    <2> HIDE DEF first, action
    <2>3. pos' = IF p.engine = "v2" THEN [first EXCEPT !.sl = BreakEven] ELSE first
      BY <1>6
    <2>4. pos'.tp1
      BY <2>2, <2>3 DEF Position
    <2>. QED  BY <2>4 DEF V2Waits
  <1>7. CASE action = "tp2" /\ pos' = next
    <2>1. price2 \in Int /\ price2 <= p.best /\ p.best >= Tp1 /\ p.tp1
      BY <1>3, <1>5, <1>7
    <2>2. second.tp1
      BY <1>1, <1>5, <2>1, PartialSane
    <2> HIDE DEF second, action
    <2>3. pos' = second
      BY <1>7
    <2>. QED  BY <2>2, <2>3 DEF V2Waits
  <1>8. CASE action = "none" /\ pos' = next
    <2> HIDE DEF action, p
    <2>1. pos' = p
      BY <1>8
    <2>. QED  BY <1>1, <2>1
  <1>. QED  BY <1>4, <1>6, <1>7, <1>8

LEMMA WaitKept ==
    ASSUME LadderInv, WaitInv, [Next]_vars
    PROVE  WaitInv'
  <1>1. pos \in Position /\ saved \in Position /\ V2Waits(pos) /\ V2Waits(saved)
    BY DEF LadderInv, TypeOK, WaitInv
  <1>2. ASSUME Close PROVE V2Waits(pos')
    BY <1>1, <1>2 DEF Close, V2Waits, Position
  <1>3. ASSUME NEW px \in Prices, NEW dist \in Distances, NEW wait \in BOOLEAN, Quote(px, dist, wait)
        PROVE  WaitInv'
    BY <1>1, <1>3, QuoteWaits DEF Quote, Keep, WaitInv
  <1>4. ASSUME NEW px \in Prices, NEW dist \in Distances, NEW wait \in BOOLEAN, NEW stale \in BOOLEAN,
               EngineStop(px, dist, wait, stale)
        PROVE  WaitInv'
    <2> DEFINE u == UpdatePnl(pos, px, dist, wait)
    <2>1. u \in Position /\ V2Waits(u)
      BY QuoteWaits
    <2>2. saved' = saved /\ (Close \/ pos' = [u EXCEPT !.tp = StopTp, !.hardTp = TRUE])
      BY <1>4 DEF EngineStop, Keep
    <2> HIDE DEF u
    <2>3. V2Waits([u EXCEPT !.tp = StopTp, !.hardTp = TRUE])
      BY <2>1 DEF V2Waits, Position
    <2>. QED  BY <1>1, <1>2, <2>2, <2>3 DEF WaitInv
  <1>5. ASSUME NEW px \in Prices, NEW dist \in Distances, NEW wait \in BOOLEAN,
               NEW sold \in BOOLEAN, NEW other \in BOOLEAN, CheckExits(px, dist, wait, sold, other)
        PROVE  WaitInv'
    <2>1. saved' = saved
      BY <1>5 DEF CheckExits
    <2>. QED  BY <1>1, <1>2, <1>5, <2>1, ChecksWait DEF WaitInv
  <1>6. CASE CloseByHand
    BY <1>1, <1>2, <1>6 DEF CloseByHand, WaitInv
  <1>7. CASE SaveState
    BY <1>1, <1>7 DEF SaveState, WaitInv, V2Waits, Position
  <1>8. CASE \E shown \in BOOLEAN : Restart(shown)
    <2>1. pos' = Restored(saved) /\ saved' = saved
      BY <1>8 DEF Restart
    <2>. QED  BY <1>1, <2>1 DEF Restored, WaitInv, V2Waits, Position
  <1>9. CASE UNCHANGED vars
    BY <1>1, <1>9 DEF vars, WaitInv
  <1>. QED  BY <1>3, <1>4, <1>5, <1>6, <1>7, <1>8, <1>9 DEF Next

\* What remains of "V2 goes to break-even after TP1 and trails after TP2":
\* before TP1 neither happens, the stop is where it was set, however far
\* the price went and whatever was saved and restored.
THEOREM V2WaitsForTp1 == Spec => []V2StopWaits
  <1>1. Init => WaitInv
    <2> SUFFICES ASSUME Init PROVE WaitInv
      OBVIOUS
    <2>1. PICK e \in Engines : pos = Opened(e)
      BY DEF Init
    <2>2. pos.sl = pos.initial /\ ~pos.trailing
      BY <2>1 DEF Opened
    <2>3. saved = [pos EXCEPT !.open = FALSE]
      BY DEF Init
    <2>4. saved.sl = pos.sl /\ saved.initial = pos.initial /\ saved.trailing = pos.trailing
      BY <2>1, <2>3 DEF Opened
    <2>. QED  BY <2>2, <2>4 DEF WaitInv, V2Waits
  <1>2. LadderInv /\ WaitInv /\ [Next]_vars => WaitInv'
    BY WaitKept
  <1>3. WaitInv => V2StopWaits
    BY DEF WaitInv, V2StopWaits
  <1>. QED  BY <1>1, <1>2, <1>3, LadderInvariant, PTL DEF Spec

-----------------------------------------------------------------------------
\* A quotation leaves the take-profit alone, and outside V2 nothing but the
\* trail and the stop moves.
LEMMA TargetStays ==
    ASSUME NEW p \in Position, p.engine # "v2", NEW px \in Prices, NEW dist \in Distances,
           NEW wait \in BOOLEAN
    PROVE  LET u == UpdatePnl(p, px, dist, wait)
           IN  u.tp = p.tp /\ u.hardTp = p.hardTp /\ u.open = p.open
  <1> DEFINE b == [p EXCEPT !.best = Larger(@, px)]
             d == IF BreakEvenDue(b, px) THEN Tightened(b, BreakEven) ELSE b
             t == [d EXCEPT !.trailing = @ \/ TrailDue(b, px)]
             u == IF t.trailing /\ t.best - dist > t.trail /\ (t.trail = NoLevel \/ ~wait)
                  THEN [t EXCEPT !.trail = t.best - dist, !.sl = Larger(@, t.best - dist)]
                  ELSE t
  <1>1. b.engine # "v2" /\ b.tp = p.tp /\ b.hardTp = p.hardTp /\ b.open = p.open
    BY DEF Position
  <1>2. DOMAIN b = DOMAIN p /\ {"tp", "hardTp", "open", "trailing", "sl", "trail"} \subseteq DOMAIN p
    BY DEF Position
  <1> HIDE DEF b
  <1>3. d.tp = b.tp /\ d.hardTp = b.hardTp /\ d.open = b.open /\ DOMAIN d = DOMAIN b
    BY <1>2 DEF Tightened
  <1> HIDE DEF d
  <1>4. t.tp = d.tp /\ t.hardTp = d.hardTp /\ t.open = d.open /\ DOMAIN t = DOMAIN d
    BY <1>2, <1>3
  <1> HIDE DEF t
  <1>5. u.tp = t.tp /\ u.hardTp = t.hardTp /\ u.open = t.open
    BY <1>2, <1>3, <1>4
  <1>6. UpdatePnl(p, px, dist, wait) = u
    BY <1>1 DEF UpdatePnl, UpdateTrailing, b, d, t, u
  <1>. QED  BY <1>1, <1>3, <1>4, <1>5, <1>6

\* exit_rules.py's sentence, that the take-profit of an engine stop counts, is
\* true of every engine but V2: a check at or beyond it closes the position,
\* or first takes the partial that is still due.
THEOREM StopTpCountsOutsideV2 ==
    ASSUME "v2" \notin Engines
    PROVE  Spec => StopTpCounts
  <1>1. ASSUME LadderInv, NEW px \in Prices, NEW dist \in Distances, NEW wait \in BOOLEAN,
               NEW sold \in BOOLEAN, NEW other \in BOOLEAN,
               CheckExits(px, dist, wait, sold, other), pos.hardTp, px >= pos.tp
        PROVE  ~pos'.open \/ <<pos'.tp1, pos'.tp2>> # <<pos.tp1, pos.tp2>>
    <2> DEFINE p == UpdatePnl(pos, px, dist, wait)
               first == Partial(p, 1, px, dist, sold)
               second == Partial(p, 2, px, dist, sold)
    <2>1. pos \in Position /\ Sane(pos) /\ pos.engine # "v2" /\ px \in Int
      BY <1>1, Levels DEF LadderInv, TypeOK, Position
    <2>2. Quoted(pos, px, p)
      BY <2>1, UpdateSane
    <2>3. p.tp = pos.tp /\ p.hardTp = pos.hardTp
      BY <2>1, TargetStays
    <2>4. p \in Position /\ Sane(p) /\ p.engine # "v2" /\ p.tp1 = pos.tp1 /\ p.tp2 = pos.tp2
          /\ px <= p.best /\ p.best \in Int
      BY <2>1, <2>2 DEF Quoted, Position
    <2>5. CASE Close
      BY <2>1, <2>5 DEF Close, Position
    <2>6. CASE ~Close
      <3>1. \/ DecidePrice(p, px) = "tp1" /\ pos' = first
            \/ DecidePrice(p, px) = "tp2" /\ pos' = second
            \/ DecidePrice(p, px) = "none"
        <4>1. DecidePrice(p, px) \in {"tp1", "tp2", "close", "none"}
          BY DEF DecidePrice
        <4>. QED  BY <1>1, <2>4, <2>6, <4>1 DEF CheckExits, Keep
      <3>2. DecidePrice(p, px) # "none"
        BY <1>1, <2>3 DEF DecidePrice
      <3>3. CASE DecidePrice(p, px) = "tp1" /\ pos' = first
        <4>1. ~p.tp1 /\ px >= Tp1
          BY <3>3 DEF DecidePrice
        <4>2. first.tp1
          BY <2>1, <2>4, <4>1, Levels, PartialSane
        <4>. QED  BY <2>4, <3>3, <4>1, <4>2
      <3>4. CASE DecidePrice(p, px) = "tp2" /\ pos' = second
        <4>1. p.tp1 /\ ~p.tp2 /\ px >= Tp2
          BY <3>4 DEF DecidePrice
        <4>2. second.tp2
          BY <2>1, <2>4, <4>1, Levels, PartialSane
        <4>. QED  BY <2>4, <3>4, <4>1, <4>2
      <3>. QED  BY <3>1, <3>2, <3>3, <3>4
    <2>. QED  BY <2>5, <2>6
  <1>2. LadderInv /\ [Next]_vars =>
          [\A px \in Prices, dist \in Distances, wait, sold, other \in BOOLEAN :
              CheckExits(px, dist, wait, sold, other) /\ pos.hardTp /\ px >= pos.tp
                  => ~pos'.open \/ <<pos'.tp1, pos'.tp2>> # <<pos.tp1, pos.tp2>>]_vars
    BY <1>1
  <1>. QED  BY <1>2, LadderInvariant, PTL DEF Spec, StopTpCounts
=============================================================================
