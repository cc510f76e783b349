------------------------- MODULE BookPromiseProofs --------------------------
(***************************************************************************)
(* PaperEngine implements BookPromise: for any commanders and symbols, any *)
(* number of trades, stages, midnights, restarts and account syncs.        *)
(* Builds on the invariant of PaperEngineProofs.                           *)
(***************************************************************************)
EXTENDS PaperEngineProofs, NaturalsInduction, WellFoundedInduction

\* Only the bot checks exits, so no partial leg reaches the entry it has just
\* appended.
Managed == \A c \in Threads : pc[c] = "checking" \/ task[c] = "manage" => c = Bot

\* A position that may still be taken back has earned nothing.
Unearned == pc[Bot] = "appended" /\ Newest \in Open => pos[Newest].part = 0

\* A position half closed waits for a leg.
Booked == \A t \in Trades : pos[t].st = "booking" => pos[t].res \in Legs

\* The variables of BookPromise that are functions of a trade.
Lives == [t \in Trades |-> LifeOf(t)]
Holdings == [t \in Trades |-> HeldBy(t)]
Earnings == [t \in Trades |-> Earned(t)]

\* The threads that have read paper_capital and not yet written it back.
Syncers == {c \in Threads : pc[c] = "syncing"}

\* An amount that differs from the sum of the legs by the missed ones at most.
Near(amount) == amount - SumFunction(Earnings) \in (-missed)..missed

\* Both capitals, and what a sync has read, are near the sum.
AllNear == Near(risk.profit) /\ Near(risk.paper) /\ \A c \in Syncers : Near(cap[c])

BookInv == EngineInv /\ Managed /\ Unearned /\ Booked

-----------------------------------------------------------------------------
(***************************************************************************)
(* The two capitals change by a leg, with a sync, and with a new session.  *)
(***************************************************************************)
\* Record q has the capitals of record r; or those and one leg more, on r's
\* current capital.
Same(r, q) == q.profit = r.profit /\ q.paper = r.paper
Adds1(r, q, x) == q.profit = r.profit + x /\ q.paper = r.profit + x

LEMMA Profits ==
    ASSUME NEW n \in Nat, NEW r \in RiskState(n), NEW day \in 0..MaxDays, NEW x \in Int
    PROVE  /\ \A reason \in Reasons : Same(r, Halt(r, reason))
           /\ Same(r, Unhalt(r)) /\ Same(r, KillHalt(r))
           /\ Same(r, CheckNewDay(r, day))
           /\ Same(r, RegisterOpen(r)) /\ Same(r, RegisterClose(r))
           /\ \A m : Same(r, SyncOpenCount(r, m))
           /\ Adds1(r, UpdateCapital(r, x, day), x)
  <1>1. \A q \in RiskState(n) : \A reason : Same(q, Halt(q, reason)) /\ Same(q, Unhalt(q))
    BY DEF RiskState, Halt, Unhalt, Same
  <1>2. Same(r, KillHalt(r))
    BY DEF RiskState, Halt, KillHalt, Same
  <1>3. CheckNewDay(r, day) \in RiskState(n) /\ Same(r, CheckNewDay(r, day))
    <2>1. ASSUME NEW q \in RiskState(n)
          PROVE  Same(q, [q EXCEPT !.day = day, !.daily = 0])
      BY DEF RiskState, Same
    <2>2. Unhalt(r) \in RiskState(n) /\ CheckNewDay(r, day) \in RiskState(n) /\ Same(r, r)
      BY RiskTypes DEF Same
    <2>3. CASE r.reason = Daily /\ r.day # day
      <3>1. CheckNewDay(r, day) = [Unhalt(r) EXCEPT !.day = day, !.daily = 0]
        BY <2>3 DEF CheckNewDay
      <3>2. Same(Unhalt(r), [Unhalt(r) EXCEPT !.day = day, !.daily = 0])
        BY <2>1, <2>2
      <3>. QED  BY <1>1, <2>2, <3>1, <3>2 DEF Same
    <2>4. CASE r.reason # Daily /\ r.day # day
      <3>1. Same(r, [r EXCEPT !.day = day, !.daily = 0])
        BY <2>1
      <3>. QED  BY <2>2, <2>4, <3>1 DEF CheckNewDay
    <2>5. CASE r.day = day
      BY <2>2, <2>5 DEF CheckNewDay
    <2>. QED  BY <2>2, <2>3, <2>4, <2>5
  <1>4. Adds1(r, UpdateCapital(r, x, day), x)
    <2>1. PICK q \in RiskState(n) : q = CheckNewDay(r, day) /\ q.profit = r.profit
      BY <1>3 DEF Same
    <2> DEFINE b == [q EXCEPT !.profit = @ + x, !.paper = q.profit + x, !.daily = @ + x]
    <2>2. b \in RiskState(n) /\ b.profit = q.profit + x /\ b.paper = q.profit + x
      <3>1. q.profit \in Int /\ q.daily \in Int
        BY DEF RiskState
      <3>2. q.profit + x \in Int /\ q.daily + x \in Int
        BY <3>1
      <3>3. b.profit = q.profit + x /\ b.paper = q.profit + x
        BY <3>2 DEF RiskState
      <3>4. b \in RiskState(n)
        BY <3>2 DEF RiskState
      <3>. QED  BY <3>3, <3>4
    <2>3. UpdateCapital(r, x, day) = IF -b.daily >= DailyLimit THEN Halt(b, Daily) ELSE b
      BY <2>1 DEF UpdateCapital
    <2> HIDE DEF b
    <2>. QED  BY <1>1, <2>1, <2>2, <2>3 DEF Same, Adds1
  <1>5. /\ Same(r, RegisterOpen(r)) /\ Same(r, RegisterClose(r))
        /\ \A m : Same(r, SyncOpenCount(r, m))
    BY DEF RiskState, RegisterOpen, RegisterClose, SyncOpenCount, Same
  <1>. QED  BY <1>1, <1>2, <1>3, <1>4, <1>5

\* The same of the risk record of any state.
LEMMA ProfitHere ==
    ASSUME Typed
    PROVE  /\ risk.profit \in Int /\ risk.paper \in Int /\ Same(risk, risk)
           /\ \A reason \in Reasons : Same(risk, Halt(risk, reason))
           /\ Same(risk, KillHalt(risk))
           /\ Same(risk, CheckNewDay(risk, today))
           /\ Same(risk, RegisterOpen(risk))
           /\ \A m : /\ Same(risk, SyncOpenCount(risk, m))
                     /\ Same(risk, SyncOpenCount(Unhalt(risk), m))
           /\ \A x \in Int : /\ Adds1(risk, UpdateCapital(risk, x, today), x)
                             /\ Adds1(risk, UpdateCapital(RegisterClose(risk), x, today), x)
  <1>1. Slots \in Nat /\ risk \in RiskState(Slots) /\ today \in 0..MaxDays
    BY Bounds DEF Typed, OtherTypes, Slots
  <1>2. Unhalt(risk) \in RiskState(Slots) /\ RegisterClose(risk) \in RiskState(Slots)
    BY <1>1, 0 \in Int, RiskTypes
  <1>3. risk.profit \in Int /\ risk.paper \in Int
    BY <1>1 DEF RiskState
  <1>4. ASSUME NEW x \in Int
        PROVE  /\ \A reason \in Reasons : Same(risk, Halt(risk, reason))
               /\ Same(risk, KillHalt(risk)) /\ Same(risk, CheckNewDay(risk, today))
               /\ Same(risk, RegisterOpen(risk)) /\ Same(risk, Unhalt(risk))
               /\ Same(risk, RegisterClose(risk))
               /\ \A m : Same(risk, SyncOpenCount(risk, m))
               /\ \A m : Same(Unhalt(risk), SyncOpenCount(Unhalt(risk), m))
               /\ Adds1(risk, UpdateCapital(risk, x, today), x)
               /\ Adds1(RegisterClose(risk), UpdateCapital(RegisterClose(risk), x, today), x)
    BY <1>1, <1>2, Profits
  <1>. QED  BY <1>3, <1>4, 0 \in Int DEF Same, Adds1

-----------------------------------------------------------------------------
(***************************************************************************)
(* Sums over a finite set.  SumFunction adds the values of a function one  *)
(* picked element at a time; the equation of that recursion has a solution *)
(* on the subsets of a finite set, and a property of subsets is proved by  *)
(* taking the picked element away.  The induction itself is the one of the *)
(* naturals, stated for a set: the least natural outside it is no          *)
(* successor and not zero.                                                 *)
(***************************************************************************)
Picked(s) == CHOOSE x \in s : TRUE
\* The equation SumFunction is defined by, with its solution.
Adds(f, S, sums) ==
    sums = [s \in SUBSET S |-> IF s = {} THEN 0 ELSE f[Picked(s)] + sums[s \ {Picked(s)}]]
Sums(f, S) == CHOOSE sums : Adds(f, S, sums)

\* A set of naturals with zero and the successor of each member has them all.
LEMMA NatInduct ==
    ASSUME NEW S \in SUBSET Nat, 0 \in S, \A n \in S : n + 1 \in S
    PROVE  S = Nat
  <1> SUFFICES ASSUME Nat \ S # {} PROVE FALSE
    OBVIOUS
  <1>1. \E m \in Nat \ S : \A b \in Nat \ S : ~(<<b, m>> \in OpToRel(<, Nat))
    BY NatLessThanWellFounded, WFMin
  <1>2. PICK m \in Nat \ S : \A b \in Nat \ S : ~(<<b, m>> \in OpToRel(<, Nat))
    BY <1>1
  <1>3. PICK k \in Nat : k + 1 = m
    <2>1. m # 0 /\ m - 1 \in Nat /\ (m - 1) + 1 = m
      OBVIOUS
    <2>. QED  BY <2>1
  <1>4. <<k, m>> \in OpToRel(<, Nat)
    BY <1>3 DEF OpToRel
  <1>5. k \in S
    BY <1>2, <1>4, Zenon
  <1>. QED  BY <1>3, <1>5

\* Taking the picked element away leaves one element less.
LEMMA PickOne ==
    ASSUME NEW S, IsFiniteSet(S), NEW s \in SUBSET S, s # {}
    PROVE  /\ Picked(s) \in s /\ s \ {Picked(s)} \in SUBSET S
           /\ Cardinality(s) \in Nat /\ Cardinality(s) > 0
           /\ Cardinality(s \ {Picked(s)}) = Cardinality(s) - 1
  <1>1. Picked(s) \in s
    BY DEF Picked
  <1>2. IsFiniteSet(s)
    BY FS_Subset
  <1>3. Cardinality(s) \in Nat /\ Cardinality(s) # 0
    BY <1>2, FS_CardinalityType, FS_EmptySet
  <1>4. Cardinality(s \ {Picked(s)}) = Cardinality(s) - 1
    BY <1>1, <1>2, FS_RemoveElement
  <1>. QED  BY <1>1, <1>3, <1>4

\* The equation has a solution: on the sets of up to n elements for every n.
LEMMA SumsAdd ==
    ASSUME NEW f, NEW S, IsFiniteSet(S)
    PROVE  Adds(f, S, Sums(f, S))
  <1> DEFINE Upto(n) == {s \in SUBSET S : Cardinality(s) <= n}
             Step(s, g) == IF s = {} THEN 0 ELSE f[Picked(s)] + g[s \ {Picked(s)}]
             Good == {n \in Nat : \E g : g = [s \in Upto(n) |-> Step(s, g)]}
  <1>1. 0 \in Good
    <2> DEFINE g == [s \in Upto(0) |-> 0]
    <2>1. \A s \in Upto(0) : s = {}
      <3> SUFFICES ASSUME NEW s \in SUBSET S, Cardinality(s) <= 0, s # {} PROVE FALSE
        OBVIOUS
      <3>1. Cardinality(s) > 0 /\ Cardinality(s) \in Nat
        BY PickOne
      <3>. QED  BY <3>1
    <2>2. \A s \in Upto(0) : Step(s, g) = 0
      BY <2>1
    <2>3. g = [s \in Upto(0) |-> Step(s, g)]
      BY <2>2
    <2> HIDE DEF g, Step, Upto
    <2>. QED  BY <2>3
  <1>2. ASSUME NEW n \in Good PROVE n + 1 \in Good
    <2>1. PICK g : g = [s \in Upto(n) |-> Step(s, g)]
      BY <1>2
    <2> DEFINE h == [s \in Upto(n + 1) |-> Step(s, g)]
    <2>2. ASSUME NEW s \in Upto(n + 1) PROVE Step(s, h) = Step(s, g)
      <3>1. CASE s = {}
        BY <3>1
      <3>2. CASE s # {}
        <4> DEFINE r == s \ {Picked(s)}
        <4>1. r \in Upto(n) /\ r \in Upto(n + 1)
          <5>1. Cardinality(r) = Cardinality(s) - 1 /\ Cardinality(s) \in Nat /\ r \in SUBSET S
            BY <3>2, PickOne
          <5>. QED  BY <1>2, <5>1
        <4>2. h[r] = Step(r, g)
          BY <4>1
        <4>3. g[r] = Step(r, g)
          <5> HIDE DEF Step, Upto, r, h
          <5>. QED  BY <2>1, <4>1
        <4>. QED  BY <4>2, <4>3
      <3>. QED  BY <3>1, <3>2
    <2>3. h = [s \in Upto(n + 1) |-> Step(s, h)]
      <3> HIDE DEF Step, Upto
      <3>. QED  BY <2>2
    <2>4. n + 1 \in Nat
      OBVIOUS
    <2> HIDE DEF Step, Upto, h
    <2>. QED  BY <2>3, <2>4
  <1>3. Good = Nat
    <2> HIDE DEF Good
    <2>1. Good \in SUBSET Nat
      BY DEF Good
    <2>. QED  BY <1>1, <1>2, <2>1, NatInduct
  <1>4. Cardinality(S) \in Nat /\ Upto(Cardinality(S)) = SUBSET S
    <2>1. Cardinality(S) \in Nat
      BY FS_CardinalityType
    <2>2. \A s \in SUBSET S : Cardinality(s) <= Cardinality(S)
      BY FS_Subset
    <2>. QED  BY <2>1, <2>2
  <1>5. \E g : g = [s \in SUBSET S |-> Step(s, g)]
    <2>1. Cardinality(S) \in Good
      BY <1>3, <1>4
    <2>2. \E g : g = [s \in Upto(Cardinality(S)) |-> Step(s, g)]
      BY <2>1
    <2> HIDE DEF Upto, Step
    <2>. QED  BY <1>4, <2>2
  <1>6. \E g : Adds(f, S, g)
    BY <1>5 DEF Adds
  <1>. QED  BY <1>6 DEF Sums

\* SumFunction is that solution at the whole domain.
LEMMA SumOf ==
    ASSUME NEW f
    PROVE  SumFunction(f) = Sums(f, DOMAIN f)[DOMAIN f]
  BY DEF SumFunction, SumFunctionOnSet, FoldFunctionOnSet, MapThenFoldSet, Sums, Adds, Picked

\* One step of the sum.
LEMMA SumStep ==
    ASSUME NEW f, NEW S, IsFiniteSet(S), NEW s \in SUBSET S
    PROVE  /\ s = {} => Sums(f, S)[s] = 0
           /\ s # {} => Sums(f, S)[s] = f[Picked(s)] + Sums(f, S)[s \ {Picked(s)}]
  <1> DEFINE g == Sums(f, S)
  <1>1. Adds(f, S, g)
    BY SumsAdd
  <1> HIDE DEF g
  <1>2. g = [r \in SUBSET S |-> IF r = {} THEN 0 ELSE f[Picked(r)] + g[r \ {Picked(r)}]]
    BY <1>1 DEF Adds
  <1>3. g[s] = IF s = {} THEN 0 ELSE f[Picked(s)] + g[s \ {Picked(s)}]
    BY <1>2
  <1>. QED  BY <1>3 DEF g

LEMMA SumOfNone ==
    ASSUME NEW f, NEW S, IsFiniteSet(S)
    PROVE  Sums(f, S)[{}] = 0
  <1>1. {} \in SUBSET S
    OBVIOUS
  <1>. QED  BY <1>1, SumStep

\* What holds of {} and comes back with the picked element holds of every
\* subset.
LEMMA SubsetInduct ==
    ASSUME NEW S, IsFiniteSet(S), NEW P \in SUBSET (SUBSET S), {} \in P,
           \A r \in SUBSET S : r # {} /\ r \ {Picked(r)} \in P => r \in P
    PROVE  P = SUBSET S
  <1> DEFINE Good == {n \in Nat : \A r \in SUBSET S : Cardinality(r) = n => r \in P}
  <1>1. 0 \in Good
    <2> SUFFICES ASSUME NEW r \in SUBSET S, Cardinality(r) = 0 PROVE r \in P
      OBVIOUS
    <2>1. r = {}
      BY FS_Subset, FS_EmptySet
    <2>. QED  BY <2>1
  <1>2. ASSUME NEW n \in Good PROVE n + 1 \in Good
    <2> SUFFICES ASSUME NEW r \in SUBSET S, Cardinality(r) = n + 1 PROVE r \in P
      OBVIOUS
    <2>1. n \in Nat /\ n + 1 # 0
      OBVIOUS
    <2>2. r # {}
      <3> HIDE DEF Good
      <3>. QED  BY <2>1, FS_EmptySet
    <2>3. r \ {Picked(r)} \in SUBSET S /\ Cardinality(r \ {Picked(r)}) = n
      <3>1. r \ {Picked(r)} \in SUBSET S /\ Cardinality(r \ {Picked(r)}) = Cardinality(r) - 1
        BY <2>2, PickOne
      <3>. QED  BY <2>1, <3>1
    <2>4. r \ {Picked(r)} \in P
      BY <2>3
    <2>. QED  BY <2>2, <2>4
  <1>3. Good = Nat
    <2>1. Good \in SUBSET Nat
      OBVIOUS
    <2> HIDE DEF Good
    <2>. QED  BY <1>1, <1>2, <2>1, NatInduct
  <1>4. \A r \in SUBSET S : Cardinality(r) \in Nat
    BY FS_Subset, FS_CardinalityType
  <1>. QED  BY <1>3, <1>4

\* Integers sum to an integer.
LEMMA SumIsInt ==
    ASSUME NEW S, IsFiniteSet(S), NEW f \in [S -> Int], NEW s \in SUBSET S
    PROVE  Sums(f, S)[s] \in Int
  <1> DEFINE P == {r \in SUBSET S : Sums(f, S)[r] \in Int}
  <1>1. {} \in P
    BY SumOfNone
  <1>2. ASSUME NEW r \in SUBSET S, r # {}, r \ {Picked(r)} \in P PROVE r \in P
    <2>1. f[Picked(r)] \in Int
      BY <1>2, PickOne
    <2>2. Sums(f, S)[r] = f[Picked(r)] + Sums(f, S)[r \ {Picked(r)}]
      <3> HIDE DEF P
      <3>. QED  BY <1>2, SumStep
    <2>3. Sums(f, S)[r \ {Picked(r)}] \in Int
      BY <1>2
    <2>. QED  BY <2>1, <2>2, <2>3
  <1>3. P \in SUBSET (SUBSET S)
    OBVIOUS
  <1>4. P = SUBSET S
    <2> HIDE DEF P
    <2>. QED  BY <1>1, <1>2, <1>3, SubsetInduct
  <1>. QED  BY <1>4

\* A function that grows by d in one place grows by d in every sum with it.
LEMMA SumMoves ==
    ASSUME NEW S, IsFiniteSet(S), NEW f \in [S -> Int], NEW t \in S, NEW d \in Int,
           NEW h \in [S -> Int], \A x \in S : h[x] = f[x] + (IF x = t THEN d ELSE 0)
    PROVE  \A s \in SUBSET S : Sums(h, S)[s] = Sums(f, S)[s] + (IF t \in s THEN d ELSE 0)
  <1> DEFINE New(r) == Sums(h, S)[r]
             Old(r) == Sums(f, S)[r]
             P == {r \in SUBSET S : New(r) = Old(r) + (IF t \in r THEN d ELSE 0)}
  <1>1. {} \in P
    <2>1. New({}) = 0
      BY SumOfNone
    <2>2. Old({}) = 0
      BY SumOfNone
    <2> HIDE DEF New, Old
    <2>. QED  BY <2>1, <2>2
  <1>2. ASSUME NEW r \in SUBSET S, r # {}, r \ {Picked(r)} \in P PROVE r \in P
    <2> DEFINE x == Picked(r)
               q == r \ {x}
    <2>1. x \in r /\ x \in S
      BY <1>2, PickOne
    <2>2. New(r) = h[x] + New(q) /\ Old(r) = f[x] + Old(q)
      <3> HIDE DEF P
      <3>1. New(r) = h[x] + New(q)
        BY <1>2, SumStep
      <3>2. Old(r) = f[x] + Old(q)
        BY <1>2, SumStep
      <3>. QED  BY <3>1, <3>2
    <2>3. Old(q) \in Int
      BY SumIsInt
    <2>4. New(q) = Old(q) + (IF t \in q THEN d ELSE 0)
      BY <1>2
    <2>5. f[x] \in Int /\ h[x] = f[x] + (IF x = t THEN d ELSE 0)
      BY <2>1
    <2>6. New(r) = Old(r) + (IF t \in r THEN d ELSE 0)
      <3>1. CASE x = t
        <4>1. t \in r /\ t \notin q
          BY <2>1, <3>1
        <4> HIDE DEF New, Old, x, q
        <4>. QED  BY <2>2, <2>3, <2>4, <2>5, <3>1, <4>1
      <3>2. CASE x # t
        <4>1. t \in r <=> t \in q
          BY <3>2
        <4> HIDE DEF New, Old, x, q
        <4>. QED  BY <2>2, <2>3, <2>4, <2>5, <3>2, <4>1
      <3>. QED  BY <3>1, <3>2
    <2>. QED  BY <2>6
  <1>3. P \in SUBSET (SUBSET S)
    OBVIOUS
  <1>4. P = SUBSET S
    <2> HIDE DEF P
    <2>. QED  BY <1>1, <1>2, <1>3, SubsetInduct
  <1>. QED  BY <1>4

\* Nothing adds up to nothing.
LEMMA SumOfZeros ==
    ASSUME NEW S, IsFiniteSet(S), NEW z \in [S -> {0}]
    PROVE  \A s \in SUBSET S : Sums(z, S)[s] = 0
  <1> DEFINE P == {r \in SUBSET S : Sums(z, S)[r] = 0}
  <1>1. {} \in P
    BY SumOfNone
  <1>2. ASSUME NEW r \in SUBSET S, r # {}, r \ {Picked(r)} \in P PROVE r \in P
    <2>1. z[Picked(r)] = 0
      BY <1>2, PickOne
    <2>2. Sums(z, S)[r] = z[Picked(r)] + Sums(z, S)[r \ {Picked(r)}]
      BY <1>2, SumStep
    <2>3. Sums(z, S)[r \ {Picked(r)}] = 0
      BY <1>2
    <2>. QED  BY <2>1, <2>2, <2>3
  <1>3. P \in SUBSET (SUBSET S)
    OBVIOUS
  <1>4. P = SUBSET S
    <2> HIDE DEF P
    <2>. QED  BY <1>1, <1>2, <1>3, SubsetInduct
  <1>. QED  BY <1>4

\* What a book needs of SumFunction, which adds the realised legs of the trades:
\* zeros sum to zero, integers to an integer, and a function that changes by d
\* at one argument changes its sum by d.
LEMMA SumFacts ==
    ASSUME NEW S, IsFiniteSet(S)
    PROVE  /\ \A z \in [S -> {0}] : SumFunction(z) = 0
           /\ \A f \in [S -> Int] : SumFunction(f) \in Int
           /\ \A f \in [S -> Int], t \in S, d \in Int :
                 SumFunction([f EXCEPT ![t] = @ + d]) = SumFunction(f) + d
  <1>1. S \in SUBSET S
    OBVIOUS
  <1>2. ASSUME NEW z \in [S -> {0}] PROVE SumFunction(z) = 0
    <2>1. DOMAIN z = S
      OBVIOUS
    <2>2. Sums(z, S)[S] = 0
      BY <1>1, SumOfZeros
    <2>. QED  BY <2>1, <2>2, SumOf
  <1>3. ASSUME NEW f \in [S -> Int] PROVE DOMAIN f = S /\ SumFunction(f) = Sums(f, S)[S]
    <2>1. DOMAIN f = S
      OBVIOUS
    <2>. QED  BY <2>1, SumOf
  <1>4. ASSUME NEW f \in [S -> Int], NEW t \in S, NEW d \in Int
        PROVE  SumFunction([f EXCEPT ![t] = @ + d]) = SumFunction(f) + d
    <2> DEFINE h == [f EXCEPT ![t] = @ + d]
    <2>1. h \in [S -> Int] /\ \A x \in S : h[x] = f[x] + (IF x = t THEN d ELSE 0)
      OBVIOUS
    <2> HIDE DEF h
    <2>2. Sums(h, S)[S] = Sums(f, S)[S] + (IF t \in S THEN d ELSE 0)
      <3>1. \A s \in SUBSET S : Sums(h, S)[s] = Sums(f, S)[s] + (IF t \in s THEN d ELSE 0)
        BY <2>1, SumMoves
      <3>. QED  BY <1>1, <3>1
    <2>3. SumFunction(h) = SumFunction(f) + d
      BY <1>3, <2>1, <2>2
    <2>. QED  BY <2>3 DEF h
  <1>5. ASSUME NEW f \in [S -> Int] PROVE SumFunction(f) \in Int
    BY <1>1, <1>3, SumIsInt
  <1>. QED  BY <1>2, <1>4, <1>5

-----------------------------------------------------------------------------
(***************************************************************************)
(* The kinds of steps.                                                     *)
(***************************************************************************)
\* Steps that touch neither a position nor a capital.
Quiet(c) ==
    \/ TakeBook(c) \/ CloseAllLocks(c) \/ DecideExits(c) \/ ReleaseBook(c)
    \/ StartClears(c) \/ KillFlag(c) \/ (Command(c) /\ ~RefreshScreen(c))

QuietBot ==
    \/ TickStarts("monitor") \/ TickStarts("full")
    \/ DrawdownCheck \/ DailyCheck \/ Scan \/ EndEntries
    \/ \E s \in Symbols : Look(s) \/ PassOver(s)
    \/ Reserve \/ RiskGate \/ OpenRaises \/ Register \/ Attach

QuietOutside ==
    DayRolls \/ GetStatus \/ (\E s \in Symbols : RowExpires(s)) \/ UNCHANGED vars

\* Steps that begin an account sync.
SyncBegins(c) == RefreshScreen(c) \/ (c = Bot /\ TickStarts("fast"))

LEMMA QuietSteps ==
    ASSUME Typed, (\E c \in Threads : Quiet(c)) \/ QuietBot \/ QuietOutside
    PROVE  /\ UNCHANGED <<pos, missed, cap>> /\ Same(risk, risk') /\ Syncers' = Syncers
           /\ pc'[Bot] = "appended" => pc[Bot] = "appended"
  <1> USE DEF flags, thread, entry, outside, book
  <1>1. Typed /\ ThreadTypes /\ Bot \in Threads
    BY Bounds DEF Typed
  <1>2. CASE \E c \in Threads : Quiet(c)
    <2>1. PICK c \in Threads : Quiet(c)
      BY <1>2
    <2>2. UNCHANGED <<pos, missed, cap>>
      BY <2>1 DEF Quiet, TakeBook, CloseAllLocks, DecideExits, ReleaseBook, StartClears, KillFlag,
         Command, StartAnalysis, StartTrading, StopTrading, StopEngine, Pause, Resume, CloseAll,
         KillSwitch, SetReduceOnly, CloseSymbol
    <2>3. Same(risk, risk')
      <3>1. CASE StartAnalysis(c)
        BY <1>1, <3>1 DEF Same, Typed, RiskState, StartAnalysis
      <3>2. CASE StartClears(c)
        <4>1. \/ risk' = SyncOpenCount(risk, NumOpen)
              \/ risk' = SyncOpenCount(Unhalt(risk), NumOpen)
          BY <3>2 DEF StartClears
        <4>. QED  BY <1>1, <4>1, ProfitHere
      <3>3. CASE Resume(c)
        <4>1. \/ risk' = [risk EXCEPT !.paused = FALSE]
              \/ risk' = [Unhalt(risk) EXCEPT !.paused = FALSE]
          BY <3>3 DEF Resume
        <4>. QED  BY <1>1, <4>1 DEF Same, Typed, RiskState, Unhalt
      <3>4. CASE StartTrading(c) \/ StopTrading(c) \/ StopEngine(c) \/ Pause(c)
        BY <1>1, <3>4 DEF Same, Typed, RiskState, StartTrading, StopTrading, StopEngine, Pause
      <3>5. CASE \E on \in BOOLEAN : SetReduceOnly(c, on)
        BY <1>1, <3>5 DEF Same, Typed, RiskState, SetReduceOnly
      <3>6. CASE KillSwitch(c)
        BY <1>1, <3>6, ProfitHere DEF KillSwitch
      <3>7. CASE \/ TakeBook(c) \/ CloseAllLocks(c) \/ DecideExits(c) \/ ReleaseBook(c)
                 \/ KillFlag(c) \/ CloseAll(c) \/ \E s \in Symbols : CloseSymbol(c, s)
        BY <1>1, <3>7, ProfitHere DEF TakeBook, CloseAllLocks, DecideExits, ReleaseBook, KillFlag, CloseAll,
           CloseSymbol
      <3>. QED  BY <2>1, <3>1, <3>2, <3>3, <3>4, <3>5, <3>6, <3>7 DEF Quiet, Command
    <2>4. Syncers' = Syncers /\ (pc'[Bot] = "appended" => pc[Bot] = "appended")
      <3>1. AfterBook(c) \notin {"appended", "syncing"}
        BY DEF AfterBook
      <3>2. \/ pc' = pc
            \/ \E place \in {"wait", "checking", "closing", "outer", "started", "idle", AfterBook(c)} :
                  pc' = [pc EXCEPT ![c] = place]
        BY <2>1 DEF Quiet, TakeBook, CloseAllLocks, DecideExits, ReleaseBook, StartClears, KillFlag,
           Command, StartAnalysis, StartTrading, StopTrading, StopEngine, Pause, Resume, CloseAll,
           KillSwitch, SetReduceOnly, CloseSymbol, WantBook, Goto
      <3>3. pc' = pc \/ pc[c] # "syncing"
        BY <2>1 DEF Quiet, TakeBook, CloseAllLocks, DecideExits, ReleaseBook, StartClears, KillFlag,
           Command, Given, StartAnalysis, StartTrading, StopTrading, StopEngine, Pause, Resume,
           CloseAll, KillSwitch, SetReduceOnly, CloseSymbol
      <3>. QED  BY <1>1, <3>1, <3>2, <3>3 DEF ThreadTypes, Syncers
    <2>. QED  BY <2>2, <2>3, <2>4
  <1>3. CASE QuietBot
    <2>1. UNCHANGED <<pos, missed, cap>>
      BY <1>3 DEF QuietBot, TickStarts, DrawdownCheck, DailyCheck, Scan, EndEntries, Look, LookAnyway,
         PassOver, Reserve, RiskGate, OpenRaises, Register, Attach
    <2>2. Same(risk, risk')
      BY <1>1, <1>3, ProfitHere, Distinct DEF QuietBot, TickStarts, DrawdownCheck, DailyCheck, Scan,
         EndEntries, Look, LookAnyway, PassOver, Reserve, RiskGate, OpenRaises, Register, Attach
    <2>3. \/ pc' = pc
          \/ /\ pc[Bot] # "syncing"
             /\ \E place \in Places \ {"appended", "syncing"} : pc' = [pc EXCEPT ![Bot] = place]
      BY <1>3 DEF QuietBot, TickStarts, DrawdownCheck, DailyCheck, AfterDaily, Scan, EndEntries,
         Look, LookAnyway, PassOver, Reserve, RiskGate, OpenRaises, Register, Attach, WantBook,
         Goto, Places
    <2>. QED  BY <1>1, <2>1, <2>2, <2>3 DEF ThreadTypes, Syncers
  <1>4. CASE QuietOutside
    BY <1>1, <1>4, ProfitHere DEF QuietOutside, DayRolls, GetStatus, RowExpires, vars, Syncers
  <1>. QED  BY <1>2, <1>3, <1>4

\* A sync begins with paper_capital as it is, and ends by writing what it read.
LEMMA SyncSteps ==
    ASSUME Typed, NEW c \in Threads, SyncBegins(c) \/ SyncAccount(c)
    PROVE  /\ UNCHANGED <<pos, missed>>
           /\ c \in Syncers \/ c \in Syncers'
           /\ (pc'[Bot] = "appended" => pc[Bot] = "appended")
           /\ SyncBegins(c) => /\ UNCHANGED risk /\ Syncers' = Syncers \cup {c}
                               /\ cap' = [cap EXCEPT ![c] = risk.paper]
           /\ SyncAccount(c) => /\ risk'.profit = cap[c] /\ risk'.paper = risk.paper
                                /\ Syncers' = Syncers \ {c} /\ c \in Syncers
                                /\ cap' = [cap EXCEPT ![c] = 0]
  <1> USE DEF flags, thread, entry, outside, book, Goto, WantBook
  <1>1. pc \in [Threads -> Places] /\ risk \in RiskState(Slots)
    BY DEF Typed, ThreadTypes
  <1>2. CASE SyncBegins(c)
    <2>1. /\ UNCHANGED <<pos, missed, risk>> /\ pc' = [pc EXCEPT ![c] = "syncing"]
          /\ cap' = [cap EXCEPT ![c] = risk.paper] /\ pc[c] = "idle"
      BY <1>2 DEF SyncBegins, RefreshScreen, Given, BeginSync, TickStarts
    <2>2. ~SyncAccount(c)
      BY <2>1 DEF SyncAccount
    <2>. QED  BY <1>1, <2>1, <2>2 DEF Syncers
  <1>3. CASE SyncAccount(c)
    <2>1. /\ UNCHANGED <<pos, missed>> /\ pc[c] = "syncing"
          /\ \E place \in {"wait", "idle"} : pc' = [pc EXCEPT ![c] = place]
          /\ cap' = [cap EXCEPT ![c] = 0]
      BY <1>3 DEF SyncAccount
    <2>2. risk'.profit = cap[c] /\ risk'.paper = risk.paper
      BY <1>1, <1>3 DEF SyncAccount, ApplyDemoCapital, RiskState
    <2>3. ~SyncBegins(c)
      BY <2>1 DEF SyncBegins, RefreshScreen, Given, TickStarts
    <2>. QED  BY <1>1, <2>1, <2>2, <2>3 DEF Syncers
  <1>. QED  BY <1>2, <1>3

\* The steps that close, append and take back are no steps of a sync.
LEMMA SyncersStay ==
    ASSUME Typed, NEW c \in Threads, NEW t \in Trades,
           PartialClose(c, t) \/ CloseOne(c, t) \/ BookClose(c, t) \/ Append \/ Void
    PROVE  Syncers' = Syncers /\ cap' = cap /\ Syncing' = Syncing
  <1> USE DEF flags, thread, entry, outside, book, Goto
  <1>1. pc \in [Threads -> Places]
    BY DEF Typed, ThreadTypes
  <1>2. /\ cap' = cap
        /\ \/ pc' = pc
           \/ \E d \in {c, Bot}, place \in {"booking", "closing", "appended", "entries"} :
                 pc[d] # "syncing" /\ pc' = [pc EXCEPT ![d] = place]
    BY DEF PartialClose, CloseOne, BookClose, BookAmount, Append, AppendUnlocked, Void
  <1>3. \A d \in Threads : pc'[d] = "syncing" <=> pc[d] = "syncing"
    BY <1>1, <1>2
  <1>. QED  BY <1>2, <1>3 DEF Syncers, Syncing

\* What a step can be.
LEMMA StepsOfTheBook ==
    ASSUME [Next]_vars
    PROVE  \/ (\E c \in Threads : Quiet(c)) \/ QuietBot \/ QuietOutside
           \/ \E c \in Threads, t \in Trades :
                 PartialClose(c, t) \/ CloseOne(c, t) \/ BookClose(c, t)
           \/ \E c \in Threads : SyncBegins(c) \/ SyncAccount(c)
           \/ Append \/ Void \/ Restart
  <1>2. Bot \in Threads /\ \A c \in Commanders : c \in Threads
    BY Bounds DEF Threads
  <1>3. CASE \E c \in Threads : TakeBook(c) \/ CloseAllLocks(c) \/ Proceeds(c)
    BY <1>3 DEF Proceeds, Quiet
  <1>4. CASE \E c \in Commanders : Command(c)
    BY <1>2, <1>4 DEF Quiet, SyncBegins
  <1>5. CASE ControlFile
    <2>1. Command(Bot)
      BY <1>5 DEF ControlFile, Command
    <2>. QED  BY <1>2, <2>1 DEF Quiet, SyncBegins
  <1>6. CASE BotProceeds \/ \E kind \in {"monitor", "fast", "full"} : TickStarts(kind)
    BY <1>2, <1>6 DEF BotProceeds, QuietBot, SyncBegins
  <1>7. CASE \/ (\E s \in Symbols : RowExpires(s))
             \/ DayRolls \/ GetStatus \/ Restart \/ UNCHANGED vars
    BY <1>7 DEF QuietOutside
  <1>. QED  BY <1>3, <1>4, <1>5, <1>6, <1>7 DEF Next

-----------------------------------------------------------------------------
(***************************************************************************)
(* What each step does to the mapped variables.                            *)
(***************************************************************************)
\* A step of the engine that the statement does not show.
LEMMA Unseen ==
    ASSUME UNCHANGED <<pos, missed>>, Same(risk, risk'), Syncers' = Syncers
    PROVE  UNCHANGED Statement!vars /\ UNCHANGED Earnings
  <1>1. Syncing' = Syncing
    BY DEF Syncing, Syncers
  <1>. QED  BY <1>1 DEF Statement!vars, LifeOf, HeldBy, Earned, Earnings, Same

\* What holds of a trade in any state.
LEMMA EarnedTypes ==
    ASSUME Typed, NEW t \in Trades
    PROVE  pos[t].part \in Int /\ pos[t].res \in Int /\ Earned(t) \in Int
  BY DEF Typed, BookTypes, Position, Earned

LEMMA PartialEarns ==
    ASSUME BookInv, NEW c \in Threads, NEW t \in Trades, PartialClose(c, t)
    PROVE  \E leg \in Legs : Statement!Earns(t, leg) /\ Adds1(risk, risk', leg)
  <1>1. Typed /\ BookTypes /\ t \in Open
    BY DEF BookInv, EngineInv, Typed, PartialClose
  <1>2. PICK leg \in Legs : /\ pos' = [pos EXCEPT ![t].part = @ + leg, ![t].stage = @ + 1]
                            /\ risk' = UpdateCapital(risk, leg, today)
    BY DEF PartialClose
  <1>3. /\ pos'[t] = [pos[t] EXCEPT !.part = @ + leg, !.stage = @ + 1]
        /\ \A u \in Trades : u # t => pos'[u] = pos[u]
    BY <1>1, <1>2 DEF BookTypes
  <1>4. /\ pos'[t].part = pos[t].part + leg
        /\ \A u \in Trades : pos'[u].st = pos[u].st /\ pos'[u].sym = pos[u].sym
    <2>1. pos[t] \in Position
      BY <1>1 DEF BookTypes
    <2>2. pos'[t].part = pos[t].part + leg
      BY <1>3, <2>1 DEF Position
    <2>. QED  BY <1>1, <2>2, PartialPositions
  <1>5. Adds1(risk, risk', leg)
    BY <1>1, <1>2, ProfitHere DEF Legs
  <1>6. Lives' = Lives /\ Holdings' = Holdings
    BY <1>4 DEF Lives, Holdings, LifeOf, HeldBy
  <1>7. Earnings' = [Earnings EXCEPT ![t] = @ + leg]
    <2>1. Earned(t)' = Earned(t) + leg
      BY <1>1, <1>4 DEF Earned, Open
    <2>2. \A u \in Trades : u # t => Earned(u)' = Earned(u)
      BY <1>3 DEF Earned
    <2>. QED  BY <2>1, <2>2 DEF Earnings
  <1>8. Lives[t] = "live"
    BY <1>1 DEF Lives, LifeOf, Open
  <1>9. Statement!Earns(t, leg)
    BY <1>1, <1>5, <1>6, <1>7, <1>8, SyncersStay
       DEF PartialClose, Miss, Statement!Earns, Statement!Receives, Lives, Holdings, Earnings, Adds1
  <1>. QED  BY <1>5, <1>9

LEMMA CloseUnseen ==
    ASSUME BookInv, NEW c \in Threads, NEW t \in Trades, CloseOne(c, t)
    PROVE  UNCHANGED Statement!vars /\ UNCHANGED Earnings
  <1>1. Typed /\ BookTypes /\ UNCHANGED <<risk, missed>> /\ t \in Open
    BY DEF BookInv, EngineInv, Typed, LockInv, Locked, Inside, CloseOne, outside
  <1>2. /\ pos'[t].st = "booking" /\ pos'[t].sym = pos[t].sym /\ pos'[t].part = pos[t].part
        /\ \A u \in Trades : u # t => pos'[u] = pos[u]
    <2>1. PICK leg : pos' = [pos EXCEPT ![t].st = "booking", ![t].res = leg]
      BY DEF CloseOne
    <2>2. pos[t] \in Position /\ pos'[t] = [pos[t] EXCEPT !.st = "booking", !.res = leg]
      BY <1>1, <2>1 DEF BookTypes
    <2>3. pos'[t].part = pos[t].part
      BY <2>2 DEF Position
    <2>. QED  BY <1>1, <2>3, ClosePositions
  <1>3. \A u \in Trades : /\ LifeOf(u)' = LifeOf(u) /\ HeldBy(u)' = HeldBy(u)
                          /\ Earned(u)' = Earned(u)
    BY <1>1, <1>2 DEF LifeOf, HeldBy, Earned, Open
  <1>. QED  BY <1>1, <1>3, SyncersStay DEF Statement!vars, Earnings

LEMMA CloseSettles ==
    ASSUME BookInv, NEW c \in Threads, NEW t \in Trades, BookClose(c, t)
    PROVE  \E leg \in Legs : Statement!Settles(t, leg) /\ Adds1(risk, risk', leg)
  <1> DEFINE leg == pos[t].res
  <1>1. /\ Typed /\ BookTypes /\ pos[t].st = "booking" /\ leg \in Legs
        /\ risk' = UpdateCapital(RegisterClose(risk), leg, today)
    BY DEF BookInv, EngineInv, Typed, Booked, BookClose, BookAmount
  <1>2. pos' = [pos EXCEPT ![t] = [Unborn EXCEPT !.st = "closed", !.late = pos[t].late,
                                     !.res = pos[t].res + pos[t].part]]
    BY DEF BookClose, BookAmount
  <1>3. /\ pos'[t].st = "closed" /\ pos'[t].res = pos[t].res + pos[t].part
        /\ \A u \in Trades : u # t => pos'[u] = pos[u]
    <2>1. /\ pos'[t] = [Unborn EXCEPT !.st = "closed", !.late = pos[t].late,
                                     !.res = pos[t].res + pos[t].part]
          /\ \A u \in Trades : u # t => pos'[u] = pos[u]
      BY <1>1, <1>2 DEF BookTypes
    <2>. QED  BY <2>1 DEF Unborn
  <1>4. Adds1(risk, risk', leg)
    BY <1>1, ProfitHere DEF Legs
  <1>5. Lives[t] = "live" /\ Lives' = [Lives EXCEPT ![t] = "settled"]
    BY <1>1, <1>3 DEF Lives, LifeOf
  <1>6. Holdings' = [Holdings EXCEPT ![t] = Nobody]
    BY <1>3 DEF Holdings, HeldBy, LifeOf
  <1>7. Earnings' = [Earnings EXCEPT ![t] = @ + leg]
    <2>1. Earned(t)' = Earned(t) + leg
      <3>1. Earned(t)' = pos[t].res + pos[t].part /\ Earned(t) = pos[t].part
        BY <1>1, <1>3 DEF Earned
      <3>. QED  BY <1>1, <3>1, EarnedTypes
    <2>2. \A u \in Trades : u # t => Earned(u)' = Earned(u)
      BY <1>3 DEF Earned
    <2>. QED  BY <2>1, <2>2 DEF Earnings
  <1>8. Statement!Settles(t, leg)
    BY <1>1, <1>4, <1>5, <1>6, <1>7, SyncersStay
       DEF BookClose, BookAmount, Miss, Statement!Settles, Statement!Receives, Lives, Holdings,
           Earnings, Adds1
  <1>. QED  BY <1>1, <1>4, <1>8

LEMMA AppendOpens ==
    ASSUME BookInv, Append
    PROVE  Statement!Next /\ UNCHANGED <<risk, missed, Earnings>>
  <1> DEFINE n == Newest + 1
             s == target[Bot]
  <1>1. /\ Typed /\ ThreadTypes /\ BookTypes /\ pc[Bot] = "approved" /\ s \in Symbols
        /\ UNCHANGED <<risk, missed>> /\ LockFreeFor(Bot)
    BY DEF BookInv, EngineInv, Typed, EntryInv, OneASymbol, Entering, Append, AppendUnlocked, outside
  <1>2. n \in Trades /\ pos[n].st = "unborn"
    <2>1. Newest \in 0..MaxTrades /\ Newest < MaxTrades /\ Born = 1..Newest
      BY <1>1 DEF BookInv, EngineInv, EntryInv, InOrder
    <2>2. n \in Trades /\ n \notin Born
      BY <2>1, Bounds DEF Trades
    <2>. QED  BY <2>2 DEF Born
  <1>3. /\ pos'[n].st = "open" /\ pos'[n].sym = s /\ pos'[n].part = 0
        /\ \A t \in Trades : t # n => pos'[t] = pos[t]
    <2>1. pos' = [pos EXCEPT ![n] = [Unborn EXCEPT !.st = "open", !.sym = s, !.late = killed]]
      BY DEF Append, AppendUnlocked
    <2>. QED  BY <1>1, <1>2, <2>1 DEF BookTypes, Unborn
  <1> HIDE DEF n, s
  <1>4. \A u \in Trades : Holdings[u] # s
    <2>1. \A u \in Trades : pos[u].st # "booking"
      BY <1>1, LockFree, Bounds DEF BookInv, EngineInv, Inside
    <2>2. \A u \in Open : pos[u].sym # s
      BY <1>1 DEF BookInv, EngineInv, EntryInv, OneASymbol, s
    <2>3. Nobody # s
      BY <1>1, Bounds
    <2>. QED  BY <2>1, <2>2, <2>3 DEF Holdings, HeldBy, LifeOf, Open
  <1>5. Lives[n] = "new" /\ Lives' = [Lives EXCEPT ![n] = "live"]
    BY <1>2, <1>3 DEF Lives, LifeOf
  <1>6. Holdings' = [Holdings EXCEPT ![n] = s]
    BY <1>3 DEF Holdings, HeldBy, LifeOf
  <1>7. Earnings' = Earnings
    BY <1>2, <1>3 DEF Earnings, Earned
  <1>8. Statement!Opens(n, s)
    <2>1. Syncing' = Syncing
      BY <1>1, <1>2, Bounds, SyncersStay
    <2>. QED  BY <1>1, <1>2, <1>4, <1>5, <1>6, <1>7, <2>1
              DEF Statement!Opens, Lives, Holdings, Earnings
  <1>. QED  BY <1>1, <1>2, <1>7, <1>8 DEF Statement!Next

LEMMA VoidTakesBack ==
    ASSUME BookInv, Void
    PROVE  [Statement!Next]_(Statement!vars) /\ UNCHANGED <<risk, missed, Earnings>>
  <1>1. Typed /\ BookTypes /\ UNCHANGED <<risk, missed>> /\ pc[Bot] = "appended"
    BY DEF BookInv, EngineInv, Typed, Void, outside
  <1>2. CASE Newest \in Open
    <2>1. Newest \in Trades /\ pos[Newest].st = "open" /\ pos[Newest].part = 0
      BY <1>1, <1>2 DEF BookInv, Unearned, Open
    <2>2. /\ pos'[Newest].st = "void"
          /\ \A t \in Trades : t # Newest => pos'[t] = pos[t]
      <3>1. pos' = [pos EXCEPT ![Newest] = [Unborn EXCEPT !.st = "void", !.late = pos[Newest].late]]
        BY <1>2 DEF Void
      <3>2. /\ pos'[Newest] = [Unborn EXCEPT !.st = "void", !.late = pos[Newest].late]
            /\ \A t \in Trades : t # Newest => pos'[t] = pos[t]
        BY <1>1, <2>1, <3>1 DEF BookTypes
      <3>. QED  BY <3>2 DEF Unborn
    <2>3. /\ Lives[Newest] = "live" /\ Earnings[Newest] = 0
          /\ Lives' = [Lives EXCEPT ![Newest] = "over"]
      BY <2>1, <2>2 DEF Lives, LifeOf, Earnings, Earned
    <2>4. Holdings' = [Holdings EXCEPT ![Newest] = Nobody]
      BY <2>1, <2>2 DEF Holdings, HeldBy, LifeOf
    <2>5. Earnings' = Earnings
      BY <2>1, <2>2 DEF Earnings, Earned
    <2>6. Statement!TakenBack(Newest)
      BY <1>1, <1>2, <2>1, <2>3, <2>4, <2>5, Bounds, SyncersStay DEF Statement!TakenBack, Lives, Holdings, Earnings
    <2>. QED  BY <1>1, <2>1, <2>5, <2>6 DEF Statement!Next
  <1>3. CASE Newest \notin Open
    <2>1. UNCHANGED pos /\ Same(risk, risk')
      BY <1>1, <1>3 DEF Void, Same
    <2>2. Syncers' = Syncers
      <3>1. pc' = [pc EXCEPT ![Bot] = "entries"]
        BY DEF Void, Goto
      <3>. QED  BY <1>1, <3>1 DEF Typed, ThreadTypes, Syncers
    <2>. QED  BY <1>1, <2>1, <2>2, Unseen
  <1>. QED  BY <1>2, <1>3

LEMMA RestartForgets ==
    ASSUME BookInv, Restart
    PROVE  Statement!Forgets /\ risk'.paper = 0 /\ Syncers' = {}
  <1>1. /\ pos' = [t \in Trades |->
                     IF t \in Born THEN [Unborn EXCEPT !.st = "gone", !.late = pos[t].late]
                     ELSE Unborn]
        /\ risk' = IF killed THEN KillHalt(FreshRisk(today)) ELSE FreshRisk(today)
    BY DEF Restart
  <1>2. \A t \in Trades : pos'[t].st = IF pos[t].st = "unborn" THEN "unborn" ELSE "gone"
    BY <1>1 DEF Born, Unborn
  <1>3. Lives' = [t \in Trades |-> IF Lives[t] = "new" THEN "new" ELSE "over"]
    BY <1>2 DEF Lives, LifeOf
  <1>4. Holdings' = [t \in Trades |-> Nobody] /\ Earnings' = [t \in Trades |-> 0]
    BY <1>2 DEF Holdings, HeldBy, LifeOf, Earnings, Earned
  <1>5. risk'.profit = 0 /\ risk'.paper = 0
    BY <1>1 DEF KillHalt, Halt, FreshRisk
  <1>6. Syncers' = {} /\ Syncing' = FALSE /\ missed' = 0
    BY DEF Restart, Syncers, Syncing
  <1>7. Statement!Forgets
    BY <1>3, <1>4, <1>5, <1>6 DEF Statement!Forgets, Lives, Holdings, Earnings
  <1>. QED  BY <1>5, <1>7, <1>6

-----------------------------------------------------------------------------
(***************************************************************************)
(* The invariant.                                                          *)
(***************************************************************************)
LEMMA InitBook == Init => BookInv
  <1> SUFFICES ASSUME Init PROVE BookInv
    OBVIOUS
  <1>1. EngineInv
    BY InitInv
  <1>2. \A c \in Threads : pc[c] = "idle" /\ task[c] = "none"
    BY DEF Init
  <1>3. \A t \in Trades : pos[t].st = "unborn"
    BY DEF Init, Unborn
  <1>. QED  BY <1>1, <1>2, <1>3, Bounds DEF BookInv, Managed, Unearned, Booked

LEMMA KeptManaged ==
    ASSUME BookInv, [Next]_vars
    PROVE  Managed'
  <1> USE DEF flags, thread, entry, outside, book, Goto, WantBook
  <1>1. ThreadTypes /\ Managed /\ Bot \in Threads
    BY Bounds DEF BookInv, EngineInv, Typed
  <1>2. ASSUME NEW c \in Threads, TakeBook(c) \/ CloseAllLocks(c) \/ Proceeds(c)
        PROVE  Managed'
    <2>1. CASE TakeBook(c) \/ CloseAllLocks(c)
      BY <1>1, <2>1 DEF ThreadTypes, Managed, TakeBook, CloseAllLocks
    <2>2. CASE DecideExits(c) \/ ReleaseBook(c) \/ StartClears(c) \/ KillFlag(c)
      <3>1. AfterBook(c) # "checking"
        BY DEF AfterBook
      <3>. QED  BY <1>1, <2>2, <3>1 DEF ThreadTypes, Managed, DecideExits, ReleaseBook,
             StartClears, KillFlag
    <2>3. CASE \E t \in Trades : PartialClose(c, t) \/ CloseOne(c, t) \/ BookClose(c, t)
      BY <1>1, <2>3 DEF ThreadTypes, Managed, PartialClose, CloseOne, BookClose, BookAmount
    <2>4. CASE SyncAccount(c)
      <3>1. \/ c = Bot /\ pc' = [pc EXCEPT ![c] = "wait"] /\ task' = [task EXCEPT ![c] = "manage"]
            \/ pc' = [pc EXCEPT ![c] = "idle"] /\ task' = task
        BY <2>4 DEF SyncAccount
      <3>. QED  BY <1>1, <3>1 DEF ThreadTypes, Managed
    <2>. QED  BY <1>2, <2>1, <2>2, <2>3, <2>4 DEF Proceeds
  <1>3. ASSUME NEW c \in Threads, Command(c)
        PROVE  Managed'
    BY <1>1, <1>3 DEF ThreadTypes, Managed, Command, StartAnalysis, StartTrading, StopTrading,
       StopEngine, Pause, Resume, CloseAll, KillSwitch, SetReduceOnly, CloseSymbol, RefreshScreen,
       BeginSync
  <1>4. CASE ControlFile
    BY <1>1, <1>3, <1>4 DEF ControlFile, Command
  <1>5. CASE BotProceeds
    <2>1. CASE DrawdownCheck \/ DailyCheck \/ Scan \/ EndEntries
      BY <1>1, <2>1 DEF ThreadTypes, Managed, DrawdownCheck, DailyCheck, AfterDaily, Scan, EndEntries
    <2>2. CASE \/ \E s \in Symbols : Look(s) \/ PassOver(s)
               \/ Reserve \/ RiskGate \/ OpenRaises \/ Append \/ Void \/ Register \/ Attach
      BY <1>1, <2>2 DEF ThreadTypes, Managed, Look, LookAnyway, PassOver, Reserve, RiskGate,
         OpenRaises, Append, AppendUnlocked, Void, Register, Attach
    <2>. QED  BY <1>5, <2>1, <2>2 DEF BotProceeds
  <1>6. CASE \E kind \in {"monitor", "fast", "full"} : TickStarts(kind)
    BY <1>1, <1>6 DEF ThreadTypes, Managed, TickStarts, BeginSync
  <1>7. CASE DayRolls \/ GetStatus \/ (\E s \in Symbols : RowExpires(s)) \/ UNCHANGED vars
    BY <1>1, <1>7 DEF Managed, DayRolls, GetStatus, RowExpires, vars
  <1>8. CASE Restart
    BY <1>8 DEF Managed, Restart
  <1>9. \A c \in Commanders : c \in Threads
    BY DEF Threads
  <1>. QED  BY <1>2, <1>3, <1>4, <1>5, <1>6, <1>7, <1>8, <1>9 DEF Next

\* Steps that leave the positions alone, by the place of the bot.
LEMMA KeptPositions ==
    ASSUME BookInv, UNCHANGED pos, pc'[Bot] = "appended" => pc[Bot] = "appended"
    PROVE  Unearned' /\ Booked'
  BY DEF BookInv, Unearned, Booked, Newest, Born, Open

LEMMA KeptLegs ==
    ASSUME BookInv, [Next]_vars
    PROVE  Unearned' /\ Booked'
  <1>1. Typed /\ ThreadTypes /\ BookTypes /\ Managed /\ Booked /\ Bot \in Threads
    BY Bounds DEF BookInv, EngineInv, Typed
  <1>2. CASE (\E c \in Threads : Quiet(c)) \/ QuietBot \/ QuietOutside
    BY <1>1, <1>2, QuietSteps, KeptPositions
  <1>3. ASSUME NEW c \in Threads, NEW t \in Trades, PartialClose(c, t)
        PROVE  Unearned' /\ Booked'
    <2>1. pc[Bot] # "appended" /\ pc' = pc /\ pos[t].st = "open"
      BY <1>1, <1>3 DEF PartialClose, Managed, Open
    <2>2. \A u \in Trades : u # t => pos'[u] = pos[u]
      BY <1>1, <1>3 DEF PartialClose, BookTypes
    <2>3. pos'[t].st = "open"
      BY <1>1, <1>3, <2>1, PartialPositions
    <2>. QED  BY <1>1, <2>1, <2>2, <2>3 DEF Unearned, Booked
  <1>4. ASSUME NEW c \in Threads, NEW t \in Trades, CloseOne(c, t)
        PROVE  Unearned' /\ Booked'
    <2>1. pos[t].st = "open" /\ pc[c] = "closing"
      BY <1>4 DEF BookInv, EngineInv, LockInv, Locked, Inside, CloseOne, Open
    <2>2. PICK leg \in Legs : pos' = [pos EXCEPT ![t].st = "booking", ![t].res = leg]
      BY <1>4 DEF CloseOne, Legs
    <2>3. /\ pos'[t] = [pos[t] EXCEPT !.st = "booking", !.res = leg]
          /\ \A u \in Trades : u # t => pos'[u] = pos[u]
      BY <1>1, <2>2 DEF BookTypes
    <2>4. pos'[t].st = "booking" /\ pos'[t].res = leg
      <3>1. pos[t] \in Position
        BY <1>1 DEF BookTypes
      <3>. QED  BY <2>3, <3>1 DEF Position
    <2>5. Born' = Born /\ Open' = Open \ {t}
      BY <2>1, <2>3, <2>4 DEF Born, Open
    <2>6. Newest' = Newest
      BY <2>5 DEF Newest
    <2>7. pc'[Bot] = "appended" => pc[Bot] = "appended"
      BY <1>1, <1>4 DEF ThreadTypes, CloseOne, Goto
    <2>8. Unearned'
      BY <2>3, <2>5, <2>6, <2>7 DEF BookInv, Unearned, Open
    <2>9. Booked'
      BY <1>1, <2>3, <2>4 DEF Booked
    <2>. QED  BY <2>8, <2>9
  <1>5. ASSUME NEW c \in Threads, NEW t \in Trades, BookClose(c, t)
        PROVE  Unearned' /\ Booked'
    <2>1. pos[t].st = "booking"
      BY <1>5 DEF BookClose, BookAmount
    <2>2. pos'[t].st = "closed" /\ \A u \in Trades : u # t => pos'[u] = pos[u]
      <3>1. pos' = [pos EXCEPT ![t] = [Unborn EXCEPT !.st = "closed", !.late = pos[t].late,
                                         !.res = pos[t].res + pos[t].part]]
        BY <1>5 DEF BookClose, BookAmount
      <3>2. /\ pos'[t] = [Unborn EXCEPT !.st = "closed", !.late = pos[t].late,
                                         !.res = pos[t].res + pos[t].part]
            /\ \A u \in Trades : u # t => pos'[u] = pos[u]
        BY <1>1, <3>1 DEF BookTypes
      <3>. QED  BY <3>2 DEF Unborn
    <2>3. Born' = Born /\ Open' = Open
      BY <2>1, <2>2 DEF Born, Open
    <2>4. Newest' = Newest
      BY <2>3 DEF Newest
    <2>5. pc'[Bot] = "appended" => pc[Bot] = "appended"
      BY <1>1, <1>5 DEF ThreadTypes, BookClose, BookAmount, Goto
    <2>6. Unearned'
      BY <2>1, <2>2, <2>3, <2>4, <2>5 DEF BookInv, Unearned, Open
    <2>7. Booked'
      BY <1>1, <2>2 DEF Booked
    <2>. QED  BY <2>6, <2>7
  <1>6. CASE Append
    <2> DEFINE n == Newest + 1
    <2>1. Newest \in 0..MaxTrades /\ Newest < MaxTrades /\ Born = 1..Newest
      BY <1>6 DEF BookInv, EngineInv, EntryInv, InOrder, Append, AppendUnlocked
    <2>2. n \in Trades
      BY <2>1, Bounds DEF Trades
    <2>3. /\ pos'[n].st = "open" /\ pos'[n].part = 0
          /\ \A t \in Trades : t # n => pos'[t] = pos[t]
      <3>1. pos' = [pos EXCEPT ![n] = [Unborn EXCEPT !.st = "open", !.sym = target[Bot],
                                         !.late = killed]]
        BY <1>6 DEF Append, AppendUnlocked
      <3>. QED  BY <1>1, <2>2, <3>1 DEF BookTypes, Unborn
    <2>4. Newest' = n
      <3>1. Born' = Born \cup {n}
        BY <2>2, <2>3 DEF Born
      <3>2. Born' = 1..n
        BY <2>1, <3>1
      <3>3. Cardinality(1..n) = n
        BY <2>1, FS_Interval
      <3>. QED  BY <3>2, <3>3 DEF Newest
    <2> HIDE DEF n
    <2>. QED  BY <1>1, <2>2, <2>3, <2>4 DEF Unearned, Booked
  <1>7. CASE Void
    <2>1. pc'[Bot] = "entries"
      BY <1>1, <1>7 DEF ThreadTypes, Void, Goto
    <2>2. \A t \in Trades : pos'[t].st = "booking" => pos'[t] = pos[t]
      <3>1. CASE Newest \in Open
        <4>1. /\ pos'[Newest] = [Unborn EXCEPT !.st = "void", !.late = pos[Newest].late]
              /\ \A t \in Trades : t # Newest => pos'[t] = pos[t]
          BY <1>1, <1>7, <3>1 DEF Void, BookTypes, Open
        <4>. QED  BY <4>1 DEF Unborn
      <3>2. CASE Newest \notin Open
        BY <1>7, <3>2 DEF Void
      <3>. QED  BY <3>1, <3>2
    <2>. QED  BY <1>1, <2>1, <2>2 DEF Unearned, Booked
  <1>8. CASE Restart
    <2>1. pc'[Bot] = "idle"
      BY <1>1, <1>8 DEF Restart
    <2>2. \A t \in Trades : pos'[t].st # "booking"
      BY <1>8 DEF Restart, Unborn
    <2>. QED  BY <2>1, <2>2 DEF Unearned, Booked
  <1>9. CASE \E c \in Threads : SyncBegins(c) \/ SyncAccount(c)
    BY <1>1, <1>9, SyncSteps, KeptPositions
  <1>. QED  BY <1>2, <1>3, <1>4, <1>5, <1>6, <1>7, <1>8, <1>9, StepsOfTheBook

LEMMA BookInvariance == Spec => []BookInv
  <1>1. BookInv /\ [Next]_vars => BookInv'
    BY NextInv, KeptManaged, KeptLegs DEF BookInv
  <1>. QED  BY <1>1, InitBook, PTL DEF Spec

-----------------------------------------------------------------------------
(***************************************************************************)
(* The capitals stay near the sum of the legs.                             *)
(***************************************************************************)
LEMMA TradesFinite == IsFiniteSet(Trades)
  BY Bounds, FS_Interval DEF Trades

\* The sum of the legs is a number, as is what a sync has read.
LEMMA SumTyped ==
    ASSUME Typed
    PROVE  /\ Earnings \in [Trades -> Int] /\ SumFunction(Earnings) \in Int
           /\ missed \in Nat /\ risk.profit \in Int /\ risk.paper \in Int
           /\ \A c \in Syncers : cap[c] \in Int
  <1>1. Earnings \in [Trades -> Int]
    BY EarnedTypes DEF Earnings
  <1>2. SumFunction(Earnings) \in Int
    BY <1>1, TradesFinite, SumFacts
  <1>. QED  BY <1>1, <1>2, ProfitHere DEF Typed, OtherTypes, Syncers

\* A leg enters the capital and the result of its trade in one step: both
\* capitals are as near as before, and what a sync has read is one leg behind.
LEMMA LegKeepsNear ==
    ASSUME Typed, Typed', AllNear, NEW t \in Trades, NEW leg \in Legs,
           Statement!Receives(t, leg), Adds1(risk, risk', leg), UNCHANGED <<cap, Syncers>>
    PROVE  AllNear'
  <1>1. leg \in {-1, 1}
    BY DEF Legs
  <1>2. Earnings' = [Earnings EXCEPT ![t] = @ + leg]
    BY DEF Statement!Receives, Earnings
  <1>3. SumFunction(Earnings') = SumFunction(Earnings) + leg
    <2>1. Earnings \in [Trades -> Int] /\ leg \in Int
      BY <1>1, SumTyped
    <2>2. \A f \in [Trades -> Int], u \in Trades, d \in Int :
             SumFunction([f EXCEPT ![u] = @ + d]) = SumFunction(f) + d
      BY TradesFinite, SumFacts
    <2>. QED  BY <1>2, <2>1, <2>2
  <1>4. missed' = IF Syncers # {} THEN missed + 1 ELSE missed
    BY DEF Statement!Receives, Syncing, Syncers
  <1>5. /\ SumFunction(Earnings) \in Int /\ missed \in Nat /\ risk.profit \in Int
        /\ \A c \in Syncers : cap[c] \in Int
    BY SumTyped
  <1> DEFINE sum == SumFunction(Earnings)
             sum1 == SumFunction(Earnings')
  <1>6. /\ risk.profit - sum \in (-missed)..missed
        /\ \A c \in Syncers : cap[c] - sum \in (-missed)..missed
    BY DEF AllNear, Near
  <1>7. risk'.profit = risk.profit + leg /\ risk'.paper = risk.profit + leg
    BY DEF Adds1
  <1>8. /\ risk'.profit - sum1 \in (-missed')..missed'
        /\ risk'.paper - sum1 \in (-missed')..missed'
        /\ \A c \in Syncers' : cap'[c] - sum1 \in (-missed')..missed'
    <2>1. sum1 = sum + leg
      BY <1>3
    <2> HIDE DEF sum, sum1
    <2>2. sum \in Int
      BY <1>5 DEF sum
    <2>3. risk'.profit - sum1 = risk.profit - sum /\ risk'.paper - sum1 = risk.profit - sum
      BY <1>1, <1>5, <1>7, <2>1, <2>2
    <2>4. /\ risk'.profit - sum1 \in (-missed')..missed'
          /\ risk'.paper - sum1 \in (-missed')..missed'
      BY <1>4, <1>5, <1>6, <2>3
    <2>5. ASSUME NEW c \in Syncers PROVE cap[c] - sum1 \in (-missed')..missed'
      <3>1. missed' = missed + 1 /\ cap[c] \in Int /\ cap[c] - sum \in (-missed)..missed
        BY <1>4, <1>5, <1>6, <2>5
      <3>2. cap[c] - sum1 = (cap[c] - sum) - leg
        BY <1>1, <2>1, <2>2, <3>1
      <3>. QED  BY <1>1, <1>5, <3>1, <3>2
    <2>. QED  BY <2>4, <2>5
  <1>. QED  BY <1>8 DEF AllNear, Near

LEMMA InitNear == Init => AllNear
  <1> SUFFICES ASSUME Init PROVE AllNear
    OBVIOUS
  <1>1. risk.profit = 0 /\ risk.paper = 0 /\ missed = 0 /\ Syncers = {}
    BY DEF Init, FreshRisk, Syncers
  <1>2. Earnings \in [Trades -> {0}]
    BY DEF Init, Unborn, Earnings, Earned
  <1>3. SumFunction(Earnings) = 0
    BY <1>2, TradesFinite, SumFacts
  <1>. QED  BY <1>1, <1>3 DEF AllNear, Near

LEMMA KeptNear ==
    ASSUME BookInv, BookInv', AllNear, [Next]_vars
    PROVE  AllNear'
  <1>1. Typed /\ Typed'
    BY DEF BookInv, EngineInv
  <1>2. CASE (\E c \in Threads : Quiet(c)) \/ QuietBot \/ QuietOutside
    <2>1. UNCHANGED <<missed, cap>> /\ Same(risk, risk') /\ Syncers' = Syncers /\ UNCHANGED Earnings
      BY <1>1, <1>2, QuietSteps, Unseen
    <2>. QED  BY <2>1 DEF AllNear, Near, Same
  <1>3. ASSUME NEW c \in Threads, NEW t \in Trades,
               PartialClose(c, t) \/ CloseOne(c, t) \/ BookClose(c, t)
        PROVE  AllNear'
    <2>1. UNCHANGED <<cap, Syncers>>
      BY <1>1, <1>3, SyncersStay
    <2>2. CASE CloseOne(c, t)
      <3>1. UNCHANGED <<risk, missed, Earnings>>
        BY <2>2, CloseUnseen DEF CloseOne, outside
      <3>. QED  BY <2>1, <3>1 DEF AllNear, Near
    <2>3. CASE PartialClose(c, t) \/ BookClose(c, t)
      <3>1. PICK leg \in Legs : Statement!Receives(t, leg) /\ Adds1(risk, risk', leg)
        BY <2>3, PartialEarns, CloseSettles DEF Statement!Earns, Statement!Settles
      <3>. QED  BY <1>1, <2>1, <3>1, LegKeepsNear
    <2>. QED  BY <1>3, <2>2, <2>3
  <1>4. ASSUME NEW c \in Threads, SyncBegins(c) \/ SyncAccount(c)
        PROVE  AllNear'
    <2>1. UNCHANGED <<missed, Earnings>>
      BY <1>1, <1>4, SyncSteps DEF Earnings, Earned
    <2>2. cap \in [Threads -> Int] /\ \A d \in Syncers : d \in Threads
      BY <1>1 DEF Typed, OtherTypes, Syncers
    <2>3. CASE SyncBegins(c)
      <3>1. /\ UNCHANGED risk /\ Syncers' = Syncers \cup {c}
            /\ cap' = [cap EXCEPT ![c] = risk.paper]
        BY <1>1, <2>3, SyncSteps
      <3>2. \A d \in Syncers' : cap'[d] = risk.paper \/ (d \in Syncers /\ cap'[d] = cap[d])
        BY <2>2, <3>1
      <3>. QED  BY <2>1, <3>1, <3>2 DEF AllNear, Near
    <2>4. CASE SyncAccount(c)
      <3>1. /\ risk'.profit = cap[c] /\ risk'.paper = risk.paper /\ c \in Syncers
            /\ Syncers' = Syncers \ {c} /\ cap' = [cap EXCEPT ![c] = 0]
        BY <1>1, <2>4, SyncSteps
      <3>2. \A d \in Syncers' : d \in Syncers /\ cap'[d] = cap[d]
        BY <2>2, <3>1
      <3>. QED  BY <2>1, <3>1, <3>2 DEF AllNear, Near
    <2>. QED  BY <1>4, <2>3, <2>4
  <1>5. CASE Append \/ Void
    <2>1. UNCHANGED <<risk, missed, Earnings>>
      BY <1>5, AppendOpens, VoidTakesBack
    <2>2. UNCHANGED <<cap, Syncers>>
      <3>1. pc \in [Threads -> Places]
        BY <1>1 DEF Typed, ThreadTypes
      <3>2. /\ cap' = cap /\ pc[Bot] # "syncing"
            /\ \E place \in {"appended", "entries"} : pc' = [pc EXCEPT ![Bot] = place]
        BY <1>5 DEF Append, AppendUnlocked, Void, thread, Goto
      <3>. QED  BY <3>1, <3>2 DEF Syncers
    <2>. QED  BY <2>1, <2>2 DEF AllNear, Near
  <1>6. CASE Restart
    <2>1. Statement!Forgets /\ risk'.paper = 0 /\ Syncers' = {}
      BY <1>6, RestartForgets
    <2>2. Earnings' \in [Trades -> {0}] /\ risk'.profit = 0 /\ missed' = 0
      BY <2>1 DEF Statement!Forgets, Earnings
    <2>3. SumFunction(Earnings') = 0
      BY <2>2, TradesFinite, SumFacts
    <2>. QED  BY <2>1, <2>2, <2>3 DEF AllNear, Near
  <1>. QED  BY <1>2, <1>3, <1>4, <1>5, <1>6, StepsOfTheBook

LEMMA NearInvariance == Spec => [](BookInv /\ AllNear)
  <1>1. BookInv /\ BookInv' /\ AllNear /\ [Next]_vars => AllNear'
    BY KeptNear
  <1>. QED  BY <1>1, BookInvariance, InitNear, PTL DEF Spec

-----------------------------------------------------------------------------
(***************************************************************************)
(* The refinement.                                                         *)
(***************************************************************************)
LEMMA StatementInit == Init => Statement!Init
  <1> SUFFICES ASSUME Init PROVE Statement!Init
    OBVIOUS
  <1>1. Syncing = FALSE
    BY DEF Init, Syncing
  <1>. QED  BY <1>1 DEF Init, FreshRisk, Unborn, Statement!Init, LifeOf, HeldBy, Earned

\* A sync begins, and ends with a capital near the sum.
LEMMA SyncShown ==
    ASSUME BookInv, AllNear, NEW c \in Threads, SyncBegins(c) \/ SyncAccount(c)
    PROVE  Statement!BeginsSync \/ Statement!EndsSync
  <1>1. Typed
    BY DEF BookInv, EngineInv
  <1>2. /\ UNCHANGED <<pos, missed>> /\ Syncing = (Syncers # {}) /\ Syncing' = (Syncers' # {})
    BY <1>1, SyncSteps DEF Syncing, Syncers
  <1>3. Lives' = Lives /\ Holdings' = Holdings /\ Earnings' = Earnings
    BY <1>2 DEF Lives, Holdings, Earnings, LifeOf, HeldBy, Earned
  <1>4. CASE SyncBegins(c)
    <2>1. UNCHANGED risk /\ Syncing' = TRUE
      BY <1>1, <1>2, <1>4, SyncSteps
    <2>. QED  BY <1>2, <1>3, <2>1 DEF Statement!BeginsSync, Lives, Holdings, Earnings
  <1>5. CASE SyncAccount(c)
    <2>1. risk'.profit = cap[c] /\ c \in Syncers
      BY <1>1, <1>5, SyncSteps
    <2>2. Near(cap[c]) /\ cap[c] \in Int /\ SumFunction(Earnings) \in Int
      BY <1>1, <2>1, SumTyped DEF AllNear
    <2> DEFINE off == cap[c] - SumFunction(Earnings)
    <2>3. off \in (-missed)..missed /\ risk'.profit = SumFunction(Earnings) + off
      BY <2>1, <2>2 DEF Near
    <2>4. Syncing /\ Syncing' \in BOOLEAN
      BY <1>2, <2>1
    <2> HIDE DEF off
    <2>. QED  BY <1>2, <1>3, <2>3, <2>4 DEF Statement!EndsSync, Lives, Holdings, Earnings
  <1>. QED  BY <1>4, <1>5

LEMMA StatementNext == BookInv /\ AllNear /\ [Next]_vars => [Statement!Next]_(Statement!vars)
  <1> SUFFICES ASSUME BookInv, AllNear, [Next]_vars PROVE [Statement!Next]_(Statement!vars)
    OBVIOUS
  <1>1. CASE (\E c \in Threads : Quiet(c)) \/ QuietBot \/ QuietOutside
    BY <1>1, QuietSteps, Unseen DEF BookInv, EngineInv
  <1>2. ASSUME NEW c \in Threads, NEW t \in Trades,
               PartialClose(c, t) \/ CloseOne(c, t) \/ BookClose(c, t)
        PROVE  [Statement!Next]_(Statement!vars)
    BY <1>2, PartialEarns, CloseUnseen, CloseSettles DEF Statement!Next
  <1>3. CASE Append \/ Void \/ Restart
    BY <1>3, AppendOpens, VoidTakesBack, RestartForgets DEF Statement!Next
  <1>4. CASE \E c \in Threads : SyncBegins(c) \/ SyncAccount(c)
    BY <1>4, SyncShown DEF Statement!Next
  <1>. QED  BY <1>1, <1>2, <1>3, <1>4, StepsOfTheBook

\* The book of a PAPER session keeps its promise however the bot, the commands
\* and the account syncs meet, and in any number of sessions: each trade is
\* opened and settled once, alone in its symbol, each leg enters capital and
\* result in one step, and a sync loses or repeats no leg but those booked
\* beside one.
THEOREM BookKeepsPromise == Spec => KeepsBook
  BY StatementInit, StatementNext, NearInvariance, PTL DEF Spec, KeepsBook, Statement!Spec

\* The capital of the paper account is the starting capital plus every leg
\* realised in the session, each once, but for as many as were booked beside an
\* account sync: partial and final, however commands and the bot race to close,
\* over restarts and midnights, and however often a wrong capital is synced.
\* The sum is over any number of trades.
THEOREM CapitalIsTheSum == Spec => []CapitalAddsUp
  <1>1. AllNear => CapitalAddsUp
    BY DEF AllNear, Near, CapitalAddsUp, RealisedLegs, Earnings
  <1>. QED  BY <1>1, NearInvariance, PTL

\* No leg is missing from paper_capital, from which a sync restores the capital,
\* unless one was booked beside a sync: the overtaken sync of engine_lost_leg is
\* the only way to lose one.
THEOREM NoLegLostUnlessOvertaken == Spec => [](missed = 0 => NoLegLost)
  <1>1. BookInv /\ AllNear => (missed = 0 => NoLegLost)
    <2> SUFFICES ASSUME BookInv, AllNear, missed = 0 PROVE NoLegLost
      OBVIOUS
    <2>1. risk.paper \in Int /\ SumFunction(Earnings) \in Int
      BY SumTyped DEF BookInv, EngineInv
    <2>2. risk.paper - SumFunction(Earnings) = 0
      BY DEF AllNear, Near
    <2>3. risk.paper = SumFunction(Earnings)
      BY <2>1, <2>2
    <2>. QED  BY <2>3 DEF NoLegLost, RealisedLegs, Earnings
  <1>. QED  BY <1>1, NearInvariance, PTL

=============================================================================
