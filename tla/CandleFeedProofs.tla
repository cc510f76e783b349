-------------------------- MODULE CandleFeedProofs --------------------------
(***************************************************************************)
(* Proofs about CandleFeed: types, closed and final candles, growing       *)
(* knowledge, and frames without holes.                                    *)
(*                                                                         *)
(* What is kept is settled and final; what a call has collected says       *)
(* which of its rows were forming, and a call is shorter than a bar, so    *)
(* those are the newest two bars at most.                                  *)
(***************************************************************************)
EXTENDS CandleFeed, TLAPS, FiniteSetTheorems, WellFoundedInduction

Clocked == bar \in Nat /\ now \in Nat /\ opened \in 0..now /\ Lag \in Nat

\* What a call of fetch_klines_ohlcv holds.
Calls == [pc : {"idle", "delta", "full", "merge", "parse"}, data : Frames,
          rows : SUBSET Bars, forming : SUBSET Bars, since : 0..now]

\* What is cached has candles, all final and settled.
EntryOK(e) ==
    /\ e # NoEntry => e.frame.bars # {}
    /\ e.frame.soft = {} /\ \A b \in e.frame.bars : Settled(b)

\* The rows of a delta are newer than its entry's, the ones that were forming
\* are the newest, and none is missing below.
DeltaOK(c) ==
    /\ \A b \in c.rows : b > Last(c.data)
    /\ \A b \in c.rows \ c.forming : b < bar
    /\ \A f \in c.forming : f = bar \/ (f = bar - 1 /\ c.since < opened)
    /\ \A f \in c.forming : \A b \in c.rows : b >= f => b \in c.forming
    /\ ~NewestFirst => \A b \in c.rows : (Last(c.data) + 1)..b \subseteq c.rows

\* The rows of a full fetch end with the one that was forming.
FullOK(c) ==
    /\ c.pc = "parse" => c.rows # {}
    /\ c.rows # {} =>
           /\ c.forming = {Max(c.rows)} /\ Unbroken(c.rows)
           /\ \A b \in c.data.bars : b < Max(c.rows)

\* A call under way began with what is still cached.
CallOK(n, c, e, d) ==
    c.pc # "idle" =>
        /\ c.data = e.frame /\ now - c.since <= CallTime
        /\ e = NoEntry => d = NoEntry
        /\ c.forming \subseteq c.rows /\ Cardinality(c.rows) <= n
        /\ c.pc \in {"delta", "merge"} => e # NoEntry /\ DeltaOK(c)
        /\ c.pc \in {"full", "parse"} => FullOK(c)

\* One key: the disk is not ahead of the memory.
KeyOK(n, e, d, s, c) ==
    /\ EntryOK(e) /\ EntryOK(d)
    /\ ~Persists => d = NoEntry
    /\ d # NoEntry /\ e # NoEntry => Last(d.frame) <= Last(e.frame)
    /\ s = NoFrame => e \in {NoEntry, d}
    /\ CallOK(n, c, e, d)

\* The frame of the strategy.
StoreOK(s) ==
    /\ \A b \in s.bars : b < bar
    /\ \A b \in s.soft : b = Last(s)

ClosedOK == closed # NoCandle => closed.bar < bar

\* The inductive invariant.
FeedInv ==
    /\ CandleTypeOK /\ ClosedOK /\ StoreOK(store)
    /\ \A n \in Limits : KeyOK(n, cache[n], disk[n], store, fetch[n])

\* Knowledge.
Longer(a, b) == b # NoEntry => a # NoEntry /\ Last(a.frame) >= Last(b.frame)

Grows ==
    \A n \in Limits :
        /\ Longer(disk'[n], disk[n])
        /\ restarts' = restarts => Longer(cache'[n], cache[n])

-----------------------------------------------------------------------------
(***************************************************************************)
(* Sets of bars.                                                           *)
(***************************************************************************)
\* A set of naturals has a least member.
LEMMA LeastExists ==
    ASSUME NEW S \in SUBSET Nat, S # {}
    PROVE  \E m \in S : \A b \in S : m <= b
<1>1. \E m \in S : \A b \in S : ~(<<b, m>> \in OpToRel(<, Nat))
  BY NatLessThanWellFounded, WFMin
<1>2. PICK m \in S : \A b \in S : ~(<<b, m>> \in OpToRel(<, Nat))
  BY <1>1
<1>3. ASSUME NEW b \in S PROVE m <= b
  <2>1. ~(<<b, m>> \in OpToRel(<, Nat))
    BY <1>2
  <2>2. <<b, m>> \in Nat \X Nat
    OBVIOUS
  <2>3. ~(b < m)
    BY <2>1, <2>2 DEF OpToRel
  <2> QED BY <2>3
<1> QED BY <1>3

\* What Min, Max and the smaller of two are.
LEMMA MinIs ==
    ASSUME NEW S \in SUBSET Nat, S # {}
    PROVE  Min(S) \in S /\ \A b \in S : Min(S) <= b
BY LeastExists DEF Min

LEMMA MaxIs ==
    ASSUME NEW k \in Nat, NEW S \in SUBSET (0..k), S # {}
    PROVE  Max(S) \in S /\ \A b \in S : b <= Max(S)
<1> DEFINE T == {k - b : b \in S}
<1>1. T \in SUBSET Nat /\ T # {}
  <2>1. \A b \in S : k - b \in Nat
    OBVIOUS
  <2> QED BY <2>1
<1>2. PICK t \in T : \A u \in T : t <= u
  BY <1>1, LeastExists
<1>3. PICK m \in S : t = k - m
  OBVIOUS
<1>4. ASSUME NEW b \in S PROVE m >= b
  <2>1. k - b \in T
    OBVIOUS
  <2>2. k - m <= k - b
    BY <1>2, <1>3, <2>1
  <2> QED BY <2>2
<1>5. \E x \in S : \A y \in S : x >= y
  BY <1>4
<1>6. Max(S) \in S /\ \A y \in S : Max(S) >= y
  BY <1>5 DEF Max
<1> QED BY <1>6

LEMMA PairMin ==
    ASSUME NEW a \in Nat, NEW b \in Nat
    PROVE  Min({a, b}) \in {a, b} /\ Min({a, b}) <= a /\ Min({a, b}) <= b
BY MinIs

\* A set of bars is finite.
LEMMA BoundedIsFinite ==
    ASSUME NEW k \in Nat, NEW S \in SUBSET (0..k)
    PROVE  IsFiniteSet(S) /\ Cardinality(S) \in Nat
<1>1. IsFiniteSet(0..k)
  BY FS_Interval
<1>2. IsFiniteSet(S)
  BY <1>1, FS_Subset
<1> QED BY <1>2, FS_CardinalityType

\* The n newest: no newer one is left out, there are at most n, all of them
\* if there are no more, and no hole comes from cutting.
LEMMA NewestIsUpper ==
    ASSUME NEW k \in Nat, NEW S \in SUBSET (0..k), NEW n \in Nat \ {0}
    PROVE  /\ Newest(n, S) \subseteq S
           /\ S # {} => Max(S) \in Newest(n, S)
           /\ \A b \in Newest(n, S) : \A c \in S : c >= b => c \in Newest(n, S)
<1>0. \A x \in S : x \in Nat /\ x \in 0..k
  OBVIOUS
<1>1. Newest(n, S) \subseteq S
  BY DEF Newest
<1>2. ASSUME S # {} PROVE Max(S) \in Newest(n, S)
  <2>1. Max(S) \in S /\ \A b \in S : b <= Max(S)
    BY <1>2, MaxIs
  <2>2. {c \in S : c > Max(S)} = {}
    <3>1. ASSUME NEW c \in S PROVE ~(c > Max(S))
      <4>1. c \in Nat /\ Max(S) \in Nat /\ c <= Max(S)
        BY <1>0, <2>1
      <4> QED BY <4>1
    <3> QED BY <3>1, Zenon
  <2>3. Cardinality({c \in S : c > Max(S)}) = 0
    BY <2>2, FS_EmptySet
  <2> QED BY <2>1, <2>3 DEF Newest
<1>3. ASSUME NEW b \in Newest(n, S), NEW c \in S, c >= b
      PROVE  c \in Newest(n, S)
  <2> DEFINE B == {x \in S : x > b}
             C == {x \in S : x > c}
  <2>0. b \in S /\ c >= b
    BY <1>1, <1>3
  <2>1. B \in SUBSET (0..k) /\ C \in SUBSET B
    <3>1. \A x \in S : x > c => x > b
      BY <1>0, <2>0
    <3> QED BY <1>0, <3>1, Zenon
  <2>2. IsFiniteSet(B) /\ Cardinality(B) \in Nat
    BY <2>1, BoundedIsFinite
  <2>3. Cardinality(C) <= Cardinality(B) /\ Cardinality(C) \in Nat
    BY <2>1, <2>2, FS_Subset, FS_CardinalityType
  <2>4. Cardinality(B) < n
    BY <1>3 DEF Newest
  <2>5. Cardinality(C) < n
    BY <2>2, <2>3, <2>4
  <2> QED BY <2>5 DEF Newest
<1> QED BY <1>1, <1>2, <1>3

LEMMA NewestIsShort ==
    ASSUME NEW k \in Nat, NEW S \in SUBSET (0..k), NEW n \in Nat \ {0}
    PROVE  /\ Cardinality(Newest(n, S)) <= n
           /\ Cardinality(S) <= n => Newest(n, S) = S
<1> DEFINE N == Newest(n, S)
<1>0. \A x \in S : x \in Nat /\ x \in 0..k
  OBVIOUS
<1>1. N \subseteq S /\ IsFiniteSet(N) /\ IsFiniteSet(S) /\ Cardinality(S) \in Nat
  BY NewestIsUpper, BoundedIsFinite, FS_Subset
<1>2. CASE N = {}
  <2>1. Cardinality(N) = 0
    BY <1>2, FS_EmptySet
  <2>2. S = {}
    BY <1>2, NewestIsUpper
  <2> QED BY <2>1, <2>2, <1>2
<1>3. CASE N # {}
  <2> DEFINE m == Min(N)
             A == {c \in S : c > m}
  <2>0. N \in SUBSET Nat
    BY <1>0, <1>1
  <2>1. m \in N /\ \A b \in N : m <= b
    BY <1>3, <2>0, MinIs
  <2>2. A \in SUBSET (0..k) /\ N \ {m} \in SUBSET A
    <3>1. ASSUME NEW b \in N \ {m} PROVE b > m /\ b \in S
      <4>1. b \in Nat /\ m \in Nat /\ m <= b /\ b # m /\ b \in S
        BY <1>0, <1>1, <2>1
      <4> QED BY <4>1
    <3>2. A \in SUBSET (0..k)
      <4>1. \A x \in A : x \in S
        OBVIOUS
      <4> QED BY <1>0, <4>1, Zenon
    <3>3. \A b \in N \ {m} : b \in A
      BY <3>1, Zenon
    <3> QED BY <3>2, <3>3, Zenon
  <2>3. IsFiniteSet(A) /\ Cardinality(A) \in Nat
    BY <2>2, BoundedIsFinite
  <2>4. Cardinality(N \ {m}) <= Cardinality(A)
    BY <2>2, <2>3, FS_Subset
  <2>5. Cardinality(N \ {m}) = Cardinality(N) - 1
    BY <1>1, <2>1, FS_RemoveElement
  <2>6. Cardinality(A) < n
    BY <2>1 DEF Newest
  <2>7. Cardinality(N) \in Nat
    BY <1>1, FS_CardinalityType
  <2>8. Cardinality(N) <= n
    BY <2>3, <2>4, <2>5, <2>6, <2>7
  <2>9. ASSUME Cardinality(S) <= n, NEW b \in S PROVE b \in N
    <3> DEFINE B == {c \in S : c > b}
    <3>1. B \in SUBSET S /\ B # S
      OBVIOUS
    <3>2. Cardinality(B) <= Cardinality(S) /\ Cardinality(B) # Cardinality(S)
      BY <1>1, <3>1, FS_Subset
    <3>3. Cardinality(B) \in Nat
      BY <1>1, <3>1, FS_Subset, FS_CardinalityType
    <3>4. Cardinality(B) < n
      BY <1>1, <2>9, <3>2, <3>3
    <3> QED BY <3>4 DEF Newest
  <2> QED BY <1>1, <2>8, <2>9
<1> QED BY <1>2, <1>3

LEMMA NewestUnbroken ==
    ASSUME NEW k \in Nat, NEW S \in SUBSET (0..k), NEW n \in Nat \ {0}, Unbroken(S)
    PROVE  Unbroken(Newest(n, S))
<1> SUFFICES ASSUME NEW a \in Newest(n, S), NEW c \in Newest(n, S), NEW b \in a..c
             PROVE  b \in Newest(n, S)
  BY DEF Unbroken
<1>1. a \in S /\ c \in S
  BY NewestIsUpper
<1>2. b \in S
  BY <1>1 DEF Unbroken
<1>3. b >= a
  OBVIOUS
<1> QED BY <1>2, <1>3, NewestIsUpper

-----------------------------------------------------------------------------
(***************************************************************************)
(* Frames, and the pure functions on them.                                 *)
(***************************************************************************)
\* What is older than a settled bar is settled.
LEMMA SettledDown ==
    ASSUME Clocked, NEW a \in Nat, NEW b \in Nat, a <= b, Settled(b)
    PROVE  Settled(a)
BY DEF Clocked, Settled

\* Frames.
LEMMA FrameIs ==
    ASSUME NEW f \in Frames
    PROVE  /\ f = [bars |-> f.bars, soft |-> f.soft]
           /\ f.bars \in SUBSET (0..bar) /\ f.soft \in SUBSET f.bars
BY DEF Frames, Bars

LEMMA FrameOf ==
    ASSUME NEW S \in SUBSET (0..bar), NEW T \in SUBSET S
    PROVE  /\ [bars |-> S, soft |-> T] \in Frames
           /\ [bars |-> S, soft |-> T].bars = S /\ [bars |-> S, soft |-> T].soft = T
BY DEF Frames, Bars

LEMMA LastIs ==
    ASSUME Clocked, NEW f \in Frames, f.bars # {}
    PROVE  Last(f) \in f.bars /\ Last(f) \in Nat /\ Last(f) <= bar
           /\ \A b \in f.bars : b <= Last(f) /\ b \in Nat
<1>1. f.bars \in SUBSET (0..bar) /\ bar \in Nat
  BY FrameIs DEF Clocked
<1>2. Last(f) \in f.bars /\ \A b \in f.bars : b <= Last(f)
  BY <1>1, MaxIs DEF Last
<1>3. \A b \in f.bars : b \in Nat /\ b \in 0..bar
  BY <1>1
<1> QED BY <1>1, <1>2, <1>3

\* drop_unclosed_candle leaves settled candles and takes no other away.
LEMMA DropIs ==
    ASSUME Clocked, NEW f \in Frames, f.soft = {}, \A b \in f.bars : b < bar
    PROVE  LET d == DropUnclosed(f) IN
           /\ d \in Frames /\ d.soft = {} /\ d.bars \subseteq f.bars
           /\ \A b \in d.bars : Settled(b)
           /\ \A b \in f.bars : Settled(b) => b \in d.bars
<1> DEFINE d == DropUnclosed(f)
<1>1. CASE f.bars = {}
  BY <1>1 DEF DropUnclosed
<1>2. CASE f.bars # {} /\ Settled(Last(f))
  <2>1. d = f
    BY <1>2 DEF DropUnclosed
  <2>2. ASSUME NEW b \in f.bars PROVE Settled(b)
    <3>1. b \in Nat /\ Last(f) \in Nat /\ b <= Last(f)
      BY <1>2, LastIs
    <3> QED BY <1>2, <3>1, SettledDown
  <2> QED BY <2>1, <2>2
<1>3. CASE f.bars # {} /\ ~Settled(Last(f))
  <2> DEFINE m == Last(f)
  <2>1. d = [bars |-> f.bars \ {m}, soft |-> f.soft \ {m}]
    BY <1>3 DEF DropUnclosed
  <2>2. f.bars \in SUBSET (0..bar)
    BY FrameIs
  <2>3. d \in Frames /\ d.bars = f.bars \ {m} /\ d.soft = {}
    BY <2>1, <2>2, FrameOf
  <2>4. m \in f.bars /\ m \in Nat /\ \A b \in f.bars : b <= m /\ b \in Nat
    BY <1>3, LastIs
  <2>5. m = bar - 1
    BY <1>3, <2>4 DEF Settled, Clocked
  <2>6. ASSUME NEW b \in d.bars PROVE Settled(b)
    <3>1. b \in Nat /\ b <= m /\ b # m
      BY <2>3, <2>4
    <3>2. b < bar - 1
      BY <2>5, <3>1 DEF Clocked
    <3> QED BY <3>1, <3>2 DEF Settled, Clocked
  <2>7. ASSUME NEW b \in f.bars, Settled(b) PROVE b \in d.bars
    BY <1>3, <2>3, <2>7
  <2> QED BY <2>3, <2>6, <2>7
<1> QED BY <1>1, <1>2, <1>3

\* What cutting keeps.
LEMMA CutIs ==
    ASSUME bar \in Nat, NEW f \in Frames, NEW n \in Nat \ {0}, f.soft = {}
    PROVE  LET c == Cut(n, f) IN
           /\ c \in Frames /\ c.soft = {} /\ c.bars = Newest(n, f.bars)
           /\ c.bars \subseteq f.bars /\ Cardinality(c.bars) <= n
           /\ Cardinality(f.bars) <= n => c.bars = f.bars
           /\ f.bars # {} => Max(f.bars) \in c.bars
           /\ \A a \in c.bars : \A b \in f.bars : b >= a => b \in c.bars
           /\ Unbroken(f.bars) => Unbroken(c.bars)
<1> DEFINE N == Newest(n, f.bars)
<1>1. f.bars \in SUBSET (0..bar)
  BY FrameIs
<1>2. N \subseteq f.bars /\ N \in SUBSET (0..bar)
  BY <1>1, NewestIsUpper
<1>3. Cut(n, f) = [bars |-> N, soft |-> {}]
  BY <1>1 DEF Cut
<1>4. Cut(n, f) \in Frames /\ Cut(n, f).bars = N /\ Cut(n, f).soft = {}
  BY <1>2, <1>3, FrameOf
<1>5. Cardinality(N) <= n /\ (Cardinality(f.bars) <= n => N = f.bars)
  BY <1>1, NewestIsShort
<1>6. f.bars # {} => Max(f.bars) \in N
  BY <1>1, NewestIsUpper
<1>7. \A a \in N : \A b \in f.bars : b >= a => b \in N
  BY <1>1, NewestIsUpper
<1>8. Unbroken(f.bars) => Unbroken(N)
  BY <1>1, NewestUnbroken
<1> DEFINE c == Cut(n, f)
<1>9. c \in Frames /\ c.bars = N /\ c.soft = {}
  BY <1>4
<1> HIDE DEF N, c
<1>10. /\ c \in Frames /\ c.soft = {} /\ c.bars = N
       /\ c.bars \subseteq f.bars /\ Cardinality(c.bars) <= n
       /\ Cardinality(f.bars) <= n => c.bars = f.bars
       /\ f.bars # {} => Max(f.bars) \in c.bars
       /\ \A a \in c.bars : \A b \in f.bars : b >= a => b \in c.bars
       /\ Unbroken(f.bars) => Unbroken(c.bars)
  BY <1>2, <1>5, <1>6, <1>7, <1>8, <1>9
<1> QED BY <1>10 DEF N, c

\* _parse_kline_rows: settled and final, and every settled row of the newest.
LEMMA ParseIs ==
    ASSUME Clocked, NEW n \in Nat \ {0}, NEW rows \in SUBSET (0..bar), NEW forming,
           \A b \in rows \ forming : b < bar
    PROVE  LET p == Parse(rows, forming, n)
               S == rows \ forming IN
           /\ p \in Frames /\ p.soft = {} /\ p.bars \subseteq S /\ Cardinality(p.bars) <= n
           /\ \A b \in p.bars : Settled(b)
           /\ \A b \in Newest(n, S) : Settled(b) => b \in p.bars
           /\ p.bars \subseteq Newest(n, S)
<1> DEFINE S == rows \ forming
           f == [bars |-> S, soft |-> {}]
           c == Cut(n, f)
           p == Parse(rows, forming, n)
<1>1. f \in Frames /\ f.bars = S /\ f.soft = {}
  BY FrameOf
<1>2. c \in Frames /\ c.soft = {} /\ c.bars = Newest(n, S) /\ c.bars \subseteq S
      /\ Cardinality(c.bars) <= n
  BY <1>1, CutIs DEF Clocked
<1>3. p = DropUnclosed(c)
  BY DEF Parse
<1>4. \A b \in c.bars : b < bar
  BY <1>2
<1> HIDE DEF c
<1>5. p \in Frames /\ p.soft = {} /\ p.bars \subseteq c.bars
      /\ (\A b \in p.bars : Settled(b))
      /\ (\A b \in c.bars : Settled(b) => b \in p.bars)
  BY <1>2, <1>3, <1>4, DropIs
<1>6. Cardinality(p.bars) <= n
  <2>1. c.bars \in SUBSET (0..bar) /\ p.bars \in SUBSET (0..bar)
    BY <1>2, <1>5, FrameIs
  <2>2. IsFiniteSet(c.bars) /\ Cardinality(c.bars) \in Nat /\ Cardinality(p.bars) \in Nat
    BY <2>1, BoundedIsFinite DEF Clocked
  <2>3. Cardinality(p.bars) <= Cardinality(c.bars)
    BY <1>5, <2>2, FS_Subset
  <2> QED BY <1>2, <2>2, <2>3
<1> HIDE DEF p
<1> QED BY <1>2, <1>5, <1>6 DEF p

\* _merge_parsed_klines: nothing but old and new, and never an older end.
LEMMA JoinIs ==
    ASSUME Clocked, NEW n \in Nat \ {0}, NEW old \in Frames, NEW new \in Frames,
           old.soft = {}, new.soft = {}
    PROVE  LET j == Join(old, new, n)
               U == old.bars \cup new.bars IN
           /\ j \in Frames /\ j.soft = {} /\ j.bars \subseteq U /\ Cardinality(j.bars) <= n
           /\ old.bars # {} => j.bars # {} /\ Last(j) >= Last(old)
           /\ Unbroken(U) => Unbroken(j.bars)
<1> DEFINE U == old.bars \cup new.bars
           f == [bars |-> U, soft |-> {}]
           j == Join(old, new, n)
<1>0. old.bars \in SUBSET (0..bar) /\ new.bars \in SUBSET (0..bar)
  BY FrameIs
<1>1. f \in Frames /\ f.bars = U /\ f.soft = {}
  BY <1>0, FrameOf
<1>2. j = Cut(n, f)
  BY DEF Join
<1> HIDE DEF f, j
<1>21. /\ j \in Frames /\ j.soft = {} /\ j.bars \subseteq f.bars /\ Cardinality(j.bars) <= n
       /\ f.bars # {} => Max(f.bars) \in j.bars
       /\ Unbroken(f.bars) => Unbroken(j.bars)
  <2>1. bar \in Nat
    BY DEF Clocked
  <2> DEFINE c == Cut(n, f)
  <2>2. /\ c \in Frames /\ c.soft = {} /\ c.bars \subseteq f.bars /\ Cardinality(c.bars) <= n
        /\ f.bars # {} => Max(f.bars) \in c.bars
        /\ Unbroken(f.bars) => Unbroken(c.bars)
    BY <1>1, <2>1, CutIs
  <2> QED BY <1>2, <2>2
<1>3. /\ j \in Frames /\ j.soft = {} /\ j.bars \subseteq U /\ Cardinality(j.bars) <= n
      /\ U # {} => Max(U) \in j.bars
      /\ Unbroken(U) => Unbroken(j.bars)
  BY <1>1, <1>21
<1>4. ASSUME old.bars # {} PROVE j.bars # {} /\ Last(j) >= Last(old)
  <2>1. Max(U) \in j.bars /\ \A b \in U : b <= Max(U)
    BY <1>0, <1>3, <1>4, MaxIs DEF Clocked
  <2>2. Last(old) \in U /\ Last(old) \in Nat
    BY <1>4, LastIs
  <2>3. Max(U) <= Last(j) /\ Last(j) \in Nat /\ Max(U) \in Nat
    BY <1>3, <2>1, LastIs
  <2>4. Last(old) <= Max(U)
    BY <2>1, <2>2
  <2> QED BY <2>1, <2>2, <2>3, <2>4
<1> QED BY <1>3, <1>4 DEF j

\* _merge_ws_closed_candle: at most one candle more, right behind the last.
LEMMA MergedIs ==
    ASSUME Clocked, NEW f \in Frames, f.soft = {}, closed \in Candles,
           closed # NoCandle => closed.bar < bar, \A b \in f.bars : b < bar
    PROVE  LET m == Merged(f) IN
           /\ m \in Frames /\ f.bars \subseteq m.bars
           /\ \A b \in m.bars : b < bar
           /\ \A b \in m.soft : b = Last(m)
           /\ f.bars = {} => m = f
           /\ Unbroken(f.bars) => Unbroken(m.bars)
<1>1. CASE ~Newer(f) \/ Gap(f)
  <2>1. Merged(f) = f
    BY <1>1 DEF Merged
  <2> QED BY <2>1
<1>2. CASE Newer(f) /\ ~Gap(f)
  <2> DEFINE B == f.bars \cup {closed.bar}
             T == IF closed.whole THEN {} ELSE {closed.bar}
             m == Merged(f)
  <2>1. f.bars # {} /\ closed # NoCandle /\ closed.bar > Last(f) /\ closed.bar - Last(f) <= 1
    <3>1. f.bars # {} /\ closed # NoCandle /\ closed.bar > Last(f)
      BY <1>2 DEF Newer, Offered
    <3>2. closed.bar \in Nat /\ Last(f) \in Nat
      BY <3>1, LastIs DEF Candles, Bars
    <3> QED BY <1>2, <3>1, <3>2 DEF Gap
  <2>2. closed.bar \in Nat /\ closed.bar \in 0..bar /\ closed.bar < bar
    BY <2>1 DEF Candles, Bars
  <2>3. Last(f) \in f.bars /\ Last(f) \in Nat /\ \A b \in f.bars : b <= Last(f) /\ b \in Nat
    BY <2>1, LastIs
  <2>4. closed.bar = Last(f) + 1
    BY <2>1, <2>2, <2>3
  <2>5. B \in SUBSET (0..bar) /\ T \in SUBSET B
    BY <2>2, FrameIs
  <2>6. m = [bars |-> B, soft |-> T]
    BY <1>2 DEF Merged
  <2>7. m \in Frames /\ m.bars = B /\ m.soft = T
    BY <2>5, <2>6, FrameOf
  <2>8. \A b \in B : b < bar /\ b <= closed.bar /\ b \in Nat
    <3>1. ASSUME NEW b \in f.bars PROVE b < bar /\ b <= closed.bar /\ b \in Nat
      BY <2>2, <2>3, <2>4
    <3> QED BY <2>2, <3>1
  <2>9. Last(m) = closed.bar
    <3>1. Last(m) \in B /\ closed.bar <= Last(m) /\ Last(m) \in Nat
      BY <2>7, LastIs
    <3>2. Last(m) <= closed.bar
      BY <2>8, <3>1
    <3> QED BY <2>2, <3>1, <3>2
  <2>10. ASSUME Unbroken(f.bars) PROVE Unbroken(B)
    <3> SUFFICES ASSUME NEW a \in B, NEW c \in B, NEW b \in a..c PROVE b \in B
      BY DEF Unbroken
    <3>1. a \in Nat /\ c \in Nat /\ b \in Int /\ a <= b /\ b <= c /\ c <= closed.bar
      BY <2>8
    <3>2. CASE b = closed.bar
      BY <3>2
    <3>3. CASE b # closed.bar
      <4>1. b <= Last(f) /\ a # closed.bar
        BY <2>2, <2>3, <2>4, <3>1, <3>3
      <4>2. a \in f.bars /\ b \in a..Last(f)
        BY <2>3, <3>1, <4>1
      <4> QED BY <2>3, <2>10, <4>2 DEF Unbroken
    <3> QED BY <3>2, <3>3
  <2> HIDE DEF B, m
  <2>11. f.bars \subseteq m.bars
    BY <2>7 DEF B
  <2>12. \A b \in m.soft : b = Last(m)
    BY <2>7, <2>9
  <2>13. (\A b \in m.bars : b < bar) /\ (Unbroken(f.bars) => Unbroken(m.bars))
    BY <2>7, <2>8, <2>10
  <2> QED BY <2>1, <2>7, <2>11, <2>12, <2>13 DEF m
<1> QED BY <1>1, <1>2

-----------------------------------------------------------------------------
(***************************************************************************)
(* What does not change, and steps on one key.                             *)
(***************************************************************************)
\* What the assumption says of the constants.
LEMMA NumbersAre ==
    /\ Limits \subseteq Nat \ {0} /\ Page \in Nat \ {0}
    /\ BarLen \in Nat /\ Lag \in Nat /\ CallTime \in Nat /\ FirstBar \in Nat
    /\ CallTime < BarLen /\ MaxRestarts \in Nat
BY FeedAssumption

\* The clock of a typed state.
LEMMA ClockIs ==
    ASSUME CandleTypeOK
    PROVE  Clocked
BY NumbersAre DEF Clocked, CandleTypeOK

\* Nothing cached.
LEMMA EmptyIs ==
    /\ NoFrame \in Frames /\ NoFrame.bars = {} /\ NoFrame.soft = {}
    /\ NoEntry.frame = NoFrame /\ (now \in Nat => NoEntry \in Entries)
    /\ EntryOK(NoEntry)
<1>1. NoFrame \in Frames /\ NoFrame.bars = {} /\ NoFrame.soft = {}
  BY FrameOf DEF NoFrame
<1>2. NoEntry = [at |-> 0, frame |-> NoFrame]
  BY DEF NoEntry
<1> QED BY <1>1, <1>2 DEF Entries, EntryOK

\* A step that takes no time changes no type.
LEMMA SameClock ==
    ASSUME UNCHANGED clock
    PROVE  /\ Frames' = Frames /\ Bars' = Bars /\ Entries' = Entries
           /\ Candles' = Candles /\ Calls' = Calls
           /\ now' = now /\ bar' = bar /\ opened' = opened /\ kind' = kind
           /\ Persists' = Persists
BY DEF clock, Frames, Bars, Entries, Candles, Calls, Persists

\* An entry is no shorter than itself.
LEMMA LongerSelf ==
    ASSUME FeedInv, NEW e \in Entries, EntryOK(e)
    PROVE  Longer(e, e)
<1> SUFFICES ASSUME e # NoEntry PROVE Last(e.frame) >= Last(e.frame)
  BY DEF Longer
<1>1. e.frame \in Frames /\ e.frame.bars # {} /\ Clocked
  BY ClockIs DEF EntryOK, Entries, FeedInv
<1>2. Last(e.frame) \in Nat
  BY <1>1, LastIs
<1> QED BY <1>2

\* A step on the entries and the call of one key keeps the invariant when the
\* key's own part holds of what it writes.
LEMMA WorkStep ==
    ASSUME FeedInv, UNCHANGED <<clock, ws, restarts>>, NEW n \in Limits,
           NEW e \in Entries, NEW d \in Entries, NEW s \in Frames, NEW c \in Calls,
           cache' = [cache EXCEPT ![n] = e], disk' = [disk EXCEPT ![n] = d],
           store' = s, fetch' = [fetch EXCEPT ![n] = c],
           Cardinality(e.frame.bars) <= n, Cardinality(d.frame.bars) <= n,
           KeyOK(n, e, d, s, c), StoreOK(s), s = NoFrame => store = NoFrame,
           Longer(e, cache[n]), Longer(d, disk[n])
    PROVE  FeedInv' /\ Grows
<1>1. /\ Frames' = Frames /\ Bars' = Bars /\ Entries' = Entries /\ Candles' = Candles /\ Calls' = Calls
      /\ now' = now /\ bar' = bar /\ opened' = opened /\ kind' = kind /\ Persists' = Persists
  BY SameClock DEF clock
<1>2. link' = link /\ live' = live /\ closed' = closed /\ restarts' = restarts
  BY DEF ws
<1>3. /\ cache \in [Limits -> Entries] /\ disk \in [Limits -> Entries] /\ store \in Frames
      /\ fetch \in [Limits -> Calls]
      /\ \A m \in Limits : Cardinality(cache[m].frame.bars) <= m /\ Cardinality(disk[m].frame.bars) <= m
  BY DEF FeedInv, CandleTypeOK, Calls
<1>4. /\ cache'[n] = e /\ disk'[n] = d /\ fetch'[n] = c
      /\ \A m \in Limits \ {n} : cache'[m] = cache[m] /\ disk'[m] = disk[m] /\ fetch'[m] = fetch[m]
  BY <1>3
<1>5. CandleTypeOK'
  <2>1. /\ cache' \in [Limits -> Entries] /\ disk' \in [Limits -> Entries] /\ store' \in Frames
        /\ fetch' \in [Limits -> Calls]
    BY <1>3
  <2>2. \A m \in Limits : Cardinality(cache'[m].frame.bars) <= m /\ Cardinality(disk'[m].frame.bars) <= m
    BY <1>3, <1>4
  <2>3. /\ kind \in Kinds /\ now \in Nat /\ bar \in Nat /\ opened \in 0..now /\ now - opened < BarLen
        /\ link \in {"down", "open", "fed", "dead"} /\ live \in Candles /\ closed \in Candles
        /\ restarts \in 0..MaxRestarts
    BY DEF FeedInv, CandleTypeOK
  <2> QED BY <1>1, <1>2, <2>1, <2>2, <2>3 DEF CandleTypeOK, Calls
<1>6. ClosedOK' /\ StoreOK(store)'
  BY <1>1, <1>2 DEF FeedInv, ClosedOK, StoreOK, Last, NoCandle
<1>7. ASSUME NEW m \in Limits PROVE KeyOK(m, cache'[m], disk'[m], store', fetch'[m])
  <2>1. CASE m = n
    BY <1>4, <2>1
  <2>2. CASE m # n
    <3>1. KeyOK(m, cache[m], disk[m], store, fetch[m])
      BY DEF FeedInv
    <3>2. KeyOK(m, cache[m], disk[m], s, fetch[m])
      BY <3>1 DEF KeyOK
    <3> QED BY <1>4, <2>2, <3>2
  <2> QED BY <2>1, <2>2
<1>8. ASSUME NEW m \in Limits PROVE KeyOK(m, cache[m], disk[m], store, fetch[m])'
  <2>1. KeyOK(m, cache'[m], disk'[m], store', fetch'[m])
    BY <1>7
  <2> QED BY <1>1, <2>1 DEF KeyOK, EntryOK, CallOK, DeltaOK, FullOK, Settled, Persists, Last, Unbroken
<1>9. Grows
  <2>1. ASSUME NEW m \in Limits PROVE Longer(disk'[m], disk[m]) /\ Longer(cache'[m], cache[m])
    <3>1. CASE m = n
      BY <1>4, <3>1
    <3>2. CASE m # n
      <4>1. cache'[m] = cache[m] /\ disk'[m] = disk[m]
        BY <1>4, <3>2
      <4>2. EntryOK(cache[m]) /\ EntryOK(disk[m]) /\ cache[m] \in Entries /\ disk[m] \in Entries
        BY <1>3 DEF FeedInv, KeyOK
      <4> QED BY <4>1, <4>2, LongerSelf
    <3> QED BY <3>1, <3>2
  <2> QED BY <2>1 DEF Grows
<1> QED BY <1>5, <1>6, <1>8, <1>9 DEF FeedInv

\* The same for a step that moves only the call.
LEMMA FetchStep ==
    ASSUME FeedInv, UNCHANGED <<clock, ws, cache, disk, store, restarts>>, NEW n \in Limits,
           NEW c \in Calls, fetch' = [fetch EXCEPT ![n] = c],
           CallOK(n, c, cache[n], disk[n])
    PROVE  FeedInv' /\ Grows
<1>1. /\ cache \in [Limits -> Entries] /\ disk \in [Limits -> Entries] /\ store \in Frames
      /\ Cardinality(cache[n].frame.bars) <= n /\ Cardinality(disk[n].frame.bars) <= n
  BY DEF FeedInv, CandleTypeOK
<1>2. StoreOK(store) /\ KeyOK(n, cache[n], disk[n], store, fetch[n])
  BY DEF FeedInv
<1>3. KeyOK(n, cache[n], disk[n], store, c)
  BY <1>2 DEF KeyOK
<1>5. Longer(cache[n], cache[n]) /\ Longer(disk[n], disk[n])
  BY <1>1, <1>2, LongerSelf DEF KeyOK
<1>6. /\ cache' = [cache EXCEPT ![n] = cache[n]] /\ disk' = [disk EXCEPT ![n] = disk[n]]
      /\ store' = store /\ UNCHANGED <<clock, ws, restarts>>
  BY <1>1
<1>7. cache[n] \in Entries /\ disk[n] \in Entries
  BY <1>1
<1> QED BY <1>1, <1>2, <1>3, <1>5, <1>6, <1>7, WorkStep

-----------------------------------------------------------------------------
(***************************************************************************)
(* The first state, the WebSocket, and the beginning of a call.            *)
(***************************************************************************)
\* The types of the variables.
LEMMA TypedVars ==
    ASSUME FeedInv
    PROVE  /\ cache \in [Limits -> Entries] /\ disk \in [Limits -> Entries] /\ store \in Frames
           /\ fetch \in [Limits -> Calls] /\ closed \in Candles /\ live \in Candles
           /\ \A m \in Limits : Cardinality(cache[m].frame.bars) <= m /\ Cardinality(disk[m].frame.bars) <= m
           /\ Clocked
BY ClockIs DEF FeedInv, CandleTypeOK, Calls

\* The entry a call begins with.
LEMMA EntryIs ==
    ASSUME FeedInv, NEW n \in Limits
    PROVE  LET e == Entry(n) IN
           /\ e \in {cache[n], disk[n]} /\ e \in Entries /\ e.frame \in Frames
           /\ EntryOK(e) /\ Cardinality(e.frame.bars) <= n
           /\ cache[n] # NoEntry => e = cache[n]
           /\ e = NoEntry => disk[n] = NoEntry
           /\ disk[n] # NoEntry => Last(disk[n].frame) <= Last(e.frame)
<1> DEFINE e == Entry(n)
<1>1. e \in {cache[n], disk[n]}
  BY DEF Entry
<1>2. KeyOK(n, cache[n], disk[n], store, fetch[n])
  BY DEF FeedInv
<1>3. EntryOK(cache[n]) /\ EntryOK(disk[n])
  BY <1>2 DEF KeyOK
<1>4. cache[n] # NoEntry => e = cache[n]
  BY DEF Entry
<1>5. e = NoEntry => disk[n] = NoEntry
  BY <1>2 DEF Entry, KeyOK
<1>6. ASSUME disk[n] # NoEntry PROVE Last(disk[n].frame) <= Last(e.frame)
  <2>1. CASE cache[n] # NoEntry
    BY <1>2, <1>4, <1>6, <2>1 DEF KeyOK
  <2>2. CASE cache[n] = NoEntry
    <3>1. e = disk[n]
      BY <1>2, <1>6, <2>2 DEF Entry, KeyOK
    <3>2. Longer(e, e)
      BY <1>3, <3>1, LongerSelf, TypedVars
    <3> QED BY <1>6, <3>1, <3>2 DEF Longer
  <2> QED BY <2>1, <2>2
<1>7. e \in Entries /\ Cardinality(e.frame.bars) <= n
  BY <1>1, TypedVars
<1>8. e.frame \in Frames /\ EntryOK(e)
  BY <1>1, <1>3, <1>7 DEF Entries
<1> HIDE DEF e
<1>9. /\ e \in {cache[n], disk[n]} /\ e \in Entries /\ e.frame \in Frames
      /\ EntryOK(e) /\ Cardinality(e.frame.bars) <= n
      /\ cache[n] # NoEntry => e = cache[n]
      /\ e = NoEntry => disk[n] = NoEntry
      /\ disk[n] # NoEntry => Last(disk[n].frame) <= Last(e.frame)
  BY <1>1, <1>4, <1>5, <1>6, <1>7, <1>8
<1> QED BY <1>9 DEF e

\* The frame that goes to the caller.
LEMMA MergedKept ==
    ASSUME FeedInv, NEW f \in Frames, f.soft = {}, \A b \in f.bars : Settled(b)
    PROVE  /\ Merged(f) \in Frames /\ StoreOK(Merged(f)) /\ f.bars \subseteq Merged(f).bars
           /\ f.bars = {} => Merged(f) = f
           /\ Unbroken(f.bars) => Unbroken(Merged(f).bars)
<1>1. Clocked /\ closed \in Candles
  BY TypedVars
<1>2. closed # NoCandle => closed.bar < bar
  BY DEF FeedInv, ClosedOK
<1>3. \A b \in f.bars : b < bar
  BY DEF Settled
<1> DEFINE m == Merged(f)
<1>4. /\ m \in Frames /\ f.bars \subseteq m.bars
      /\ \A b \in m.bars : b < bar
      /\ \A b \in m.soft : b = Last(m)
      /\ f.bars = {} => m = f
      /\ Unbroken(f.bars) => Unbroken(m.bars)
  BY <1>1, <1>2, <1>3, MergedIs
<1> QED BY <1>4 DEF StoreOK

\* The first state.
LEMMA InitStep == Init => FeedInv
<1> SUFFICES ASSUME Init PROVE FeedInv
  OBVIOUS
<1>1. bar \in Nat /\ now = 0 /\ opened = 0 /\ BarLen \in Nat \ {0} /\ restarts \in 0..MaxRestarts
  BY NumbersAre DEF Init
<1>2. NoEntry \in Entries /\ NoFrame \in Frames /\ NoFrame.bars = {} /\ NoFrame.soft = {} /\ NoEntry.frame = NoFrame
  BY <1>1, EmptyIs
<1>3. Idle \in Calls
  BY <1>1, <1>2 DEF Idle, Calls
<1>4. /\ cache \in [Limits -> Entries] /\ disk \in [Limits -> Entries] /\ store \in Frames
      /\ fetch \in [Limits -> Calls]
  BY <1>2, <1>3 DEF Init
<1>5. ASSUME NEW n \in Limits
      PROVE /\ cache[n] = NoEntry /\ disk[n] = NoEntry /\ store = NoFrame /\ fetch[n] = Idle
            /\ Cardinality(cache[n].frame.bars) <= n /\ Cardinality(disk[n].frame.bars) <= n
  <2>1. cache[n] = NoEntry /\ disk[n] = NoEntry /\ store = NoFrame /\ fetch[n] = Idle
    BY DEF Init
  <2>2. Cardinality(NoFrame.bars) = 0 /\ n \in Nat
    BY <1>2, NumbersAre, FS_EmptySet
  <2> QED BY <1>2, <2>1, <2>2
<1>6. CandleTypeOK
  <2>1. live \in Candles /\ closed \in Candles
    BY DEF Init, Candles
  <2>2. kind \in Kinds /\ link \in {"down", "open", "fed", "dead"}
    BY DEF Init
  <2> QED BY <1>1, <1>4, <1>5, <2>1, <2>2 DEF CandleTypeOK, Calls
<1>7. ClosedOK /\ StoreOK(store)
  BY <1>2 DEF Init, ClosedOK, StoreOK
<1>8. ASSUME NEW n \in Limits PROVE KeyOK(n, cache[n], disk[n], store, fetch[n])
  <2>1. EntryOK(NoEntry) /\ Idle.pc = "idle"
    BY EmptyIs DEF Idle
  <2>2. CallOK(n, Idle, NoEntry, NoEntry)
    BY <2>1 DEF CallOK
  <2> QED BY <1>5, <2>1, <2>2 DEF KeyOK
<1> QED BY <1>6, <1>7, <1>8 DEF FeedInv

\* A step of the WebSocket.
LEMMA SocketStep ==
    ASSUME FeedInv, UNCHANGED <<clock, cache, disk, store, fetch, restarts>>,
           link' \in {"down", "open", "fed", "dead"}, live' \in Candles, closed' \in Candles,
           closed' # NoCandle => closed'.bar < bar
    PROVE  FeedInv' /\ Grows
<1>1. /\ Frames' = Frames /\ Bars' = Bars /\ Entries' = Entries /\ Candles' = Candles /\ Calls' = Calls
      /\ now' = now /\ bar' = bar /\ opened' = opened /\ kind' = kind /\ Persists' = Persists
      /\ cache' = cache /\ disk' = disk /\ store' = store /\ fetch' = fetch /\ restarts' = restarts
  BY SameClock DEF clock
<1>2. CandleTypeOK'
  BY <1>1 DEF FeedInv, CandleTypeOK
<1>3. ClosedOK' /\ StoreOK(store)'
  BY <1>1 DEF FeedInv, ClosedOK, StoreOK, Last, NoCandle
<1>4. ASSUME NEW m \in Limits PROVE KeyOK(m, cache[m], disk[m], store, fetch[m])'
  <2>1. KeyOK(m, cache[m], disk[m], store, fetch[m])
    BY DEF FeedInv
  <2> QED BY <1>1, <2>1 DEF KeyOK, EntryOK, CallOK, DeltaOK, FullOK, Settled, Persists, Last, Unbroken
<1>5. Grows
  <2>1. ASSUME NEW m \in Limits PROVE Longer(disk[m], disk[m]) /\ Longer(cache[m], cache[m])
    <3>1. EntryOK(cache[m]) /\ EntryOK(disk[m]) /\ cache[m] \in Entries /\ disk[m] \in Entries
      BY TypedVars DEF FeedInv, KeyOK
    <3> QED BY <3>1, LongerSelf
  <2> QED BY <1>1, <2>1 DEF Grows
<1> QED BY <1>2, <1>3, <1>4, <1>5 DEF FeedInv

\* The candles a push and a trade leave.
LEMMA CandleStep ==
    ASSUME FeedInv
    PROVE  /\ Rollover => closed' \in Candles /\ (closed' # NoCandle => closed'.bar < bar)
           /\ StoreCandle => live' \in Candles
           /\ NoCandle \in Candles
           /\ live.bar = bar => [live EXCEPT !.whole = FALSE] \in Candles
<1>1. live \in Candles /\ closed \in Candles /\ bar \in Nat /\ now \in Nat
  BY TypedVars DEF Clocked
<1>2. NoCandle \in Candles /\ NoCandle.bar = -1
  BY DEF Candles, NoCandle
<1>3. live # NoCandle => live.bar \in 0..bar
  BY <1>1 DEF Candles, Bars
<1>4. Rollover => closed' \in Candles /\ (closed' # NoCandle => closed'.bar < bar)
  BY <1>1, <1>3 DEF Rollover, FeedInv, ClosedOK
<1>5. StoreCandle => live' \in Candles
  BY <1>1 DEF StoreCandle, Candles, Bars
<1>6. live.bar = bar => [live EXCEPT !.whole = FALSE] \in Candles
  <2> SUFFICES ASSUME live.bar = bar PROVE [live EXCEPT !.whole = FALSE] \in Candles
    OBVIOUS
  <2>1. live # NoCandle
    BY <1>1, <1>2
  <2>2. live \in [bar : Bars, whole : BOOLEAN, at : 0..now]
    BY <1>1, <2>1 DEF Candles
  <2> QED BY <2>2 DEF Candles
<1> QED BY <1>2, <1>4, <1>5, <1>6

\* Connect, Push, Trade, Stall, Disconnect.
LEMMA SocketSteps ==
    ASSUME FeedInv, Connect \/ Push \/ Trade \/ Stall \/ Disconnect
    PROVE  FeedInv' /\ Grows
<1>1. /\ live \in Candles /\ closed \in Candles /\ (closed # NoCandle => closed.bar < bar)
      /\ link \in {"down", "open", "fed", "dead"}
  BY TypedVars DEF FeedInv, ClosedOK, CandleTypeOK
<1>2. CASE Connect
  BY <1>1, <1>2, SocketStep DEF Connect
<1>3. CASE Push
  <2>1. live' \in Candles /\ closed' \in Candles /\ (closed' # NoCandle => closed'.bar < bar)
    BY <1>3, CandleStep DEF Push, StoreCandle
  <2> QED BY <1>3, <2>1, SocketStep DEF Push
<1>4. CASE Trade
  <2>1. CASE link = "fed"
    <3>1. live' \in Candles /\ closed' \in Candles /\ (closed' # NoCandle => closed'.bar < bar)
      BY <1>4, <2>1, CandleStep DEF Trade, StoreCandle
    <3> QED BY <1>1, <1>4, <3>1, SocketStep DEF Trade
  <2>2. CASE link # "fed"
    <3>1. live' \in Candles /\ closed' = closed
      BY <1>1, <1>4, <2>2, CandleStep DEF Trade
    <3> QED BY <1>1, <1>4, <3>1, SocketStep DEF Trade
  <2> QED BY <2>1, <2>2
<1>5. CASE Stall
  BY <1>1, <1>5, SocketStep DEF Stall
<1>6. CASE Disconnect
  BY <1>1, <1>6, SocketStep DEF Disconnect
<1> QED BY <1>2, <1>3, <1>4, <1>5, <1>6

\* A call looks at the caches.
LEMMA LookStep ==
    ASSUME FeedInv, NEW n \in Limits, NEW low \in BOOLEAN, Look(n, low)
    PROVE  FeedInv' /\ Grows
<1> DEFINE e == Entry(n)
           m == Merged(e.frame)
           c == [pc |-> IF e # NoEntry /\ Persists THEN "delta" ELSE "full", data |-> e.frame,
                 rows |-> {}, forming |-> {}, since |-> now]
<1>1. /\ e \in Entries /\ e.frame \in Frames /\ EntryOK(e) /\ Cardinality(e.frame.bars) <= n
      /\ cache[n] # NoEntry => e = cache[n]
      /\ e = NoEntry => disk[n] = NoEntry
      /\ disk[n] # NoEntry => Last(disk[n].frame) <= Last(e.frame)
  BY EntryIs
<1>2. m \in Frames /\ StoreOK(m) /\ e.frame.bars \subseteq m.bars
  BY <1>1, MergedKept DEF EntryOK
<1>3. /\ KeyOK(n, cache[n], disk[n], store, fetch[n]) /\ StoreOK(store)
      /\ disk[n] \in Entries /\ cache[n] \in Entries /\ fetch[n] \in Calls /\ store \in Frames
      /\ Cardinality(disk[n].frame.bars) <= n
  BY TypedVars DEF FeedInv
<1>4. Longer(e, cache[n]) /\ Longer(disk[n], disk[n])
  <2>1. Longer(e, e) /\ Longer(disk[n], disk[n])
    BY <1>1, <1>3, LongerSelf DEF KeyOK
  <2> QED BY <1>1, <2>1 DEF Longer
<1>5. /\ cache' = [cache EXCEPT ![n] = e] /\ disk' = [disk EXCEPT ![n] = disk[n]]
      /\ UNCHANGED <<clock, ws, restarts>> /\ fetch[n].pc = "idle"
  BY TypedVars DEF Look
<1>6. /\ EntryOK(e) /\ EntryOK(disk[n]) /\ (~Persists => disk[n] = NoEntry)
      /\ (disk[n] # NoEntry /\ e # NoEntry => Last(disk[n].frame) <= Last(e.frame))
  BY <1>1, <1>3 DEF KeyOK
<1> HIDE DEF e, m
<1>7. CASE Answers(n, low)
  <2>1. e # NoEntry /\ e.frame.bars # {}
    BY <1>1, <1>7 DEF Answers, EntryOK, e
  <2>2. m.bars # {} /\ m # NoFrame
    BY <1>2, <2>1, EmptyIs
  <2>3. store' = m /\ fetch' = [fetch EXCEPT ![n] = fetch[n]]
    BY <1>7, <2>2, TypedVars DEF Look, Publish, m, e
  <2>4. KeyOK(n, e, disk[n], m, fetch[n])
    BY <1>5, <1>6, <2>2 DEF KeyOK, CallOK
  <2> QED BY <1>1, <1>2, <1>3, <1>4, <1>5, <2>2, <2>3, <2>4, WorkStep
<1>8. CASE ~Answers(n, low)
  <2>1. store' = store /\ fetch' = [fetch EXCEPT ![n] = c]
    BY <1>8 DEF Look, Begins, e
  <2>2. /\ c.pc = (IF e # NoEntry /\ Persists THEN "delta" ELSE "full") /\ c.data = e.frame
        /\ c.rows = {} /\ c.forming = {} /\ c.since = now
    OBVIOUS
  <2>3. c \in Calls
    BY <1>1, TypedVars DEF Calls, Clocked
  <2> HIDE DEF c
  <2>4. CallOK(n, c, e, disk[n])
    <3>1. now - c.since <= CallTime /\ n \in Nat /\ Cardinality(c.rows) <= n
      BY <2>2, TypedVars, NumbersAre, FS_EmptySet DEF Clocked
    <3>2. DeltaOK(c)
      BY <2>2 DEF DeltaOK
    <3>3. FullOK(c)
      BY <2>2 DEF FullOK
    <3> QED BY <1>1, <2>2, <3>1, <3>2, <3>3 DEF CallOK
  <2>5. store = NoFrame => e \in {NoEntry, disk[n]}
    BY <1>3 DEF KeyOK, Entry, e
  <2>6. KeyOK(n, e, disk[n], store, c)
    BY <1>6, <2>4, <2>5 DEF KeyOK
  <2> QED BY <1>1, <1>3, <1>4, <1>5, <2>1, <2>3, <2>6, WorkStep
<1> QED BY <1>7, <1>8

\* The warm-up seeds the store.
LEMMA SeedStep ==
    ASSUME FeedInv, NEW n \in Limits, Seed(n)
    PROVE  FeedInv' /\ Grows
<1> DEFINE d == disk[n]
<1>1. /\ KeyOK(n, cache[n], d, store, fetch[n]) /\ store = NoFrame /\ d # NoEntry
      /\ d \in Entries /\ cache[n] \in Entries /\ fetch[n] \in Calls /\ store \in Frames
      /\ Cardinality(d.frame.bars) <= n
  BY TypedVars DEF FeedInv, Seed
<1>2. cache[n] \in {NoEntry, d} /\ EntryOK(d) /\ d.frame \in Frames
  BY <1>1 DEF KeyOK, Entries
<1>3. StoreOK(d.frame)
  BY <1>2 DEF StoreOK, EntryOK, Settled
<1>4. Longer(d, d)
  BY <1>1, <1>2, LongerSelf
<1>5. Longer(d, cache[n])
  BY <1>2, <1>4 DEF Longer
<1>6. CallOK(n, fetch[n], d, d)
  BY <1>1, <1>2 DEF KeyOK, CallOK
<1>7. Last(d.frame) <= Last(d.frame)
  BY <1>1, <1>2, LastIs, TypedVars DEF EntryOK
<1>8. KeyOK(n, d, d, d.frame, fetch[n])
  BY <1>1, <1>2, <1>6, <1>7 DEF KeyOK
<1>9. /\ cache' = [cache EXCEPT ![n] = d] /\ disk' = [disk EXCEPT ![n] = d] /\ store' = d.frame
      /\ fetch' = [fetch EXCEPT ![n] = fetch[n]] /\ UNCHANGED <<clock, ws, restarts>>
  BY TypedVars DEF Seed
<1> HIDE DEF d
<1> QED BY <1>1, <1>2, <1>3, <1>4, <1>5, <1>8, <1>9, WorkStep DEF d

-----------------------------------------------------------------------------
(***************************************************************************)
(* Replies.                                                                *)
(***************************************************************************)
\* Rows between two bounds are no more than their distance.
LEMMA SpanIs ==
    ASSUME NEW a \in Int, NEW k \in Nat, NEW C \in SUBSET ((a + 1)..(a + k))
    PROVE  IsFiniteSet(C) /\ Cardinality(C) \in Nat /\ Cardinality(C) <= k
<1>1. IsFiniteSet((a + 1)..(a + k)) /\ Cardinality((a + 1)..(a + k)) = k
  BY FS_Interval
<1> QED BY <1>1, FS_Subset, FS_CardinalityType

\* The rows still asked for.
LEMMA BatchIs ==
    ASSUME NEW n \in Limits, fetch[n].rows \in SUBSET (0..bar), bar \in Nat,
           Cardinality(fetch[n].rows) <= n
    PROVE  /\ Batch(n) \in Nat /\ Cardinality(fetch[n].rows) + Batch(n) <= n
           /\ fetch[n].rows = {} => Batch(n) >= 1
<1> DEFINE k == Cardinality(fetch[n].rows)
<1>1. k \in Nat /\ n \in Nat \ {0} /\ Page \in Nat \ {0}
  BY BoundedIsFinite, NumbersAre
<1>2. n - k \in Nat
  BY <1>1
<1>3. Min({n - k, Page}) \in {n - k, Page} /\ Min({n - k, Page}) <= n - k
  BY <1>1, <1>2, PairMin
<1>4. fetch[n].rows = {} => k = 0
  BY FS_EmptySet
<1> HIDE DEF k
<1>5. Batch(n) = Min({n - k, Page})
  BY DEF Batch, k
<1>6. Batch(n) \in {n - k, Page} /\ Batch(n) <= n - k
  BY <1>3, <1>5
<1>7. Batch(n) \in Nat /\ k + Batch(n) <= n
  BY <1>1, <1>2, <1>6
<1>8. k = 0 => Batch(n) >= 1
  BY <1>1, <1>6
<1> QED BY <1>4, <1>7, <1>8 DEF k

\* A reply, of at most the rows asked for.
LEMMA CollectsIs ==
    ASSUME FeedInv, NEW n \in Limits, NEW next \in {"merge", "parse"}, fetch[n].pc # "idle",
           NEW a \in Int, NEW chunk \in SUBSET (0..bar),
           chunk \subseteq (a + 1)..(a + Batch(n)), Collects(n, chunk, next)
    PROVE  \E c \in Calls :
               /\ fetch' = [fetch EXCEPT ![n] = c]
               /\ c.rows = fetch[n].rows \cup chunk
               /\ c.forming = fetch[n].forming \cup (chunk \cap {bar})
               /\ c.data = fetch[n].data /\ c.since = fetch[n].since
               /\ c.pc \in {fetch[n].pc, next} /\ Cardinality(c.rows) <= n
<1> DEFINE o == fetch[n]
<1>1. o \in Calls /\ bar \in Nat
  BY TypedVars DEF Clocked
<1>2. o.rows \in SUBSET (0..bar) /\ o.forming \in SUBSET (0..bar)
  BY <1>1 DEF Calls, Bars
<1>3. Cardinality(o.rows) <= n
  BY DEF FeedInv, KeyOK, CallOK
<1>4. Batch(n) \in Nat /\ Cardinality(o.rows) + Batch(n) <= n
  BY <1>1, <1>2, <1>3, BatchIs
<1>5. IsFiniteSet(chunk) /\ Cardinality(chunk) \in Nat /\ Cardinality(chunk) <= Batch(n)
  BY <1>4, SpanIs
<1>6. IsFiniteSet(o.rows) /\ Cardinality(o.rows) \in Nat
  BY <1>1, <1>2, BoundedIsFinite
<1>7. Cardinality(o.rows \cup chunk) <= Cardinality(o.rows) + Cardinality(chunk)
      /\ Cardinality(o.rows \cup chunk) \in Nat
  <2>1. IsFiniteSet(o.rows \cap chunk) /\ IsFiniteSet(o.rows \cup chunk)
    BY <1>5, <1>6, FS_Intersection, FS_Union
  <2>2. Cardinality(o.rows \cap chunk) \in Nat /\ Cardinality(o.rows \cup chunk) \in Nat
    BY <2>1, FS_CardinalityType
  <2>3. Cardinality(o.rows \cup chunk)
          = Cardinality(o.rows) + Cardinality(chunk) - Cardinality(o.rows \cap chunk)
    BY <1>5, <1>6, FS_Union
  <2> QED BY <1>5, <1>6, <2>2, <2>3
<1>8. Cardinality(o.rows \cup chunk) <= n
  <2>1. n \in Nat
    BY NumbersAre
  <2> QED BY <1>4, <1>5, <1>6, <1>7, <2>1
<1> DEFINE pc == IF Cardinality(chunk) < Batch(n) \/ Cardinality(o.rows \cup chunk) >= n THEN next ELSE o.pc
           c == [pc |-> pc, data |-> o.data, rows |-> o.rows \cup chunk,
                 forming |-> o.forming \cup (chunk \cap {bar}), since |-> o.since]
<1>9. pc \in {o.pc, next}
  OBVIOUS
<1>10. c \in Calls
  <2> HIDE DEF pc
  <2>1. pc \in {"idle", "delta", "full", "merge", "parse"}
    BY <1>1, <1>9 DEF Calls
  <2>2. o.rows \cup chunk \in SUBSET Bars /\ o.forming \cup (chunk \cap {bar}) \in SUBSET Bars
    BY <1>2 DEF Bars
  <2>3. o.data \in Frames /\ o.since \in 0..now
    BY <1>1 DEF Calls
  <2> QED BY <2>1, <2>2, <2>3 DEF Calls
<1>11. fetch' = [fetch EXCEPT ![n] = c]
  <2>1. DOMAIN fetch = Limits /\ o = [pc |-> o.pc, data |-> o.data, rows |-> o.rows, forming |-> o.forming, since |-> o.since]
    BY <1>1, TypedVars DEF Calls
  <2> DEFINE x == [o EXCEPT !.rows = @ \cup chunk, !.forming = @ \cup (chunk \cap {bar}), !.pc = pc]
  <2>2. x = c
    <3> DEFINE R == o.rows \cup chunk
               F == o.forming \cup (chunk \cap {bar})
    <3> HIDE DEF R, F, pc
    <3> DEFINE x1 == [o EXCEPT !.rows = R]
               x2 == [x1 EXCEPT !.forming = F]
    <3>1. x = [x2 EXCEPT !.pc = pc]
      BY <2>1 DEF R, F
    <3>2. c = [pc |-> pc, data |-> o.data, rows |-> R, forming |-> F, since |-> o.since]
      BY DEF R, F
    <3>3. x1 = [pc |-> o.pc, data |-> o.data, rows |-> R, forming |-> o.forming, since |-> o.since]
      BY <2>1
    <3> HIDE DEF x1
    <3>4. x2 = [pc |-> o.pc, data |-> o.data, rows |-> R, forming |-> F, since |-> o.since]
      BY <3>3
    <3> HIDE DEF x2, o
    <3>5. x = [pc |-> pc, data |-> o.data, rows |-> R, forming |-> F, since |-> o.since]
      BY <3>1, <3>4
    <3> QED BY <3>2, <3>5
  <2>3. fetch' = [fetch EXCEPT ![n].rows = @ \cup chunk, ![n].forming = @ \cup (chunk \cap {bar}), ![n].pc = pc]
    BY DEF Collects
  <2>4. fetch' = [fetch EXCEPT ![n] = x]
    BY <2>1, <2>3, Zenon
  <2> QED BY <2>2, <2>4
<1>12. /\ c.rows = o.rows \cup chunk /\ c.forming = o.forming \cup (chunk \cap {bar})
       /\ c.data = o.data /\ c.since = o.since /\ c.pc = pc
  OBVIOUS
<1> HIDE DEF c, pc
<1> QED BY <1>8, <1>9, <1>10, <1>11, <1>12

\* A call under way.
LEMMA RunningIs ==
    ASSUME FeedInv, NEW n \in Limits, fetch[n].pc # "idle"
    PROVE  /\ fetch[n] \in Calls /\ cache[n] \in Entries /\ disk[n] \in Entries
           /\ fetch[n].rows \in SUBSET (0..bar) /\ fetch[n].data = cache[n].frame
           /\ fetch[n].data \in Frames /\ EntryOK(cache[n]) /\ EntryOK(disk[n])
           /\ CallOK(n, fetch[n], cache[n], disk[n])
           /\ \A b \in fetch[n].rows : b \in Nat /\ b <= bar
<1>1. /\ fetch[n] \in Calls /\ cache[n] \in Entries /\ disk[n] \in Entries
  BY TypedVars
<1>2. KeyOK(n, cache[n], disk[n], store, fetch[n])
  BY DEF FeedInv
<1>3. fetch[n].rows \in SUBSET (0..bar) /\ fetch[n].data \in Frames
  BY <1>1 DEF Calls, Bars
<1>4. \A b \in fetch[n].rows : b \in Nat /\ b <= bar
  <2>1. \A b \in fetch[n].rows : b \in 0..bar
    BY <1>3
  <2> QED BY <2>1, TypedVars DEF Clocked
<1> QED BY <1>1, <1>2, <1>3, <1>4 DEF KeyOK, CallOK

\* A page of newer rows.
LEMMA DeltaPageStep ==
    ASSUME FeedInv, NEW n \in Limits, DeltaPage(n)
    PROVE  FeedInv' /\ Grows
<1> DEFINE o == fetch[n]
           k == Cursor(n)
           h == Last(o.data)
           newer == (k + 1)..bar
           chunk == IF NewestFirst THEN {b \in newer : b > bar - Batch(n)}
                    ELSE {b \in newer : b <= k + Batch(n)}
           a == IF NewestFirst THEN bar - Batch(n) ELSE k
<1>1. o.pc = "delta" /\ Collects(n, chunk, "merge")
  BY DEF DeltaPage, At
<1>2. /\ o \in Calls /\ o.rows \in SUBSET (0..bar) /\ o.data = cache[n].frame /\ o.data \in Frames
      /\ EntryOK(cache[n]) /\ CallOK(n, o, cache[n], disk[n]) /\ bar \in Nat
      /\ \A b \in o.rows : b \in Nat /\ b <= bar
  BY <1>1, RunningIs, TypedVars DEF Clocked
<1>3. cache[n] # NoEntry /\ DeltaOK(o) /\ Cardinality(o.rows) <= n
  BY <1>1, <1>2 DEF CallOK
<1>4. h \in Nat
  BY <1>2, <1>3, LastIs, TypedVars DEF EntryOK
<1>5. /\ k \in Nat /\ h <= k /\ \A b \in o.rows : b <= k
      /\ ~NewestFirst => (h + 1)..k \subseteq o.rows
  <2>1. CASE o.rows = {}
    <3>1. k = h
      BY <2>1 DEF Cursor
    <3>2. (h + 1)..h = {}
      BY <1>4
    <3> QED BY <1>4, <2>1, <3>1, <3>2
  <2>2. CASE o.rows # {}
    <3>1. k \in o.rows /\ \A b \in o.rows : b <= k
      BY <1>2, <2>2, MaxIs DEF Cursor
    <3>2. k \in Nat /\ k > h
      BY <1>2, <1>3, <3>1 DEF DeltaOK
    <3>3. ~NewestFirst => (h + 1)..k \subseteq o.rows
      BY <1>3, <3>1 DEF DeltaOK
    <3> QED BY <1>4, <3>1, <3>2, <3>3
  <2> QED BY <2>1, <2>2
<1>6. Batch(n) \in Nat
  BY <1>2, <1>3, BatchIs
<1>7. a \in Int /\ chunk \in SUBSET (0..bar) /\ chunk \subseteq (a + 1)..(a + Batch(n))
      /\ \A b \in chunk : b > k /\ b <= bar /\ b \in Nat
  <2>1. a \in Int
    BY <1>2, <1>5, <1>6
  <2>2. ASSUME NEW b \in chunk
        PROVE b > k /\ b <= bar /\ b \in Nat /\ b \in 0..bar /\ b \in (a + 1)..(a + Batch(n))
    BY <1>2, <1>5, <1>6
  <2> HIDE DEF chunk, a
  <2> QED BY <2>1, <2>2
<1> HIDE DEF chunk, a, k
<1>8. PICK c \in Calls :
          /\ fetch' = [fetch EXCEPT ![n] = c]
          /\ c.rows = o.rows \cup chunk
          /\ c.forming = o.forming \cup (chunk \cap {bar})
          /\ c.data = o.data /\ c.since = o.since
          /\ c.pc \in {o.pc, "merge"} /\ Cardinality(c.rows) <= n
  <2>1. o.pc # "idle" /\ a \in Int /\ chunk \in SUBSET (0..bar) /\ chunk \subseteq (a + 1)..(a + Batch(n))
    BY <1>1, <1>7
  <2>2. FeedInv /\ n \in Limits /\ fetch[n].pc # "idle" /\ Collects(n, chunk, "merge")
    BY <1>1, <2>1
  <2>3. \E c \in Calls :
           /\ fetch' = [fetch EXCEPT ![n] = c]
           /\ c.rows = fetch[n].rows \cup chunk
           /\ c.forming = fetch[n].forming \cup (chunk \cap {bar})
           /\ c.data = fetch[n].data /\ c.since = fetch[n].since
           /\ c.pc \in {fetch[n].pc, "merge"} /\ Cardinality(c.rows) <= n
    <3> HIDE DEF o, newer, h
    <3> QED BY <2>1, <2>2, CollectsIs
  <2> QED BY <2>3
<1>9. DeltaOK(c)
  <2>1. ASSUME NEW b \in c.rows PROVE b > Last(c.data)
    <3>1. CASE b \in o.rows
      BY <1>3, <1>8, <3>1 DEF DeltaOK
    <3>2. CASE b \in chunk
      <4>1. b > k /\ b \in Nat
        BY <1>7, <3>2
      <4>2. b > h
        BY <1>4, <1>5, <4>1
      <4> QED BY <1>8, <4>2
    <3> QED BY <1>8, <3>1, <3>2
  <2>2. ASSUME NEW b \in c.rows \ c.forming PROVE b < bar
    <3>1. CASE b \in o.rows
      BY <1>3, <1>8, <3>1 DEF DeltaOK
    <3>2. CASE b \in chunk
      <4>1. b <= bar /\ b \in Nat /\ b # bar
        BY <1>7, <1>8, <3>2
      <4> QED BY <1>2, <4>1
    <3> QED BY <1>8, <3>1, <3>2
  <2>3. \A f \in c.forming : f = bar \/ (f = bar - 1 /\ c.since < opened)
    BY <1>3, <1>8 DEF DeltaOK
  <2>4. ASSUME NEW f \in c.forming, NEW b \in c.rows, b >= f PROVE b \in c.forming
    <3>1. CASE b \in o.rows /\ f \in o.forming
      BY <1>3, <1>8, <2>4, <3>1 DEF DeltaOK
    <3>2. CASE b \in o.rows /\ f = bar
      <4>1. b = bar
        BY <1>2, <2>4, <3>2
      <4> QED BY <2>4, <3>2, <4>1
    <3>3. CASE b \in chunk
      <4>1. CASE f \in o.forming
        <5>1. f \in o.rows /\ (f = bar \/ f = bar - 1)
          BY <1>1, <1>2, <1>3, <4>1 DEF CallOK, DeltaOK
        <5>2. f <= k /\ b > k /\ b <= bar /\ b \in Nat
          BY <1>5, <1>7, <3>3, <5>1
        <5>3. b = bar
          BY <1>2, <1>5, <5>1, <5>2
        <5> QED BY <1>8, <3>3, <5>3
      <4>2. CASE f = bar
        <5>1. b = bar
          BY <1>2, <1>7, <2>4, <3>3, <4>2
        <5> QED BY <1>8, <3>3, <5>1
      <4> QED BY <1>8, <4>1, <4>2
    <3> QED BY <1>8, <3>1, <3>2, <3>3
  <2>5. ASSUME ~NewestFirst, NEW b \in c.rows PROVE (Last(c.data) + 1)..b \subseteq c.rows
    <3>1. CASE b \in o.rows
      BY <1>3, <1>8, <2>5, <3>1 DEF DeltaOK
    <3>2. CASE b \in chunk
      <4> SUFFICES ASSUME NEW x \in (h + 1)..b PROVE x \in c.rows
        BY <1>8
      <4>1. x \in Nat /\ x >= h + 1 /\ x <= b /\ b <= bar /\ b <= k + Batch(n) /\ b \in Nat
        BY <1>4, <1>7, <2>5, <3>2 DEF chunk
      <4>2. CASE x <= k
        <5>1. x \in (h + 1)..k
          BY <1>4, <1>5, <4>1, <4>2
        <5> QED BY <1>5, <1>8, <2>5, <5>1
      <4>3. CASE x > k
        <5>1. x \in (k + 1)..bar /\ x <= k + Batch(n)
          BY <1>2, <1>5, <1>6, <4>1, <4>3
        <5> QED BY <1>8, <2>5, <5>1 DEF chunk
      <4> QED BY <1>5, <4>1, <4>2, <4>3
    <3> QED BY <1>8, <3>1, <3>2
  <2> QED BY <2>1, <2>2, <2>3, <2>4, <2>5 DEF DeltaOK
<1>10. CallOK(n, c, cache[n], disk[n])
  <2>1. c.forming \subseteq c.rows
    BY <1>1, <1>2, <1>8 DEF CallOK
  <2>2. c.pc \in {"delta", "merge"}
    BY <1>1, <1>8
  <2> QED BY <1>1, <1>2, <1>3, <1>8, <1>9, <2>1, <2>2 DEF CallOK
<1> QED BY <1>8, <1>10, FetchStep DEF DeltaPage

\* No answer to it.
LEMMA DeltaFailsStep ==
    ASSUME FeedInv, NEW n \in Limits, DeltaFails(n)
    PROVE  FeedInv' /\ Grows
<1> DEFINE o == fetch[n]
           p == IF o.rows = {} THEN "full" ELSE "merge"
           c == [o EXCEPT !.pc = p]
<1>1. o.pc = "delta" /\ o \in Calls /\ CallOK(n, o, cache[n], disk[n])
  BY RunningIs DEF DeltaFails, At
<1>2. /\ c \in Calls /\ c.pc = p /\ c.data = o.data /\ c.rows = o.rows
      /\ c.forming = o.forming /\ c.since = o.since
  BY <1>1 DEF Calls
<1>3. fetch' = [fetch EXCEPT ![n] = c]
  BY DEF DeltaFails
<1> HIDE DEF c
<1>4. CASE o.rows = {}
  <2>1. FullOK(c)
    BY <1>2, <1>4 DEF FullOK
  <2>2. CallOK(n, c, cache[n], disk[n])
    BY <1>1, <1>2, <1>4, <2>1 DEF CallOK
  <2> QED BY <1>2, <1>3, <2>2, FetchStep DEF DeltaFails
<1>5. CASE o.rows # {}
  <2>1. DeltaOK(o) /\ cache[n] # NoEntry
    BY <1>1 DEF CallOK
  <2>2. DeltaOK(c)
    BY <1>2, <2>1 DEF DeltaOK
  <2>3. CallOK(n, c, cache[n], disk[n])
    BY <1>1, <1>2, <1>5, <2>1, <2>2 DEF CallOK
  <2> QED BY <1>2, <1>3, <2>3, FetchStep DEF DeltaFails
<1> QED BY <1>4, <1>5

\* A page of older rows.
LEMMA FullPageStep ==
    ASSUME FeedInv, NEW n \in Limits, FullPage(n)
    PROVE  FeedInv' /\ Grows
<1> DEFINE o == fetch[n]
           top == IF o.rows = {} THEN bar ELSE Min(o.rows) - 1
           chunk == {b \in 0..top : b > top - Batch(n)}
<1>1. o.pc = "full" /\ Collects(n, chunk, "parse")
  BY DEF FullPage, At
<1>2. /\ o \in Calls /\ o.rows \in SUBSET (0..bar) /\ o.data = cache[n].frame /\ o.data \in Frames
      /\ EntryOK(cache[n]) /\ CallOK(n, o, cache[n], disk[n]) /\ bar \in Nat
      /\ \A b \in o.rows : b \in Nat /\ b <= bar
  BY <1>1, RunningIs, TypedVars DEF Clocked
<1>3. FullOK(o) /\ Cardinality(o.rows) <= n /\ o.forming \subseteq o.rows
  BY <1>1, <1>2 DEF CallOK
<1>4. /\ Batch(n) \in Nat /\ (o.rows = {} => Batch(n) >= 1)
  BY <1>2, <1>3, BatchIs
<1>5. /\ top \in Int /\ top <= bar
      /\ o.rows # {} => Min(o.rows) \in o.rows /\ top = Min(o.rows) - 1 /\ \A b \in o.rows : b > top
      /\ o.rows = {} => top = bar
  <2>1. CASE o.rows = {}
    BY <1>2, <2>1
  <2>2. CASE o.rows # {}
    <3>1. Min(o.rows) \in o.rows /\ \A b \in o.rows : Min(o.rows) <= b
      BY <1>2, <2>2, MinIs
    <3>2. Min(o.rows) \in Nat /\ Min(o.rows) <= bar
      BY <1>2, <3>1
    <3>3. \A b \in o.rows : b > Min(o.rows) - 1
      BY <1>2, <3>1, <3>2
    <3> QED BY <1>2, <2>2, <3>1, <3>2, <3>3
  <2> QED BY <2>1, <2>2
<1> HIDE DEF top
<1>6. top - Batch(n) \in Int /\ chunk \in SUBSET (0..bar)
      /\ chunk \subseteq (top - Batch(n) + 1)..(top - Batch(n) + Batch(n))
      /\ \A b \in chunk : b <= top /\ b \in Nat
  <2>1. ASSUME NEW b \in chunk
        PROVE b \in 0..bar /\ b \in (top - Batch(n) + 1)..(top - Batch(n) + Batch(n)) /\ b <= top /\ b \in Nat
    BY <1>2, <1>4, <1>5
  <2> HIDE DEF chunk
  <2> QED BY <1>4, <1>5, <2>1
<1>7. \A b \in chunk : \A x \in b..top : x \in chunk
  <2> SUFFICES ASSUME NEW b \in chunk, NEW x \in b..top PROVE x \in chunk
    OBVIOUS
  <2>1. b \in Nat /\ b > top - Batch(n)
    BY <1>6
  <2> QED BY <1>4, <1>5, <2>1
<1>8. o.rows = {} => bar \in chunk
  BY <1>2, <1>4, <1>5
<1> HIDE DEF chunk
<1>9. PICK c \in Calls :
          /\ fetch' = [fetch EXCEPT ![n] = c]
          /\ c.rows = o.rows \cup chunk
          /\ c.forming = o.forming \cup (chunk \cap {bar})
          /\ c.data = o.data /\ c.since = o.since
          /\ c.pc \in {o.pc, "parse"} /\ Cardinality(c.rows) <= n
  BY <1>1, <1>6, CollectsIs
<1>10. c.rows # {}
  BY <1>8, <1>9
<1>11. \A b \in c.rows : b \in Nat /\ b <= bar /\ b \in 0..bar
  <2>1. \A b \in 0..bar : b \in Nat /\ b <= bar
    BY <1>2
  <2>2. c.rows \subseteq 0..bar
    BY <1>2, <1>6, <1>9, Zenon
  <2> QED BY <2>1, <2>2, Zenon
<1>12. /\ Max(c.rows) \in c.rows /\ (\A b \in c.rows : b <= Max(c.rows))
       /\ Max(c.rows) = (IF o.rows = {} THEN bar ELSE Max(o.rows))
  <2> DEFINE m == Max(c.rows)
  <2>1. m \in c.rows /\ \A b \in c.rows : b <= m
    <3>1. c.rows \in SUBSET (0..bar)
      BY <1>11
    <3> QED BY <1>2, <1>10, <3>1, MaxIs
  <2>2. CASE o.rows = {}
    <3>1. bar <= m /\ m <= bar /\ m \in Nat
      BY <1>8, <1>9, <1>11, <2>1, <2>2
    <3> QED BY <1>2, <2>1, <2>2, <3>1
  <2>3. CASE o.rows # {}
    <3> DEFINE M == Max(o.rows)
    <3>1. M \in o.rows /\ (\A b \in o.rows : b <= M)
      BY <1>2, <2>3, MaxIs
    <3>2. M \in Nat /\ M <= m /\ m \in Nat /\ M > top
      BY <1>2, <1>5, <1>9, <1>11, <2>1, <2>3, <3>1
    <3>3. m <= M
      <4>1. CASE m \in o.rows
        BY <3>1, <4>1
      <4>2. CASE m \in chunk
        BY <1>5, <1>6, <3>2, <4>2
      <4> QED BY <1>9, <2>1, <4>1, <4>2
    <3>4. m = M
      BY <3>2, <3>3
    <3> QED BY <2>1, <2>3, <3>4
  <2> QED BY <2>2, <2>3
<1>13. c.forming = {Max(c.rows)}
  <2>1. CASE o.rows = {}
    BY <1>3, <1>8, <1>9, <1>12, <2>1
  <2>2. CASE o.rows # {}
    <3>1. bar \notin chunk
      <4>1. top < bar
        BY <1>2, <1>5, <2>2
      <4> QED BY <1>2, <1>5, <1>6, <4>1
    <3> QED BY <1>3, <1>9, <1>12, <2>2, <3>1 DEF FullOK
  <2> QED BY <2>1, <2>2
<1>14. Unbroken(c.rows)
  <2> SUFFICES ASSUME NEW x \in c.rows, NEW y \in c.rows, NEW b \in x..y PROVE b \in c.rows
    BY DEF Unbroken
  <2>1. x \in Nat /\ y \in Nat /\ b \in Nat /\ x <= b /\ b <= y /\ y <= bar
    BY <1>11
  <2>2. CASE b <= top
    <3>1. x \in chunk
      <4>1. x <= top
        BY <1>5, <2>1, <2>2
      <4>2. x \notin o.rows
        BY <1>5, <2>1, <4>1
      <4> QED BY <1>9, <4>2
    <3>2. b \in x..top
      BY <1>5, <2>1, <2>2
    <3> QED BY <1>7, <1>9, <3>1, <3>2
  <2>3. CASE b > top
    <3>1. o.rows # {} /\ y \in o.rows
      <4>1. y > top
        BY <1>5, <2>1, <2>3
      <4>2. y \notin chunk
        BY <1>5, <1>6, <2>1, <4>1
      <4> QED BY <1>9, <4>2
    <3>2. Min(o.rows) \in o.rows /\ Min(o.rows) \in Nat /\ Min(o.rows) = top + 1
      BY <1>2, <1>5, <3>1
    <3>3. b \in Min(o.rows)..y
      BY <1>5, <2>1, <2>3, <3>2
    <3> QED BY <1>3, <1>9, <3>1, <3>2, <3>3 DEF FullOK, Unbroken
  <2> QED BY <1>5, <2>1, <2>2, <2>3
<1>15. \A b \in c.data.bars : b < Max(c.rows)
  <2>1. \A b \in o.data.bars : b < bar
    BY <1>2 DEF EntryOK, Settled
  <2> QED BY <1>3, <1>9, <1>12, <2>1 DEF FullOK
<1>16. FullOK(c)
  BY <1>10, <1>13, <1>14, <1>15 DEF FullOK
<1>17. CallOK(n, c, cache[n], disk[n])
  <2>1. c.forming \subseteq c.rows
    BY <1>3, <1>9
  <2>2. c.pc \in {"full", "parse"}
    BY <1>1, <1>9
  <2> QED BY <1>1, <1>2, <1>9, <1>16, <2>1, <2>2 DEF CallOK
<1> QED BY <1>9, <1>17, FetchStep DEF FullPage

\* No answer to it.
LEMMA FullFailsStep ==
    ASSUME FeedInv, NEW n \in Limits, FullFails(n)
    PROVE  FeedInv' /\ Grows
<1> DEFINE o == fetch[n]
           c == [o EXCEPT !.pc = "parse"]
<1>1. o.pc = "full" /\ o \in Calls /\ CallOK(n, o, cache[n], disk[n])
  BY RunningIs DEF FullFails, At
<1>2. CASE o.rows = {}
  <2>1. Idle \in Calls /\ Idle.pc = "idle"
    BY EmptyIs, TypedVars DEF Idle, Calls, Clocked
  <2>2. CallOK(n, Idle, cache[n], disk[n])
    BY <2>1 DEF CallOK
  <2>3. fetch' = [fetch EXCEPT ![n] = Idle]
    BY <1>2 DEF FullFails
  <2> QED BY <2>1, <2>2, <2>3, FetchStep DEF FullFails
<1>3. CASE o.rows # {}
  <2>1. /\ c \in Calls /\ c.pc = "parse" /\ c.data = o.data /\ c.rows = o.rows
        /\ c.forming = o.forming /\ c.since = o.since
    BY <1>1 DEF Calls
  <2>2. fetch' = [fetch EXCEPT ![n] = c]
    BY <1>3 DEF FullFails
  <2> HIDE DEF c
  <2>3. FullOK(c)
    BY <1>1, <1>3, <2>1 DEF CallOK, FullOK
  <2>4. CallOK(n, c, cache[n], disk[n])
    BY <1>1, <2>1, <2>3 DEF CallOK
  <2> QED BY <2>1, <2>2, <2>4, FetchStep DEF FullFails
<1> QED BY <1>2, <1>3

-----------------------------------------------------------------------------
(***************************************************************************)
(* The end of a call.                                                      *)
(***************************************************************************)
\* The end of a call.
LEMMA EndsStep ==
    ASSUME FeedInv, NEW n \in Limits, fetch[n].pc # "idle", NEW written \in BOOLEAN,
           NEW f \in Frames, f.soft = {}, \A b \in f.bars : Settled(b),
           Cardinality(f.bars) <= n, Ends(n, f, written), UNCHANGED restarts,
           f.bars # {} /\ cache[n] # NoEntry => Last(f) >= Last(cache[n].frame)
    PROVE  FeedInv' /\ Grows
<1> DEFINE m == Merged(f)
           e == [at |-> now, frame |-> f]
<1>1. /\ m \in Frames /\ StoreOK(m) /\ f.bars \subseteq m.bars /\ (f.bars = {} => m = f)
  BY MergedKept
<1>2. /\ cache[n] \in Entries /\ disk[n] \in Entries /\ EntryOK(cache[n]) /\ EntryOK(disk[n])
      /\ CallOK(n, fetch[n], cache[n], disk[n])
  BY RunningIs
<1>3. /\ KeyOK(n, cache[n], disk[n], store, fetch[n]) /\ StoreOK(store) /\ store \in Frames
      /\ Cardinality(cache[n].frame.bars) <= n /\ Cardinality(disk[n].frame.bars) <= n /\ Clocked
  BY TypedVars DEF FeedInv
<1>4. Idle \in Calls /\ Idle.pc = "idle"
  BY EmptyIs, TypedVars DEF Idle, Calls, Clocked
<1>5. /\ fetch' = [fetch EXCEPT ![n] = Idle] /\ UNCHANGED <<clock, ws, restarts>>
      /\ store' = (IF m.bars = {} THEN store ELSE m)
      /\ IF f.bars = {} THEN UNCHANGED <<cache, disk>> ELSE Keep(n, f, written)
  BY DEF Ends, Publish
<1>6. Longer(cache[n], cache[n]) /\ Longer(disk[n], disk[n])
  BY <1>2, LongerSelf
<1>7. CallOK(n, Idle, e, disk[n]) /\ CallOK(n, Idle, e, e) /\ CallOK(n, Idle, cache[n], disk[n])
  BY <1>4 DEF CallOK
<1> HIDE DEF m
<1>8. CASE f.bars = {}
  <2>1. store' = store
    BY <1>1, <1>5, <1>8
  <2>2. /\ cache' = [cache EXCEPT ![n] = cache[n]] /\ disk' = [disk EXCEPT ![n] = disk[n]]
    BY <1>5, <1>8, TypedVars
  <2>3. KeyOK(n, cache[n], disk[n], store, Idle)
    BY <1>3, <1>7 DEF KeyOK
  <2> QED BY <1>2, <1>3, <1>4, <1>5, <1>6, <2>1, <2>2, <2>3, WorkStep
<1>9. CASE f.bars # {}
  <2>1. e \in Entries /\ e.frame = f /\ EntryOK(e) /\ e # NoEntry
    BY <1>3, <1>9, EmptyIs DEF Entries, EntryOK, Clocked
  <2> HIDE DEF e
  <2>2. m # NoFrame /\ store' = m
    BY <1>1, <1>5, <1>9, EmptyIs
  <2>3. cache' = [cache EXCEPT ![n] = e]
        /\ disk' = (IF written /\ Persists THEN [disk EXCEPT ![n] = e] ELSE disk)
    BY <1>5, <1>9 DEF Keep, e
  <2>4. Longer(e, cache[n])
    BY <1>9, <2>1 DEF Longer
  <2>5. Longer(e, e)
    BY <2>1, LongerSelf
  <2>6. ASSUME disk[n] # NoEntry PROVE Last(e.frame) >= Last(disk[n].frame)
    <3>1. cache[n] # NoEntry
      BY <1>2, <2>6 DEF CallOK
    <3>2. Last(cache[n].frame) >= Last(disk[n].frame) /\ Last(e.frame) >= Last(cache[n].frame)
      BY <1>3, <1>9, <2>1, <2>6, <3>1 DEF KeyOK
    <3>3. cache[n].frame \in Frames /\ disk[n].frame \in Frames /\ e.frame \in Frames
      BY <1>2, <2>1 DEF Entries
    <3>4. Last(cache[n].frame) \in Nat /\ Last(disk[n].frame) \in Nat /\ Last(e.frame) \in Nat
      BY <1>2, <1>3, <1>9, <2>1, <2>6, <3>1, <3>3, LastIs DEF EntryOK
    <3> QED BY <3>2, <3>4
  <2>7. CASE written /\ Persists
    <3>1. KeyOK(n, e, e, m, Idle)
      BY <1>7, <2>1, <2>2, <2>5, <2>7 DEF KeyOK, Longer, e
    <3>2. Longer(e, disk[n])
      BY <2>1, <2>6 DEF Longer
    <3>3. Cardinality(e.frame.bars) <= n /\ disk' = [disk EXCEPT ![n] = e]
      BY <2>1, <2>3, <2>7
    <3> QED BY <1>1, <1>4, <1>5, <2>1, <2>2, <2>3, <2>4, <3>1, <3>2, <3>3, WorkStep
  <2>8. CASE ~(written /\ Persists)
    <3>1. KeyOK(n, e, disk[n], m, Idle)
      BY <1>3, <1>7, <2>1, <2>2, <2>6, <2>8 DEF KeyOK, e
    <3>2. Cardinality(e.frame.bars) <= n /\ disk' = [disk EXCEPT ![n] = disk[n]]
      BY <2>1, <2>3, <2>8, TypedVars
    <3> QED BY <1>1, <1>2, <1>3, <1>4, <1>5, <1>6, <2>1, <2>2, <2>3, <2>4, <3>1, <3>2, WorkStep
  <2> QED BY <2>7, <2>8
<1> QED BY <1>8, <1>9

\* The parsed rows of a call.
LEMMA ParsedIs ==
    ASSUME FeedInv, NEW n \in Limits, fetch[n].pc \in {"merge", "parse"}
    PROVE  LET o == fetch[n]
               p == Parse(o.rows, o.forming, n)
               S == o.rows \ o.forming IN
           /\ p \in Frames /\ p.soft = {} /\ p.bars \subseteq S /\ Cardinality(p.bars) <= n
           /\ \A b \in p.bars : Settled(b)
           /\ \A b \in Newest(n, S) : Settled(b) => b \in p.bars
           /\ S \in SUBSET (0..bar) /\ \A b \in S : b < bar
           /\ p.bars \subseteq Newest(n, S)
<1> DEFINE o == fetch[n]
           S == o.rows \ o.forming
<1>1. /\ o.rows \in SUBSET (0..bar) /\ CallOK(n, o, cache[n], disk[n]) /\ Clocked /\ n \in Nat \ {0}
      /\ \A b \in o.rows : b \in Nat /\ b <= bar
  BY RunningIs, TypedVars, NumbersAre
<1>2. ASSUME NEW b \in S PROVE b < bar
  <2>1. CASE o.pc = "merge"
    BY <1>1, <1>2, <2>1 DEF CallOK, DeltaOK
  <2>2. CASE o.pc = "parse"
    <3>1. o.rows # {} /\ o.forming = {Max(o.rows)}
      BY <1>1, <2>2 DEF CallOK, FullOK
    <3>2. Max(o.rows) \in o.rows /\ b <= Max(o.rows) /\ b # Max(o.rows)
      BY <1>1, <1>2, <3>1, MaxIs DEF Clocked
    <3>3. Max(o.rows) <= bar /\ Max(o.rows) \in Nat /\ b \in Nat /\ bar \in Nat
      BY <1>1, <1>2, <3>2 DEF Clocked
    <3> QED BY <3>2, <3>3
  <2> QED BY <2>1, <2>2
<1>3. S \in SUBSET (0..bar)
  BY <1>1
<1> DEFINE p == Parse(o.rows, o.forming, n)
<1>4. /\ p \in Frames /\ p.soft = {} /\ p.bars \subseteq S /\ Cardinality(p.bars) <= n
      /\ \A b \in p.bars : Settled(b)
      /\ \A b \in Newest(n, S) : Settled(b) => b \in p.bars
      /\ p.bars \subseteq Newest(n, S)
  <2> DEFINE r == o.rows
             g == o.forming
             x == Parse(r, g, n)
  <2>1. r \in SUBSET (0..bar) /\ (\A b \in r \ g : b < bar) /\ Clocked /\ n \in Nat \ {0}
    BY <1>1, <1>2
  <2> HIDE DEF r, g
  <2>2. /\ x \in Frames /\ x.soft = {} /\ x.bars \subseteq r \ g /\ Cardinality(x.bars) <= n
        /\ \A b \in x.bars : Settled(b)
        /\ \A b \in Newest(n, r \ g) : Settled(b) => b \in x.bars
        /\ x.bars \subseteq Newest(n, r \ g)
    BY <2>1, ParseIs
  <2> QED BY <2>2 DEF r, g
<1> HIDE DEF p
<1>5. /\ p \in Frames /\ p.soft = {} /\ p.bars \subseteq S /\ Cardinality(p.bars) <= n
      /\ \A b \in p.bars : Settled(b)
      /\ \A b \in Newest(n, S) : Settled(b) => b \in p.bars
      /\ S \in SUBSET (0..bar) /\ \A b \in S : b < bar
      /\ p.bars \subseteq Newest(n, S)
  BY <1>2, <1>3, <1>4
<1> QED BY <1>5 DEF p

\* The rows of a delta joined to the entry it began with.
LEMMA JoinedIs ==
    ASSUME FeedInv, NEW n \in Limits, fetch[n].pc = "merge"
    PROVE  LET o == fetch[n]
               p == Parse(o.rows, o.forming, n)
               j == Join(o.data, p, n) IN
           /\ j \in Frames /\ j.soft = {} /\ Cardinality(j.bars) <= n
           /\ \A b \in j.bars : Settled(b)
           /\ o.data.bars # {} => Last(j) >= Last(o.data)
           /\ Unbroken(o.data.bars \cup p.bars) => Unbroken(j.bars)
<1> DEFINE o == fetch[n]
           p == Parse(o.rows, o.forming, n)
           j == Join(o.data, p, n)
<1>1. p \in Frames /\ p.soft = {} /\ \A b \in p.bars : Settled(b)
  BY ParsedIs
<1>2. /\ o.data \in Frames /\ o.data.soft = {} /\ (\A b \in o.data.bars : Settled(b))
      /\ Clocked /\ n \in Nat \ {0}
  BY RunningIs, TypedVars, NumbersAre DEF EntryOK
<1> HIDE DEF p
<1>3. /\ j \in Frames /\ j.soft = {} /\ j.bars \subseteq o.data.bars \cup p.bars /\ Cardinality(j.bars) <= n
      /\ o.data.bars # {} => j.bars # {} /\ Last(j) >= Last(o.data)
      /\ Unbroken(o.data.bars \cup p.bars) => Unbroken(j.bars)
  BY <1>1, <1>2, JoinIs
<1> HIDE DEF j
<1>4. \A b \in j.bars : Settled(b)
  BY <1>1, <1>2, <1>3
<1>5. /\ j \in Frames /\ j.soft = {} /\ Cardinality(j.bars) <= n
      /\ \A b \in j.bars : Settled(b)
      /\ o.data.bars # {} => Last(j) >= Last(o.data)
      /\ Unbroken(o.data.bars \cup p.bars) => Unbroken(j.bars)
  BY <1>3, <1>4
<1> QED BY <1>5 DEF j, p

\* A delta ends.
LEMMA EndDeltaStep ==
    ASSUME FeedInv, NEW n \in Limits, NEW written \in BOOLEAN, EndDelta(n, written)
    PROVE  FeedInv' /\ Grows
<1> DEFINE o == fetch[n]
           j == Join(o.data, Parse(o.rows, o.forming, n), n)
<1>1. o.pc = "merge" /\ Ends(n, j, written) /\ UNCHANGED restarts
  BY DEF EndDelta, Ends, At
<1>2. /\ j \in Frames /\ j.soft = {} /\ Cardinality(j.bars) <= n
      /\ \A b \in j.bars : Settled(b)
      /\ o.data.bars # {} => Last(j) >= Last(o.data)
  BY <1>1, JoinedIs
<1> HIDE DEF j
<1>3. o.data = cache[n].frame /\ EntryOK(cache[n]) /\ o.pc # "idle"
  BY <1>1, RunningIs
<1>4. cache[n] # NoEntry => Last(j) >= Last(cache[n].frame)
  BY <1>2, <1>3 DEF EntryOK
<1> QED BY <1>1, <1>2, <1>3, <1>4, EndsStep

\* A full fetch reaches as far as the entry it replaces: were its last
\* candle older, the rows without a hole would hold the entry's last one.
LEMMA FullReaches ==
    ASSUME FeedInv, NEW n \in Limits, fetch[n].pc = "parse", cache[n] # NoEntry,
           Parse(fetch[n].rows, fetch[n].forming, n).bars # {}
    PROVE  Last(Parse(fetch[n].rows, fetch[n].forming, n)) >= Last(cache[n].frame)
<1> DEFINE o == fetch[n]
           S == o.rows \ o.forming
           p == Parse(o.rows, o.forming, n)
           M == Max(o.rows)
           h == Last(cache[n].frame)
<1>1. /\ p \in Frames /\ p.bars \subseteq S
      /\ \A b \in Newest(n, S) : Settled(b) => b \in p.bars
      /\ S \in SUBSET (0..bar) /\ p.bars \subseteq Newest(n, S) /\ \A b \in p.bars : Settled(b)
  BY ParsedIs
<1>2. /\ o.rows \in SUBSET (0..bar) /\ FullOK(o) /\ o.data = cache[n].frame /\ EntryOK(cache[n])
      /\ o.data \in Frames /\ Clocked /\ bar \in Nat /\ n \in Nat \ {0}
      /\ \A b \in o.rows : b \in Nat /\ b <= bar
  BY RunningIs, TypedVars, NumbersAre DEF CallOK, Clocked
<1> HIDE DEF p
<1>3. /\ o.rows # {} /\ o.forming = {M} /\ Unbroken(o.rows) /\ \A b \in o.data.bars : b < M
  BY <1>2 DEF FullOK
<1>4. M \in o.rows /\ M \in Nat /\ M <= bar /\ \A b \in o.rows : b <= M
  BY <1>2, <1>3, MaxIs
<1>5. h \in o.data.bars /\ h \in Nat /\ h < M /\ Settled(h)
  BY <1>2, <1>3, LastIs DEF EntryOK
<1>6. /\ Last(p) \in p.bars /\ Last(p) \in Nat /\ \A b \in p.bars : b <= Last(p)
  BY <1>1, <1>2, LastIs DEF p
<1> DEFINE q == Last(p)
<1>7. q \in o.rows /\ q \in Newest(n, S) /\ q # M
  BY <1>1, <1>3, <1>6
<1> HIDE DEF q
<1>8. SUFFICES ASSUME q < h PROVE FALSE
  <2>1. q \in Nat /\ h \in Nat
    BY <1>5, <1>6 DEF q
  <2>2. ~(q < h) => q >= h
    BY <2>1
  <2>3. q >= h => Last(Parse(fetch[n].rows, fetch[n].forming, n)) >= Last(cache[n].frame)
    BY Zenon DEF q, p
  <2> QED BY <2>2, <2>3
<1>9. h \in q..M
  BY <1>4, <1>5, <1>6, <1>8 DEF q
<1>10. h \in S
  <2>1. h \in o.rows
    BY <1>3, <1>4, <1>7, <1>9 DEF Unbroken
  <2> QED BY <1>3, <1>4, <1>5, <2>1
<1>11. h \in Newest(n, S)
  <2>1. h >= q
    BY <1>5, <1>6, <1>8 DEF q
  <2>2. S \in SUBSET (0..bar) /\ bar \in Nat /\ n \in Nat \ {0}
    BY <1>1, <1>2
  <2> HIDE DEF S, h
  <2>3. \A b \in Newest(n, S) : \A c \in S : c >= b => c \in Newest(n, S)
    BY <2>2, NewestIsUpper
  <2> QED BY <1>7, <1>10, <2>1, <2>3
<1>12. h \in p.bars
  BY <1>1, <1>5, <1>11
<1> QED BY <1>5, <1>6, <1>8, <1>12 DEF q

\* A full fetch ends.
LEMMA EndFullStep ==
    ASSUME FeedInv, NEW n \in Limits, NEW written \in BOOLEAN, EndFull(n, written)
    PROVE  FeedInv' /\ Grows
<1> DEFINE o == fetch[n]
           p == Parse(o.rows, o.forming, n)
<1>1. o.pc = "parse" /\ Ends(n, p, written) /\ UNCHANGED restarts
  BY DEF EndFull, Ends, At
<1>2. p \in Frames /\ p.soft = {} /\ Cardinality(p.bars) <= n /\ \A b \in p.bars : Settled(b)
  BY <1>1, ParsedIs
<1>3. p.bars # {} /\ cache[n] # NoEntry => Last(p) >= Last(cache[n].frame)
  BY <1>1, FullReaches
<1> HIDE DEF p
<1> QED BY <1>1, <1>2, <1>3, EndsStep

-----------------------------------------------------------------------------
(***************************************************************************)
(* Time, restarts, and the theorems.                                       *)
(***************************************************************************)
\* Time: a call is shorter than a bar, so the bar a row was forming in is
\* this one or the one before.
LEMMA TickStep ==
    ASSUME FeedInv, Tick
    PROVE  FeedInv' /\ Grows
<1>1. /\ link' = link /\ live' = live /\ closed' = closed /\ cache' = cache /\ disk' = disk
      /\ store' = store /\ fetch' = fetch /\ restarts' = restarts /\ kind' = kind /\ now' = now + 1
  BY DEF Tick, ws
<1>2. /\ now \in Nat /\ bar \in Nat /\ opened \in 0..now /\ opened \in Nat /\ now - opened < BarLen
      /\ BarLen \in Nat /\ Lag \in Nat /\ CallTime \in Nat /\ CallTime < BarLen
  BY NumbersAre DEF FeedInv, CandleTypeOK
<1>3. \/ (now + 1) - opened = BarLen /\ bar' = bar + 1 /\ opened' = now + 1
      \/ (now + 1) - opened # BarLen /\ bar' = bar /\ opened' = opened
  BY <1>1 DEF Tick
<1>4. /\ now' \in Nat /\ bar' \in Nat /\ bar <= bar' /\ opened' \in 0..now' /\ now' - opened' < BarLen
  <2>1. now' \in Nat /\ bar' \in Nat /\ bar <= bar'
    BY <1>1, <1>2, <1>3
  <2>2. opened' \in Nat /\ opened' <= now' /\ now' - opened' < BarLen
    BY <1>1, <1>2, <1>3
  <2> QED BY <2>1, <2>2
<1>5. Bars \subseteq Bars' /\ 0..now \subseteq 0..now'
  <2>1. ASSUME NEW x \in 0..bar PROVE x \in 0..bar'
    <3>1. x \in Nat /\ x <= bar /\ bar' \in Nat /\ bar <= bar' /\ bar \in Nat
      BY <1>2, <1>4
    <3> QED BY <3>1
  <2>2. \A x \in 0..now : x \in 0..now'
    BY <1>1, <1>2
  <2> QED BY <2>1, <2>2 DEF Bars
<1>6. Frames \subseteq Frames'
  <2> SUFFICES ASSUME NEW f \in Frames PROVE f \in Frames'
    OBVIOUS
  <2>1. f \in [bars : SUBSET Bars', soft : SUBSET Bars'] /\ f.soft \subseteq f.bars
    BY <1>5 DEF Frames
  <2> QED BY <2>1 DEF Frames
<1>7. Candles \subseteq Candles' /\ Entries \subseteq Entries'
  <2>1. [bar : Bars, whole : BOOLEAN, at : 0..now] \subseteq [bar : Bars', whole : BOOLEAN, at : 0..now']
    BY <1>5
  <2>2. Candles \subseteq Candles'
    BY <2>1 DEF Candles, NoCandle
  <2>3. [at : 0..now, frame : Frames] \subseteq [at : 0..now', frame : Frames']
    BY <1>5, <1>6
  <2> QED BY <2>2, <2>3 DEF Entries
<1>8. Calls \subseteq Calls'
  <2> SUFFICES ASSUME NEW c \in Calls PROVE c \in Calls'
    OBVIOUS
  <2>1. c.rows \in SUBSET Bars' /\ c.forming \in SUBSET Bars' /\ c.data \in Frames' /\ c.since \in 0..now'
    BY <1>5, <1>6 DEF Calls
  <2>2. c = [pc |-> c.pc, data |-> c.data, rows |-> c.rows, forming |-> c.forming, since |-> c.since]
        /\ c.pc \in {"idle", "delta", "full", "merge", "parse"}
    BY DEF Calls
  <2> QED BY <2>1, <2>2 DEF Calls
<1>9. CandleTypeOK'
  <2>1. /\ kind \in Kinds /\ link \in {"down", "open", "fed", "dead"} /\ live \in Candles'
        /\ closed \in Candles' /\ store \in Frames' /\ restarts \in 0..MaxRestarts
    BY <1>6, <1>7 DEF FeedInv, CandleTypeOK
  <2>2. /\ cache \in [Limits -> Entries'] /\ disk \in [Limits -> Entries'] /\ fetch \in [Limits -> Calls']
        /\ \A m \in Limits : Cardinality(cache[m].frame.bars) <= m /\ Cardinality(disk[m].frame.bars) <= m
    <3>1. /\ cache \in [Limits -> Entries] /\ disk \in [Limits -> Entries] /\ fetch \in [Limits -> Calls]
          /\ \A m \in Limits : Cardinality(cache[m].frame.bars) <= m /\ Cardinality(disk[m].frame.bars) <= m
      BY TypedVars
    <3> QED BY <1>7, <1>8, <3>1
  <2> QED BY <1>1, <1>4, <2>1, <2>2 DEF CandleTypeOK, Calls
<1>10. \A b \in Nat : Settled(b) => Settled(b)'
  <2> SUFFICES ASSUME NEW b \in Nat, b < bar, b = bar - 1 => now - opened >= Lag
               PROVE  b < bar' /\ (b = bar' - 1 => now' - opened' >= Lag)
    BY DEF Settled
  <2> QED BY <1>1, <1>2, <1>3
<1>11. ClosedOK'
  <2>1. closed # NoCandle => closed.bar \in Nat /\ closed.bar < bar
    BY TypedVars DEF FeedInv, ClosedOK, Candles, Bars
  <2> QED BY <1>1, <1>2, <1>4, <2>1 DEF ClosedOK, NoCandle
<1>12. StoreOK(store)'
  <2>1. ASSUME NEW b \in store.bars PROVE b < bar'
    <3>1. store \in Frames
      BY TypedVars
    <3>2. store.bars \in SUBSET (0..bar)
      BY <3>1, FrameIs
    <3>3. b \in 0..bar /\ b < bar
      BY <3>2 DEF FeedInv, StoreOK
    <3>4. b \in Nat
      BY <1>2, <3>3
    <3> QED BY <1>2, <1>4, <3>3, <3>4
  <2>2. \A b \in store.soft : b = Last(store)
    BY DEF FeedInv, StoreOK
  <2> QED BY <1>1, <2>1, <2>2 DEF StoreOK, Last
<1>13. ASSUME NEW e \in Entries, EntryOK(e)
       PROVE  \A b \in e.frame.bars : b < bar' /\ (b = bar' - 1 => now' - opened' >= Lag)
  <2> SUFFICES ASSUME NEW b \in e.frame.bars
               PROVE  b < bar' /\ (b = bar' - 1 => now' - opened' >= Lag)
    OBVIOUS
  <2>1. e.frame \in Frames
    BY DEF Entries
  <2>2. b \in 0..bar
    BY <2>1, FrameIs
  <2>3. b \in Nat /\ Settled(b)
    BY <1>2, <1>13, <2>2 DEF EntryOK
  <2> QED BY <1>10, <2>3 DEF Settled
<1>14. ASSUME NEW n \in Limits PROVE KeyOK(n, cache[n], disk[n], store, fetch[n])'
  <2> DEFINE c == fetch[n]
  <2>1. KeyOK(n, cache[n], disk[n], store, c) /\ EntryOK(cache[n]) /\ EntryOK(disk[n])
        /\ cache[n] \in Entries /\ disk[n] \in Entries /\ c \in Calls
    BY TypedVars DEF FeedInv, KeyOK
  <2>2. EntryOK(cache[n])' /\ EntryOK(disk[n])'
    BY <1>1, <1>13, <2>1 DEF EntryOK, Settled, NoEntry, NoFrame
  <2>3. CallOK(n, c, cache[n], disk[n])'
    <3>1. CASE c.pc = "idle"
      BY <1>1, <3>1 DEF CallOK
    <3>2. CASE c.pc # "idle"
      <4>1. CallOK(n, c, cache[n], disk[n]) /\ c.since \in 0..now /\ now - c.since < CallTime
            /\ \A b \in c.rows : b \in Nat /\ b <= bar
        BY <2>1, <3>2, RunningIs DEF Tick, At, Calls
      <4>2. now' - c.since <= CallTime
        BY <1>1, <1>2, <4>1
      <4>3. ASSUME c.pc \in {"delta", "merge"} PROVE DeltaOK(c)'
        <5>1. DeltaOK(c) /\ c.forming \subseteq c.rows
          BY <3>2, <4>1, <4>3 DEF CallOK
        <5>2. \A b \in c.rows \ c.forming : b < bar'
          <6> SUFFICES ASSUME NEW b \in c.rows \ c.forming PROVE b < bar'
            OBVIOUS
          <6>1. b < bar /\ b \in Nat
            BY <4>1, <5>1 DEF DeltaOK
          <6> QED BY <1>2, <1>4, <6>1
        <5>3. \A f \in c.forming : f = bar' \/ (f = bar' - 1 /\ c.since < opened')
          <6> SUFFICES ASSUME NEW f \in c.forming PROVE f = bar' \/ (f = bar' - 1 /\ c.since < opened')
            OBVIOUS
          <6>1. f = bar \/ (f = bar - 1 /\ c.since < opened)
            BY <5>1 DEF DeltaOK
          <6> QED BY <1>1, <1>2, <1>3, <4>1, <6>1
        <5>4. /\ \A b \in c.rows : b > Last(c.data)
              /\ \A f \in c.forming : \A b \in c.rows : b >= f => b \in c.forming
              /\ ~NewestFirst => \A b \in c.rows : (Last(c.data) + 1)..b \subseteq c.rows
          BY <5>1 DEF DeltaOK
        <5> QED BY <1>1, <5>2, <5>3, <5>4 DEF DeltaOK, Last
      <4>4. c.pc \in {"full", "parse"} => FullOK(c)'
        BY <1>1, <3>2, <4>1 DEF CallOK, FullOK, Unbroken
      <4> QED BY <1>1, <3>2, <4>1, <4>2, <4>3, <4>4 DEF CallOK, NoEntry, NoFrame
    <3> QED BY <3>1, <3>2
  <2>4. /\ ~Persists => disk[n] = NoEntry
        /\ disk[n] # NoEntry /\ cache[n] # NoEntry => Last(disk[n].frame) <= Last(cache[n].frame)
        /\ store = NoFrame => cache[n] \in {NoEntry, disk[n]}
    BY <2>1 DEF KeyOK
  <2> QED BY <1>1, <2>2, <2>3, <2>4 DEF KeyOK, Persists, NoEntry, NoFrame, Last
<1>15. Grows
  <2>1. ASSUME NEW m \in Limits PROVE Longer(disk[m], disk[m]) /\ Longer(cache[m], cache[m])
    BY TypedVars, LongerSelf DEF FeedInv, KeyOK
  <2> QED BY <1>1, <2>1 DEF Grows
<1> QED BY <1>9, <1>11, <1>12, <1>14, <1>15 DEF FeedInv

\* The process ends.
LEMMA RestartStep ==
    ASSUME FeedInv, Restart
    PROVE  FeedInv' /\ Grows
<1>1. /\ Frames' = Frames /\ Bars' = Bars /\ Entries' = Entries /\ Candles' = Candles /\ Calls' = Calls
      /\ now' = now /\ bar' = bar /\ opened' = opened /\ kind' = kind /\ Persists' = Persists
  BY SameClock DEF Restart, clock
<1>2. /\ link' = "down" /\ live' = NoCandle /\ closed' = NoCandle /\ store' = NoFrame /\ disk' = disk
      /\ cache' = [n \in Limits |-> NoEntry] /\ fetch' = [n \in Limits |-> Idle]
      /\ restarts < MaxRestarts /\ restarts' = restarts + 1
  BY DEF Restart
<1>3. /\ NoFrame \in Frames /\ NoFrame.bars = {} /\ NoFrame.soft = {} /\ NoEntry \in Entries
      /\ NoEntry.frame = NoFrame /\ EntryOK(NoEntry) /\ NoCandle \in Candles
      /\ Idle \in Calls /\ Idle.pc = "idle"
  BY EmptyIs, CandleStep, TypedVars DEF Clocked, Idle, Calls
<1>4. /\ disk \in [Limits -> Entries] /\ restarts \in 0..MaxRestarts
      /\ \A m \in Limits : Cardinality(disk[m].frame.bars) <= m
      /\ kind \in Kinds /\ now \in Nat /\ bar \in Nat /\ opened \in 0..now /\ now - opened < BarLen
  BY TypedVars DEF FeedInv, CandleTypeOK
<1>5. CandleTypeOK'
  <2>1. /\ cache' \in [Limits -> Entries] /\ fetch' \in [Limits -> Calls]
    BY <1>2, <1>3
  <2>2. ASSUME NEW m \in Limits PROVE Cardinality(cache'[m].frame.bars) <= m
    <3>1. cache'[m] = NoEntry /\ m \in Nat
      BY <1>2, NumbersAre
    <3> QED BY <1>3, <3>1, FS_EmptySet
  <2>3. restarts' \in 0..MaxRestarts
    BY <1>2, <1>4, NumbersAre
  <2> QED BY <1>1, <1>2, <1>3, <1>4, <2>1, <2>2, <2>3 DEF CandleTypeOK, Calls
<1>6. ClosedOK' /\ StoreOK(store)'
  BY <1>2, <1>3 DEF ClosedOK, StoreOK, NoCandle
<1>7. ASSUME NEW n \in Limits PROVE KeyOK(n, cache[n], disk[n], store, fetch[n])'
  <2>1. cache'[n] = NoEntry /\ fetch'[n] = Idle
    BY <1>2
  <2>2. EntryOK(disk[n]) /\ (~Persists => disk[n] = NoEntry)
    BY DEF FeedInv, KeyOK
  <2>3. KeyOK(n, NoEntry, disk[n], NoFrame, Idle)
    BY <1>3, <2>2 DEF KeyOK, CallOK
  <2>4. KeyOK(n, cache'[n], disk'[n], store', fetch'[n])
    BY <1>2, <2>1, <2>3
  <2> QED BY <1>1, <2>4 DEF KeyOK, EntryOK, CallOK, DeltaOK, FullOK, Settled, Persists, Last, Unbroken, NoEntry, NoFrame
<1>8. Grows
  <2>1. ASSUME NEW m \in Limits PROVE Longer(disk[m], disk[m])
    BY TypedVars, LongerSelf DEF FeedInv, KeyOK
  <2>2. restarts' # restarts
    BY <1>2, <1>4, NumbersAre
  <2> QED BY <1>2, <2>1, <2>2 DEF Grows
<1> QED BY <1>5, <1>6, <1>7, <1>8 DEF FeedInv

\* Every step.
LEMMA FeedStep ==
    ASSUME FeedInv, [Next]_vars
    PROVE  FeedInv' /\ Grows
<1>1. CASE Connect \/ Push \/ Trade \/ Stall \/ Disconnect
  BY <1>1, SocketSteps
<1>2. ASSUME NEW n \in Limits, Feed(n) PROVE FeedInv' /\ Grows
  <2>1. CASE \E low \in BOOLEAN : Look(n, low)
    BY <2>1, LookStep
  <2>2. CASE DeltaPage(n)
    BY <2>2, DeltaPageStep
  <2>3. CASE DeltaFails(n)
    BY <2>3, DeltaFailsStep
  <2>4. CASE FullPage(n)
    BY <2>4, FullPageStep
  <2>5. CASE FullFails(n)
    BY <2>5, FullFailsStep
  <2>6. CASE Seed(n)
    BY <2>6, SeedStep
  <2>7. CASE \E written \in BOOLEAN : EndDelta(n, written) \/ EndFull(n, written)
    BY <2>7, EndDeltaStep, EndFullStep
  <2> QED BY <1>2, <2>1, <2>2, <2>3, <2>4, <2>5, <2>6, <2>7 DEF Feed
<1>3. CASE Tick
  BY <1>3, TickStep
<1>4. CASE Restart
  BY <1>4, RestartStep
<1>5. CASE UNCHANGED vars
  <2>1. /\ live \in Candles /\ closed \in Candles /\ (closed # NoCandle => closed.bar < bar)
        /\ link \in {"down", "open", "fed", "dead"}
    BY TypedVars DEF FeedInv, ClosedOK, CandleTypeOK
  <2> QED BY <1>5, <2>1, SocketStep DEF vars, clock
<1> QED BY <1>1, <1>2, <1>3, <1>4, <1>5 DEF Next

\* The invariant.
THEOREM FeedAlways == Spec => []FeedInv
<1>1. FeedInv /\ [Next]_vars => FeedInv'
  BY FeedStep
<1> QED BY InitStep, <1>1, PTL DEF Spec

\* Types, and no key keeps more candles than it was asked for
\* (_parse_kline_rows, _merge_parsed_klines).
THEOREM CandleTypes == Spec => []CandleTypeOK
<1>1. FeedInv => CandleTypeOK
  BY DEF FeedInv
<1> QED BY FeedAlways, <1>1, PTL

\* No frame holds a forming candle: not from a reply under way when the bar
\* ended, nor from the WebSocket (drop_unclosed_candle, _store_candle).
THEOREM ClosedCandles == Spec => []OnlyClosed
<1>1. FeedInv => OnlyClosed
  BY DEF FeedInv, OnlyClosed, Kept, KeyOK, EntryOK, StoreOK, Settled
<1> QED BY FeedAlways, <1>1, PTL

\* The caches hold final candles only; of the strategy's frame only the last
\* candle may lack trades (_parse_kline_rows, _merge_ws_closed_candle).
THEOREM FinalCandles == Spec => []KeptIsFinal
<1>1. FeedInv => KeptIsFinal
  BY DEF FeedInv, KeptIsFinal, Kept, KeyOK, EntryOK, StoreOK
<1> QED BY FeedAlways, <1>1, PTL

\* No failed page, failed write to disk or short reply makes a key forget its
\* newest candle (fetch_klines_ohlcv).
THEOREM Knowledge == Spec => KnowledgeGrows
<1>1. FeedInv /\ [Next]_vars =>
        [\A n \in Limits :
            /\ disk[n] # NoEntry => disk'[n] # NoEntry /\ Last(disk'[n].frame) >= Last(disk[n].frame)
            /\ cache[n] # NoEntry /\ restarts' = restarts =>
                   cache'[n] # NoEntry /\ Last(cache'[n].frame) >= Last(cache[n].frame)]_vars
  BY FeedStep DEF Grows, Longer
<1> QED BY FeedAlways, <1>1, PTL DEF Spec, KnowledgeGrows

-----------------------------------------------------------------------------
(***************************************************************************)
(* Holes.                                                                  *)
(***************************************************************************)
\* What holes are looked for in.
LEMMA HolesAre ==
    /\ NoHoles <=> /\ \A n \in Limits : Unbroken(cache[n].frame.bars) /\ Unbroken(disk[n].frame.bars)
                   /\ Unbroken(store.bars)
    /\ NoHoles' <=> /\ \A n \in Limits : Unbroken(cache'[n].frame.bars) /\ Unbroken(disk'[n].frame.bars)
                    /\ Unbroken(store'.bars)
BY DEF NoHoles, Kept, Unbroken

\* The rows of a delta begin right behind the entry's last candle.
LEMMA DeltaUnbroken ==
    ASSUME FeedInv, NEW n \in Limits, fetch[n].pc = "merge", ~NewestFirst,
           Unbroken(fetch[n].data.bars)
    PROVE  Unbroken(fetch[n].data.bars \cup Parse(fetch[n].rows, fetch[n].forming, n).bars)
<1> DEFINE o == fetch[n]
           S == o.rows \ o.forming
           p == Parse(o.rows, o.forming, n)
           h == Last(o.data)
           D == o.data.bars
<1>1. /\ p.bars \subseteq S /\ (\A b \in p.bars : Settled(b)) /\ S \in SUBSET (0..bar)
      /\ \A b \in Newest(n, S) : Settled(b) => b \in p.bars
  BY ParsedIs
<1>2. /\ o.rows \in SUBSET (0..bar) /\ o.data = cache[n].frame /\ EntryOK(cache[n])
      /\ o.data \in Frames /\ Clocked /\ bar \in Nat /\ n \in Nat \ {0}
      /\ (\A b \in o.rows : b \in Nat /\ b <= bar) /\ CallOK(n, o, cache[n], disk[n])
  BY RunningIs, TypedVars, NumbersAre DEF Clocked
<1>3. cache[n] # NoEntry /\ DeltaOK(o) /\ Cardinality(o.rows) <= n
  BY <1>2 DEF CallOK
<1>4. h \in D /\ h \in Nat /\ \A b \in D : b <= h /\ b \in Nat
  BY <1>2, <1>3, LastIs DEF EntryOK
<1>5. Newest(n, S) = S
  <2>1. IsFiniteSet(o.rows) /\ Cardinality(o.rows) \in Nat /\ Cardinality(S) \in Nat
    BY <1>1, <1>2, BoundedIsFinite
  <2>2. Cardinality(S) <= Cardinality(o.rows)
    BY <2>1, FS_Subset
  <2>3. Cardinality(S) <= n
    BY <1>2, <1>3, <2>1, <2>2
  <2> HIDE DEF S
  <2> QED BY <1>1, <1>2, <2>3, NewestIsShort
<1> HIDE DEF p
<1>6. ASSUME NEW y \in p.bars, NEW x \in (h + 1)..y PROVE x \in p.bars
  <2>1. y \in o.rows /\ y \notin o.forming /\ y \in Nat /\ Settled(y)
    BY <1>1, <1>2
  <2>2. x \in Nat /\ x <= y
    BY <1>4, <2>1
  <2>3. x \in o.rows
    BY <1>3, <2>1 DEF DeltaOK
  <2>4. x \notin o.forming
    <3>1. y >= x
      BY <2>1, <2>2
    <3> QED BY <1>3, <2>1, <3>1 DEF DeltaOK
  <2>5. Settled(x)
    BY <1>2, <2>1, <2>2, SettledDown
  <2> QED BY <1>1, <1>5, <2>3, <2>4, <2>5
<1>7. \A y \in p.bars : y > h /\ y \in Nat
  BY <1>1, <1>2, <1>3 DEF DeltaOK
<1> HIDE DEF D, h
<1>8. ASSUME NEW x \in D \cup p.bars, NEW y \in D \cup p.bars, NEW b \in x..y
      PROVE  b \in D \cup p.bars
  <2>1. x \in Nat /\ y \in Nat /\ b \in Nat /\ x <= b /\ b <= y
    BY <1>4, <1>7
  <2>2. CASE b <= h
    <3>1. x \in D
      <4>1. ~(x > h)
        BY <1>4, <2>1, <2>2
      <4> QED BY <1>7, <4>1
    <3>2. b \in x..h
      BY <1>4, <2>1, <2>2
    <3> QED BY <1>4, <3>1, <3>2 DEF Unbroken, D
  <2>3. CASE b > h
    <3>1. y \in p.bars
      <4>1. ~(y <= h)
        BY <1>4, <2>1, <2>3
      <4> QED BY <1>4, <4>1
    <3>2. b \in (h + 1)..y
      BY <1>4, <2>1, <2>3
    <3> QED BY <1>6, <3>1, <3>2
  <2> QED BY <1>4, <2>1, <2>2, <2>3
<1>9. Unbroken(D \cup p.bars)
  BY <1>8 DEF Unbroken
<1> QED BY <1>9 DEF D, p

\* The rows of a full fetch are without a hole.
LEMMA FullUnbroken ==
    ASSUME FeedInv, NEW n \in Limits, fetch[n].pc = "parse"
    PROVE  Unbroken(Parse(fetch[n].rows, fetch[n].forming, n).bars)
<1> DEFINE o == fetch[n]
           S == o.rows \ o.forming
           p == Parse(o.rows, o.forming, n)
           M == Max(o.rows)
<1>1. /\ p.bars \subseteq S /\ (\A b \in p.bars : Settled(b)) /\ S \in SUBSET (0..bar)
      /\ \A b \in Newest(n, S) : Settled(b) => b \in p.bars
      /\ p.bars \subseteq Newest(n, S)
  BY ParsedIs
<1>2. /\ o.rows \in SUBSET (0..bar) /\ FullOK(o) /\ Clocked /\ bar \in Nat /\ n \in Nat \ {0}
      /\ (\A b \in o.rows : b \in Nat /\ b <= bar)
  BY RunningIs, TypedVars, NumbersAre DEF Clocked, CallOK
<1>3. o.rows # {} /\ o.forming = {M} /\ Unbroken(o.rows)
  BY <1>2 DEF FullOK
<1>4. M \in o.rows /\ M \in Nat /\ \A b \in o.rows : b <= M
  BY <1>2, <1>3, MaxIs
<1>5. \A b \in Newest(n, S) : \A c \in S : c >= b => c \in Newest(n, S)
  <2> HIDE DEF S
  <2> QED BY <1>1, <1>2, NewestIsUpper
<1> HIDE DEF p
<1>6. ASSUME NEW x \in p.bars, NEW y \in p.bars, NEW b \in x..y
      PROVE  b \in p.bars
  <2>1. x \in S /\ y \in S /\ x \in Nat /\ y \in Nat /\ b \in Nat /\ x <= b /\ b <= y /\ Settled(y)
    BY <1>1, <1>2
  <2>2. b \in o.rows
    BY <1>3, <2>1 DEF Unbroken
  <2>3. b # M
    BY <1>3, <1>4, <2>1
  <2>4. Settled(b)
    BY <1>2, <2>1, SettledDown
  <2>5. b \in Newest(n, S)
    <3>1. b \in S /\ b >= x
      BY <1>3, <2>1, <2>2, <2>3
    <3> QED BY <1>1, <1>5, <3>1
  <2> QED BY <1>1, <2>4, <2>5
<1>7. Unbroken(p.bars)
  BY <1>6 DEF Unbroken
<1> QED BY <1>7 DEF p

\* What a call keeps and publishes.
LEMMA EndsUnbroken ==
    ASSUME FeedInv, NoHoles, NEW n \in Limits, NEW written, NEW f \in Frames, f.soft = {},
           \A b \in f.bars : Settled(b), Unbroken(f.bars), Ends(n, f, written)
    PROVE  NoHoles'
<1>1. Unbroken(Merged(f).bars)
  BY MergedKept
<1>2. Unbroken(store'.bars)
  BY <1>1, HolesAre DEF Ends, Publish
<1>3. ASSUME NEW m \in Limits PROVE Unbroken(cache'[m].frame.bars) /\ Unbroken(disk'[m].frame.bars)
  <2>1. Unbroken(cache[m].frame.bars) /\ Unbroken(disk[m].frame.bars)
    BY HolesAre
  <2> DEFINE e == [at |-> now, frame |-> f]
  <2>2. e.frame = f
    OBVIOUS
  <2> HIDE DEF e
  <2>3. cache'[m] \in {cache[m], e} /\ disk'[m] \in {disk[m], e}
    BY TypedVars DEF Ends, Keep, e
  <2> QED BY <2>1, <2>2, <2>3
<1> QED BY <1>2, <1>3, HolesAre

\* Every step.
LEMMA HolesStep ==
    ASSUME FeedInv, NoHoles, ~NewestFirst, [Next]_vars
    PROVE  NoHoles'
<1>1. ASSUME UNCHANGED <<cache, disk, store>> PROVE NoHoles'
  BY <1>1, HolesAre
<1>2. CASE Connect \/ Push \/ Trade \/ Stall \/ Disconnect
  BY <1>1, <1>2 DEF Connect, Push, Trade, Stall, Disconnect
<1>3. ASSUME NEW n \in Limits, NEW low \in BOOLEAN, Look(n, low) PROVE NoHoles'
  <2> DEFINE e == Entry(n)
             m == Merged(e.frame)
  <2>1. e \in {cache[n], disk[n]} /\ e.frame \in Frames /\ EntryOK(e)
    BY EntryIs
  <2>2. Unbroken(e.frame.bars)
    BY <2>1, HolesAre
  <2>3. Unbroken(m.bars)
    BY <2>1, <2>2, MergedKept DEF EntryOK
  <2>4. cache' = [cache EXCEPT ![n] = e] /\ disk' = disk /\ store' \in {store, m}
    BY <1>3 DEF Look, Publish
  <2> HIDE DEF e, m
  <2>5. ASSUME NEW k \in Limits PROVE Unbroken(cache'[k].frame.bars)
    <3>1. cache'[k] \in {cache[k], e}
      BY <2>4, TypedVars
    <3> QED BY <2>2, <3>1, HolesAre
  <2> QED BY <2>3, <2>4, <2>5, HolesAre
<1>4. ASSUME NEW n \in Limits, DeltaPage(n) \/ DeltaFails(n) \/ FullPage(n) \/ FullFails(n) PROVE NoHoles'
  BY <1>1, <1>4 DEF DeltaPage, DeltaFails, FullPage, FullFails
<1>5. ASSUME NEW n \in Limits, Seed(n) PROVE NoHoles'
  <2>1. cache' = [cache EXCEPT ![n] = disk[n]] /\ disk' = disk /\ store' = disk[n].frame
    BY <1>5 DEF Seed
  <2>2. ASSUME NEW k \in Limits PROVE Unbroken(cache'[k].frame.bars)
    <3>1. cache'[k] \in {cache[k], disk[n]}
      BY <2>1, TypedVars
    <3> QED BY <3>1, HolesAre
  <2> QED BY <2>1, <2>2, HolesAre
<1>6. ASSUME NEW n \in Limits, NEW written \in BOOLEAN, EndDelta(n, written) PROVE NoHoles'
  <2> DEFINE o == fetch[n]
             p == Parse(o.rows, o.forming, n)
             j == Join(o.data, p, n)
  <2>1. o.pc = "merge" /\ Ends(n, j, written)
    BY <1>6 DEF EndDelta, At
  <2>2. o.data = cache[n].frame
    BY <2>1, RunningIs
  <2>3. Unbroken(o.data.bars \cup p.bars)
    <3>1. Unbroken(o.data.bars)
      BY <2>2, HolesAre
    <3> QED BY <2>1, <3>1, DeltaUnbroken
  <2>4. /\ j \in Frames /\ j.soft = {} /\ \A b \in j.bars : Settled(b)
        /\ Unbroken(o.data.bars \cup p.bars) => Unbroken(j.bars)
    BY <2>1, JoinedIs
  <2> HIDE DEF j, p
  <2> QED BY <2>1, <2>3, <2>4, EndsUnbroken
<1>7. ASSUME NEW n \in Limits, NEW written \in BOOLEAN, EndFull(n, written) PROVE NoHoles'
  <2> DEFINE o == fetch[n]
             p == Parse(o.rows, o.forming, n)
  <2>1. o.pc = "parse" /\ Ends(n, p, written)
    BY <1>7 DEF EndFull, At
  <2>2. p \in Frames /\ p.soft = {} /\ (\A b \in p.bars : Settled(b)) /\ Unbroken(p.bars)
    BY <2>1, ParsedIs, FullUnbroken
  <2> HIDE DEF p
  <2> QED BY <2>1, <2>2, EndsUnbroken
<1>8. CASE Tick
  BY <1>1, <1>8 DEF Tick
<1>9. CASE Restart
  <2>1. disk' = disk /\ store' = NoFrame /\ cache' = [n \in Limits |-> NoEntry]
    BY <1>9 DEF Restart
  <2>2. Unbroken(NoFrame.bars) /\ NoEntry.frame = NoFrame
    BY EmptyIs DEF Unbroken
  <2> QED BY <2>1, <2>2, HolesAre
<1>10. CASE UNCHANGED vars
  BY <1>1, <1>10 DEF vars
<1>11. ASSUME NEW n \in Limits, Feed(n) PROVE NoHoles'
  BY <1>3, <1>4, <1>5, <1>6, <1>7, <1>11 DEF Feed
<1> QED BY <1>2, <1>8, <1>9, <1>10, <1>11 DEF Next

\* No lost page and no outage of the WebSocket leaves a hole in a frame,
\* when "newer than" is answered with the oldest such rows
\* (_fetch_delta_kline_rows, _merge_ws_closed_candle).
THEOREM UnbrokenCandles ==
    ASSUME ~NewestFirst
    PROVE  Spec => []NoHoles
<1>1. Init => NoHoles
  <2> SUFFICES ASSUME Init PROVE NoHoles
    OBVIOUS
  <2>1. Unbroken(NoFrame.bars) /\ NoEntry.frame = NoFrame
    BY EmptyIs DEF Unbroken
  <2> QED BY <2>1, HolesAre DEF Init
<1>2. FeedInv /\ NoHoles /\ [Next]_vars => NoHoles'
  BY HolesStep
<1> QED BY FeedAlways, <1>1, <1>2, PTL DEF Spec
-----------------------------------------------------------------------------
(***************************************************************************)
(* The feed implements SeriesPromise.                                      *)
(***************************************************************************)
Known == [n \in Limits |-> cache[n].frame.bars]
OnDisk == [n \in Limits |-> disk[n].frame.bars]

LEMMA KnownIs ==
    ASSUME FeedInv, NEW n \in Limits, NEW e \in Entries
    PROVE  /\ Known[n] = cache[n].frame.bars /\ OnDisk[n] = disk[n].frame.bars
           /\ cache' = [cache EXCEPT ![n] = e] =>
                  Known' = [Known EXCEPT ![n] = e.frame.bars] /\ Known'[n] = e.frame.bars
           /\ disk' = [disk EXCEPT ![n] = e] => OnDisk' = [OnDisk EXCEPT ![n] = e.frame.bars]
<1>1. cache \in [Limits -> Entries] /\ disk \in [Limits -> Entries]
  BY TypedVars
<1>2. ASSUME cache' = [cache EXCEPT ![n] = e]
      PROVE  Known' = [Known EXCEPT ![n] = e.frame.bars] /\ Known'[n] = e.frame.bars
  <2>1. \A m \in Limits : cache'[m] = IF m = n THEN e ELSE cache[m]
    BY <1>1, <1>2
  <2>2. Known' = [m \in Limits |-> cache'[m].frame.bars]
    BY DEF Known
  <2> QED BY <2>1, <2>2 DEF Known
<1>3. ASSUME disk' = [disk EXCEPT ![n] = e]
      PROVE  OnDisk' = [OnDisk EXCEPT ![n] = e.frame.bars]
  <2>1. \A m \in Limits : disk'[m] = IF m = n THEN e ELSE disk[m]
    BY <1>1, <1>3
  <2>2. OnDisk' = [m \in Limits |-> disk'[m].frame.bars]
    BY DEF OnDisk
  <2> QED BY <2>1, <2>2 DEF OnDisk
<1> QED BY <1>2, <1>3 DEF Known, OnDisk

\* A series of n candles spans n bars.
LEMMA UnbrokenIsShort ==
    ASSUME NEW n \in Limits, NEW k \in Int, NEW S \in SUBSET (0..k), Unbroken(S),
           Cardinality(S) <= n, NEW a \in S, NEW c \in S
    PROVE  a..c \subseteq S /\ c - a < n
<1>1. a..c \subseteq S /\ a \in Nat /\ c \in Nat /\ n \in Nat
  BY NumbersAre DEF Unbroken
<1>2. IsFiniteSet(S) /\ Cardinality(S) \in Nat
  <2>1. IsFiniteSet(0..k)
    BY FS_Interval
  <2>2. IsFiniteSet(S)
    BY <2>1, FS_Subset
  <2> QED BY <2>2, FS_CardinalityType
<1>3. IsFiniteSet(a..c) /\ Cardinality(a..c) <= Cardinality(S) /\ Cardinality(a..c) \in Nat
  BY <1>1, <1>2, FS_Subset, FS_CardinalityType
<1>4. Cardinality(a..c) = IF a > c THEN 0 ELSE c - a + 1
  BY <1>1, FS_Interval
<1> QED BY <1>1, <1>2, <1>3, <1>4

\* What the promise does not look at.
LEMMA Unseen ==
    ASSUME UNCHANGED <<bar, cache, disk, store>>
    PROVE  UNCHANGED Promise!vars
BY DEF Promise!vars

\* The candle of the WebSocket follows the series it is merged into.
LEMMA MergedFollows ==
    ASSUME FeedInv, NEW f \in Frames
    PROVE  \E new \in SUBSET Promise!Following(f.bars) : Merged(f).bars = f.bars \cup new
<1>1. Clocked /\ closed \in Candles /\ (closed # NoCandle => closed.bar < bar)
  BY TypedVars DEF FeedInv, ClosedOK
<1>2. CASE ~Newer(f) \/ Gap(f)
  <2>1. Merged(f).bars = f.bars \cup {}
    BY <1>2 DEF Merged
  <2> QED BY <2>1
<1>3. CASE Newer(f) /\ ~Gap(f)
  <2>1. f.bars # {} /\ closed # NoCandle /\ closed.bar > Last(f)
    BY <1>3 DEF Newer, Offered
  <2>2. closed.bar \in Nat /\ Last(f) \in Nat /\ closed.bar < bar /\ bar \in Nat
    BY <1>1, <2>1, LastIs DEF Candles, Bars, Clocked
  <2>3. ~(closed.bar - Last(f) > 1)
    BY <1>3 DEF Gap
  <2>4. closed.bar = Last(f) + 1 /\ closed.bar \in 0..(bar - 1)
    BY <2>1, <2>2, <2>3
  <2>5. closed.bar \in Promise!Following(f.bars)
    <3>1. Last(f) \in f.bars /\ \A b \in f.bars : b <= Last(f) /\ b \in Nat
      BY <1>1, <2>1, LastIs
    <3>2. closed.bar - 1 \in f.bars /\ \A b \in f.bars : b < closed.bar
      BY <2>2, <2>4, <3>1
    <3> QED BY <2>4, <3>2 DEF Promise!Following
  <2>6. Merged(f).bars = f.bars \cup {closed.bar}
    BY <1>3 DEF Merged
  <2> QED BY <2>5, <2>6
<1> QED BY <1>2, <1>3

\* What is published is shown.
LEMMA PublishShows ==
    ASSUME FeedInv, NEW f \in Frames, store' = store \/ Publish(Merged(f)) \/ store' = f
    PROVE  Promise!Shows(f.bars)
<1>1. CASE store' = store
  BY <1>1 DEF Promise!Shows
<1>2. CASE store' = Merged(f) \/ store' = f
  <2>1. PICK new \in SUBSET Promise!Following(f.bars) : store'.bars = f.bars \cup new
    <3>1. CASE store' = f
      <4>1. store'.bars = f.bars \cup {} /\ {} \in SUBSET Promise!Following(f.bars)
        BY <3>1
      <4> QED BY <4>1
    <3>2. CASE store' = Merged(f)
      BY <3>2, MergedFollows
    <3> QED BY <1>2, <3>1, <3>2
  <2> QED BY <2>1 DEF Promise!Shows
<1> QED BY <1>1, <1>2 DEF Publish

\* A key takes over what is on disk, or keeps what it knows.
LEMMA RecallSteps ==
    ASSUME FeedInv, NEW n \in Limits, NEW e \in {cache[n], disk[n]},
           cache[n].frame.bars # {} => e.frame.bars = cache[n].frame.bars,
           cache' = [cache EXCEPT ![n] = e], UNCHANGED <<bar, disk>>,
           store' = store \/ Publish(Merged(e.frame)) \/ store' = e.frame
    PROVE  Promise!Recalls(n)
<1>1. e \in Entries /\ e.frame \in Frames
  BY TypedVars DEF Entries
<1>2. /\ Known' = [Known EXCEPT ![n] = e.frame.bars] /\ Known'[n] = e.frame.bars
      /\ Known[n] = cache[n].frame.bars /\ OnDisk[n] = disk[n].frame.bars
  BY <1>1, KnownIs
<1>3. Promise!Shows(Known'[n])
  BY <1>1, <1>2, PublishShows
<1>4. Known' \in {Known, IF Known[n] = {} THEN [Known EXCEPT ![n] = OnDisk[n]] ELSE Known}
  <2>1. e.frame.bars = Known[n] => Known' = Known
    BY <1>2 DEF Known
  <2>2. e.frame.bars # Known[n] => Known[n] = {} /\ e.frame.bars = OnDisk[n]
    BY <1>2
  <2> QED BY <1>2, <2>1, <2>2
<1>5. OnDisk' = OnDisk /\ bar' = bar
  BY DEF OnDisk
<1> QED BY <1>3, <1>4, <1>5 DEF Promise!Recalls, Known, OnDisk

\* A call ends.
LEMMA EndLearns ==
    ASSUME FeedInv, NoHoles', FeedInv', Grows, NEW n \in Limits, fetch[n].pc # "idle",
           NEW f \in Frames, f.soft = {}, \A b \in f.bars : Settled(b),
           Cardinality(f.bars) <= n, NEW written \in BOOLEAN, Ends(n, f, written)
    PROVE  Promise!Learns(n) \/ UNCHANGED Promise!vars
<1> DEFINE e == [at |-> now, frame |-> f]
<1>1. bar' = bar /\ restarts' = restarts /\ Publish(Merged(f)) /\ now \in Nat
  BY TypedVars DEF Ends, clock, Clocked
<1>2. CASE f.bars = {}
  <2>1. Merged(f) = f
    BY <1>2 DEF Merged, Newer
  <2> QED BY <1>1, <1>2, <2>1, Unseen DEF Ends, Publish
<1>3. CASE f.bars # {}
  <2>1. e \in Entries /\ e.frame = f
    BY <1>1 DEF Entries
  <2>2. cache' = [cache EXCEPT ![n] = e] /\ disk' \in {disk, [disk EXCEPT ![n] = e]}
    BY <1>3 DEF Ends, Keep
  <2> HIDE DEF e
  <2>3. /\ Known' = [Known EXCEPT ![n] = f.bars] /\ Known'[n] = f.bars
        /\ Known[n] = cache[n].frame.bars /\ OnDisk[n] = disk[n].frame.bars
        /\ OnDisk' \in {OnDisk, [OnDisk EXCEPT ![n] = f.bars]}
    <3>1. disk' = disk => OnDisk' = OnDisk
      BY DEF OnDisk
    <3> QED BY <2>1, <2>2, <3>1, KnownIs
  <2>4. f.bars \in Promise!Series(n)
    <3>1. f.bars \in SUBSET (0..(bar - 1))
      <4> SUFFICES ASSUME NEW b \in f.bars PROVE b \in 0..(bar - 1)
        OBVIOUS
      <4>1. b \in 0..bar /\ b < bar /\ bar \in Nat
        BY FrameIs, TypedVars DEF Settled, Clocked
      <4> QED BY <4>1
    <3>2. Unbroken(cache'[n].frame.bars)
      BY HolesAre
    <3>3. cache'[n].frame.bars = f.bars
      BY <2>1, <2>2, TypedVars
    <3>4. ASSUME NEW a \in f.bars, NEW c \in f.bars PROVE a..c \subseteq f.bars /\ c - a < n
      <4>1. bar - 1 \in Int /\ Unbroken(f.bars)
        BY <3>2, <3>3, TypedVars DEF Clocked
      <4> QED BY <3>1, <4>1, UnbrokenIsShort
    <3> QED BY <1>3, <3>1, <3>4 DEF Promise!Series
  <2>5. cache'[n] = e /\ cache[n] \in Entries /\ disk[n] \in Entries
        /\ KeyOK(n, cache[n], disk[n], store, fetch[n])
    BY <2>2, TypedVars DEF FeedInv
  <2>6. Last(f) \in f.bars /\ Last(f) \in Nat
    BY <1>3, LastIs, TypedVars
  <2>7. ASSUME NEW d \in {cache[n], disk[n]}, NEW b \in d.frame.bars PROVE Last(f) >= b
    <3>1. d \in Entries /\ EntryOK(d) /\ d # NoEntry /\ d.frame \in Frames
      BY <2>5, <2>7, EmptyIs DEF KeyOK, Entries
    <3>2. cache[n] # NoEntry
      BY <2>5, <3>1 DEF KeyOK, CallOK
    <3>3. cache[n].frame.bars # {} /\ cache[n].frame \in Frames
      BY <2>5, <3>2 DEF KeyOK, EntryOK, Entries
    <3>4. Last(cache[n].frame) \in Nat /\ Last(d.frame) \in Nat /\ b <= Last(d.frame) /\ b \in Nat
      BY <2>7, <3>1, <3>3, LastIs, TypedVars
    <3>5. Last(d.frame) <= Last(cache[n].frame)
      BY <2>5, <3>1, <3>2, <3>4 DEF KeyOK
    <3>6. Last(f) >= Last(cache[n].frame)
      <4>1. Longer(cache'[n], cache[n])
        BY <1>1 DEF Grows
      <4> QED BY <2>1, <2>5, <3>2, <4>1 DEF Longer
    <3> QED BY <2>6, <3>4, <3>5, <3>6
  <2>8. /\ Promise!Reaches(Known'[n], Known[n]) /\ Promise!Reaches(Known'[n], OnDisk[n])
        /\ Promise!Shows(Known'[n])
    BY <1>1, <2>3, <2>6, <2>7, PublishShows DEF Promise!Reaches
  <2>9. /\ Known'[n] \in Promise!Series(n) /\ Known' = [Known EXCEPT ![n] = Known'[n]]
        /\ OnDisk' \in {OnDisk, [OnDisk EXCEPT ![n] = Known'[n]]}
    BY <2>3, <2>4
  <2> QED BY <1>1, <2>8, <2>9 DEF Promise!Learns, Known, OnDisk
<1> QED BY <1>2, <1>3

\* Every step.
LEMMA PromiseStep ==
    ASSUME FeedInv, NoHoles, ~NewestFirst, [Next]_vars
    PROVE  [Promise!Next]_(Promise!vars)
<1>1. FeedInv' /\ Grows /\ NoHoles'
  BY FeedStep, HolesStep
<1>2. CASE Connect \/ Push \/ Trade \/ Stall \/ Disconnect \/ UNCHANGED vars
  BY <1>2, Unseen DEF Connect, Push, Trade, Stall, Disconnect, vars, clock
<1>3. ASSUME NEW n \in Limits, NEW low \in BOOLEAN, Look(n, low) PROVE Promise!Recalls(n)
  <2> DEFINE e == Entry(n)
  <2>1. e \in {cache[n], disk[n]} /\ (cache[n] # NoEntry => e = cache[n])
    BY EntryIs
  <2>2. cache[n].frame.bars # {} => e = cache[n]
    BY <2>1, EmptyIs
  <2>3. /\ cache' = [cache EXCEPT ![n] = e] /\ UNCHANGED <<bar, disk>>
        /\ store' = store \/ Publish(Merged(e.frame))
    BY <1>3 DEF Look, clock
  <2> HIDE DEF e
  <2> QED BY <2>1, <2>2, <2>3, RecallSteps
<1>4. ASSUME NEW n \in Limits, Seed(n) PROVE Promise!Recalls(n)
  <2>1. /\ cache' = [cache EXCEPT ![n] = disk[n]] /\ UNCHANGED <<bar, disk>>
        /\ store' = disk[n].frame /\ store = NoFrame
    BY <1>4 DEF Seed, clock
  <2>2. cache[n] \in {NoEntry, disk[n]}
    BY <2>1 DEF FeedInv, KeyOK
  <2>3. cache[n].frame.bars # {} => disk[n].frame.bars = cache[n].frame.bars
    BY <2>2, EmptyIs
  <2> QED BY <2>1, <2>3, RecallSteps
<1>5. ASSUME NEW n \in Limits, DeltaPage(n) \/ DeltaFails(n) \/ FullPage(n) \/ FullFails(n)
      PROVE  UNCHANGED Promise!vars
  BY <1>5, Unseen DEF DeltaPage, DeltaFails, FullPage, FullFails, clock
<1>6. ASSUME NEW n \in Limits, NEW written \in BOOLEAN, EndDelta(n, written)
      PROVE  Promise!Learns(n) \/ UNCHANGED Promise!vars
  <2> DEFINE j == Join(fetch[n].data, Parse(fetch[n].rows, fetch[n].forming, n), n)
  <2>1. fetch[n].pc = "merge" /\ Ends(n, j, written)
    BY <1>6 DEF EndDelta, At
  <2>2. j \in Frames /\ j.soft = {} /\ Cardinality(j.bars) <= n /\ \A b \in j.bars : Settled(b)
    BY <2>1, JoinedIs
  <2> HIDE DEF j
  <2> QED BY <1>1, <2>1, <2>2, EndLearns
<1>7. ASSUME NEW n \in Limits, NEW written \in BOOLEAN, EndFull(n, written)
      PROVE  Promise!Learns(n) \/ UNCHANGED Promise!vars
  <2> DEFINE p == Parse(fetch[n].rows, fetch[n].forming, n)
  <2>1. fetch[n].pc = "parse" /\ Ends(n, p, written)
    BY <1>7 DEF EndFull, At
  <2>2. p \in Frames /\ p.soft = {} /\ Cardinality(p.bars) <= n /\ \A b \in p.bars : Settled(b)
    BY <2>1, ParsedIs
  <2> HIDE DEF p
  <2> QED BY <1>1, <2>1, <2>2, EndLearns
<1>8. CASE Tick
  <2>1. UNCHANGED <<cache, disk, store>> /\ bar' \in {bar, bar + 1}
    BY <1>8 DEF Tick
  <2>2. CASE bar' = bar
    BY <2>1, <2>2, Unseen
  <2>3. CASE bar' = bar + 1
    BY <2>1, <2>3 DEF Promise!Next, Promise!BarCloses
  <2> QED BY <2>1, <2>2, <2>3
<1>9. CASE Restart
  <2>1. /\ cache' = [n \in Limits |-> NoEntry] /\ store' = NoFrame /\ UNCHANGED <<bar, disk>>
    BY <1>9 DEF Restart, clock
  <2>2. NoEntry.frame.bars = {} /\ NoFrame.bars = {}
    BY EmptyIs
  <2> QED BY <2>1, <2>2 DEF Promise!Next, Promise!Restarts
<1>10. ASSUME NEW n \in Limits, Feed(n) PROVE [Promise!Next]_(Promise!vars)
  BY <1>3, <1>4, <1>5, <1>6, <1>7, <1>10 DEF Feed, Promise!Next
<1> QED BY <1>2, <1>8, <1>9, <1>10 DEF Next

\* blofin_feed.py, blofin_ws.py, disk_cache.py and market_store.py together keep
\* what a reader of candles relies on, for any keys, pages, lags and lifetimes.
THEOREM FeedKeepsPromise ==
    ASSUME ~NewestFirst
    PROVE  Spec => KeepsSeries
<1>1. Init => Promise!Init
  <2> SUFFICES ASSUME Init PROVE Promise!Init
    OBVIOUS
  <2>1. bar \in Nat /\ NoEntry.frame.bars = {} /\ NoFrame.bars = {}
    BY NumbersAre, EmptyIs DEF Init
  <2> QED BY <2>1 DEF Init, Promise!Init
<1>2. FeedInv /\ NoHoles /\ [Next]_vars => [Promise!Next]_(Promise!vars)
  BY PromiseStep
<1> QED BY FeedAlways, UnbrokenCandles, <1>1, <1>2, PTL DEF Spec, KeepsSeries, Promise!Spec
=============================================================================
