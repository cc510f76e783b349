--------------------------- MODULE SeriesPromise ----------------------------
(***************************************************************************)
(* What the readers of candles may rely on, whatever becomes of requests,  *)
(* pushes and files.  Each key knows a series of closed candles without a  *)
(* hole, no longer than it was asked for, which never ends earlier than    *)
(* before.  What a strategy is shown is the series of one key, or that and *)
(* the one candle which follows it.  A restart leaves what is kept on      *)
(* disk.                                                                   *)
(***************************************************************************)
EXTENDS Integers

CONSTANT Keys    \* a key is the number of candles asked for

VARIABLES
    bar,     \* the bar that is forming
    mem,     \* the series each key knows
    kept,    \* the series each key has on disk
    shown    \* what the strategy reads

vars == <<bar, mem, kept, shown>>

Series(n) ==
    {S \in SUBSET (0..(bar - 1)) :
        S # {} /\ \A a, c \in S : a..c \subseteq S /\ c - a < n}

Reaches(S, T) == \A b \in T : \E c \in S : c >= b

Following(S) == {b \in 0..(bar - 1) : b - 1 \in S /\ \A c \in S : c < b}

Shows(S) == shown' = shown \/ \E new \in SUBSET Following(S) : shown' = S \cup new

Init ==
    /\ bar \in Nat
    /\ mem = [n \in Keys |-> {}] /\ kept = [n \in Keys |-> {}] /\ shown = {}

BarCloses ==
    /\ bar' = bar + 1
    /\ UNCHANGED <<mem, kept, shown>>

\* A key remembers what it has on disk, if it knows nothing.
Recalls(n) ==
    /\ mem' \in {mem, IF mem[n] = {} THEN [mem EXCEPT ![n] = kept[n]] ELSE mem}
    /\ Shows(mem'[n])
    /\ UNCHANGED <<bar, kept>>

\* A new series reaches as far as the ones before; it need not be written.
Learns(n) ==
    /\ mem'[n] \in Series(n)
    /\ Reaches(mem'[n], mem[n]) /\ Reaches(mem'[n], kept[n])
    /\ mem' = [mem EXCEPT ![n] = mem'[n]]
    /\ kept' \in {kept, [kept EXCEPT ![n] = mem'[n]]}
    /\ Shows(mem'[n])
    /\ UNCHANGED bar

Restarts ==
    /\ mem' = [n \in Keys |-> {}] /\ shown' = {}
    /\ UNCHANGED <<bar, kept>>

Next ==
    \/ BarCloses \/ Restarts
    \/ \E n \in Keys : Recalls(n) \/ Learns(n)

Spec == Init /\ [][Next]_vars

=============================================================================
