--------------------------- MODULE MCPaperEngine ---------------------------
(***************************************************************************)
(* Model checking instances of PaperEngine.  One commander beside the bot  *)
(* gives every race for trader.lock: a third thread could only repeat what *)
(* either does.  Two trades let an entry meet the end of an earlier        *)
(* position of its symbol, two symbols let two positions be open at once.  *)
(* DailyLimit = 1 makes a single losing leg enough for a daily halt.       *)
(***************************************************************************)
EXTENDS PaperEngine, TLC

\* Symbols are only compared for equality.
Symmetric == Permutations(Symbols)

\* Bound: a command that only sets a flag is given before or during the first
\* entry.  It meets every step of that entry, and a second one repeats it.
FlagsEarly ==
    Newest = 0 \/ \A c \in Threads :
        ~(\/ StartAnalysis(c) \/ StopTrading(c) \/ Pause(c) \/ Resume(c)
          \/ SetReduceOnly(c, TRUE) \/ SetReduceOnly(c, FALSE))

\* Bound: a screen is refreshed before the second position is opened.
RefreshesEarly == Newest <= 1 \/ ~\E c \in Threads : RefreshScreen(c)

=============================================================================
