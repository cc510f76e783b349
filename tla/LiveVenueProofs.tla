-------------------------- MODULE LiveVenueProofs ---------------------------
(***************************************************************************)
(* Theorems of LiveVenue: for every set of symbols, any sizes and levels,  *)
(* any number of restarts and of changes of the account.                   *)
(*                                                                         *)
(* A report is of a stop that rests because the protection file says so at *)
(* any time, also in the middle of a replacement: what is in memory and    *)
(* not in the file belongs to the one symbol whose stop is being replaced. *)
(* That a restart keeps the local stops rests on the state file: it holds  *)
(* a stop that is never ahead of the book, and none that is ahead of the   *)
(* attachment.                                                             *)
(***************************************************************************)
EXTENDS LiveVenue, TLAPS

Position == [size : 0..MaxSize, sl : Levels]
Attachment == [armed : BOOLEAN, sl : Levels, ok : BOOLEAN, id : Nat]

StopsTyped ==
    \A t \in stops \cup fired \cup ghosts :
        t.symbol \in Symbols /\ t.level \in Levels /\ t.id \in 1..placed[t.symbol]

JobTyped ==
    \/ doing = Idle
    \/ doing \in [step : {"cancel", "place", "answer"}, symbol : Symbols, ok : BOOLEAN]

\* VenueTypeOK, variable by variable.
Typed ==
    /\ acct \in [Symbols -> 0..MaxSize] /\ working \subseteq Symbols
    /\ StopsTyped /\ placed \in [Symbols -> Nat]
    /\ book \in [Symbols -> Position] /\ saved \in [Symbols -> Position]
    /\ att \in [Symbols -> Attachment] /\ disk \in [Symbols -> Attachment]
    /\ drift \in BOOLEAN /\ unseen \in BOOLEAN
    /\ pc \in {"run", "rearm", "attach", "orphans"} /\ todo \subseteq Symbols
    /\ JobTyped
    /\ cmd.kind \in {"none", "kill", "close_all"} /\ cmd.on \subseteq Symbols
    /\ boots \in 0..MaxBoots /\ moves \in 0..MaxMoves

\* The file reports no stop that is not there.
FileRests == \A s \in Symbols : disk[s].ok => Named(disk, s) \in stops \cup fired \cup ghosts

\* Only the attachment whose stop is being replaced differs from the file.
FileInStep ==
    \A s \in Symbols : att[s] # disk[s] => doing # Idle /\ doing.symbol = s

\* The attachment in work watches its position, and a placement that was
\* answered rests.
JobInStep ==
    doing # Idle =>
        /\ att[doing.symbol].armed
        /\ doing.step = "answer" /\ doing.ok =>
              [symbol |-> doing.symbol, id |-> placed[doing.symbol],
               level |-> att[doing.symbol].sl] \in stops \cup fired

\* No attachment is behind a position of the book or of the state file, and
\* the book is not behind the state file.
StopsInOrder ==
    \A s \in Symbols :
        /\ book[s].size > 0 /\ att[s].armed => att[s].sl >= book[s].sl
        /\ saved[s].size > 0 /\ att[s].armed => att[s].sl >= saved[s].sl
        /\ saved[s].size > 0 /\ disk[s].armed => disk[s].sl >= saved[s].sl
        /\ saved[s].size > 0 /\ book[s].size > 0 => book[s].sl >= saved[s].sl

\* Until recovery has armed the book it is what the state file restored, and
\* what is not armed is still on recovery's list.
BookIsRestored ==
    /\ pc \in {"rearm", "attach"} => book = saved
    /\ pc = "attach" => \A s \in Held : att[s].armed \/ s \in todo

\* The threads of the commands are started after recovery.
CommandsRun == cmd = NoCmd \/ pc = "run"

VenueInv ==
    /\ Typed /\ CommandsRun
    /\ FileRests /\ FileInStep /\ JobInStep
    /\ StopsInOrder /\ BookIsRestored /\ LocalStopKept

-----------------------------------------------------------------------------
LEMMA Bounds ==
    /\ MaxSize \in Nat /\ MaxLevel \in Nat /\ MaxBoots \in Nat /\ MaxMoves \in Nat
    /\ MaxSize >= 1 /\ MaxLevel >= 2
  BY VenueAssumption DEF VenueAssumption

LEMMA Nothing == NoBook \in Position /\ NoAtt \in Attachment
  BY Bounds DEF NoBook, NoAtt, Position, Attachment, Levels

\* The levels of a symbol can be compared.
LEMMA LevelsOf ==
    ASSUME Typed, NEW s \in Symbols
    PROVE  /\ book[s] \in Position /\ saved[s] \in Position
           /\ att[s] \in Attachment /\ disk[s] \in Attachment
           /\ book[s].sl \in Int /\ saved[s].sl \in Int
           /\ att[s].sl \in Int /\ disk[s].sl \in Int
  <1>1. /\ book[s] \in Position /\ saved[s] \in Position
        /\ att[s] \in Attachment /\ disk[s] \in Attachment
    BY DEF Typed
  <1>. QED  BY <1>1, Bounds DEF Position, Attachment, Levels

LEMMA NoStep == Idle.step = "none"
  BY DEF Idle

LEMMA JobOf ==
    ASSUME Typed, doing # Idle
    PROVE  /\ doing \in [step : {"cancel", "place", "answer"}, symbol : Symbols, ok : BOOLEAN]
           /\ doing.symbol \in Symbols
  BY DEF Typed, JobTyped

-----------------------------------------------------------------------------
LEMMA InitVenue == Init => VenueInv
  <1> SUFFICES ASSUME Init PROVE VenueInv
    OBVIOUS
  <1>1. book \in [Symbols -> Position] /\ saved = book
    <2>1. [size |-> 1, sl |-> 1] \in Position
      BY Bounds DEF Position, Levels
    <2>. QED  BY <2>1, Nothing DEF Init
  <1>2. PICK lost \in SUBSET Symbols, ahead \in {0, 1} :
          att = [s \in Symbols |->
                   IF book[s] = NoBook \/ s \in lost THEN NoAtt
                   ELSE [armed |-> TRUE, sl |-> 1 + ahead, ok |-> FALSE, id |-> 0]]
    BY DEF Init
  <1>3. att \in [Symbols -> Attachment]
    <2>1. [armed |-> TRUE, sl |-> 1 + ahead, ok |-> FALSE, id |-> 0] \in Attachment
      BY Bounds DEF Attachment, Levels
    <2>. QED  BY <1>2, <2>1, Nothing
  <1>4. Typed
    <2>1. 0 \in 0..MaxSize /\ 0 \in 0..MaxBoots /\ 0 \in 0..MaxMoves /\ 0 \in Nat
      BY Bounds
    <2>2. acct = [s \in Symbols |-> 0] /\ placed = [s \in Symbols |-> 0]
      BY DEF Init
    <2>3. acct \in [Symbols -> 0..MaxSize] /\ placed \in [Symbols -> Nat]
      BY <2>1, <2>2, Zenon
    <2>4. StopsTyped
      BY DEF Init, StopsTyped
    <2>. QED  BY <1>1, <1>3, <2>1, <2>3, <2>4 DEF Init, Typed, JobTyped, NoCmd
  <1>5. ASSUME NEW s \in Symbols
        PROVE  /\ ~att[s].ok /\ (att[s].armed => att[s].sl >= 1)
               /\ book[s].sl \in {0, 1} /\ (book[s].size > 0 => book[s].sl = 1)
    <2>1. book[s] = NoBook \/ book[s] = [size |-> 1, sl |-> 1]
      BY DEF Init
    <2>2. att[s] = NoAtt \/ att[s] = [armed |-> TRUE, sl |-> 1 + ahead, ok |-> FALSE, id |-> 0]
      BY <1>2
    <2>. QED  BY <2>1, <2>2 DEF NoBook, NoAtt
  <1>6. disk = att /\ doing = Idle /\ pc = "rearm"
    BY DEF Init
  <1>7. StopsInOrder
    BY <1>1, <1>5, <1>6 DEF StopsInOrder
  <1>8. FileRests
    BY <1>5, <1>6 DEF FileRests
  <1>9. FileInStep
    BY <1>6 DEF FileInStep
  <1>. QED
    BY <1>1, <1>4, <1>6, <1>7, <1>8, <1>9
    DEF Init, VenueInv, JobInStep, BookIsRestored, LocalStopKept, CommandsRun

-----------------------------------------------------------------------------
(***************************************************************************)
(* The steps.                                                              *)
(***************************************************************************)
\* A step that touches neither the book nor a stop, but for one that fires.
LEMMA QuietStep ==
    ASSUME VenueInv, UNCHANGED <<book, saved, guard, pc, todo, placed>>,
           stops' \cup fired' = stops \cup fired,
           acct' \in [Symbols -> 0..MaxSize], working' \subseteq Symbols,
           moves' \in 0..MaxMoves, drift' \in BOOLEAN, unseen' \in BOOLEAN,
           cmd'.kind \in {"none", "kill", "close_all"}, cmd'.on \subseteq Symbols,
           cmd' = cmd \/ pc = "run", UNCHANGED boots
    PROVE  VenueInv'
  <1> USE DEF guard
  <1>1. StopsTyped'
    BY DEF VenueInv, Typed, StopsTyped
  <1>2. Typed'
    BY <1>1 DEF VenueInv, Typed, JobTyped
  <1>3. FileRests' /\ FileInStep'
    BY DEF VenueInv, FileRests, FileInStep, Named
  <1>4. JobInStep' /\ CommandsRun'
    BY DEF VenueInv, JobInStep, CommandsRun
  <1>5. StopsInOrder' /\ BookIsRestored' /\ LocalStopKept'
    BY DEF VenueInv, StopsInOrder, BookIsRestored, LocalStopKept, Held
  <1>. QED  BY <1>2, <1>3, <1>4, <1>5 DEF VenueInv

LEMMA OutsideSteps ==
    ASSUME VenueInv,
           \/ \E s \in Symbols, n \in 0..MaxSize : OwnerTrades(s, n)
           \/ \E s \in Symbols : OrderFills(s)
           \/ \E t \in stops : StopFires(t)
    PROVE  VenueInv'
  <1> USE DEF program, control, verdict
  <1>1. /\ acct \in [Symbols -> 0..MaxSize] /\ working \subseteq Symbols /\ moves \in 0..MaxMoves
        /\ drift \in BOOLEAN /\ unseen \in BOOLEAN
        /\ cmd.kind \in {"none", "kill", "close_all"} /\ cmd.on \subseteq Symbols
    BY DEF VenueInv, Typed
  <1>2. ASSUME NEW s \in Symbols, NEW n \in 0..MaxSize, OwnerTrades(s, n) PROVE VenueInv'
    <2>1. moves' \in 0..MaxMoves /\ acct' \in [Symbols -> 0..MaxSize]
      BY <1>1, <1>2, Bounds DEF OwnerTrades
    <2>. QED  BY <1>1, <1>2, <2>1, QuietStep DEF OwnerTrades
  <1>3. ASSUME NEW s \in Symbols, OrderFills(s) PROVE VenueInv'
    <2>1. acct[s] + 1 \in 0..MaxSize
      BY <1>1, <1>3, Bounds DEF OrderFills
    <2>2. acct' \in [Symbols -> 0..MaxSize] /\ working' \subseteq Symbols
      BY <1>1, <1>3, <2>1 DEF OrderFills
    <2>. QED  BY <1>1, <1>3, <2>2, QuietStep DEF OrderFills
  <1>4. ASSUME NEW t \in stops, StopFires(t) PROVE VenueInv'
    <2>1. acct' \in [Symbols -> 0..MaxSize]
      <3>1. acct' = [acct EXCEPT ![t.symbol] = 0] /\ 0 \in 0..MaxSize
        BY <1>4, Bounds DEF StopFires
      <3>. QED  BY <1>1, <3>1
    <2>2. stops' \cup fired' = stops \cup fired
      BY <1>4 DEF StopFires
    <2>. QED  BY <1>1, <1>4, <2>1, <2>2, QuietStep DEF StopFires
  <1>. QED  BY <1>2, <1>3, <1>4

LEMMA LookAndAsk ==
    ASSUME VenueInv,
           \/ \E answered \in BOOLEAN : Reconcile(answered)
           \/ KillSwitch
           \/ \E s \in Symbols, o \in Outcomes : EmergencyClose(s, o)
    PROVE  VenueInv'
  <1> USE DEF account, control
  <1>1. /\ acct \in [Symbols -> 0..MaxSize] /\ working \subseteq Symbols /\ moves \in 0..MaxMoves
        /\ drift \in BOOLEAN /\ unseen \in BOOLEAN
        /\ cmd.kind \in {"none", "kill", "close_all"} /\ cmd.on \subseteq Symbols
    BY DEF VenueInv, Typed
  <1>2. ASSUME NEW answered \in BOOLEAN, Reconcile(answered) PROVE VenueInv'
    <2>1. drift' \in BOOLEAN /\ unseen' \in BOOLEAN
      BY <1>2 DEF Reconcile, Differs
    <2>. QED  BY <1>1, <1>2, <2>1, QuietStep DEF Reconcile
  <1>3. CASE KillSwitch
    <2>1. cmd'.kind = "kill" /\ cmd'.on \subseteq Symbols
      BY <1>3 DEF KillSwitch, Command, Held
    <2>. QED  BY <1>1, <1>3, <2>1, QuietStep DEF KillSwitch, Command, verdict
  <1>4. ASSUME NEW s \in Symbols, NEW o \in Outcomes, EmergencyClose(s, o) PROVE VenueInv'
    <2>1. acct' \in [Symbols -> 0..MaxSize]
      BY <1>1, <1>4, Bounds DEF EmergencyClose
    <2>2. cmd' = NoCmd \/ cmd' = [cmd EXCEPT !.on = @ \ {s}]
      BY <1>4 DEF EmergencyClose
    <2>3. cmd'.kind \in {"none", "kill", "close_all"} /\ cmd'.on \subseteq Symbols
      <3>1. CASE cmd' = NoCmd
        BY <3>1 DEF NoCmd
      <3>2. CASE cmd' = [cmd EXCEPT !.on = @ \ {s}]
        <4>1. cmd'.kind = cmd.kind \/ cmd'.kind \in {"none", "kill", "close_all"}
          BY <3>2
        <4>. QED  BY <1>1, <3>2, <4>1
      <3>. QED  BY <2>2, <3>1, <3>2
    <2>4. pc = "run"
      BY <1>4 DEF VenueInv, CommandsRun, EmergencyClose, NoCmd
    <2>. QED  BY <1>1, <1>4, <2>1, <2>3, <2>4, QuietStep DEF EmergencyClose, verdict
  <1>. QED  BY <1>2, <1>3, <1>4

LEMMA SaveStep ==
    ASSUME VenueInv, SaveState
    PROVE  VenueInv'
  <1> USE DEF account, guard, control, verdict
  <1>1. /\ UNCHANGED <<account, book, guard, control, verdict>> /\ saved' = book
        /\ pc = "run" /\ doing = Idle
    BY DEF SaveState, Running
  <1>2. Typed'
    BY <1>1 DEF VenueInv, Typed, StopsTyped, JobTyped
  <1>3. \A s \in Symbols : att[s] = disk[s]
    BY <1>1 DEF VenueInv, FileInStep
  <1>4. StopsInOrder'
    <2> SUFFICES ASSUME NEW s \in Symbols
                 PROVE  /\ book[s].size > 0 /\ att[s].armed => att[s].sl >= book[s].sl
                        /\ book[s].size > 0 /\ disk[s].armed => disk[s].sl >= book[s].sl
                        /\ book[s].size > 0 => book[s].sl >= book[s].sl
      BY <1>1 DEF StopsInOrder
    <2>. QED  BY <1>3, LevelsOf DEF VenueInv, StopsInOrder
  <1>5. FileRests' /\ FileInStep' /\ JobInStep'
    BY <1>1 DEF VenueInv, FileRests, FileInStep, JobInStep, Named
  <1>6. BookIsRestored' /\ LocalStopKept'
    BY <1>1 DEF VenueInv, BookIsRestored, LocalStopKept, Held
  <1>20. CommandsRun'
    BY <1>1 DEF VenueInv, CommandsRun
  <1>. QED  BY <1>20, <1>2, <1>4, <1>5, <1>6 DEF VenueInv

\* An update begins, with a level that is behind neither the book nor the file.
LEMMA BeginStep ==
    ASSUME VenueInv, NEW s \in Symbols, NEW level \in Levels, NEW step \in {"cancel", "place"},
           Begin(s, level, step), doing = Idle,
           UNCHANGED <<account, saved, control, verdict>>,
           book' \in [Symbols -> Position],
           \A r \in Symbols \ {s} : book'[r] = book[r],
           book'[s].size = book[s].size,
           book[s].size > 0 => level >= book'[s].sl,
           saved[s].size > 0 => level >= saved[s].sl,
           saved[s].size > 0 /\ book[s].size > 0 => book'[s].sl >= saved[s].sl,
           pc # "run" => book' = book
    PROVE  VenueInv'
  <1> USE DEF account, control, verdict
  <1>1. /\ att \in [Symbols -> Attachment] /\ disk' = disk /\ ghosts' = ghosts
        /\ att' = [att EXCEPT ![s].armed = TRUE, ![s].sl = level]
        /\ doing' = [step |-> step, symbol |-> s, ok |-> FALSE]
    BY DEF Begin, VenueInv, Typed, Idle
  <1>2. /\ att' \in [Symbols -> Attachment] /\ att'[s].armed /\ att'[s].sl = level
        /\ \A r \in Symbols \ {s} : att'[r] = att[r]
    BY <1>1 DEF Attachment
  <1>3. doing' # Idle /\ doing'.symbol = s /\ doing'.step = step
    BY <1>1 DEF Idle
  <1>4. Typed'
    <2>1. JobTyped'
      BY <1>1 DEF JobTyped
    <2>. QED  BY <1>1, <1>2, <2>1 DEF VenueInv, Typed, StopsTyped
  <1>5. FileRests' /\ FileInStep' /\ JobInStep'
    BY <1>1, <1>2, <1>3 DEF VenueInv, FileRests, FileInStep, JobInStep, Named
  <1>6. ASSUME NEW r \in Symbols
        PROVE  /\ book'[r].size > 0 /\ att'[r].armed => att'[r].sl >= book'[r].sl
               /\ saved[r].size > 0 /\ att'[r].armed => att'[r].sl >= saved[r].sl
               /\ saved[r].size > 0 /\ book'[r].size > 0 => book'[r].sl >= saved[r].sl
    <2>1. CASE r = s
      BY <1>2, <2>1
    <2>2. CASE r # s
      BY <1>2, <2>2 DEF VenueInv, StopsInOrder
    <2>. QED  BY <2>1, <2>2
  <1>7. StopsInOrder'
    BY <1>1, <1>6 DEF VenueInv, StopsInOrder
  <1>8. \A r \in Symbols : book'[r].size = book[r].size
    OBVIOUS
  <1>9. Held' = Held
    BY <1>8 DEF Held
  <1>10. \A r \in Symbols : att[r].armed => att'[r].armed
    BY <1>2
  <1>11. BookIsRestored'
    BY <1>9, <1>10 DEF VenueInv, BookIsRestored, Held
  <1>12. LocalStopKept'
    BY <1>6, <1>9, <1>10 DEF VenueInv, LocalStopKept, Held
  <1>20. CommandsRun'
    BY DEF VenueInv, CommandsRun
  <1>. QED  BY <1>20, <1>4, <1>5, <1>7, <1>11, <1>12 DEF VenueInv

LEMMA TrailStep ==
    ASSUME VenueInv, NEW s \in Symbols, Trail(s)
    PROVE  VenueInv'
  <1> DEFINE higher == book[s].sl + 1
             step == IF att[s].id # 0 THEN "cancel" ELSE "place"
  <1>1. /\ book \in [Symbols -> Position] /\ book[s] \in Position
        /\ book[s].sl \in Nat /\ book[s].sl < MaxLevel /\ saved[s].sl \in Int
        /\ pc = "run" /\ doing = Idle /\ book[s].size > 0
    BY LevelsOf DEF Trail, Running, Held, VenueInv, Typed, Position, Levels
  <1>2. higher \in Levels /\ higher > book[s].sl /\ step \in {"cancel", "place"}
    BY <1>1, Bounds DEF Levels
  <1>3. /\ book' = [book EXCEPT ![s].sl = higher] /\ Begin(s, higher, step)
        /\ UNCHANGED <<account, saved, control, verdict>>
    BY DEF Trail
  <1> HIDE DEF higher, step
  <1>4. /\ book' \in [Symbols -> Position] /\ book'[s].sl = higher /\ book'[s].size = book[s].size
        /\ \A r \in Symbols \ {s} : book'[r] = book[r]
    BY <1>1, <1>2, <1>3 DEF Position
  <1>5. /\ higher >= book'[s].sl
        /\ saved[s].size > 0 => higher >= saved[s].sl
    BY <1>1, <1>2, <1>4 DEF VenueInv, StopsInOrder, Levels
  <1>. QED  BY <1>1, <1>2, <1>3, <1>4, <1>5, BeginStep

LEMMA AttachStep ==
    ASSUME VenueInv, NEW s \in Symbols, Attach(s)
    PROVE  VenueInv'
  <1> DEFINE level == IF book[s].sl > att[s].sl THEN book[s].sl ELSE att[s].sl
  <1>1. /\ book \in [Symbols -> Position] /\ book = saved /\ doing = Idle
        /\ book[s].sl \in Levels /\ att[s].sl \in Levels
    BY LevelsOf DEF Attach, VenueInv, Typed, BookIsRestored, Position, Attachment
  <1>2. level \in Levels /\ level >= book[s].sl
    BY <1>1, Bounds DEF Levels
  <1>3. /\ Begin(s, level, "place") /\ book' = book
        /\ UNCHANGED <<account, saved, control, verdict>>
    BY DEF Attach
  <1>4. saved[s].size > 0 => book[s].sl >= saved[s].sl
    BY <1>1, Bounds DEF Levels
  <1> HIDE DEF level
  <1>. QED  BY <1>1, <1>2, <1>3, <1>4, BeginStep

LEMMA CancelStep ==
    ASSUME VenueInv, NEW o \in Outcomes, Cancel(o)
    PROVE  VenueInv'
  <1> DEFINE s == doing.symbol
             old == {t \in stops : t.symbol = s /\ t.id = att[s].id}
  <1>1. /\ doing.step = "cancel" /\ doing' = [doing EXCEPT !.step = "place"]
        /\ stops' = (IF Done(o) THEN stops \ old ELSE stops)
        /\ att' = (IF o = "ok" THEN [att EXCEPT ![s].ok = FALSE, ![s].id = 0] ELSE att)
        /\ disk' = (IF o = "ok" THEN att' ELSE disk)
        /\ ghosts' = (IF o = "silent" THEN ghosts \cup old ELSE ghosts)
        /\ UNCHANGED <<acct, working, fired, placed, moves, book, saved, control, verdict>>
    BY DEF Cancel
  <1>2. doing # Idle
    <2>1. doing.step = "cancel"
      BY Zenon DEF Cancel
    <2>. QED  BY <2>1, NoStep
  <1>3. /\ s \in Symbols /\ doing' \in [step : {"cancel", "place", "answer"}, symbol : Symbols, ok : BOOLEAN]
        /\ doing'.symbol = s /\ doing'.step = "place" /\ doing' # Idle
    BY <1>1, <1>2, JobOf DEF VenueInv, Idle
  <1>4. att \in [Symbols -> Attachment] /\ disk \in [Symbols -> Attachment]
    BY DEF VenueInv, Typed
  <1>5. /\ att' \in [Symbols -> Attachment] /\ disk' \in [Symbols -> Attachment]
        /\ \A r \in Symbols : att'[r].armed = att[r].armed /\ att'[r].sl = att[r].sl
        /\ \A r \in Symbols \ {s} : att'[r] = att[r]
        /\ o = "ok" => ~att'[s].ok
    <2>1. CASE o = "ok"
      <3>1. att' = [att EXCEPT ![s].ok = FALSE, ![s].id = 0] /\ disk' = att'
        BY <1>1, <2>1
      <3>2. [att[s] EXCEPT !.ok = FALSE, !.id = 0] \in Attachment
        <4>1. att[s] \in Attachment
          BY <1>3, <1>4
        <4>. QED  BY <4>1 DEF Attachment
      <3>3. att' = [att EXCEPT ![s] = [att[s] EXCEPT !.ok = FALSE, !.id = 0]]
        BY <3>1
      <3>. QED  BY <1>3, <1>4, <3>1, <3>2, <3>3 DEF Attachment
    <2>2. CASE o # "ok"
      BY <1>1, <1>4, <2>2
    <2>. QED  BY <2>1, <2>2
  <1>6. \A r \in Symbols \ {s} : disk[r] = att[r] /\ disk'[r] = disk[r]
    BY <1>1, <1>5 DEF VenueInv, FileInStep
  <1>7. stops' \cup ghosts' \subseteq stops \cup ghosts
    BY <1>1
  <1>8. \A t \in stops \cup ghosts : t \in stops' \cup ghosts' \/ (o = "ok" /\ t \in old)
    BY <1>1 DEF Done
  <1>9. Typed'
    <2>1. StopsTyped'
      BY <1>1, <1>7 DEF VenueInv, Typed, StopsTyped
    <2>. QED  BY <1>1, <1>3, <1>5, <2>1 DEF VenueInv, Typed, JobTyped, control, verdict
  <1>10. FileRests'
    <2> SUFFICES ASSUME NEW r \in Symbols, disk'[r].ok
                 PROVE  Named(disk', r) \in stops' \cup fired' \cup ghosts'
      BY DEF FileRests, Named
    <2>1. r # s \/ o # "ok"
      BY <1>1, <1>5
    <2>2. disk'[r] = disk[r]
      BY <1>1, <1>6, <2>1
    <2>3. Named(disk, r) \in stops \cup fired \cup ghosts /\ Named(disk', r) = Named(disk, r)
      BY <2>2 DEF VenueInv, FileRests, Named
    <2>4. Named(disk, r) \notin old \/ o # "ok"
      BY <2>1 DEF Named
    <2>. QED  BY <1>1, <1>8, <2>3, <2>4
  <1>11. FileInStep' /\ JobInStep'
    BY <1>1, <1>2, <1>3, <1>5, <1>6 DEF VenueInv, FileInStep, JobInStep
  <1>12. ASSUME NEW r \in Symbols
         PROVE  saved[r].size > 0 /\ disk'[r].armed => disk'[r].sl >= saved[r].sl
    BY <1>1, <1>5 DEF VenueInv, StopsInOrder
  <1>13. StopsInOrder' /\ BookIsRestored' /\ LocalStopKept'
    BY <1>1, <1>5, <1>12 DEF VenueInv, StopsInOrder, BookIsRestored, LocalStopKept, Held, control
  <1>20. CommandsRun'
    BY <1>1 DEF VenueInv, CommandsRun, control
  <1>. QED  BY <1>20, <1>9, <1>10, <1>11, <1>13 DEF VenueInv

LEMMA PlaceStep ==
    ASSUME VenueInv, NEW o \in Outcomes, Place(o)
    PROVE  VenueInv'
  <1> DEFINE s == doing.symbol
             new == Stop(s, att[s].sl)
  <1>1. /\ doing.step = "place" /\ doing' = [doing EXCEPT !.step = "answer", !.ok = (o = "ok")]
        /\ placed' = [placed EXCEPT ![s] = @ + 1]
        /\ stops' = (IF Done(o) THEN stops \cup {new} ELSE stops)
        /\ UNCHANGED <<acct, working, fired, moves, book, saved, att, disk, ghosts, control, verdict>>
    BY DEF Place
  <1>2. doing # Idle
    <2>1. doing.step = "place"
      BY Zenon DEF Place
    <2>. QED  BY <2>1, NoStep
  <1>3. /\ s \in Symbols /\ doing' \in [step : {"cancel", "place", "answer"}, symbol : Symbols, ok : BOOLEAN]
        /\ doing'.symbol = s /\ doing' # Idle /\ doing'.ok = (o = "ok")
    BY <1>1, <1>2, JobOf DEF VenueInv, Idle
  <1>4. /\ placed \in [Symbols -> Nat] /\ att[s].sl \in Levels
    BY <1>3, LevelsOf DEF VenueInv, Typed, Attachment
  <1>5. /\ placed' \in [Symbols -> Nat] /\ placed'[s] = placed[s] + 1
        /\ \A r \in Symbols : placed'[r] >= placed[r]
    BY <1>1, <1>3, <1>4
  <1>6. /\ new.symbol = s /\ new.level = att[s].sl /\ new.id = placed'[s]
        /\ new = [symbol |-> s, id |-> placed'[s], level |-> att[s].sl]
    BY <1>5 DEF Stop
  <1> HIDE DEF new
  <1>7. StopsTyped'
    <2> SUFFICES ASSUME NEW t \in stops' \cup fired' \cup ghosts'
                 PROVE  t.symbol \in Symbols /\ t.level \in Levels /\ t.id \in 1..placed'[t.symbol]
      BY DEF StopsTyped
    <2>1. CASE t = new
      BY <1>3, <1>4, <1>5, <1>6, <2>1
    <2>2. CASE t \in stops \cup fired \cup ghosts
      <3>1. t.symbol \in Symbols /\ t.level \in Levels /\ t.id \in 1..placed[t.symbol]
        BY <2>2 DEF VenueInv, Typed, StopsTyped
      <3>. QED  BY <1>4, <1>5, <3>1
    <2>. QED  BY <1>1, <2>1, <2>2
  <1>8. Typed'
    BY <1>1, <1>3, <1>5, <1>7 DEF VenueInv, Typed, JobTyped, control, verdict
  <1>9. stops \subseteq stops' /\ (o = "ok" => new \in stops')
    BY <1>1 DEF Done
  <1>10. FileRests' /\ FileInStep'
    BY <1>1, <1>2, <1>3, <1>9 DEF VenueInv, FileRests, FileInStep, Named
  <1>11. JobInStep'
    BY <1>1, <1>2, <1>3, <1>6, <1>9 DEF VenueInv, JobInStep
  <1>12. StopsInOrder' /\ BookIsRestored' /\ LocalStopKept'
    BY <1>1 DEF VenueInv, StopsInOrder, BookIsRestored, LocalStopKept, Held, control
  <1>20. CommandsRun'
    BY <1>1 DEF VenueInv, CommandsRun, control
  <1>. QED  BY <1>20, <1>8, <1>10, <1>11, <1>12 DEF VenueInv

LEMMA AnswerStep ==
    ASSUME VenueInv, Answer
    PROVE  VenueInv'
  <1> DEFINE s == doing.symbol
             outcome == [att[s] EXCEPT !.ok = doing.ok, !.id = IF doing.ok THEN placed[s] ELSE 0]
  <1>1. /\ doing.step = "answer" /\ doing' = Idle
        /\ att' = [att EXCEPT ![s] = outcome] /\ disk' = att'
        /\ ghosts' = {t \in ghosts : t.symbol # s} /\ todo' = todo \ {s}
        /\ UNCHANGED <<account, book, saved, pc, cmd, boots, verdict>>
    BY DEF Answer, Record
  <1>2. doing # Idle
    <2>1. doing.step = "answer"
      BY Zenon DEF Answer, Record
    <2>. QED  BY <2>1, NoStep
  <1>3. s \in Symbols /\ doing.ok \in BOOLEAN
    BY <1>2, JobOf DEF VenueInv
  <1>4. /\ att \in [Symbols -> Attachment] /\ att[s] \in Attachment /\ placed[s] \in Nat
        /\ att[s].armed
    BY <1>2, <1>3 DEF VenueInv, Typed, JobInStep
  <1>5. /\ outcome \in Attachment /\ outcome.armed /\ outcome.sl = att[s].sl
        /\ outcome.ok = doing.ok /\ (doing.ok => outcome.id = placed[s])
    BY <1>3, <1>4 DEF Attachment
  <1> HIDE DEF outcome
  <1>6. /\ att' \in [Symbols -> Attachment] /\ att'[s] = outcome
        /\ \A r \in Symbols \ {s} : att'[r] = att[r] /\ disk[r] = att[r]
        /\ \A r \in Symbols : att[r].armed => att'[r].armed
        /\ \A r \in Symbols : att'[r].armed => att[r].armed
        /\ \A r \in Symbols : att'[r].sl = att[r].sl
    BY <1>1, <1>3, <1>4, <1>5 DEF VenueInv, FileInStep
  <1>7. Typed'
    <2>1. StopsTyped'
      BY <1>1 DEF VenueInv, Typed, StopsTyped, account
    <2>. QED  BY <1>1, <1>6, <2>1 DEF VenueInv, Typed, JobTyped, account, verdict
  <1>8. FileRests'
    <2> SUFFICES ASSUME NEW r \in Symbols, att'[r].ok
                 PROVE  Named(att', r) \in stops \cup fired \cup ghosts'
      BY <1>1 DEF FileRests, Named, account
    <2>1. CASE r = s
      <3>1. doing.ok /\ Named(att', r) = [symbol |-> s, id |-> placed[s], level |-> att[s].sl]
        BY <1>5, <1>6, <2>1 DEF Named
      <3>. QED  BY <1>1, <1>2, <3>1 DEF VenueInv, JobInStep
    <2>2. CASE r # s
      <3>1. att'[r] = disk[r]
        BY <1>6, <2>2
      <3>2. Named(disk, r) \in stops \cup fired \cup ghosts /\ Named(disk, r).symbol = r
            /\ Named(att', r) = Named(disk, r)
        BY <3>1 DEF VenueInv, FileRests, Named
      <3>. QED  BY <1>1, <2>2, <3>2
    <2>. QED  BY <2>1, <2>2
  <1>9. FileInStep' /\ JobInStep'
    BY <1>1 DEF FileInStep, JobInStep
  <1>10. StopsInOrder' /\ LocalStopKept'
    BY <1>1, <1>6 DEF VenueInv, StopsInOrder, LocalStopKept, Held
  <1>11. BookIsRestored'
    BY <1>1, <1>4, <1>6 DEF VenueInv, BookIsRestored, Held
  <1>20. CommandsRun'
    BY <1>1 DEF VenueInv, CommandsRun
  <1>. QED  BY <1>20, <1>7, <1>8, <1>9, <1>10, <1>11 DEF VenueInv

\* Positions are closed and forgotten, in the state file or only in memory.
LEMMA CloseStep ==
    ASSUME VenueInv, NEW on \in SUBSET Symbols, Closed(on), doing = Idle, pc = "run",
           saved' \in {saved, book'},
           saved' # saved => on = Held,
           UNCHANGED <<account, pc, todo, boots, verdict>>,
           cmd'.kind \in {"none", "kill", "close_all"}, cmd'.on \subseteq Symbols
    PROVE  VenueInv'
  <1> USE DEF account, verdict
  <1>1. /\ book' = [s \in Symbols |-> IF s \in on THEN NoBook ELSE book[s]]
        /\ att' = [s \in Symbols |-> IF s \in on THEN NoAtt ELSE att[s]]
        /\ disk' = (IF on # {} THEN att' ELSE disk)
        /\ UNCHANGED <<doing, ghosts>>
    BY DEF Closed
  <1>2. /\ book \in [Symbols -> Position] /\ att \in [Symbols -> Attachment]
        /\ disk \in [Symbols -> Attachment] /\ saved \in [Symbols -> Position]
    BY DEF VenueInv, Typed
  <1>3. book' \in [Symbols -> Position] /\ att' \in [Symbols -> Attachment]
    BY <1>1, <1>2, Nothing
  <1>4. \A s \in Symbols : att[s] = disk[s]
    BY DEF VenueInv, FileInStep
  <1>5. \A s \in Symbols : disk'[s] = att'[s]
    BY <1>1, <1>4
  <1>6. disk' \in [Symbols -> Attachment] /\ saved' \in [Symbols -> Position]
    BY <1>1, <1>2, <1>3
  <1>7. Typed'
    BY <1>1, <1>3, <1>6 DEF VenueInv, Typed, StopsTyped, JobTyped
  <1>8. FileRests'
    BY <1>1, <1>4, <1>5 DEF VenueInv, FileRests, Named, NoAtt
  <1>9. FileInStep' /\ JobInStep'
    BY <1>1, <1>5 DEF FileInStep, JobInStep
  <1>10. ASSUME NEW s \in Symbols
         PROVE  /\ book'[s].size > 0 => s \notin on /\ book'[s] = book[s]
                /\ att'[s].armed => s \notin on /\ att'[s] = att[s] /\ disk'[s] = disk[s]
                /\ saved'[s].size > 0 => saved'[s] = saved[s] \/ (saved'[s] = book[s] /\ s \notin on)
    BY <1>1, <1>4, <1>5 DEF NoBook, NoAtt
  <1>11. StopsInOrder'
    <2> SUFFICES ASSUME NEW s \in Symbols
                 PROVE  /\ book'[s].size > 0 /\ att'[s].armed => att'[s].sl >= book'[s].sl
                        /\ saved'[s].size > 0 /\ att'[s].armed => att'[s].sl >= saved'[s].sl
                        /\ saved'[s].size > 0 /\ book'[s].size > 0 => book'[s].sl >= saved'[s].sl
      BY <1>5 DEF StopsInOrder
    <2>. QED  BY <1>10, LevelsOf DEF VenueInv, StopsInOrder
  <1>12. BookIsRestored'
    BY DEF BookIsRestored
  <1>13. LocalStopKept'
    <2> SUFFICES ASSUME NEW s \in Symbols, book'[s].size > 0
                 PROVE  att'[s].armed /\ att'[s].sl >= book'[s].sl
      BY DEF LocalStopKept, Held
    <2>1. s \notin on /\ book'[s] = book[s] /\ att'[s] = att[s]
      BY <1>1, <1>10
    <2>. QED  BY <2>1 DEF VenueInv, LocalStopKept, Held
  <1>20. CommandsRun'
    BY DEF VenueInv, CommandsRun
  <1>. QED  BY <1>20, <1>7, <1>8, <1>9, <1>11, <1>12, <1>13 DEF VenueInv

LEMMA CloseSteps ==
    ASSUME VenueInv, (\E s \in Symbols : Exit(s)) \/ KillBooks \/ CloseAll
    PROVE  VenueInv'
  <1>1. cmd.kind \in {"none", "kill", "close_all"} /\ cmd.on \subseteq Symbols /\ Held \in SUBSET Symbols
    BY DEF VenueInv, Typed, Held
  <1>2. ASSUME NEW s \in Symbols, Exit(s) PROVE VenueInv'
    <2>1. {s} \in SUBSET Symbols
      OBVIOUS
    <2>. QED  BY <1>1, <1>2, <2>1, CloseStep DEF Exit, Running, control
  <1>3. CASE KillBooks
    <2>1. pc = "run"
      BY <1>3 DEF VenueInv, KillBooks, CommandsRun, NoCmd
    <2>. QED  BY <1>1, <1>3, <2>1, CloseStep DEF KillBooks, NoCmd
  <1>4. CASE CloseAll
    BY <1>1, <1>4, CloseStep DEF CloseAll
  <1>. QED  BY <1>2, <1>3, <1>4

LEMMA BootStep ==
    ASSUME VenueInv, Boot
    PROVE  VenueInv'
  <1>1. /\ book' = saved /\ saved' = saved /\ att' = disk /\ disk' = disk /\ doing' = Idle
        /\ ghosts' = ghosts /\ pc' = "rearm" /\ todo' = {} /\ cmd' = NoCmd
        /\ boots < MaxBoots /\ boots' = boots + 1 /\ drift' = FALSE /\ unseen' = FALSE
        /\ UNCHANGED account
    BY DEF Boot
  <1>2. boots' \in 0..MaxBoots
    BY <1>1, Bounds DEF VenueInv, Typed
  <1>3. Typed'
    BY <1>1, <1>2 DEF VenueInv, Typed, StopsTyped, JobTyped, account, NoCmd
  <1>4. FileRests' /\ FileInStep' /\ JobInStep'
    BY <1>1 DEF VenueInv, FileRests, FileInStep, JobInStep, Named, account
  <1>5. StopsInOrder'
    <2> SUFFICES ASSUME NEW s \in Symbols
                 PROVE  /\ saved[s].size > 0 /\ disk[s].armed => disk[s].sl >= saved[s].sl
                        /\ saved[s].size > 0 => saved[s].sl >= saved[s].sl
      BY <1>1 DEF StopsInOrder
    <2>. QED  BY LevelsOf DEF VenueInv, StopsInOrder
  <1>6. BookIsRestored' /\ LocalStopKept'
    BY <1>1 DEF BookIsRestored, LocalStopKept
  <1>20. CommandsRun'
    BY <1>1 DEF VenueInv, CommandsRun
  <1>. QED  BY <1>20, <1>3, <1>4, <1>5, <1>6 DEF VenueInv

\* The steps of recovery that place nothing.
LEMMA RecoverySteps ==
    ASSUME VenueInv,
           \/ \E answered \in BOOLEAN : Rearm(answered)
           \/ \E answered, ordersAnswered \in BOOLEAN :
                 \/ RecoveryReconcile(answered, ordersAnswered)
                 \/ \E gone \in SUBSET Symbols : CancelOrphans(answered, ordersAnswered, gone)
    PROVE  VenueInv'
  <1> USE DEF guard, verdict
  <1>1. /\ UNCHANGED <<acct, stops, fired, placed, moves, book, saved, guard, cmd, boots>>
        /\ working' \subseteq Symbols /\ drift' \in BOOLEAN /\ unseen' \in BOOLEAN
    BY DEF VenueInv, Typed, Rearm, RecoveryReconcile, CancelOrphans, Differs, account
  <1>2. \/ /\ pc = "rearm" /\ pc' = "attach" /\ todo' \subseteq Symbols
           /\ \A s \in Held : att[s].armed \/ s \in todo'
        \/ pc = "attach" /\ todo = {} /\ pc' = "orphans" /\ todo' = todo
        \/ pc = "orphans" /\ pc' = "run" /\ todo' = todo
    BY DEF Rearm, RecoveryReconcile, CancelOrphans, Held
  <1>3. Typed'
    BY <1>1, <1>2 DEF VenueInv, Typed, StopsTyped, JobTyped
  <1>4. FileRests' /\ FileInStep' /\ JobInStep' /\ StopsInOrder'
    BY <1>1 DEF VenueInv, FileRests, FileInStep, JobInStep, StopsInOrder, Named
  <1>5. BookIsRestored'
    BY <1>1, <1>2 DEF VenueInv, BookIsRestored, Held
  <1>6. LocalStopKept'
    BY <1>1, <1>2 DEF VenueInv, LocalStopKept, BookIsRestored, StopsInOrder, Held
  <1>20. CommandsRun'
    BY <1>1, <1>2 DEF VenueInv, CommandsRun
  <1>. QED  BY <1>20, <1>3, <1>4, <1>5, <1>6 DEF VenueInv

LEMMA VenueSteps == VenueInv /\ [Next]_vars => VenueInv'
  <1> SUFFICES ASSUME VenueInv, [Next]_vars PROVE VenueInv'
    OBVIOUS
  <1>1. CASE UNCHANGED vars
    BY <1>1
    DEF vars, account, program, guard, control, verdict, VenueInv, Typed, StopsTyped, JobTyped,
        FileRests, FileInStep, JobInStep, StopsInOrder, BookIsRestored, LocalStopKept, CommandsRun, Held, Named
  <1>2. CASE Next
    BY <1>2, OutsideSteps, LookAndAsk, SaveStep, TrailStep, AttachStep, CancelStep, PlaceStep,
       AnswerStep, CloseSteps, BootStep, RecoverySteps
    DEF Next, Updates, Recovers, Commands
  <1>. QED  BY <1>1, <1>2

LEMMA VenueInvariant == Spec => []VenueInv
  BY InitVenue, VenueSteps, PTL DEF Spec

-----------------------------------------------------------------------------
(***************************************************************************)
(* The theorems.                                                           *)
(***************************************************************************)
\* Every variable keeps its type: sizes, levels and ids, the updates of
\* protection.py, the commands of runtime.py and the phases of recovery.
THEOREM VenueTypes == Spec => []VenueTypeOK
  <1>1. VenueInv => VenueTypeOK
    BY DEF VenueInv, VenueTypeOK, Typed, StopsTyped, JobTyped, Position, Attachment
  <1>. QED  BY <1>1, VenueInvariant, PTL

\* protection.py reports exchange_ok, outside of a replacement, only for a stop
\* that rests at the exchange or has fired, whichever of the two requests of a
\* replacement were refused, lost or carried out in silence and wherever the
\* process died; but for a cancel that nobody heard of before a crash.
THEOREM ReportedStopsRest == Spec => []ReportedStopRests
  <1>1. VenueInv => ReportedStopRests
    <2> SUFFICES ASSUME VenueInv, NEW s \in Symbols, att[s].ok, doing.symbol # s
                 PROVE  Named(att, s) \in stops \cup fired \cup ghosts
      BY DEF ReportedStopRests
    <2>1. att[s] = disk[s]
      BY DEF VenueInv, FileInStep
    <2>. QED  BY <2>1 DEF VenueInv, FileRests, Named
  <1>. QED  BY <1>1, VenueInvariant, PTL

\* After recovery every position of the book has its local stop, where the
\* position has its own or tighter, whatever the exchange answered.
THEOREM LocalStopsKept == Spec => []LocalStopKept
  <1>1. VenueInv => LocalStopKept
    BY DEF VenueInv
  <1>. QED  BY <1>1, VenueInvariant, PTL

-----------------------------------------------------------------------------
(***************************************************************************)
(* What silence of the exchange costs.                                     *)
(***************************************************************************)
\* An unanswered look at the account blocks entries while the book holds anything.
SilenceBlocks == unseen /\ Held # {} => drift

\* A look that says what Seen and Differs make of it.
LEMMA LookBlocks ==
    ASSUME VenueInv, NEW answered \in BOOLEAN, UNCHANGED book,
           Differs(Seen(answered)) => drift', unseen' = ~answered
    PROVE  SilenceBlocks'
  <1> SUFFICES ASSUME ~answered, NEW s \in Symbols, book[s].size > 0 PROVE drift'
    BY DEF SilenceBlocks, Held
  <1>1. Seen(answered)[s] = 0
    BY DEF Seen
  <1>2. Seen(answered)[s] # book[s].size
    BY <1>1
  <1>. QED  BY <1>2 DEF Differs

\* A step that neither looks nor restarts adds nothing to the book.
LEMMA BookShrinks ==
    ASSUME VenueInv, Next, ~Boot,
           ~ \E answered \in BOOLEAN : Reconcile(answered),
           ~ \E answered, ordersAnswered \in BOOLEAN : RecoveryReconcile(answered, ordersAnswered)
    PROVE  Held' \subseteq Held /\ UNCHANGED <<drift, unseen>>
  <1> USE DEF control, verdict, program
  <1>1. ASSUME NEW s \in Symbols, Trail(s)
        PROVE  Held' \subseteq Held /\ UNCHANGED <<drift, unseen>>
    <2>1. \A r \in Symbols : book'[r].size = book[r].size
      BY <1>1 DEF Trail, VenueInv, Typed, Position
    <2>. QED  BY <1>1, <2>1 DEF Trail, Held
  <1>2. ASSUME NEW on, Closed(on), UNCHANGED verdict
        PROVE  Held' \subseteq Held /\ UNCHANGED <<drift, unseen>>
    <2>1. \A r \in Symbols : book'[r] \in {book[r], NoBook}
      BY <1>2 DEF Closed
    <2>. QED  BY <1>2, <2>1 DEF Held, NoBook
  <1>3. CASE (\E s \in Symbols : Exit(s)) \/ KillBooks \/ CloseAll
    <2>1. \E on : Closed(on) /\ UNCHANGED verdict
      BY <1>3 DEF Exit, KillBooks, CloseAll
    <2>. QED  BY <1>2, <2>1
  <1>4. CASE \/ \E s \in Symbols, n \in 0..MaxSize : OwnerTrades(s, n)
             \/ \E s \in Symbols : OrderFills(s)
             \/ \E t \in stops : StopFires(t)
             \/ Updates
             \/ \E answered \in BOOLEAN : Rearm(answered)
             \/ \E s \in Symbols : Attach(s)
             \/ \E answered, ordersAnswered \in BOOLEAN, gone \in SUBSET Symbols :
                   CancelOrphans(answered, ordersAnswered, gone)
             \/ \E s \in Symbols, o \in Outcomes : EmergencyClose(s, o)
             \/ KillSwitch \/ SaveState
    <2>1. UNCHANGED <<book, drift, unseen>>
      BY <1>4 DEF OwnerTrades, OrderFills, StopFires, Updates, Answer, Record, Cancel, Place, Rearm,
                  Attach, CancelOrphans, EmergencyClose, KillSwitch, Command, SaveState
    <2>. QED  BY <2>1 DEF Held
  <1>. QED  BY <1>1, <1>3, <1>4 DEF Next, Recovers, Commands

\* Silence is taken for a flat account, but only by an empty book: with a
\* position in the book the account looks different from it, and that blocks
\* (account_sync.py, position_reconciler.py).
THEOREM SilenceBlocksHeldBook == Spec => []SilenceBlocks
  <1>1. Init => SilenceBlocks
    BY DEF Init, SilenceBlocks
  <1>2. VenueInv /\ SilenceBlocks /\ [Next]_vars => SilenceBlocks'
    <2> SUFFICES ASSUME VenueInv, SilenceBlocks, [Next]_vars PROVE SilenceBlocks'
      OBVIOUS
    <2>1. CASE UNCHANGED vars
      BY <2>1 DEF vars, program, verdict, SilenceBlocks, Held
    <2>2. CASE Boot
      BY <2>2 DEF Boot, SilenceBlocks
    <2>3. ASSUME NEW answered \in BOOLEAN, Reconcile(answered) PROVE SilenceBlocks'
      BY <2>3, LookBlocks DEF Reconcile
    <2>4. ASSUME NEW answered \in BOOLEAN, NEW ordersAnswered \in BOOLEAN,
                 RecoveryReconcile(answered, ordersAnswered)
          PROVE  SilenceBlocks'
      BY <2>4, LookBlocks DEF RecoveryReconcile
    <2>5. CASE Next /\ ~Boot /\ ~(\E answered \in BOOLEAN : Reconcile(answered))
               /\ ~(\E answered, ordersAnswered \in BOOLEAN :
                        RecoveryReconcile(answered, ordersAnswered))
      BY <2>5, BookShrinks DEF SilenceBlocks
    <2>. QED  BY <2>1, <2>2, <2>3, <2>4, <2>5
  <1>. QED  BY <1>1, <1>2, VenueInvariant, PTL DEF Spec
=============================================================================
