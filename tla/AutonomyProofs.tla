--------------------------- MODULE AutonomyProofs ---------------------------
(***************************************************************************)
(* Proofs about the three parts of MCAutonomy.  Goals are proved about in  *)
(* GoalProofs; here the heartbeat keeps HbCore and the reflections keep    *)
(* ReflInv, for all bounds and calendars, and the whole keeps all three:   *)
(* its steps are steps of one part that leave the others alone.            *)
(* HbCore says with the bubble in whose turn it was spoken; ReflInv says   *)
(* with a claimed week that its days are over and will not run again.      *)
(***************************************************************************)
EXTENDS MCAutonomy, GoalProofs, TLAPS

\* What the heartbeat records.
Stages  == {"none", "start", "run", "parked", "waking", "closing"}
AtWork == {"run", "parked", "waking"}
Beats   == [stage : Stages, id : HbIds, told : 0 .. events, held : 0 .. events,
            asked : BOOLEAN, effect : BOOLEAN]
BeatRow == [state : {"none", "running", "completed", "cancelled", "needs_reconciliation"},
            effect : BOOLEAN]
Bubbles == [state : {"none", "pending"}, told : 0 .. events,
            key : {"none", "chat", "reconciliation"}, id : HbIds]

\* A claim is for one slot, and one of queue and turn holds it.
ClaimsAreOnce ==
  /\ due => slot < MaxSlots
  /\ claim = "manual" => commands >= 1
  /\ ~up => beat.stage = "none"
  /\ beat.stage # "none" => ~hbQueued

\* The row of a turn at work is running and knows of its effect.
RowsMatch ==
  /\ beat.stage \in AtWork =>
       hbRows[beat.id].state = "running" /\ (hbRows[beat.id].effect <=> beat.effect)
  /\ beat.stage = "start" => ~beat.effect
  /\ \A i \in HbIds : hbRows[i].state = "none" => ~hbRows[i].effect

\* With no owner turn open the turn was told all that it holds.
ToldIsHeld == beat.stage = "run" /\ open = 0 => beat.told = beat.held

\* A pending bubble belongs to a turn that is at work or that has no effect
\* to answer for.
BubbleIsKept ==
  /\ bubble.state = "pending" /\ bubble.key = "none" =>
       /\ hbRows[bubble.id].state = "running"
       /\ \/ beat.stage \in AtWork /\ beat.id = bubble.id
          \/ ~up
          \/ ~hbRows[bubble.id].effect
  /\ bubble.state = "pending" /\ bubble.key = "reconciliation" =>
       hbRows[bubble.id].state \notin {"none", "running"}

HbCore == /\ HbTypeOK /\ ClaimIsAlive /\ ClaimsAreOnce /\ RowsMatch /\ ToldIsHeld
          /\ BubbleIsKept /\ SpeaksInformed

\* The types of the heartbeat, one by one.
LEMMA HbFacts ==
  ASSUME HbTypeOK
  PROVE  /\ slot \in Nat /\ commands \in Nat /\ events \in Nat /\ open \in Nat /\ open <= events
         /\ MaxSlots \in Nat /\ MaxCommands \in Nat /\ MaxEvents \in Nat
         /\ beat \in Beats /\ bubble \in Bubbles /\ hbRows \in [HbIds -> BeatRow]
         /\ InTranscript \in 0 .. events
         /\ up \in BOOLEAN /\ due \in BOOLEAN /\ hbQueued \in BOOLEAN
         /\ answering \in BOOLEAN /\ quiet \in BOOLEAN
<1>1. {MaxSlots, MaxCommands, MaxEvents} \subseteq Nat
  BY HeartbeatBounds
<1>2. /\ slot \in 0 .. MaxSlots /\ commands \in 0 .. MaxCommands /\ events \in 0 .. MaxEvents
      /\ open \in 0 .. events
  BY DEF HbTypeOK
<1>3. beat \in Beats /\ bubble \in Bubbles /\ hbRows \in [HbIds -> BeatRow]
  BY DEF HbTypeOK, Beats, Bubbles, BeatRow, Stages
<1>4. InTranscript \in 0 .. events
  BY <1>1, <1>2 DEF InTranscript
<1>5. /\ up \in BOOLEAN /\ due \in BOOLEAN /\ hbQueued \in BOOLEAN
      /\ answering \in BOOLEAN /\ quiet \in BOOLEAN
  BY DEF HbTypeOK
<1>. QED  BY <1>1, <1>2, <1>3, <1>4, <1>5

\* No turn and no bubble are of their types.
LEMMA NoBeatFacts ==
  ASSUME HbTypeOK
  PROVE  /\ NoBeat \in Beats /\ NoBubble \in Bubbles
         /\ NoBeat.stage = "none" /\ NoBubble.state = "none"
         /\ [NoBeat EXCEPT !.stage = "start"] \in Beats
<1>1. <<"slot", 0>> \in HbIds
  BY HeartbeatBounds DEF HbIds
<1>2. 0 \in 0 .. events
  BY HbFacts
<1>3. NoBeat \in Beats
  BY <1>1, <1>2 DEF NoBeat, Beats, Stages
<1>4. NoBubble \in Bubbles
  BY <1>1, <1>2 DEF NoBeat, NoBubble, Bubbles
<1>5. [NoBeat EXCEPT !.stage = "start"] \in Beats
  BY <1>3 DEF Beats, Stages
<1>. QED  BY <1>3, <1>4, <1>5 DEF NoBeat, NoBubble

\* The next turn has a name.
LEMMA HbIdType ==
  ASSUME HbTypeOK, ClaimsAreOnce
  PROVE  HbId \in HbIds
<1>1. slot \in 0 .. MaxSlots /\ commands \in 0 .. MaxCommands /\ commands \in Nat
  BY HbFacts DEF HbTypeOK
<1>. QED  BY <1>1 DEF HbId, HbIds, ClaimsAreOnce

\* The parts of the type invariant, each in its own place.
LEMMA TypesFollow ==
  ASSUME up' \in BOOLEAN, due' \in BOOLEAN, hbQueued' \in BOOLEAN, answering' \in BOOLEAN,
         quiet' \in BOOLEAN, slot' \in 0 .. MaxSlots, claim' \in {"none", "ordinary", "manual"},
         commands' \in 0 .. MaxCommands, events' \in 0 .. MaxEvents, open' \in 0 .. events',
         beat' \in Beats', bubble' \in Bubbles', hbRows' \in [HbIds -> BeatRow]
  PROVE  HbTypeOK'
BY DEF HbTypeOK, Beats, Bubbles, BeatRow, Stages

\* The schedule and its claims leave the turn, its rows and its bubble alone.
LEMMA ScheduleSteps ==
  ASSUME HbCore, ComesDue \/ ClaimHeartbeat \/ CommandHeartbeat
  PROVE  HbCore'
<1>1. HbTypeOK /\ ClaimIsAlive /\ ClaimsAreOnce
  BY DEF HbCore
<1>2. UNCHANGED <<beat, hbRows, hbWorld, bubble, hbFaults>>
  BY DEF ComesDue, ClaimHeartbeat, CommandHeartbeat
<1>3. /\ slot' \in 0 .. MaxSlots /\ commands' \in 0 .. MaxCommands
      /\ claim' \in {"none", "ordinary", "manual"} /\ due' \in BOOLEAN /\ hbQueued' \in BOOLEAN
  <2>1. slot \in 0 .. MaxSlots /\ commands \in 0 .. MaxCommands /\ claim \in {"none", "ordinary", "manual"}
    BY <1>1 DEF HbTypeOK
  <2>2. CASE ComesDue
    BY <1>1, <2>1, <2>2, HbFacts DEF ComesDue, hbWorld, hbFaults
  <2>3. CASE ClaimHeartbeat
    <3>1. due' \in BOOLEAN /\ hbQueued' \in BOOLEAN
      BY <1>1, <2>3 DEF ClaimHeartbeat, HbTypeOK
    <3>2. /\ slot < MaxSlots /\ slot' \in {slot, slot + 1}
          /\ claim' \in {claim, "ordinary"} /\ commands' = commands
      BY <1>1, <2>3 DEF ClaimHeartbeat, ClaimsAreOnce
    <3>. QED  BY <1>1, <2>1, <3>1, <3>2, HbFacts
  <2>4. CASE CommandHeartbeat
    BY <1>1, <2>1, <2>4, HbFacts DEF CommandHeartbeat
  <2>. QED  BY <2>2, <2>3, <2>4
<1>4. HbTypeOK'
  BY <1>1, <1>2, <1>3, TypesFollow DEF HbTypeOK, Beats, Bubbles, BeatRow, Stages, hbWorld, hbFaults
<1>5. ClaimIsAlive' /\ ClaimsAreOnce'
  BY <1>1, <1>2, HbFacts DEF ComesDue, ClaimHeartbeat, CommandHeartbeat, ClaimIsAlive, ClaimsAreOnce, hbFaults
<1>6. RowsMatch' /\ ToldIsHeld' /\ BubbleIsKept' /\ SpeaksInformed'
  BY <1>2 DEF HbCore, RowsMatch, ToldIsHeld, BubbleIsKept, SpeaksInformed, hbWorld, hbFaults
<1>. QED  BY <1>4, <1>5, <1>6 DEF HbCore

\* The worker takes the claim from the queue.
LEMMA TakeStep ==
  ASSUME HbCore, TakeHeartbeat
  PROVE  HbCore'
<1>1. HbTypeOK /\ ClaimIsAlive /\ ClaimsAreOnce
  BY DEF HbCore
<1>2. /\ up /\ hbQueued /\ ~hbQueued' /\ beat' = [NoBeat EXCEPT !.stage = "start"]
      /\ beat.stage = "none" /\ beat'.stage = "start" /\ ~beat'.effect
      /\ UNCHANGED <<slot, due, claim, commands, hbRows, hbWorld, bubble, hbFaults>>
  BY <1>1 DEF TakeHeartbeat, ClaimsAreOnce, NoBeat
<1>3. HbTypeOK'
  <2>1. beat' \in Beats'
    BY <1>1, <1>2, NoBeatFacts DEF Beats, hbWorld
  <2>2. hbQueued' \in BOOLEAN
    BY DEF TakeHeartbeat
  <2>. QED  BY <1>1, <1>2, <2>1, <2>2, TypesFollow DEF HbTypeOK, Bubbles, BeatRow, Stages, hbWorld, hbFaults
<1>4. ClaimIsAlive' /\ ClaimsAreOnce' /\ RowsMatch' /\ ToldIsHeld' /\ BubbleIsKept' /\ SpeaksInformed'
  BY <1>1, <1>2 DEF HbCore, ClaimIsAlive, ClaimsAreOnce, RowsMatch, ToldIsHeld, BubbleIsKept, SpeaksInformed,
                    AtWork, hbWorld, hbFaults
<1>. QED  BY <1>3, <1>4 DEF HbCore

\* A turn is over: its claim is released or cleared, and the rows and the bubble are
\* left in order.
LEMMA TurnIsOver ==
  ASSUME HbCore, up, beat.stage # "none", beat' = NoBeat, claim' = "none",
         slot' \in 0 .. MaxSlots, due' \in BOOLEAN, due' => slot' < MaxSlots,
         hbRows' \in [HbIds -> BeatRow], bubble' \in Bubbles,
         \A i \in HbIds : hbRows'[i].state = "none" => ~hbRows'[i].effect,
         bubble'.state = "pending" /\ bubble'.key = "none" =>
           hbRows'[bubble'.id].state = "running" /\ ~hbRows'[bubble'.id].effect,
         bubble'.state = "pending" /\ bubble'.key = "reconciliation" =>
           hbRows'[bubble'.id].state \notin {"none", "running"},
         bubble'.state = "pending" /\ bubble'.key # "reconciliation" => bubble'.told = events,
         UNCHANGED <<commands, hbQueued, hbWorld, hbFaults>>
  PROVE  HbCore'
<1>1. HbTypeOK /\ ClaimsAreOnce
  BY DEF HbCore
<1>2. beat' \in Beats' /\ bubble' \in Bubbles' /\ beat'.stage = "none"
  BY <1>1, NoBeatFacts DEF Beats, Bubbles, hbWorld
<1>3. HbTypeOK'
  BY <1>1, <1>2, TypesFollow DEF HbTypeOK, hbWorld, hbFaults
<1>4. ClaimIsAlive' /\ ClaimsAreOnce'
  BY <1>1, <1>2 DEF ClaimIsAlive, ClaimsAreOnce
<1>5. RowsMatch' /\ ToldIsHeld' /\ BubbleIsKept' /\ SpeaksInformed'
  BY <1>2 DEF RowsMatch, ToldIsHeld, BubbleIsKept, SpeaksInformed, AtWork, hbWorld
<1>. QED  BY <1>3, <1>4, <1>5 DEF HbCore

\* A claim is released for its slot.
LEMMA Releases ==
  ASSUME HbTypeOK, slot < MaxSlots, ReleaseClaim
  PROVE  slot' \in 0 .. MaxSlots /\ due' \in BOOLEAN /\ ~due' /\ claim' = "none"
<1>1. due' \in BOOLEAN /\ ~due' /\ claim' = "none" /\ slot' = slot + 1
  BY DEF ReleaseClaim
<1>2. slot' \in 0 .. MaxSlots
  BY <1>1, HbFacts
<1>. QED  BY <1>1, <1>2

\* Before its first round the turn has no bubble of its own.
LEMMA QuietStart ==
  ASSUME HbCore, up, beat.stage \notin AtWork
  PROVE  bubble.state = "pending" /\ bubble.key = "none" =>
           hbRows[bubble.id].state = "running" /\ ~hbRows[bubble.id].effect
BY DEF HbCore, BubbleIsKept

\* A turn that finds its row over, put off or in doubt.
LEMMA BeginsInVain ==
  ASSUME HbCore, BeginBeat, PutOff \/ OverAlready \/ ToReconcile
  PROVE  HbCore'
<1>1. HbTypeOK /\ ClaimsAreOnce /\ RowsMatch /\ BubbleIsKept /\ SpeaksInformed
  BY DEF HbCore
<1>2. /\ up /\ beat.stage = "start" /\ beat.stage \notin AtWork /\ beat' = NoBeat
      /\ UNCHANGED <<commands, hbQueued, hbWorld, bubble, hbFaults>>
  BY DEF BeginBeat, PutOff, OverAlready, ToReconcile, AtWork
<1>3. claim' = "none" /\ slot' \in 0 .. MaxSlots /\ due' \in BOOLEAN /\ (due' => slot' < MaxSlots)
  <2>1. CASE PutOff \/ ToReconcile
    BY <1>1, <2>1, Releases DEF PutOff, ToReconcile
  <2>2. CASE OverAlready
    BY <1>1, <2>2 DEF OverAlready, ClearClaim, HbTypeOK, ClaimsAreOnce
  <2>. QED  BY <2>1, <2>2
<1>4. bubble \in Bubbles /\ bubble.id \in HbIds /\ hbRows \in [HbIds -> BeatRow] /\ HbId \in HbIds
  BY <1>1, HbFacts, HbIdType DEF Bubbles
<1>5. CASE PutOff \/ OverAlready
  <2>1. hbRows' = hbRows /\ bubble' = bubble
    BY <1>2, <1>5 DEF PutOff, OverAlready
  <2>. QED  BY <1>1, <1>2, <1>3, <1>4, <2>1, QuietStart, TurnIsOver DEF RowsMatch, BubbleIsKept, SpeaksInformed
<1>6. CASE ToReconcile
  <2>1. /\ hbRows[HbId].state = "needs_reconciliation" \/ (hbRows[HbId].state = "running" /\ hbRows[HbId].effect)
        /\ hbRows' = [hbRows EXCEPT ![HbId].state = "needs_reconciliation"] /\ bubble' = bubble
    BY <1>2, <1>6 DEF ToReconcile
  <2>. DEFINE h == HbId
  <2>. HIDE DEF h
  <2>2. /\ hbRows' \in [HbIds -> BeatRow] /\ hbRows'[h].state = "needs_reconciliation"
        /\ \A i \in HbIds : i # h => hbRows'[i] = hbRows[i]
    BY <1>4, <2>1 DEF BeatRow, h
  <2>3. bubble.state = "pending" /\ bubble.key = "none" =>
           hbRows[bubble.id].state = "running" /\ ~hbRows[bubble.id].effect
    BY <1>2, QuietStart
  <2>4. bubble.state = "pending" /\ bubble.key = "none" => bubble.id # h
    BY <2>1, <2>3 DEF h
  <2>. QED  BY <1>1, <1>2, <1>3, <1>4, <2>1, <2>2, <2>3, <2>4, TurnIsOver DEF RowsMatch, BubbleIsKept, SpeaksInformed
<1>. QED  BY <1>5, <1>6

\* Where the turn is told of the conversation.
LEMMA Told ==
  ASSUME HbTypeOK, NEW b \in Beats
  PROVE  LET c == InformedBy(b) IN
         /\ c \in Beats /\ c.stage = "run" /\ c.id = b.id /\ (c.effect <=> b.effect)
         /\ c.held = events /\ (open = 0 => c.told = events)
<1>1. InTranscript \in 0 .. events /\ events \in 0 .. events /\ (open = 0 => InTranscript = events)
  BY HbFacts DEF InTranscript
<1>. DEFINE m == InTranscript
<1>2. [b EXCEPT !.stage = "run"] \in Beats
  BY DEF Beats, Stages
<1>. HIDE DEF m
<1>. DEFINE c == [b EXCEPT !.stage = "run", !.told = m, !.held = events]
<1>3. c \in Beats /\ c.stage = "run" /\ c.id = b.id /\ c.held = events /\ c.told = m
  BY <1>1, <1>2 DEF Beats, Stages, m
<1>4. c.effect <=> b.effect
  BY DEF Beats
<1>. QED  BY <1>1, <1>3, <1>4 DEF InformedBy, m

\* A turn begins, or again, with the transcript of now.
LEMMA BeginsStep ==
  ASSUME HbCore, BeginBeat, FirstOrAgain
  PROVE  HbCore'
<1>1. HbTypeOK /\ ClaimIsAlive /\ ClaimsAreOnce /\ RowsMatch /\ BubbleIsKept /\ SpeaksInformed
  BY DEF HbCore
<1>. DEFINE h == HbId  b == [beat EXCEPT !.id = h]
<1>2. /\ up /\ beat.stage = "start" /\ open = 0
      /\ hbRows[h].state = "none" \/ (hbRows[h].state = "running" /\ ~hbRows[h].effect)
      /\ hbRows' = [hbRows EXCEPT ![h].state = "running"] /\ beat' = InformedBy(b)
      /\ UNCHANGED <<claim, slot, due, commands, hbQueued, hbWorld, bubble, hbFaults>>
  BY <1>1, HbFacts DEF BeginBeat, FirstOrAgain, Busy
<1>3. h \in HbIds /\ beat \in Beats /\ hbRows \in [HbIds -> BeatRow] /\ bubble \in Bubbles
  BY <1>1, HbFacts, HbIdType
<1>. HIDE DEF h
<1>4. b \in Beats /\ b.id = h /\ (b.effect <=> beat.effect)
  BY <1>3 DEF Beats
<1>. HIDE DEF b
<1>5. /\ beat' \in Beats /\ beat'.stage = "run" /\ beat'.id = h /\ (beat'.effect <=> beat.effect)
      /\ beat'.told = beat'.held
  BY <1>1, <1>2, <1>4, Told
<1>6. /\ hbRows' \in [HbIds -> BeatRow] /\ hbRows'[h].state = "running"
      /\ \A i \in HbIds : hbRows'[i].effect <=> hbRows[i].effect
      /\ \A i \in HbIds : i # h => hbRows'[i] = hbRows[i]
  BY <1>2, <1>3 DEF BeatRow
<1>7. HbTypeOK'
  BY <1>1, <1>2, <1>3, <1>5, <1>6, TypesFollow DEF HbTypeOK, Beats, Bubbles, hbWorld, hbFaults
<1>8. ~hbRows[h].effect /\ ~beat.effect
  BY <1>1, <1>2, <1>3 DEF RowsMatch
<1>9. RowsMatch' /\ ToldIsHeld'
  <2>1. hbRows'[beat'.id].state = "running" /\ (hbRows'[beat'.id].effect <=> beat'.effect)
    BY <1>3, <1>5, <1>6, <1>8
  <2>2. \A i \in HbIds : hbRows'[i].state = "none" => ~hbRows'[i].effect
    BY <1>1, <1>6 DEF RowsMatch
  <2>. QED  BY <1>5, <2>1, <2>2 DEF RowsMatch, ToldIsHeld, AtWork
<1>10. BubbleIsKept' /\ SpeaksInformed'
  <2>1. bubble.id \in HbIds
    BY <1>3 DEF Bubbles
  <2>. QED  BY <1>1, <1>2, <1>3, <1>6, <2>1 DEF BubbleIsKept, SpeaksInformed, AtWork, hbWorld
<1>11. ClaimIsAlive' /\ ClaimsAreOnce'
  BY <1>1, <1>2, <1>5 DEF ClaimIsAlive, ClaimsAreOnce, hbFaults
<1>. QED  BY <1>7, <1>9, <1>10, <1>11 DEF HbCore

\* The turn goes on, parked or not: its claim, its row and its bubble are as they were.
LEMMA TurnGoesOn ==
  ASSUME HbCore, up, beat.stage \in AtWork, beat' \in Beats, beat'.stage \in AtWork,
         beat'.id = beat.id, beat'.effect <=> beat.effect,
         beat'.stage = "run" /\ open = 0 => beat'.told = beat'.held,
         UNCHANGED <<hbClaims, hbRows, hbWorld, bubble, hbFaults>>
  PROVE  HbCore'
<1>1. HbTypeOK'
  BY TypesFollow DEF HbCore, HbTypeOK, Beats, Bubbles, BeatRow, hbClaims, hbWorld, hbFaults
<1>2. ClaimIsAlive' /\ ClaimsAreOnce' /\ RowsMatch' /\ ToldIsHeld' /\ BubbleIsKept' /\ SpeaksInformed'
  BY DEF HbCore, ClaimIsAlive, ClaimsAreOnce, RowsMatch, ToldIsHeld, BubbleIsKept, SpeaksInformed,
         AtWork, hbClaims, hbWorld, hbFaults
<1>. QED  BY <1>1, <1>2 DEF HbCore

\* A turn is parked, woken and resumed with what happened meanwhile.
LEMMA ParkSteps ==
  ASSUME HbCore, ParkBeat \/ WakeBeat \/ ResumeBeat
  PROVE  HbCore'
<1>1. beat \in Beats /\ HbTypeOK
  BY HbFacts DEF HbCore
<1>2. CASE ParkBeat
  <2>1. [beat EXCEPT !.stage = "parked"] \in Beats
    BY <1>1 DEF Beats, Stages
  <2>2. /\ beat' \in Beats /\ beat'.stage = "parked" /\ beat'.id = beat.id
        /\ beat'.effect <=> beat.effect
    BY <1>1, <1>2 DEF ParkBeat, Beats, Stages
  <2>. QED  BY <1>2, <2>2, TurnGoesOn DEF ParkBeat, AtWork
<1>3. CASE WakeBeat
  <2>1. /\ beat' \in Beats /\ beat'.stage = "waking" /\ beat'.id = beat.id
        /\ beat'.effect <=> beat.effect
    BY <1>1, <1>3 DEF WakeBeat, Beats, Stages
  <2>. QED  BY <1>3, <2>1, TurnGoesOn DEF WakeBeat, AtWork
<1>4. CASE ResumeBeat
  <2>1. /\ beat' \in Beats /\ beat'.stage = "run" /\ beat'.id = beat.id
        /\ beat'.effect <=> beat.effect
        /\ open = 0 => beat'.told = beat'.held
    BY <1>1, <1>4, Told DEF ResumeBeat
  <2>. QED  BY <1>4, <2>1, TurnGoesOn DEF ResumeBeat, AtWork
<1>. QED  BY <1>2, <1>3, <1>4

\* What is decided with every message of the owner in sight.
LEMMA SpokenIsInformed ==
  ASSUME HbCore, beat.stage = "run", ContactAllowed, NEW key \in {"none", "chat"}
  PROVE  LET s == [state |-> "pending", told |-> beat.told, key |-> key, id |-> beat.id] IN
         s \in Bubbles /\ beat.told = events /\ beat.id \in HbIds
<1>1. beat \in Beats /\ open = 0
  BY HbFacts DEF HbCore, ContactAllowed, Busy
<1>2. beat.told = events
  BY <1>1 DEF HbCore, ToldIsHeld, ContactAllowed
<1>. QED  BY <1>1, <1>2 DEF Beats, Bubbles

\* It speaks only when it was told all that has happened.
LEMMA SpeakStep ==
  ASSUME HbCore, Speak
  PROVE  HbCore'
<1>1. /\ bubble' \in Bubbles /\ bubble'.told = events /\ bubble'.id = beat.id
      /\ bubble'.key = "none" /\ UNCHANGED <<hbClaims, beat, hbRows, hbWorld, hbFaults>>
  BY SpokenIsInformed DEF Speak
<1>2. HbTypeOK'
  BY <1>1, TypesFollow DEF HbCore, HbTypeOK, Beats, Bubbles, BeatRow, Stages, hbClaims, hbWorld, hbFaults
<1>3. BubbleIsKept'
  BY <1>1 DEF Speak, HbCore, BubbleIsKept, RowsMatch, AtWork
<1>4. SpeaksInformed'
  BY <1>1 DEF SpeaksInformed, hbWorld
<1>5. ClaimIsAlive' /\ ClaimsAreOnce' /\ RowsMatch' /\ ToldIsHeld'
  BY <1>1 DEF HbCore, ClaimIsAlive, ClaimsAreOnce, RowsMatch, ToldIsHeld, hbClaims, hbWorld, hbFaults
<1>. QED  BY <1>2, <1>3, <1>4, <1>5 DEF HbCore

\* An effect outside marks the turn and its row.
LEMMA ActStep ==
  ASSUME HbCore, ActOutside
  PROVE  HbCore'
<1>1. /\ up /\ beat.stage = "run" /\ beat \in Beats /\ beat.id \in HbIds /\ bubble \in Bubbles
      /\ hbRows \in [HbIds -> BeatRow] /\ bubble.id \in HbIds
      /\ UNCHANGED <<hbClaims, hbWorld, bubble, hbFaults>>
  BY HbFacts DEF HbCore, ActOutside, Beats, Bubbles
<1>2. /\ beat' \in Beats /\ beat'.stage = "run" /\ beat'.id = beat.id /\ beat'.effect
      /\ beat'.told = beat.told /\ beat'.held = beat.held
  BY <1>1 DEF ActOutside, Beats
<1>3. /\ hbRows' \in [HbIds -> BeatRow] /\ hbRows'[beat.id].effect
      /\ \A i \in HbIds : hbRows'[i].state = hbRows[i].state
      /\ \A i \in HbIds : i # beat.id => hbRows'[i] = hbRows[i]
  BY <1>1 DEF ActOutside, BeatRow
<1>4. HbTypeOK'
  BY <1>1, <1>2, <1>3, TypesFollow DEF HbCore, HbTypeOK, Beats, Bubbles, hbClaims, hbWorld, hbFaults
<1>5. RowsMatch' /\ BubbleIsKept'
  BY <1>1, <1>2, <1>3 DEF HbCore, RowsMatch, BubbleIsKept, AtWork
<1>6. ClaimIsAlive' /\ ClaimsAreOnce' /\ ToldIsHeld' /\ SpeaksInformed'
  BY <1>1, <1>2 DEF HbCore, ClaimIsAlive, ClaimsAreOnce, ToldIsHeld, SpeaksInformed, hbClaims, hbWorld, hbFaults
<1>. QED  BY <1>4, <1>5, <1>6 DEF HbCore

\* A turn that fails with no effect outside releases its claim.
LEMMA FailStep ==
  ASSUME HbCore, FailBeat
  PROVE  HbCore'
<1>1. /\ up /\ beat.stage = "run" /\ ~beat.effect /\ beat' = NoBeat
      /\ UNCHANGED <<commands, hbQueued, hbRows, hbWorld, bubble, hbFaults>>
  BY DEF FailBeat
<1>2. slot' \in 0 .. MaxSlots /\ due' \in BOOLEAN /\ ~due' /\ claim' = "none"
  BY Releases DEF FailBeat, HbCore
<1>3. bubble.state = "pending" /\ bubble.key = "none" =>
         hbRows[bubble.id].state = "running" /\ ~hbRows[bubble.id].effect
  BY <1>1 DEF HbCore, BubbleIsKept, RowsMatch, AtWork
<1>4. bubble \in Bubbles /\ hbRows \in [HbIds -> BeatRow]
  BY HbFacts DEF HbCore
<1>. QED  BY <1>1, <1>2, <1>3, <1>4, TurnIsOver DEF HbCore, RowsMatch, BubbleIsKept, SpeaksInformed

\* The claim is released after a failure that had acted outside.
LEMMA CloseStep ==
  ASSUME HbCore, CloseBeat
  PROVE  HbCore'
<1>1. /\ up /\ beat.stage = "closing" /\ beat' = NoBeat /\ beat.stage \notin AtWork
      /\ UNCHANGED <<commands, hbQueued, hbRows, hbWorld, bubble, hbFaults>>
  BY DEF CloseBeat, AtWork
<1>2. slot' \in 0 .. MaxSlots /\ due' \in BOOLEAN /\ ~due' /\ claim' = "none"
  BY Releases DEF CloseBeat, HbCore
<1>4. bubble \in Bubbles /\ hbRows \in [HbIds -> BeatRow]
  BY HbFacts DEF HbCore
<1>. QED  BY <1>1, <1>2, <1>4, QuietStart, TurnIsOver DEF HbCore, RowsMatch, BubbleIsKept, SpeaksInformed

\* Its row is completed and its bubble kept.
LEMMA CommitStep ==
  ASSUME HbCore, CommitBeat
  PROVE  HbCore'
<1>. DEFINE i0 == beat.id
<1>1. /\ up /\ beat.stage = "run" /\ beat' = NoBeat
      /\ hbRows' = [hbRows EXCEPT ![i0].state = "completed"]
      /\ UNCHANGED <<commands, hbQueued, hbWorld, hbFaults>>
  BY DEF CommitBeat
<1>2. slot' \in 0 .. MaxSlots /\ due' \in BOOLEAN /\ ~due' /\ claim' = "none"
  BY Releases DEF CommitBeat, HbCore
<1>3. /\ beat \in Beats /\ i0 \in HbIds /\ bubble \in Bubbles /\ hbRows \in [HbIds -> BeatRow]
      /\ bubble.id \in HbIds /\ hbRows[i0].state = "running"
  BY <1>1, HbFacts DEF HbCore, Beats, Bubbles, RowsMatch, AtWork
<1>4. /\ hbRows' \in [HbIds -> BeatRow] /\ hbRows'[i0].state = "completed"
      /\ \A i \in HbIds : i # i0 => hbRows'[i] = hbRows[i]
  BY <1>1, <1>3 DEF BeatRow
<1>5. bubble' \in Bubbles /\ bubble'.told \in 0 .. events
  <2>1. [bubble EXCEPT !.key = "chat"] \in Bubbles
    BY <1>3 DEF Bubbles
  <2>. QED  BY <1>1, <1>3, <2>1, SpokenIsInformed DEF CommitBeat, Bubbles
<1>6. CASE bubble.id = i0 /\ bubble' = [bubble EXCEPT !.key = "chat"]
  <2>1. /\ bubble'.key = "chat" /\ bubble'.state = bubble.state /\ bubble'.told = bubble.told
    BY <1>3, <1>6 DEF Bubbles
  <2>2. bubble.state = "pending" => bubble.key # "reconciliation"
    BY <1>3, <1>6 DEF HbCore, BubbleIsKept
  <2>. QED  BY <1>1, <1>2, <1>4, <1>5, <2>1, <2>2, TurnIsOver DEF HbCore, RowsMatch, SpeaksInformed
<1>7. CASE bubble.id # i0 /\ bubble' = bubble
  <2>1. bubble.state = "pending" /\ bubble.key = "none" =>
           hbRows[bubble.id].state = "running" /\ ~hbRows[bubble.id].effect
    BY <1>1, <1>7 DEF HbCore, BubbleIsKept
  <2>. QED
    BY <1>1, <1>2, <1>3, <1>4, <1>7, <2>1, TurnIsOver DEF HbCore, RowsMatch, BubbleIsKept, SpeaksInformed
<1>8. CASE /\ ContactAllowed
           /\ bubble' = [state |-> "pending", told |-> beat.told, key |-> "chat", id |-> beat.id]
  <2>1. bubble'.key = "chat" /\ bubble'.told = events
    BY <1>1, <1>8, SpokenIsInformed
  <2>. QED  BY <1>1, <1>2, <1>4, <1>5, <2>1, TurnIsOver DEF HbCore, RowsMatch
<1>. QED  BY <1>6, <1>7, <1>8 DEF CommitBeat

\* A turn that fails after an effect is committed with its notice.
LEMMA FailOutsideStep ==
  ASSUME HbCore, FailOutside
  PROVE  HbCore'
<1>. DEFINE i0 == beat.id
<1>1. /\ up /\ beat.stage = "run" /\ beat' = [beat EXCEPT !.stage = "closing"]
      /\ hbRows' = [hbRows EXCEPT ![i0].state = "completed"]
      /\ bubble' = IF bubble.id = i0 THEN [bubble EXCEPT !.key = "reconciliation"] ELSE bubble
      /\ UNCHANGED <<hbClaims, hbWorld, hbFaults>>
  BY DEF FailOutside
<1>3. /\ beat \in Beats /\ i0 \in HbIds /\ bubble \in Bubbles /\ hbRows \in [HbIds -> BeatRow]
      /\ bubble.id \in HbIds
  BY HbFacts DEF HbCore, Beats, Bubbles
<1>4. /\ hbRows' \in [HbIds -> BeatRow] /\ hbRows'[i0].state = "completed"
      /\ \A i \in HbIds : i # i0 => hbRows'[i] = hbRows[i]
  BY <1>1, <1>3 DEF BeatRow
<1>5. beat' \in Beats /\ beat'.stage = "closing"
  BY <1>1, <1>3 DEF Beats, Stages
<1>6. /\ bubble' \in Bubbles /\ bubble'.id = bubble.id /\ bubble'.state = bubble.state
      /\ bubble'.told = bubble.told
      /\ bubble'.key = IF bubble.id = i0 THEN "reconciliation" ELSE bubble.key
  BY <1>1, <1>3 DEF Bubbles
<1>7. HbTypeOK'
  BY <1>1, <1>4, <1>5, <1>6, TypesFollow DEF HbCore, HbTypeOK, Beats, Bubbles, hbClaims, hbWorld, hbFaults
<1>8. BubbleIsKept' /\ SpeaksInformed'
  BY <1>1, <1>3, <1>4, <1>6 DEF HbCore, BubbleIsKept, SpeaksInformed, hbWorld
<1>9. ClaimIsAlive' /\ ClaimsAreOnce' /\ RowsMatch' /\ ToldIsHeld'
  BY <1>1, <1>4, <1>5 DEF HbCore, ClaimIsAlive, ClaimsAreOnce, RowsMatch, ToldIsHeld, AtWork, hbClaims, hbFaults
<1>. QED  BY <1>7, <1>8, <1>9 DEF HbCore

\* What is withdrawn when the owner writes, a turn is stopped or the process starts.
LEMMA Withdrawn ==
  ASSUME HbCore
  PROVE  /\ Superseded(bubble) \in Bubbles
         /\ Superseded(bubble).state = "pending" =>
              Superseded(bubble) = bubble /\ bubble.key = "reconciliation"
<1>1. bubble \in Bubbles /\ NoBubble \in Bubbles /\ NoBubble.state = "none"
  BY HbFacts, NoBeatFacts DEF HbCore
<1>. QED  BY <1>1 DEF Superseded, HbCore, BubbleIsKept, Bubbles

\* A message of the owner withdraws a bubble not yet delivered.
LEMMA OwnerWritesStep ==
  ASSUME HbCore, OwnerWrites
  PROVE  HbCore'
<1>1. /\ up /\ events' = events + 1 /\ open' = open + 1 /\ events < MaxEvents
      /\ UNCHANGED <<hbClaims, hbRows, answering, quiet, quiets, hbFaults>>
  BY DEF OwnerWrites
<1>2. /\ beat \in Beats /\ hbRows \in [HbIds -> BeatRow] /\ events \in Nat /\ open \in 0 .. events
      /\ MaxEvents \in Nat /\ NoBubble \in Bubbles /\ NoBubble.state = "none"
  BY HbFacts, NoBeatFacts DEF HbCore
<1>3. 0 .. events \subseteq 0 .. events' /\ open' \in 0 .. events' /\ events' \in 0 .. MaxEvents /\ open' # 0
  BY <1>1, <1>2
<1>4. Beats \subseteq Beats' /\ Bubbles \subseteq Bubbles'
  BY <1>3 DEF Beats, Bubbles
<1>5. /\ beat' \in Beats' /\ beat'.stage = beat.stage /\ beat'.id = beat.id
      /\ beat'.effect <=> beat.effect
  <2>1. [beat EXCEPT !.asked = TRUE] \in Beats
    BY <1>2 DEF Beats
  <2>2. beat' \in Beats
    BY <1>2, <2>1 DEF OwnerWrites
  <2>. QED  BY <1>2, <1>4, <2>2 DEF OwnerWrites, Beats
<1>6. /\ bubble' \in Bubbles'
      /\ bubble'.state = "pending" => bubble' = bubble /\ bubble.key = "reconciliation"
  <2>1. bubble' = Superseded(bubble) \/ bubble' = NoBubble
    BY DEF OwnerWrites
  <2>. QED  BY <1>2, <1>4, <2>1, Withdrawn
<1>7. HbTypeOK'
  BY <1>1, <1>2, <1>3, <1>5, <1>6, TypesFollow DEF HbCore, HbTypeOK, hbClaims, hbFaults
<1>8. BubbleIsKept' /\ SpeaksInformed' /\ ToldIsHeld'
  BY <1>1, <1>3, <1>6 DEF HbCore, BubbleIsKept, SpeaksInformed, ToldIsHeld
<1>9. ClaimIsAlive' /\ ClaimsAreOnce' /\ RowsMatch'
  BY <1>1, <1>5 DEF HbCore, ClaimIsAlive, ClaimsAreOnce, RowsMatch, hbClaims, hbFaults
<1>. QED  BY <1>7, <1>8, <1>9 DEF HbCore

\* Owner turns, deliveries and quiet hours.
LEMMA WorldSteps ==
  ASSUME HbCore, OwnerTurn \/ ReplyDelivered \/ BubbleDelivered \/ QuietTurns
  PROVE  HbCore'
<1>1. /\ UNCHANGED <<hbClaims, beat, hbRows, events, hbFaults>>
      /\ bubble' = bubble \/ bubble' = NoBubble
      /\ open' = open \/ (open' = 0 /\ beat.stage \in {"none", "parked"})
  BY DEF OwnerTurn, ReplyDelivered, BubbleDelivered, QuietTurns, hbWorld
<1>2. answering' \in BOOLEAN /\ quiet' \in BOOLEAN
  BY DEF OwnerTurn, ReplyDelivered, BubbleDelivered, QuietTurns, HbCore, HbTypeOK, hbWorld
<1>3. NoBubble \in Bubbles /\ NoBubble.state = "none" /\ events \in Nat
  BY NoBeatFacts, HbFacts DEF HbCore
<1>4. HbTypeOK'
  BY <1>1, <1>2, <1>3, TypesFollow DEF HbCore, HbTypeOK, Beats, Bubbles, BeatRow, Stages, hbClaims, hbFaults
<1>5. ClaimIsAlive' /\ ClaimsAreOnce' /\ RowsMatch' /\ ToldIsHeld' /\ BubbleIsKept' /\ SpeaksInformed'
  BY <1>1, <1>3 DEF HbCore, ClaimIsAlive, ClaimsAreOnce, RowsMatch, ToldIsHeld, BubbleIsKept, SpeaksInformed,
                    AtWork, hbClaims, hbFaults
<1>. QED  BY <1>4, <1>5 DEF HbCore

\* The turn is stopped.
LEMMA StopStep ==
  ASSUME HbCore, StopBeat
  PROVE  HbCore'
<1>. DEFINE i0 == beat.id
<1>1. /\ up /\ ~up' /\ beat' = NoBeat /\ bubble' = Superseded(bubble)
      /\ hbRows' = hbRows \/ hbRows' = [hbRows EXCEPT ![i0].state = "cancelled"]
      /\ UNCHANGED <<hbClaims, hbWorld>>
  BY DEF StopBeat
<1>9. up' \in BOOLEAN
  BY DEF StopBeat
<1>2. /\ i0 \in HbIds /\ hbRows \in [HbIds -> BeatRow] /\ NoBeat \in Beats /\ NoBeat.stage = "none"
      /\ bubble \in Bubbles /\ bubble.id \in HbIds
  BY HbFacts, NoBeatFacts DEF HbCore, Beats, Bubbles
<1>3. /\ hbRows' \in [HbIds -> BeatRow]
      /\ \A i \in HbIds : hbRows'[i] = hbRows[i] \/ hbRows'[i].state = "cancelled"
  BY <1>1, <1>2 DEF BeatRow
<1>4. /\ bubble' \in Bubbles
      /\ bubble'.state = "pending" => bubble' = bubble /\ bubble.key = "reconciliation"
  BY <1>1, Withdrawn
<1>5. HbTypeOK'
  BY <1>1, <1>2, <1>3, <1>4, <1>9, TypesFollow DEF HbCore, HbTypeOK, Beats, Bubbles, hbClaims, hbWorld
<1>6. ClaimIsAlive' /\ ClaimsAreOnce' /\ ToldIsHeld'
  BY <1>1, <1>2 DEF HbCore, ClaimIsAlive, ClaimsAreOnce, ToldIsHeld, hbClaims
<1>7. RowsMatch'
  BY <1>1, <1>2, <1>3 DEF HbCore, RowsMatch, AtWork
<1>8. BubbleIsKept' /\ SpeaksInformed'
  BY <1>2, <1>3, <1>4 DEF HbCore, BubbleIsKept, SpeaksInformed
<1>. QED  BY <1>5, <1>6, <1>7, <1>8 DEF HbCore

\* A crash and a restart.
LEMMA CrashSteps ==
  ASSUME HbCore, HbCrash \/ HbRestart
  PROVE  HbCore'
<1>1. NoBeat \in Beats /\ NoBeat.stage = "none" /\ HbTypeOK
  BY NoBeatFacts DEF HbCore
<1>2. CASE HbCrash
  <2>1. ~up' /\ beat' = NoBeat /\ UNCHANGED <<hbClaims, hbRows, hbWorld, bubble>>
    BY <1>2 DEF HbCrash
  <2>4. up' \in BOOLEAN
    BY <1>2 DEF HbCrash
  <2>2. HbTypeOK'
    BY <1>1, <2>1, <2>4, TypesFollow DEF HbTypeOK, Beats, Bubbles, BeatRow, Stages, hbClaims, hbWorld
  <2>3. ClaimIsAlive' /\ ClaimsAreOnce' /\ RowsMatch' /\ ToldIsHeld' /\ BubbleIsKept' /\ SpeaksInformed'
    BY <1>1, <2>1 DEF HbCore, ClaimIsAlive, ClaimsAreOnce, RowsMatch, ToldIsHeld, BubbleIsKept,
                      SpeaksInformed, AtWork, hbClaims, hbWorld
  <2>. QED  BY <2>2, <2>3 DEF HbCore
<1>3. CASE HbRestart
  <2>1. /\ ~up /\ up' /\ claim' = "none" /\ ~hbQueued' /\ bubble' = Superseded(bubble)
        /\ up' \in BOOLEAN /\ hbQueued' \in BOOLEAN
        /\ UNCHANGED <<slot, due, commands, beat, hbRows, hbWorld>>
    BY <1>3 DEF HbRestart
  <2>2. /\ bubble' \in Bubbles
        /\ bubble'.state = "pending" => bubble' = bubble /\ bubble.key = "reconciliation"
    BY <2>1, Withdrawn
  <2>3. HbTypeOK'
    BY <1>1, <2>1, <2>2, TypesFollow DEF HbTypeOK, Beats, Bubbles, BeatRow, Stages, hbWorld
  <2>4. ClaimIsAlive' /\ ClaimsAreOnce' /\ RowsMatch' /\ ToldIsHeld'
    BY <2>1 DEF HbCore, ClaimIsAlive, ClaimsAreOnce, RowsMatch, ToldIsHeld, hbWorld
  <2>5. BubbleIsKept' /\ SpeaksInformed'
    BY <2>1, <2>2 DEF HbCore, BubbleIsKept, SpeaksInformed
  <2>. QED  BY <2>3, <2>4, <2>5 DEF HbCore
<1>. QED  BY <1>2, <1>3

\* At first there is no turn and no bubble.
LEMMA HbStarts == HbInit => HbCore
<1>. SUFFICES ASSUME HbInit  PROVE HbCore
  OBVIOUS
<1>1. <<"slot", 0>> \in HbIds /\ {MaxSlots, MaxCommands, MaxEvents} \subseteq Nat
  BY HeartbeatBounds DEF HbIds
<1>2. HbTypeOK
  <2>1. {up, due, hbQueued, answering, quiet} \subseteq BOOLEAN
    BY DEF HbInit
  <2>2. /\ slot \in 0 .. MaxSlots /\ claim \in {"none", "ordinary", "manual"}
        /\ commands \in 0 .. MaxCommands /\ events \in 0 .. MaxEvents /\ open \in 0 .. events
    BY <1>1 DEF HbInit
  <2>3. /\ events = 0 /\ beat = NoBeat /\ bubble = NoBubble
        /\ hbRows = [i \in HbIds |-> [state |-> "none", effect |-> FALSE]]
    BY DEF HbInit
  <2>4. /\ beat \in Beats /\ bubble \in Bubbles
        /\ hbRows \in [HbIds -> BeatRow]
    BY <1>1, <2>3 DEF NoBeat, NoBubble, Beats, Bubbles, BeatRow, Stages
  <2>. QED  BY <2>1, <2>2, <2>4 DEF HbTypeOK, Beats, Bubbles, BeatRow, Stages
<1>3. ClaimIsAlive /\ ClaimsAreOnce /\ RowsMatch /\ ToldIsHeld /\ BubbleIsKept /\ SpeaksInformed
  BY <1>1 DEF HbInit, NoBeat, NoBubble, ClaimIsAlive, ClaimsAreOnce, RowsMatch, ToldIsHeld, BubbleIsKept,
              SpeaksInformed, AtWork
<1>. QED  BY <1>2, <1>3 DEF HbCore

\* HbCore is inductive.
LEMMA HbNextStep ==
  ASSUME HbCore, [HbNext]_hbVars
  PROVE  HbCore'
<1>1. CASE UNCHANGED hbVars
  BY <1>1 DEF hbVars, HbCore, HbTypeOK, ClaimIsAlive, ClaimsAreOnce, RowsMatch, ToldIsHeld, BubbleIsKept,
            SpeaksInformed
<1>2. CASE BeginBeat
  BY <1>2, BeginsInVain, BeginsStep DEF BeginBeat
<1>3. CASE HbNext /\ ~BeginBeat
  BY <1>3, ScheduleSteps, TakeStep, ParkSteps, SpeakStep, ActStep, FailStep, CloseStep, CommitStep,
     FailOutsideStep, OwnerWritesStep, WorldSteps, StopStep, CrashSteps DEF HbNext, HbWork, HbEnds
<1>. QED  BY <1>1, <1>2, <1>3

\* In every reachable state the claim, the turn, its row and its bubble of a heartbeat
\* agree (heartbeat.py, autonomy.py).
THEOREM HbIsInvariant == HbSpec => []HbCore
<1>1. HbCore /\ [HbNext]_hbVars => HbCore'
  BY HbNextStep
<1>. QED  BY <1>1, HbStarts, PTL DEF HbSpec

\* A bubble that waits to be sent was decided with every message of the owner in sight,
\* through parking, retries and restarts; a notice of a failure is excepted.
THEOREM HeartbeatSpeaksInformed == HbSpec => []SpeaksInformed
<1>1. HbCore => SpeaksInformed
  BY DEF HbCore
<1>. QED  BY <1>1, HbIsInvariant, PTL

-----------------------------------------------------------------------------

USE DEF PerDay, DateOf, DaySlot, Ended, NotYet, Daily, Weekly, NoOne, NoDay, HoldsUp

\* Days and weeks.
WeekOfDay(d) == d \div DaysPerWeek

\* One week at a time is claimed, it is over, and its last day was reviewed in its slot.
OneOpenWeek ==
  \A v, w \in Weeks :
    weekly[v].state \in {"pending", "running"} /\ weekly[w].state \in {"pending", "running"} => v = w
WeekHasEnded ==
  \A w \in Weeks : weekly[w].state # "none" => w <= WeekOfDay(DateOf(clock))
LastDayDone ==
  \A w \in Weeks : weekly[w].state # "none" /\ Ended(clock) \in DaysOf(w) =>
    /\ daily[Ended(clock)].state = "completed"
    /\ daily[Ended(clock)].sched >= DaySlot(Ended(clock))

ReflInv == /\ ReflTypeOK /\ ClaimHasJob /\ OneOpenWeek /\ WeekHasEnded /\ LastDayDone
           /\ FrozenWeekStands

\* What division by a positive number is.
LEMMA DivBy ==
  ASSUME NEW a \in Nat, NEW n \in Nat \ {0}
  PROVE  a \div n \in Nat /\ n * (a \div n) <= a /\ a < n * (a \div n) + n
OBVIOUS

\* Later days are of later weeks.
LEMMA DivGrows ==
  ASSUME NEW a \in Nat, NEW b \in Nat, a <= b
  PROVE  /\ WeekOfDay(a) \in Nat /\ WeekOfDay(b) \in Nat
         /\ WeekOfDay(a) <= WeekOfDay(b)
<1>. DEFINE n == DaysPerWeek  p == a \div n  q == b \div n
<1>1. n \in Nat \ {0}
  BY ReflectionScope
<1>2. p \in Nat /\ q \in Nat /\ n * p <= a /\ b < n * q + n
  BY <1>1, DivBy
<1>. HIDE DEF n, p, q
<1>3. p <= q
  <2>1. SUFFICES ASSUME p >= q + 1  PROVE FALSE
    BY <1>2
  <2>2. \A x, y \in Nat : x >= y => n * x >= n * y
    BY <1>1
  <2>3. n * p >= n * (q + 1)
    BY <1>2, <2>1, <2>2
  <2>4. n * (q + 1) = n * q + n /\ n * p \in Nat /\ n * q \in Nat
    BY <1>1, <1>2
  <2>. QED  BY <1>1, <1>2, <2>3, <2>4
<1>. QED  BY <1>2, <1>3 DEF WeekOfDay, n, p, q

\* The day that has ended, its slot and its week.
LEMMA Calendar ==
  ASSUME NEW t \in Moments
  PROVE  /\ t \in Nat /\ t >= PerDay /\ DateOf(t) \in Days /\ Ended(t) \in Days
         /\ DaySlot(Ended(t)) <= t /\ WeekOf(t) \in Weeks
         /\ WeekOf(t) <= WeekOfDay(DateOf(t)) /\ DateOf(t) = Ended(t) + 1
<1>1. MaxDate \in Nat \ {0} /\ DaysPerWeek \in Nat \ {0}
  BY ReflectionScope
<1>2. /\ t \in Nat /\ t >= 3 /\ t \div 3 \in 1 .. MaxDate /\ (t - 1) \div 3 \in Nat
      /\ (t - 1) \div 3 <= t \div 3 /\ (t \div 3) * 3 <= t
  BY <1>1 DEF Moments
<1>3. /\ WeekOfDay((t - 1) \div 3) <= WeekOfDay(t \div 3) /\ WeekOfDay(t \div 3) <= WeekOfDay(MaxDate)
      /\ WeekOfDay((t - 1) \div 3) \in Nat /\ WeekOfDay(t \div 3) \in Nat /\ WeekOfDay(MaxDate) \in Nat
  BY <1>1, <1>2, DivGrows
<1>4. WeekOf(t) = WeekOfDay((t - 1) \div 3) /\ WeekOfDay(MaxDate) = MaxDate \div DaysPerWeek
  BY DEF WeekOf, WeekOfDay
<1>5. t \div 3 \in Days /\ t \div 3 - 1 \in Days
  BY <1>1, <1>2 DEF Days
<1>6. WeekOf(t) \in Weeks /\ WeekOf(t) <= WeekOfDay(t \div 3)
  BY <1>3, <1>4 DEF Weeks
<1>. QED  BY <1>2, <1>5, <1>6
\* A day of a frozen week is not among those the scheduler, the worker or /reflect touch.
LEMMA FrozenDays ==
  ASSUME ReflInv, NEW w \in Weeks, weekly[w].state # "none", NEW d \in DaysOf(w)
  PROVE  /\ d \in Days /\ daily[d].state # "running" /\ d # DateOf(clock)
         /\ d = Ended(clock) => Slotted(daily[d], DaySlot(d)) = daily[d] /\ ~DailyIsDue
<1>1. d \in Days /\ daily[d].state \in {"none", "completed"} /\ WeekOfDay(d) = w - 1 /\ w \in Int
  BY DEF ReflInv, FrozenWeekStands, DaysOf, WeekOfDay, Weeks
<1>2. d # DateOf(clock)
  BY <1>1 DEF ReflInv, WeekHasEnded, Weeks
<1>3. ASSUME d = Ended(clock)
      PROVE  Slotted(daily[d], DaySlot(d)) = daily[d] /\ ~DailyIsDue
  <2>1. daily[d].state = "completed" /\ daily[d].sched >= DaySlot(d)
    BY <1>3 DEF ReflInv, LastDayDone
  <2>2. daily[d].sched \in Int /\ DaySlot(d) \in Int
    BY <1>1 DEF ReflInv, ReflTypeOK, Days
  <2>3. Slotted(daily[d], DaySlot(d)) = daily[d]
    BY <2>1, <2>2 DEF Slotted
  <2>. QED  BY <1>3, <2>1, <2>3 DEF DailyIsDue, DueDay
<1>. QED  BY <1>1, <1>2, <1>3

\* The snapshot of a week depends on its days only.
LEMMA SnapshotStays ==
  ASSUME ReflInv, NEW w \in Weeks,
         \A d \in DaysOf(w) : daily'[d] = daily[d]
  PROVE  Snapshot(w)' = Snapshot(w)
BY DEF Snapshot, DaysOf

\* A claimed day is of no claimed week.
LEMMA ClaimDailyStep ==
  ASSUME ReflInv, ClaimDaily
  PROVE  ReflInv'
<1>. DEFINE d == Ended(clock)  r == Slotted(daily[d], DaySlot(d))
<1>1. /\ clock \in Nat /\ d \in Days /\ DaySlot(d) \in 0 .. clock
  <2>1. clock \in Moments
    BY DEF ReflInv, ReflTypeOK
  <2>2. clock \in Nat /\ d \in Days /\ DaySlot(d) <= clock
    BY <2>1, Calendar
  <2>. QED  BY <2>2 DEF Days
<1>2. r \in [state : States, sched : 0 .. clock, retry : 0 .. clock + 1]
  <2>1. daily[d] \in [state : States, sched : 0 .. clock, retry : 0 .. clock + 1]
    BY <1>1 DEF ReflInv, ReflTypeOK
  <2>. DEFINE hour == DaySlot(d)
  <2>2. hour \in 0 .. clock /\ r = Slotted(daily[d], hour)
    BY <1>1
  <2>. HIDE DEF hour, r
  <2>. QED  BY <1>1, <2>1, <2>2 DEF Slotted, States
<1>3. DailyIsDue /\ r.state = "pending" /\ daily[d].state # "running"
  BY DEF ClaimDaily, DailyIsDue, DueDay, Slotted
<1>4. /\ daily' = [daily EXCEPT ![d] = [r EXCEPT !.state = "running"]]
      /\ reviews' = reviews \cup {Daily(d)}
      /\ UNCHANGED <<clock, weekly, reviewing, manuals, mishaps, outages>>
  BY <1>1 DEF ClaimDaily, ReflInv, ReflTypeOK
<1>. HIDE DEF r, d
<1>5. ReflTypeOK'
  <2>1. [r EXCEPT !.state = "running"] \in [state : States, sched : 0 .. clock, retry : 0 .. clock + 1]
    BY <1>2 DEF States
  <2>. QED  BY <1>1, <1>4, <2>1 DEF ReflInv, ReflTypeOK
<1>6. ClaimHasJob'
  BY <1>1, <1>2, <1>3, <1>4 DEF ReflInv, ReflTypeOK, ClaimHasJob
<1>7. OneOpenWeek' /\ WeekHasEnded'
  BY <1>4 DEF ReflInv, OneOpenWeek, WeekHasEnded
<1>8. \A w \in Weeks : weekly[w].state # "none" => d \notin DaysOf(w)
  BY <1>3, FrozenDays DEF d
<1>9. LastDayDone'
  BY <1>4, <1>8 DEF ReflInv, LastDayDone, d
<1>10. FrozenWeekStands'
  BY <1>1, <1>4, <1>8, SnapshotStays DEF ReflInv, ReflTypeOK, FrozenWeekStands
<1>. QED  BY <1>5, <1>6, <1>7, <1>9, <1>10 DEF ReflInv

\* The week to claim next.
LEMMA NextWeekFacts ==
  ASSUME ReflInv
  PROVE  /\ NextWeek \in Weeks
         /\ weekly[NextWeek].state \notin {"pending"} => NextWeek = WeekOf(clock)
         /\ \A v \in Weeks : weekly[v].state = "pending" => NextWeek = v
<1>. DEFINE waiting == {w \in Weeks : weekly[w].state = "pending"}
<1>1. WeekOf(clock) \in Weeks
  BY Calendar DEF ReflInv, ReflTypeOK
<1>2. CASE waiting = {}
  BY <1>1, <1>2 DEF NextWeek
<1>3. CASE waiting # {}
  <2>1. PICK v \in Weeks : waiting = {v}
    BY <1>3 DEF ReflInv, OneOpenWeek
  <2>2. v <= v
    BY DEF Weeks
  <2>3. NextWeek = v
    BY <1>3, <2>1, <2>2 DEF NextWeek
  <2>. QED  BY <2>1, <2>3
<1>. QED  BY <1>2, <1>3

\* A snapshot is of its type.
LEMMA SnapshotType ==
  ASSUME ReflTypeOK, NEW w \in Weeks
  PROVE  Snapshot(w) \in [Days -> 0 .. clock]
<1>1. clock \in Nat /\ \A d \in Days : daily[d].sched \in 0 .. clock
  BY Calendar DEF ReflTypeOK
<1>. QED  BY <1>1 DEF Snapshot

\* A week is claimed when its days are done.
LEMMA ClaimWeeklyStep ==
  ASSUME ReflInv, ClaimWeekly
  PROVE  ReflInv'
<1>. DEFINE w == NextWeek
<1>1. /\ w \in Weeks /\ weekly[w].state \in {"none", "pending"}
      /\ \A v \in Weeks : weekly[v].state # "running"
      /\ \A v \in Weeks : weekly[v].state = "pending" => w = v
      /\ weekly[w].state = "none" => w = WeekOf(clock)
      /\ \A d \in DaysOf(w) : daily[d].state \notin {"pending", "running"}
      /\ ~DailyIsDue
  BY NextWeekFacts DEF ClaimWeekly, WeekIsDue
<1>2. /\ weekly' = [weekly EXCEPT ![w].state = "running",
                                  ![w].days = IF weekly[w].state = "none" THEN Snapshot(w) ELSE @]
      /\ reviews' = reviews \cup {Weekly(w)}
      /\ UNCHANGED <<clock, daily, reviewing, manuals, mishaps, outages>>
  BY <1>1 DEF ClaimWeekly, ReflInv, ReflTypeOK
<1>. HIDE DEF w
<1>3. /\ weekly[w] \in [state : States, retry : 0 .. clock + 1, days : [Days -> 0 .. clock]]
      /\ Snapshot(w) \in [Days -> 0 .. clock]
  BY <1>1, SnapshotType DEF ReflInv, ReflTypeOK
<1>4. /\ weekly'[w].state = "running" /\ weekly'[w].retry = weekly[w].retry
      /\ weekly'[w].days = IF weekly[w].state = "none" THEN Snapshot(w) ELSE weekly[w].days
      /\ weekly'[w] \in [state : States, retry : 0 .. clock + 1, days : [Days -> 0 .. clock]]
      /\ \A v \in Weeks : v # w => weekly'[v] = weekly[v]
      /\ weekly' = [v \in Weeks |-> weekly'[v]]
  BY <1>1, <1>2, <1>3 DEF States, ReflInv, ReflTypeOK
<1>5. ReflTypeOK'
  <2>1. weekly' \in [Weeks -> [state : States, retry : 0 .. clock + 1, days : [Days -> 0 .. clock]]]
    BY <1>4 DEF ReflInv, ReflTypeOK
  <2>. QED  BY <1>1, <1>2, <2>1 DEF ReflInv, ReflTypeOK
<1>6. ClaimHasJob'
  BY <1>1, <1>2, <1>4 DEF ReflInv, ReflTypeOK, ClaimHasJob
<1>7. OneOpenWeek'
  BY <1>1, <1>4 DEF ReflInv, ReflTypeOK, OneOpenWeek, States
<1>8. clock \in Moments /\ w \in Nat
  BY <1>1 DEF ReflInv, ReflTypeOK, Weeks
<1>9. WeekHasEnded'
  BY <1>1, <1>2, <1>4, <1>8, Calendar DEF ReflInv, WeekHasEnded
<1>10. weekly[w].state = "none" /\ Ended(clock) \in DaysOf(w) =>
         /\ daily[Ended(clock)].state = "completed"
         /\ daily[Ended(clock)].sched >= DaySlot(Ended(clock))
  <2>. DEFINE d == Ended(clock)  hour == DaySlot(d)
  <2>1. d \in Days /\ clock \in Nat /\ hour <= clock /\ hour \in Int
    BY <1>8, Calendar DEF Days
  <2>2. daily[d] \in [state : States, sched : 0 .. clock, retry : 0 .. clock + 1]
    BY <2>1 DEF ReflInv, ReflTypeOK
  <2>3. ~DueDay(Slotted(daily[d], hour))
    BY <1>1 DEF DailyIsDue
  <2>. HIDE DEF d, hour
  <2>4. Slotted(daily[d], hour) = daily[d] /\ daily[d].state # "none"
    BY <2>1, <2>2, <2>3 DEF Slotted, DueDay
  <2>5. daily[d].sched >= hour \/ daily[d].state = "running"
    BY <2>1, <2>2, <2>3 DEF Slotted, DueDay
  <2>. QED  BY <1>1, <2>2, <2>4, <2>5 DEF States, d, hour
<1>11. LastDayDone'
  BY <1>1, <1>2, <1>4, <1>10 DEF ReflInv, LastDayDone
<1>12. \A v \in Weeks : Snapshot(v)' = Snapshot(v)
  BY <1>2 DEF Snapshot
<1>13. \A d \in DaysOf(w) : daily[d].state \in {"none", "completed"}
  BY <1>1 DEF ReflInv, ReflTypeOK, DaysOf, States
<1>14. FrozenWeekStands'
  <2>1. SUFFICES ASSUME NEW v \in Weeks, weekly'[v].state # "none"
                 PROVE  /\ \A d \in DaysOf(v) : daily'[d].state \in {"none", "completed"}
                        /\ weekly'[v].days = Snapshot(v)'
    BY DEF FrozenWeekStands
  <2>2. Snapshot(v)' = Snapshot(v) /\ daily' = daily
    BY <1>2, <1>12
  <2>3. CASE v # w
    BY <1>4, <2>1, <2>2, <2>3 DEF ReflInv, FrozenWeekStands
  <2>4. CASE v = w /\ weekly[w].state = "none"
    BY <1>4, <1>13, <2>2, <2>4
  <2>5. CASE v = w /\ weekly[w].state # "none"
    BY <1>4, <1>13, <2>2, <2>5 DEF ReflInv, FrozenWeekStands
  <2>. QED  BY <2>3, <2>4, <2>5
<1>. QED  BY <1>5, <1>6, <1>7, <1>9, <1>11, <1>14 DEF ReflInv

\* The worker takes a review.
LEMMA ReflectStep ==
  ASSUME ReflInv, Reflect
  PROVE  ReflInv'
<1>. DEFINE d == DateOf(clock)
<1>1. /\ d \in Days /\ clock \in Nat /\ daily[d].state # "running"
      /\ daily' = [daily EXCEPT ![d] = [state |-> "running", sched |-> clock, retry |-> NotYet]]
      /\ reviews' = reviews \cup {Daily(d)} /\ UNCHANGED <<clock, weekly, reviewing>>
  BY Calendar DEF Reflect, ReflInv, ReflTypeOK
<1>2. \A w \in Weeks : weekly[w].state # "none" => d \notin DaysOf(w)
  BY FrozenDays
<1>3. ReflTypeOK'
  BY <1>1 DEF ReflInv, ReflTypeOK, States
<1>4. d # Ended(clock)
  BY <1>1 DEF Days
<1>. HIDE DEF d
<1>5. ClaimHasJob' /\ OneOpenWeek' /\ WeekHasEnded'
  BY <1>1 DEF ReflInv, ReflTypeOK, ClaimHasJob, OneOpenWeek, WeekHasEnded
<1>6. LastDayDone'
  BY <1>1, <1>4 DEF ReflInv, ReflTypeOK, LastDayDone
<1>7. FrozenWeekStands'
  <2>1. weekly' = weekly /\ \A e \in Days : e # d => daily'[e] = daily[e]
    BY <1>1 DEF ReflInv, ReflTypeOK
  <2>. QED  BY <1>2, <2>1, SnapshotStays DEF ReflInv, FrozenWeekStands, DaysOf
<1>. QED  BY <1>3, <1>5, <1>6, <1>7 DEF ReflInv

\* A review begins.
LEMMA BeginReviewStep ==
  ASSUME ReflInv, BeginReview
  PROVE  ReflInv'
<1>1. ReflTypeOK' /\ OneOpenWeek' /\ WeekHasEnded' /\ LastDayDone'
  BY DEF BeginReview, ReflInv, ReflTypeOK, OneOpenWeek, WeekHasEnded, LastDayDone
<1>2. ClaimHasJob'
  BY DEF BeginReview, ReflInv, ReflTypeOK, ClaimHasJob
<1>3. FrozenWeekStands'
  BY DEF BeginReview, ReflInv, FrozenWeekStands, Snapshot
<1>. QED  BY <1>1, <1>2, <1>3 DEF ReflInv

\* The worker's turn ends: its day or its week is completed or waits for another try.
LEMMA DayEnds ==
  ASSUME ReflInv, NEW d \in Days, reviewing = Daily(d), NEW st \in {"completed", "pending"},
         NEW at \in 0 .. clock + 1,
         daily' = [daily EXCEPT ![d].state = st, ![d].retry = at],
         reviewing' = NoOne, UNCHANGED <<clock, weekly, reviews>>
  PROVE  ReflInv'
<1>1. daily[d].state = "running" /\ Daily(d) \notin reviews
  BY DEF ReflInv, ClaimHasJob
<1>2. \A w \in Weeks : weekly[w].state # "none" => d \notin DaysOf(w)
  BY <1>1, FrozenDays
<1>3. /\ daily'[d].state = st /\ \A e \in Days : e # d => daily'[e] = daily[e]
      /\ daily' \in [Days -> [state : States, sched : 0 .. clock, retry : 0 .. clock + 1]]
  <2>1. daily[d] \in [state : States, sched : 0 .. clock, retry : 0 .. clock + 1]
    BY DEF ReflInv, ReflTypeOK
  <2>2. [daily[d] EXCEPT !.state = st, !.retry = at]
          \in [state : States, sched : 0 .. clock, retry : 0 .. clock + 1]
    BY <2>1 DEF States
  <2>3. daily' = [daily EXCEPT ![d] = [daily[d] EXCEPT !.state = st, !.retry = at]]
    BY DEF ReflInv, ReflTypeOK
  <2>. QED  BY <2>1, <2>2, <2>3 DEF ReflInv, ReflTypeOK
<1>4. ReflTypeOK'
  BY <1>3 DEF ReflInv, ReflTypeOK
<1>5. ClaimHasJob'
  <2>1. \A e \in Days : daily'[e].state = "running" <=> e # d /\ daily[e].state = "running"
    BY <1>1, <1>3
  <2>2. \A w \in Weeks : Weekly(w) # Daily(d) /\ Weekly(w) # NoOne
    OBVIOUS
  <2>3. NoOne \notin reviews'
    BY DEF ReflInv, ReflTypeOK
  <2>4. \A e \in Days : Daily(e) \in reviews' \cup {reviewing'} <=>
                         e # d /\ Daily(e) \in reviews \cup {reviewing}
    BY <1>1
  <2>. QED  BY <2>1, <2>2, <2>3, <2>4 DEF ReflInv, ClaimHasJob
<1>7. OneOpenWeek' /\ WeekHasEnded'
  BY DEF ReflInv, OneOpenWeek, WeekHasEnded
<1>6. LastDayDone' /\ FrozenWeekStands'
  BY <1>2, <1>3, SnapshotStays DEF ReflInv, LastDayDone, FrozenWeekStands, DaysOf
<1>. QED  BY <1>4, <1>5, <1>6, <1>7 DEF ReflInv

\* A week that ends keeps its snapshot.
LEMMA WeekEnds ==
  ASSUME ReflInv, NEW w \in Weeks, reviewing = Weekly(w), NEW st \in {"completed", "pending"},
         NEW at \in 0 .. clock + 1,
         weekly' = [weekly EXCEPT ![w].state = st, ![w].retry = at],
         reviewing' = NoOne, UNCHANGED <<clock, daily, reviews>>
  PROVE  ReflInv'
<1>1. weekly[w].state = "running" /\ Weekly(w) \notin reviews
  BY DEF ReflInv, ClaimHasJob
<1>2. /\ weekly'[w].state = st /\ weekly'[w].days = weekly[w].days
      /\ \A v \in Weeks : v # w => weekly'[v] = weekly[v]
      /\ weekly' \in [Weeks -> [state : States, retry : 0 .. clock + 1, days : [Days -> 0 .. clock]]]
  BY DEF ReflInv, ReflTypeOK, States
<1>3. ReflTypeOK'
  BY <1>2 DEF ReflInv, ReflTypeOK
<1>4. ClaimHasJob'
  <2>1. \A v \in Weeks : weekly'[v].state = "running" <=> v # w /\ weekly[v].state = "running"
    BY <1>1, <1>2
  <2>2. \A e \in Days : Daily(e) # Weekly(w) /\ Daily(e) # NoOne
    OBVIOUS
  <2>3. NoOne \notin reviews'
    BY DEF ReflInv, ReflTypeOK
  <2>4. \A v \in Weeks : Weekly(v) \in reviews' \cup {reviewing'} <=>
                          v # w /\ Weekly(v) \in reviews \cup {reviewing}
    BY <1>1
  <2>. QED  BY <2>1, <2>2, <2>3, <2>4 DEF ReflInv, ClaimHasJob
<1>7. OneOpenWeek' /\ WeekHasEnded'
  BY <1>1, <1>2 DEF ReflInv, OneOpenWeek, WeekHasEnded
<1>5. \A v \in Weeks : Snapshot(v)' = Snapshot(v)
  BY DEF Snapshot
<1>6. LastDayDone' /\ FrozenWeekStands'
  BY <1>1, <1>2, <1>5 DEF ReflInv, LastDayDone, FrozenWeekStands
<1>. QED  BY <1>3, <1>4, <1>6, <1>7 DEF ReflInv

\* A review is committed or given up.
LEMMA ReviewEndsStep ==
  ASSUME ReflInv, CommitReview \/ GiveUpReview
  PROVE  ReflInv'
<1>1. clock + 1 \in 0 .. clock + 1 /\ NotYet \in 0 .. clock + 1
  BY Calendar DEF ReflInv, ReflTypeOK
<1>. QED  BY <1>1, DayEnds, WeekEnds DEF CommitReview, GiveUpReview

\* Time passes, in the process or while it is away.
LEMMA TimeStep ==
  ASSUME ReflInv, NEW t \in Moments, t >= clock, clock' = t,
         \A d \in Days : daily'[d].state = "completed" <=> daily[d].state = "completed",
         \A d \in Days : daily'[d].sched = daily[d].sched,
         \A d \in Days : daily'[d].state = "none" <=> daily[d].state = "none",
         \A w \in Weeks : weekly'[w].days = weekly[w].days,
         \A w \in Weeks : weekly'[w].state = "none" <=> weekly[w].state = "none"
  PROVE  WeekHasEnded' /\ LastDayDone' /\ FrozenWeekStands'
<1>1. /\ clock \in Moments /\ clock \in Nat /\ t \in Nat
      /\ DateOf(clock) \in Nat /\ DateOf(t) \in Nat /\ DateOf(clock) <= DateOf(t)
      /\ Ended(t) = DateOf(t) - 1 /\ Ended(clock) = DateOf(clock) - 1
      /\ Ended(t) \in Days /\ Ended(t) \in Nat
  <2>1. clock \in Moments
    BY DEF ReflInv, ReflTypeOK
  <2>2. /\ clock \in Nat /\ t \in Nat /\ DateOf(clock) \in Days /\ DateOf(t) \in Days
        /\ Ended(t) \in Days
    BY <2>1, Calendar
  <2>. QED  BY <2>1, <2>2 DEF Days
<1>2. WeekHasEnded'
  <2>1. /\ WeekOfDay(DateOf(clock)) <= WeekOfDay(DateOf(t))
        /\ WeekOfDay(DateOf(clock)) \in Nat /\ WeekOfDay(DateOf(t)) \in Nat
    BY <1>1, DivGrows
  <2>2. \A w \in Weeks : weekly'[w].state # "none" => w <= WeekOfDay(DateOf(t))
    BY <2>1 DEF ReflInv, WeekHasEnded, Weeks
  <2>. QED  BY <2>2 DEF WeekHasEnded, WeekOfDay
<1>3. LastDayDone'
  <2>1. SUFFICES ASSUME NEW w \in Weeks, weekly[w].state # "none", Ended(t) \in DaysOf(w)
                 PROVE  Ended(t) = Ended(clock)
    BY <1>1 DEF LastDayDone, ReflInv, DaysOf
  <2>2. w \in Nat /\ w <= WeekOfDay(DateOf(clock)) /\ WeekOfDay(Ended(t)) = w - 1
    BY <2>1 DEF ReflInv, WeekHasEnded, Weeks, DaysOf, WeekOfDay
  <2>3. ASSUME DateOf(clock) <= Ended(t)  PROVE FALSE
    <3>1. WeekOfDay(DateOf(clock)) <= WeekOfDay(Ended(t)) /\ WeekOfDay(DateOf(clock)) \in Nat
      BY <1>1, <2>3, DivGrows
    <3>. QED  BY <2>2, <3>1
  <2>. QED  BY <1>1, <2>3
<1>4. \A w \in Weeks : Snapshot(w)' = Snapshot(w)
  BY DEF Snapshot
<1>5. FrozenWeekStands'
  <2>1. SUFFICES ASSUME NEW v \in Weeks, weekly'[v].state # "none"
                 PROVE  /\ \A d \in DaysOf(v) : daily'[d].state \in {"none", "completed"}
                        /\ weekly'[v].days = Snapshot(v)'
    BY DEF FrozenWeekStands
  <2>. QED  BY <1>4, <2>1 DEF ReflInv, FrozenWeekStands, DaysOf
<1>. QED  BY <1>2, <1>3, <1>5

\* The types that a moment bounds grow with it.
LEMMA TypesGrow ==
  ASSUME ReflTypeOK, NEW t \in Moments, t >= clock
  PROVE  /\ daily \in [Days -> [state : States, sched : 0 .. t, retry : 0 .. t + 1]]
         /\ weekly \in [Weeks -> [state : States, retry : 0 .. t + 1, days : [Days -> 0 .. t]]]
<1>1. clock \in Nat /\ t \in Nat
  BY Calendar DEF ReflTypeOK
<1>2. 0 .. clock \subseteq 0 .. t /\ 0 .. clock + 1 \subseteq 0 .. t + 1
  BY <1>1
<1>3. \A d \in Days : daily[d] \in [state : States, sched : 0 .. t, retry : 0 .. t + 1]
  BY <1>2 DEF ReflTypeOK
<1>4. [Days -> 0 .. clock] \subseteq [Days -> 0 .. t]
  BY <1>2
<1>5. \A w \in Weeks : weekly[w] \in [state : States, retry : 0 .. t + 1, days : [Days -> 0 .. t]]
  BY <1>2, <1>4 DEF ReflTypeOK
<1>. QED  BY <1>3, <1>5 DEF ReflTypeOK

\* The clock moves on.
LEMMA ClockStep ==
  ASSUME ReflInv, ClockMoves
  PROVE  ReflInv'
<1>1. /\ clock + 1 \in Moments /\ clock' = clock + 1 /\ clock + 1 >= clock
      /\ UNCHANGED <<daily, weekly, reviews, reviewing>>
  BY Calendar DEF ClockMoves, ReflInv, ReflTypeOK
<1>2. ReflTypeOK'
  BY <1>1, TypesGrow DEF ReflInv, ReflTypeOK
<1>3. ClaimHasJob' /\ OneOpenWeek'
  BY <1>1 DEF ReflInv, ClaimHasJob, OneOpenWeek
<1>4. WeekHasEnded' /\ LastDayDone' /\ FrozenWeekStands'
  BY <1>1, TimeStep
<1>. QED  BY <1>2, <1>3, <1>4 DEF ReflInv

\* The program was away: rows that were running are pending.
LEMMA OutageStep ==
  ASSUME ReflInv, Outage
  PROVE  ReflInv'
<1>1. PICK t \in Moments : t >= clock /\ clock' = t
  BY DEF Outage
<1>2. /\ daily' = [d \in Days |-> Recovered(daily[d])]
      /\ weekly' = [w \in Weeks |-> Recovered(weekly[w])]
      /\ reviews' = {} /\ reviewing' = NoOne
  BY DEF Outage
<1>3. /\ daily \in [Days -> [state : States, sched : 0 .. t, retry : 0 .. t + 1]]
      /\ weekly \in [Weeks -> [state : States, retry : 0 .. t + 1, days : [Days -> 0 .. t]]]
  BY <1>1, TypesGrow DEF ReflInv
<1>4. \A d \in Days :
        /\ daily'[d] \in [state : States, sched : 0 .. t, retry : 0 .. t + 1]
        /\ daily'[d].sched = daily[d].sched
        /\ daily'[d].state = IF daily[d].state = "running" THEN "pending" ELSE daily[d].state
  BY <1>2, <1>3 DEF Recovered, States
<1>5. \A w \in Weeks :
        /\ weekly'[w] \in [state : States, retry : 0 .. t + 1, days : [Days -> 0 .. t]]
        /\ weekly'[w].days = weekly[w].days
        /\ weekly'[w].state = IF weekly[w].state = "running" THEN "pending" ELSE weekly[w].state
  BY <1>2, <1>3 DEF Recovered, States
<1>6. ReflTypeOK'
  BY <1>1, <1>2, <1>4, <1>5 DEF ReflTypeOK
<1>7. ClaimHasJob'
  BY <1>2, <1>4, <1>5 DEF ClaimHasJob
<1>8. OneOpenWeek'
  BY <1>5 DEF ReflInv, OneOpenWeek
<1>9. WeekHasEnded' /\ LastDayDone' /\ FrozenWeekStands'
  <2>1. /\ \A d \in Days : daily'[d].state = "completed" <=> daily[d].state = "completed"
        /\ \A d \in Days : daily'[d].state = "none" <=> daily[d].state = "none"
        /\ \A w \in Weeks : weekly'[w].state = "none" <=> weekly[w].state = "none"
        /\ \A d \in Days : daily'[d].sched = daily[d].sched
        /\ \A w \in Weeks : weekly'[w].days = weekly[w].days
    BY <1>4, <1>5
  <2>. QED  BY <1>1, <2>1, TimeStep
<1>. QED  BY <1>6, <1>7, <1>8, <1>9 DEF ReflInv

\* At first no day and no week is claimed.
LEMMA ReflStarts == ReflInit => ReflInv
<1>. SUFFICES ASSUME ReflInit  PROVE ReflInv
  OBVIOUS
<1>1. MaxDate \in Nat \ {0} /\ clock \in {3, 4, 5}
  BY ReflectionScope DEF ReflInit
<1>2. clock \in Moments
  BY <1>1 DEF Moments
<1>3. ReflTypeOK
  <2>1. NoDay \in [state : States, sched : 0 .. clock, retry : 0 .. clock + 1]
    BY <1>1 DEF States
  <2>2. NoWeek \in [state : States, retry : 0 .. clock + 1, days : [Days -> 0 .. clock]]
    BY <1>1 DEF States, NoWeek, Missing
  <2>. QED  BY <1>2, <2>1, <2>2 DEF ReflInit, ReflTypeOK
<1>. QED
  BY <1>3 DEF ReflInit, ReflInv, ClaimHasJob, OneOpenWeek, WeekHasEnded, LastDayDone,
              FrozenWeekStands, NoWeek

\* ReflInv is inductive.
LEMMA ReflNextStep ==
  ASSUME ReflInv, [ReflNext]_reflVars
  PROVE  ReflInv'
<1>1. CASE UNCHANGED reflVars
  BY <1>1 DEF reflVars, ReflInv, ReflTypeOK, ClaimHasJob, OneOpenWeek, WeekHasEnded, LastDayDone,
              FrozenWeekStands, Snapshot
<1>. QED
  BY <1>1, ClaimDailyStep, ClaimWeeklyStep, ReflectStep, BeginReviewStep, ReviewEndsStep,
     OutageStep, ClockStep DEF ReflNext

\* Daily and weekly rows, the job and the review of reflections agree in every reachable
\* state, whatever the calendar and however long the program was away (reflection.py).
THEOREM ReflIsInvariant == ReflSpec => []ReflInv
<1>1. ReflInv /\ [ReflNext]_reflVars => ReflInv'
  BY ReflNextStep
<1>. QED  BY <1>1, ReflStarts, PTL DEF ReflSpec

\* The days of a claimed week stand as they were when it was claimed: no daily review
\* runs again under a weekly review, across retries and outages.
THEOREM FrozenWeeksStand == ReflSpec => []FrozenWeekStands
<1>1. ReflInv => FrozenWeekStands
  BY DEF ReflInv
<1>. QED  BY <1>1, ReflIsInvariant, PTL

-----------------------------------------------------------------------------
\* What holds of the whole.
AutonomyInv == GoalCore /\ SlotInv /\ ReflInv /\ HbCore

\* A step of the whole is a step of one part, and a stutter of the others.
LEMMA PartsStep ==
  ASSUME [MCNext]_<<parts, part>>
  PROVE  [GoalNext]_goalVars /\ [ReflNext]_reflVars /\ [HbNext]_hbVars
BY DEF MCNext, parts

\* The three parts keep their invariants together.
THEOREM AutonomyIsInvariant == MCSpec => []AutonomyInv
<1>1. MCInit => AutonomyInv
  BY GoalInitCore, GoalInitSlots, ReflStarts, HbStarts DEF MCInit, AutonomyInv
<1>2. AutonomyInv /\ [MCNext]_<<parts, part>> => AutonomyInv'
  BY PartsStep, GoalNextCore, GoalNextSlots, ReflNextStep, HbNextStep DEF AutonomyInv
<1>. QED  BY <1>1, <1>2, PTL DEF MCSpec

\* The rows, jobs and turns of goals, reflections and heartbeats keep their types.
THEOREM AutonomyTypes == MCSpec => []AutonomyTypeOK
<1>1. AutonomyInv => AutonomyTypeOK
  BY DEF AutonomyInv, GoalCore, ReflInv, HbCore, AutonomyTypeOK
<1>. QED  BY <1>1, AutonomyIsInvariant, PTL

\* No claim of a goal, a review or a heartbeat outlives the job or the turn that
\* will release it, however turns are parked, stopped, fail or are cut off.
THEOREM ClaimsAreHeld == MCSpec => []ClaimsHaveJobs
<1>1. AutonomyInv => ClaimsHaveJobs
  BY DEF AutonomyInv, GoalCore, ReflInv, HbCore, ClaimsHaveJobs
<1>. QED  BY <1>1, AutonomyIsInvariant, PTL
=============================================================================
