---------------------------- MODULE Console_proofs ----------------------------
(***************************************************************************)
(* One deadline event per episode, and the health monitor's rate limit,    *)
(* for every interval, threshold, counter width and number of frames.      *)
(*                                                                         *)
(* RunInv reads the run counter back from the history: the last            *)
(* consecutiveMisses frames all missed, and unless the counter stands at   *)
(* its maximum the frame before them, if any, met its deadline.            *)
(*                                                                         *)
(* LineInv, the inductive invariant of the rate limit, says what the       *)
(* counters and the lines remember of the reports: a count is zero as long *)
(* as nothing was reported, no report has a number beyond the one its kind *)
(* has reached, a report at the interval made a line, and so did the first *)
(* one - and no other.  The deadline monitor takes its own steps or none.  *)
(***************************************************************************)
EXTENDS Console, SequenceTheorems, TLAPS

RunInv ==
  /\ consecutiveMisses <= Len(history)
  /\ \A k \in (Len(history) - consecutiveMisses + 1)..Len(history) : ~history[k]
  /\ consecutiveMisses < CounterMax /\ consecutiveMisses < Len(history) =>
       history[Len(history) - consecutiveMisses]
  /\ budgetEscalated = EscalatedAt(consecutiveMisses)

IInv == TypeOK /\ RunInv /\ OneAlarmPerEpisode
-----------------------------------------------------------------------------
\* The monitor's counter keeps its width.
LEMMA ConsecutiveType ==
  ASSUME NEW c \in 0..CounterMax, NEW w \in BOOLEAN
  PROVE  NextConsecutive(c, w) \in 0..CounterMax
  BY BudgetAssumption DEF NextConsecutive

\* The history of one frame more.
LEMMA HistoryGrows ==
  ASSUME NEW h \in Seq(BOOLEAN), NEW w \in BOOLEAN
  PROVE  /\ Append(h, w) \in Seq(BOOLEAN)
         /\ Len(h) \in Nat /\ Len(Append(h, w)) = Len(h) + 1
         /\ \A k \in 1..Len(h) : Append(h, w)[k] = h[k]
         /\ Append(h, w)[Len(h) + 1] = w
  BY AppendProperties, LenProperties

\* No frame recorded: no run and no event.
LEMMA InitIInv == Init => IInv
<1> SUFFICES ASSUME Init PROVE IInv
  OBVIOUS
<1>1. history = <<>> /\ Len(history) = 0 /\ history \in Seq(BOOLEAN)
  BY EmptySeq DEF Init
<1>2. TypeOK
  <2>1. totalMisses \in 0..CounterMax /\ consecutiveMisses \in 0..CounterMax
    BY BudgetAssumption DEF Init
  <2>2. budgetEscalated \in BOOLEAN /\ alarms \subseteq Nat
    BY DEF Init
  <2>3. QED
    BY <1>1, <2>1, <2>2 DEF TypeOK
<1>3. RunInv
  <2>1. ~EscalatedAt(0)
    BY BudgetAssumption DEF EscalatedAt
  <2>2. consecutiveMisses = 0 /\ budgetEscalated = FALSE
    BY DEF Init
  <2>3. budgetEscalated = EscalatedAt(consecutiveMisses)
    BY <2>1, <2>2 DEF EscalatedAt
  <2>4. \A k \in (Len(history) - consecutiveMisses + 1)..Len(history) : ~history[k]
    BY <1>1, <2>2
  <2>5. QED
    BY <1>1, <2>2, <2>3, <2>4 DEF RunInv
<1>4. OneAlarmPerEpisode
  BY <1>1 DEF Init, OneAlarmPerEpisode
<1>5. QED
  BY <1>2, <1>3, <1>4 DEF IInv

\* A frame that met its deadline ends the run and raises nothing.
\* A frame that missed it extends the run, and raises the event exactly when
\* the run reaches the threshold.
LEMMA StepIInv == IInv /\ [Next]_vars => IInv'
<1> SUFFICES ASSUME IInv, [Next]_vars PROVE IInv'
  OBVIOUS
<1>1. CASE UNCHANGED vars
  BY <1>1 DEF vars, IInv, TypeOK, RunInv, OneAlarmPerEpisode, CompletesRun
<1>2. ASSUME NEW within \in BOOLEAN, RecordFrame(within)
      PROVE  IInv'
  <2> DEFINE c == consecutiveMisses
             M == MaxConsecutiveMisses
  <2>0. PICK n \in Nat : n = Len(history)
    BY HistoryGrows DEF IInv, TypeOK
  <2>1. /\ n = Len(history)
        /\ n \in Nat /\ c \in Nat /\ c <= n /\ c <= CounterMax
        /\ M \in Nat /\ CounterMax \in Nat /\ M <= CounterMax
        /\ history \in Seq(BOOLEAN) /\ alarms \subseteq Nat
        /\ totalMisses \in 0..CounterMax
    BY <2>0, BudgetAssumption DEF IInv, TypeOK, RunInv
  <2>2. /\ history' = Append(history, within)
        /\ history' \in Seq(BOOLEAN)
        /\ Len(history') = n + 1
        /\ \A k \in 1..n : history'[k] = history[k]
        /\ history'[n + 1] = within
    BY <1>2, <2>1, HistoryGrows DEF RecordFrame
  <2>3. /\ consecutiveMisses' = NextConsecutive(c, within)
        /\ consecutiveMisses' \in 0..CounterMax
        /\ budgetEscalated' = EscalatedAt(consecutiveMisses')
        /\ alarms' = IF EscalatedAt(consecutiveMisses') /\ ~EscalatedAt(c)
                     THEN alarms \cup {n + 1} ELSE alarms
    BY <1>2, <2>1, ConsecutiveType DEF RecordFrame, NextEscalated, IInv, TypeOK, RunInv
  <2>4. TypeOK'
    <3>1. totalMisses' \in 0..CounterMax
      BY <1>2, <2>1, BudgetAssumption DEF RecordFrame
    <3>2. budgetEscalated' \in BOOLEAN
      BY <2>3 DEF EscalatedAt
    <3>3. alarms' \subseteq Nat
      <4>1. n + 1 \in Nat
        BY <2>1
      <4>2. alarms' = alarms \/ alarms' = alarms \cup {n + 1}
        BY <2>3
      <4>3. QED
        BY <2>1, <4>1, <4>2
    <3>4. QED
      BY <2>2, <2>3, <3>1, <3>2, <3>3 DEF TypeOK
  <2>5. /\ \A k \in (n - c + 1)..n : ~history[k]
        /\ c < CounterMax /\ c < n => history[n - c]
    BY <2>1 DEF IInv, RunInv
  <2>6. RunInv'
    <3>1. CASE within
      BY <2>1, <2>2, <2>3, <3>1 DEF RunInv, NextConsecutive
    <3>2. CASE ~within /\ c < CounterMax
      BY <2>1, <2>2, <2>3, <2>5, <3>2 DEF RunInv, NextConsecutive
    <3>3. CASE ~within /\ ~(c < CounterMax)
      BY <2>1, <2>2, <2>3, <2>5, <3>3 DEF RunInv, NextConsecutive
    <3>4. QED
      BY <3>1, <3>2, <3>3
  <2>7. \A m \in 1..n : CompletesRun(m)' <=> CompletesRun(m)
    BY <2>1, <2>2 DEF CompletesRun
  <2>8. CompletesRun(n + 1)' <=> EscalatedAt(consecutiveMisses') /\ ~EscalatedAt(c)
    <3>1. CASE within
      BY <2>1, <2>2, <2>3, <3>1 DEF CompletesRun, EscalatedAt, NextConsecutive
    <3>2. CASE ~within /\ M > 0 /\ c < M - 1
      <4>1. c < CounterMax /\ ~EscalatedAt(consecutiveMisses')
        BY <2>1, <2>3, <3>2 DEF EscalatedAt, NextConsecutive
      <4>2. M <= n + 1 => history'[n - c]
        BY <2>1, <2>2, <2>5, <3>2, <4>1
      <4>3. M <= n + 1 => n - c \in (n + 1 - M + 1)..(n + 1)
        BY <2>1, <3>2
      <4>4. ~CompletesRun(n + 1)'
        BY <2>1, <4>2, <4>3 DEF CompletesRun
      <4>5. QED
        BY <4>1, <4>4
    <3>3. CASE ~within /\ M > 0 /\ c = M - 1
      <4>1. EscalatedAt(consecutiveMisses') /\ ~EscalatedAt(c)
        BY <2>1, <2>3, <3>3 DEF EscalatedAt, NextConsecutive
      <4>2. \A k \in (n + 1 - M + 1)..(n + 1) : ~history'[k]
        BY <2>1, <2>2, <2>5, <3>3
      <4>3. n + 1 > M => history'[n + 1 - M]
        BY <2>1, <2>2, <2>5, <3>3
      <4>4. QED
        BY <2>1, <3>3, <4>1, <4>2, <4>3 DEF CompletesRun
    <3>4. CASE ~within /\ M > 0 /\ c >= M
      <4>1. EscalatedAt(c)
        BY <3>4 DEF EscalatedAt
      <4>2. n + 1 > M /\ ~history'[n + 1 - M]
        BY <2>1, <2>2, <2>5, <3>4
      <4>3. QED
        BY <2>1, <4>1, <4>2 DEF CompletesRun
    <3>5. CASE M = 0
      BY <2>1, <3>5 DEF CompletesRun, EscalatedAt
    <3>6. QED
      BY <2>1, <3>1, <3>2, <3>3, <3>4, <3>5
  <2>9. OneAlarmPerEpisode'
    <3>1. alarms = {m \in 1..n : CompletesRun(m)}
      BY <2>1 DEF IInv, OneAlarmPerEpisode
    <3>2. alarms' = {m \in 1..(n + 1) : CompletesRun(m)'}
      BY <2>1, <2>3, <2>7, <2>8, <3>1
    <3>3. QED
      BY <2>2, <3>2 DEF OneAlarmPerEpisode
  <2>10. QED
    BY <2>4, <2>6, <2>9 DEF IInv
<1>3. QED
  BY <1>1, <1>2 DEF Next

\* A deadline event at exactly the frames where a run of misses reaches the
\* threshold, for any threshold, counter width and number of frames.
THEOREM OneAlarm == Spec => []OneAlarmPerEpisode
<1>1. Spec => []IInv
  BY InitIInv, StepIInv, PTL DEF Spec
<1>2. QED
  BY <1>1, PTL DEF IInv
-----------------------------------------------------------------------------

\* The number that the next report of a kind will have.
Reached(kind) == IF kind = "eDriverFault" THEN faultFrame ELSE Len(history)

Reported(kind) == {n \in Nat : <<kind, n>> \in reported}
Printed(kind) == {n \in Nat : <<kind, n>> \in printed}

ReportsType ==
  /\ seen \in [Kinds -> Nat]
  /\ faultFrame \in 0..MaxEscalations
  /\ reported \subseteq Kinds \X Nat
  /\ printed \subseteq reported

\* The kind's counter, and the order of its numbers.
Counted(kind) ==
  /\ Reported(kind) # {} => seen[kind] # 0
  /\ \A n \in Reported(kind) : n <= Reached(kind)

\* The first report made a line.
FirstLine(kind) ==
  seen[kind] # 0 => \E m \in Printed(kind) : \A n \in Reported(kind) : m <= n

\* Every report at the interval made a line, and no other but the first.
OtherLines(kind) ==
  /\ \A n \in Reported(kind) : n % KLogIntervalFrames = 0 => n \in Printed(kind)
  /\ \A n \in Printed(kind) :
       n % KLogIntervalFrames = 0 \/ \A m \in Reported(kind) : n <= m

LineInv ==
  /\ ReportsType
  /\ \A kind \in Kinds : Counted(kind) /\ FirstLine(kind) /\ OtherLines(kind)
-----------------------------------------------------------------------------
\* The deadline monitor under the console behaves as on its own.
LEMMA BudgetStep == ASSUME ConsoleNext PROVE [Next]_vars
<1>1. CASE Telemetry
  <2>1. PICK renderTime \in RenderTimes : RecordFrame(WithinBudget(renderTime))
    BY <1>1 DEF Telemetry
  <2>2. WithinBudget(renderTime) \in BOOLEAN
    BY DEF WithinBudget
  <2>3. QED
    BY <2>1, <2>2 DEF Next
<1>2. CASE ~Telemetry
  BY <1>2 DEF ConsoleNext, Escalation, Drained, SampleValid, SampleInvalid, CallFails,
     Presented, PresentFails, Terminated, consoleVars, budgetVars
<1>3. QED
  BY <1>1, <1>2

\* Hence what is proved of the monitor alone holds in the loop.
LEMMA ImplementsBudget == ConsoleSpec => Spec
<1>1. ConsoleInit => Init
  BY DEF ConsoleInit
<1>2. [ConsoleNext]_consoleVars => [Next]_vars
  BY BudgetStep DEF consoleVars, budgetVars
<1>3. QED
  BY <1>1, <1>2, PTL DEF ConsoleSpec, Spec

\* One deadline event per run of misses, under every loop the program runs.
THEOREM OneAlarmInLoop == ConsoleSpec => []OneAlarmPerEpisode
  BY ImplementsBudget, OneAlarm, PTL
-----------------------------------------------------------------------------
\* The kinds the loop reports are among the enumerators.
LEMMA FatalKindsAreKinds ==
  FatalKinds \subseteq Kinds /\ PresentKinds \subseteq Kinds
  /\ {"eDriverFault", "eInputDataInvalid", "eFrameDeadlineMiss", "eGpuHang"} \subseteq Kinds
  BY DEF FatalKinds, PresentKinds, Kinds, HealthEvents

\* With a slot for each enumerator every event is counted.
LEMMA EveryKindHasSlot ==
  ASSUME KEventCount = 10, NEW event \in Kinds
  PROVE  HasSlot(event)
  BY DEF HasSlot, Kinds, HealthEvents

\* Nothing reported: no counts and no lines.
LEMMA InitLineInv == ConsoleInit => LineInv
<1> SUFFICES ASSUME ConsoleInit PROVE LineInv
  OBVIOUS
<1>1. ReportsType
  BY ConsoleAssumption DEF ConsoleInit, ReportsType
<1>2. ASSUME NEW kind \in Kinds
      PROVE  Counted(kind) /\ FirstLine(kind) /\ OtherLines(kind)
  BY DEF ConsoleInit, Counted, FirstLine, OtherLines, Reported, Printed
<1>3. QED
  BY <1>1, <1>2 DEF LineInv

\* Steps that report nothing: the numbers reached do not fall.
LEMMA SilentStep ==
  ASSUME LineInv, UNCHANGED monitorVars,
         Len(history) \in Nat, Len(history') \in Nat, Len(history) <= Len(history')
  PROVE  LineInv'
<1>1. ReportsType'
  BY DEF LineInv, ReportsType, monitorVars
<1>2. ASSUME NEW kind \in Kinds
      PROVE  (Counted(kind) /\ FirstLine(kind) /\ OtherLines(kind))'
  <2>1. Reported(kind)' = Reported(kind) /\ Printed(kind)' = Printed(kind) /\ seen' = seen
    BY DEF monitorVars, Reported, Printed
  <2>2. Reached(kind) \in Nat /\ Reached(kind)' \in Nat /\ Reached(kind) <= Reached(kind)'
    BY ConsoleAssumption DEF Reached, monitorVars, LineInv, ReportsType
  <2>3. Counted(kind) /\ FirstLine(kind) /\ OtherLines(kind)
    BY DEF LineInv
  <2>4. Counted(kind)'
    <3>1. Reported(kind) \subseteq Nat
      BY DEF Reported
    <3>2. QED
      BY <2>1, <2>2, <2>3, <3>1 DEF Counted
  <2>5. FirstLine(kind)'
    BY <2>1, <2>3 DEF FirstLine
  <2>6. OtherLines(kind)'
    BY <2>1, <2>3 DEF OtherLines
  <2>7. QED
    BY <2>4, <2>5, <2>6
<1>3. QED
  BY <1>1, <1>2 DEF LineInv

\* A step that reports one event, with the number its kind has reached.
LEMMA ReportStep ==
  ASSUME LineInv, KEventCount = 10,
         NEW event \in Kinds, OnHealthEvent(event, Reached(event)),
         faultFrame' \in {faultFrame, faultFrame + 1}, faultFrame' <= MaxEscalations,
         Len(history) \in Nat, Len(history') \in Nat, Len(history) <= Len(history')
  PROVE  LineInv'
<1> DEFINE number == Reached(event)
<1>1. /\ faultFrame \in Nat /\ faultFrame' \in 0..MaxEscalations
      /\ number \in Nat /\ KLogIntervalFrames \in Nat \ {0}
      /\ seen \in [Kinds -> Nat]
  BY ConsoleAssumption DEF LineInv, ReportsType, Reached
<1>2. /\ reported' = reported \cup {<<event, number>>}
      /\ seen' = [seen EXCEPT ![event] = @ + 1]
      /\ printed' = IF Prints(event, number)
                    THEN printed \cup {<<event, number>>} ELSE printed
  BY EveryKindHasSlot DEF OnHealthEvent
<1> HIDE DEF number
<1>3. ReportsType'
  <2>1. seen' \in [Kinds -> Nat]
    BY <1>1, <1>2
  <2>2. reported' \subseteq Kinds \X Nat
    BY <1>1, <1>2 DEF LineInv, ReportsType
  <2>3. printed' \subseteq reported'
    BY <1>2 DEF LineInv, ReportsType
  <2>4. QED
    BY <1>1, <2>1, <2>2, <2>3 DEF ReportsType
<1>4. ASSUME NEW kind \in Kinds
      PROVE  (Counted(kind) /\ FirstLine(kind) /\ OtherLines(kind))'
  <2>1. Counted(kind) /\ FirstLine(kind) /\ OtherLines(kind)
    BY DEF LineInv
  <2>2. Reached(kind) \in Nat /\ Reached(kind)' \in Nat /\ Reached(kind) <= Reached(kind)'
    BY <1>1 DEF Reached
  <2>3. CASE kind # event
    <3>1. /\ Reported(kind)' = Reported(kind) /\ Printed(kind)' = Printed(kind)
          /\ seen'[kind] = seen[kind]
      BY <1>1, <1>2, <2>3 DEF Reported, Printed
    <3>2. Counted(kind)'
      <4>1. Reported(kind) \subseteq Nat
        BY DEF Reported
      <4>2. QED
        BY <2>1, <2>2, <3>1, <4>1 DEF Counted
    <3>3. FirstLine(kind)' /\ OtherLines(kind)'
      BY <2>1, <3>1 DEF FirstLine, OtherLines
    <3>4. QED
      BY <3>2, <3>3
  <2>4. CASE kind = event
    <3>1. /\ Reported(kind)' = Reported(kind) \cup {number}
          /\ Printed(kind)' = IF Prints(event, number)
                              THEN Printed(kind) \cup {number} ELSE Printed(kind)
          /\ seen'[kind] = seen[kind] + 1
          /\ seen[kind] \in Nat
      BY <1>1, <1>2, <2>4 DEF Reported, Printed
    <3>2. number = Reached(kind)
      BY <2>4 DEF number
    <3>3. Reported(kind) \subseteq Nat /\ Printed(kind) \subseteq Reported(kind)
      BY DEF Reported, Printed, LineInv, ReportsType
    <3>4. \A n \in Reported(kind) : n <= number
      BY <2>1, <3>2 DEF Counted
    <3>5. Counted(kind)'
      BY <1>1, <2>2, <3>1, <3>2, <3>3, <3>4 DEF Counted
    <3>6. FirstLine(kind)'
      <4>1. CASE seen[kind] = 0
        <5>1. number \in Printed(kind)' /\ Reported(kind) = {}
          BY <2>1, <2>4, <3>1, <4>1 DEF Prints, Counted
        <5>2. QED
          BY <1>1, <3>1, <5>1 DEF FirstLine
      <4>2. CASE seen[kind] # 0
        <5>1. PICK m \in Printed(kind) : \A n \in Reported(kind) : m <= n
          BY <2>1, <4>2 DEF FirstLine
        <5>2. m \in Printed(kind)' /\ m <= number
          BY <3>1, <3>3, <3>4, <5>1
        <5>3. QED
          BY <3>1, <5>1, <5>2 DEF FirstLine
      <4>3. QED
        BY <4>1, <4>2
    <3>7. OtherLines(kind)'
      <4>1. \A n \in Reported(kind)' :
              n % KLogIntervalFrames = 0 => n \in Printed(kind)'
        BY <2>1, <3>1 DEF OtherLines, Prints
      <4>2. ASSUME NEW n \in Printed(kind)', n % KLogIntervalFrames # 0,
                   NEW m \in Reported(kind)'
            PROVE  n <= m
        <5>1. CASE n \in Printed(kind)
          BY <2>1, <3>1, <3>3, <3>4, <4>2, <5>1 DEF OtherLines
        <5>2. CASE n \notin Printed(kind)
          <6>1. n = number /\ Prints(event, number)
            BY <3>1, <4>2, <5>2
          <6>2. seen[kind] = 0
            BY <2>4, <4>2, <6>1 DEF Prints
          <6>3. m = number
            BY <2>1, <3>1, <4>2, <6>2 DEF Counted
          <6>4. QED
            BY <1>1, <6>1, <6>3
        <5>3. QED
          BY <5>1, <5>2
      <4>3. QED
        BY <4>1, <4>2 DEF OtherLines
    <3>8. QED
      BY <3>5, <3>6, <3>7
  <2>5. QED
    BY <2>3, <2>4
<1>5. QED
  BY <1>3, <1>4 DEF LineInv

\* The monitor's history only grows.
LEMMA HistoryLonger ==
  ASSUME TypeOK, [ConsoleNext]_consoleVars
  PROVE  Len(history) \in Nat /\ Len(history') \in Nat /\ Len(history) <= Len(history')
<1>1. history \in Seq(BOOLEAN) /\ Len(history) \in Nat
  BY LenProperties DEF TypeOK
<1>2. [Next]_vars
  BY BudgetStep DEF consoleVars, budgetVars
<1>3. CASE UNCHANGED vars
  BY <1>1, <1>3 DEF vars
<1>4. ASSUME NEW within \in BOOLEAN, RecordFrame(within)
      PROVE  Len(history') = Len(history) + 1
  BY <1>1, <1>4, HistoryGrows DEF RecordFrame
<1>5. QED
  BY <1>1, <1>2, <1>3, <1>4 DEF Next

\* Every step reports nothing, or one event of the number its kind has reached.
LEMMA StepLineInv ==
  KEventCount = 10 => (TypeOK /\ LineInv /\ [ConsoleNext]_consoleVars => LineInv')
<1> SUFFICES ASSUME KEventCount = 10, TypeOK, LineInv, [ConsoleNext]_consoleVars
             PROVE  LineInv'
  OBVIOUS
<1>1. Len(history) \in Nat /\ Len(history') \in Nat /\ Len(history) <= Len(history')
  BY HistoryLonger
<1>2. faultFrame \in 0..MaxEscalations /\ MaxEscalations \in Nat
  BY ConsoleAssumption DEF LineInv, ReportsType
<1>3. ASSUME NEW event \in Kinds \ {"eDriverFault"},
             OnHealthEvent(event, frameNumber), UNCHANGED faultFrame
      PROVE  LineInv'
  <2>1. OnHealthEvent(event, Reached(event))
    BY <1>3 DEF Reached, frameNumber
  <2>2. QED
    BY <1>1, <1>2, <1>3, <2>1, ReportStep
<1>4. CASE Escalation
  <2>1. OnHealthEvent("eDriverFault", Reached("eDriverFault"))
    BY <1>4 DEF Escalation, Reached
  <2>2. faultFrame' = faultFrame + 1 /\ faultFrame' <= MaxEscalations
    BY <1>2, <1>4 DEF Escalation
  <2>3. QED
    BY <1>1, <2>1, <2>2, FatalKindsAreKinds, ReportStep
<1>5. CASE Drained \/ SampleValid \/ Presented \/ Terminated \/ UNCHANGED consoleVars
  <2>1. UNCHANGED monitorVars
    BY <1>5 DEF Drained, SampleValid, Presented, Terminated, consoleVars
  <2>2. QED
    BY <1>1, <2>1, SilentStep
<1>6. CASE SampleInvalid
  <2>1. "eInputDataInvalid" \in Kinds \ {"eDriverFault"}
    BY FatalKindsAreKinds
  <2>2. QED
    BY <1>3, <1>6, <2>1 DEF SampleInvalid
<1>7. CASE CallFails \/ PresentFails
  <2>1. FatalKinds \subseteq Kinds \ {"eDriverFault"} /\ PresentKinds \subseteq FatalKinds
        /\ {"eGpuHang", "eDeviceLost"} \subseteq FatalKinds
    BY DEF FatalKinds, PresentKinds, Kinds, HealthEvents
  <2>2. PICK event \in FatalKinds : OnHealthEvent(event, frameNumber)
    BY <1>7, <2>1 DEF CallFails, PresentFails
  <2>3. UNCHANGED faultFrame
    BY <1>7 DEF CallFails, PresentFails
  <2>4. QED
    BY <1>3, <2>1, <2>2, <2>3
<1>8. CASE Telemetry
  <2>1. CASE alarms' # alarms
    <3>1. "eFrameDeadlineMiss" \in Kinds \ {"eDriverFault"}
      BY FatalKindsAreKinds
    <3>2. QED
      BY <1>3, <1>8, <2>1, <3>1 DEF Telemetry
  <2>2. CASE alarms' = alarms
    <3>1. UNCHANGED monitorVars
      BY <1>8, <2>2 DEF Telemetry, monitorVars
    <3>2. QED
      BY <1>1, <3>1, SilentStep
  <2>3. QED
    BY <2>1, <2>2
<1>9. QED
  BY <1>4, <1>5, <1>6, <1>7, <1>8 DEF ConsoleNext

\* The counters and the lines agree with the reports in every reachable state.
THEOREM LinesRemembered == KEventCount = 10 /\ ConsoleSpec => []LineInv
<1>1. Spec => []TypeOK
  <2>1. Spec => []IInv
    BY InitIInv, StepIInv, PTL DEF Spec
  <2>2. QED
    BY <2>1, PTL DEF IInv
<1>2. SUFFICES ASSUME KEventCount = 10 PROVE ConsoleSpec => []LineInv
  OBVIOUS
<1>3. TypeOK /\ LineInv /\ [ConsoleNext]_consoleVars => LineInv'
  BY <1>2, StepLineInv
<1>4. QED
  BY <1>1, <1>3, InitLineInv, ImplementsBudget, PTL DEF ConsoleSpec
-----------------------------------------------------------------------------
\* Two multiples of the interval within one interval are one.
LEMMA OneMultiple ==
  ASSUME NEW d \in Nat \ {0}, NEW m \in Nat, NEW n \in Nat,
         m \div d = n \div d, m % d = 0
  PROVE  m <= n
<1>1. m = d * (m \div d) + (m % d) /\ n = d * (n \div d) + (n % d)
  BY Z3
<1>2. n % d \in Nat
  BY Z3
<1>3. QED
  BY <1>1, <1>2

\* Any d consecutive numbers have a multiple of d among them.
LEMMA SomeMultiple ==
  ASSUME NEW d \in Nat \ {0}, NEW n \in Nat
  PROVE  \E m \in n..(n + d - 1) : m % d = 0
<1>1. CASE n % d = 0
  BY <1>1
<1>2. CASE n % d # 0
  <2> DEFINE m == n + (d - (n % d))
  <2>1. n % d \in 1..(d - 1)
    BY <1>2, Z3
  <2>2. m \in n..(n + d - 1)
    BY <2>1
  <2>3. m % d = 0
    <3>1. n \div d \in Nat /\ n = d * (n \div d) + (n % d)
      BY Z3
    <3>2. PICK q \in Nat : q = (n \div d) + 1
      BY <3>1
    <3>3. m = d * q
      BY <3>1, <3>2
    <3>4. (d * q) % d = 0
      BY Z3
    <3>5. QED
      BY <3>3, <3>4
  <2>4. QED
    BY <2>2, <2>3
<1>3. QED
  BY <1>1, <1>2

-----------------------------------------------------------------------------
(* The properties follow from the invariant.  KEventCount = 10 is what the  *)
(* code's comment says of the array: "one slot per HealthEvent enumerator". *)

\* The run's Numbers are the invariant's Reported and Printed.
LEMMA NumbersAre ==
  ASSUME ReportsType, NEW kind \in Kinds
  PROVE  /\ Numbers(reported, kind) = Reported(kind)
         /\ Numbers(printed, kind) = Printed(kind)
         /\ Printed(kind) \subseteq Reported(kind)
         /\ Reported(kind) \subseteq Nat
<1>1. reported \subseteq Kinds \X Nat /\ printed \subseteq Kinds \X Nat
      /\ printed \subseteq reported
  BY DEF ReportsType
<1>2. ASSUME NEW reports \in SUBSET (Kinds \X Nat)
      PROVE  Numbers(reports, kind) = {n \in Nat : <<kind, n>> \in reports}
  <2>1. ASSUME NEW n \in Numbers(reports, kind)
        PROVE  n \in Nat /\ <<kind, n>> \in reports
    <3>1. PICK report \in reports : report[1] = kind /\ n = report[2]
      BY <2>1 DEF Numbers
    <3>2. report \in Kinds \X Nat
      BY <1>2, <3>1
    <3>3. report = <<kind, n>>
      BY <3>1, <3>2
    <3>4. QED
      BY <3>1, <3>2, <3>3
  <2>2. ASSUME NEW n \in Nat, <<kind, n>> \in reports
        PROVE  n \in Numbers(reports, kind)
    <3>1. <<kind, n>>[1] = kind /\ <<kind, n>>[2] = n
      OBVIOUS
    <3>2. QED
      BY <2>2, <3>1 DEF Numbers
  <2>3. QED
    BY <2>1, <2>2
<1>3. QED
  BY <1>1, <1>2 DEF Reported, Printed

\* Type correctness of the monitor in the loop, its lines being reports.
THEOREM ConsoleTypeCorrect == KEventCount = 10 /\ ConsoleSpec => []ConsoleTypeOK
<1> DEFINE Located == pc \in {"drain", "sample", "draw", "telemetry", "last telemetry", "stopped"}
<1>1. ConsoleSpec => []Located
  <2>1. ConsoleInit => Located
    BY DEF ConsoleInit
  <2>2. Located /\ [ConsoleNext]_consoleVars => Located'
    BY DEF ConsoleNext, Escalation, Drained, SampleValid, SampleInvalid, CallFails,
       Presented, PresentFails, Telemetry, Terminated, consoleVars
  <2>3. QED
    BY <2>1, <2>2, PTL DEF ConsoleSpec
<1>2. Spec => []TypeOK
  <2>1. Spec => []IInv
    BY InitIInv, StepIInv, PTL DEF Spec
  <2>2. QED
    BY <2>1, PTL DEF IInv
<1>3. Located /\ TypeOK /\ LineInv => ConsoleTypeOK
  BY DEF LineInv, ReportsType, ConsoleTypeOK
<1>4. QED
  BY <1>1, <1>2, <1>3, ImplementsBudget, LinesRemembered, PTL

\* The first report of a kind makes a line, for every rate.
THEOREM FirstPrinted == KEventCount = 10 /\ ConsoleSpec => []FirstIsPrinted
<1>1. ASSUME LineInv PROVE FirstIsPrinted
  <2> SUFFICES ASSUME NEW kind \in Kinds, Numbers(reported, kind) # {}
               PROVE  Min(Numbers(reported, kind)) \in Numbers(printed, kind)
    BY DEF FirstIsPrinted
  <2>1. ReportsType /\ Counted(kind) /\ FirstLine(kind)
    BY <1>1 DEF LineInv
  <2>2. /\ Numbers(reported, kind) = Reported(kind)
        /\ Numbers(printed, kind) = Printed(kind)
        /\ Printed(kind) \subseteq Reported(kind)
        /\ Reported(kind) \subseteq Nat
    BY <2>1, NumbersAre
  <2>3. PICK m \in Printed(kind) : \A n \in Reported(kind) : m <= n
    BY <2>1, <2>2 DEF Counted, FirstLine
  <2>4. Min(Reported(kind)) = m
    <3>1. m \in Reported(kind) /\ \A n \in Reported(kind) : n >= m
      BY <2>2, <2>3
    <3>2. \A x \in Reported(kind) : (\A y \in Reported(kind) : x <= y) => x = m
      BY <2>2, <2>3, <3>1
    <3>3. QED
      BY <2>2, <2>3, <3>1, <3>2 DEF Min
  <2>5. QED
    BY <2>2, <2>3, <2>4
<1>2. QED
  BY <1>1, LinesRemembered, PTL

\* Of reports in as many consecutive frames as the interval is long, one
\* makes a line, for every interval.
THEOREM LastingPrinted == KEventCount = 10 /\ ConsoleSpec => []LastingIsPrinted
<1>1. ASSUME LineInv, TypeOK PROVE LastingIsPrinted
  <2> SUFFICES ASSUME NEW kind \in Kinds, NEW n \in 0..Len(history),
                      n..(n + KLogIntervalFrames - 1) \subseteq Numbers(reported, kind)
               PROVE  (n..(n + KLogIntervalFrames - 1)) \cap Numbers(printed, kind) # {}
    BY DEF LastingIsPrinted
  <2>1. n \in Nat /\ KLogIntervalFrames \in Nat \ {0}
    BY ConsoleAssumption
  <2>2. PICK m \in n..(n + KLogIntervalFrames - 1) : m % KLogIntervalFrames = 0
    BY <2>1, SomeMultiple
  <2>3. /\ Numbers(reported, kind) = Reported(kind)
        /\ Numbers(printed, kind) = Printed(kind)
    BY <1>1, NumbersAre DEF LineInv
  <2>4. OtherLines(kind)
    BY <1>1 DEF LineInv
  <2>5. m \in Printed(kind)
    BY <2>2, <2>3, <2>4 DEF OtherLines
  <2>6. QED
    BY <2>2, <2>3, <2>5
<1>2. Spec => []TypeOK
  <2>1. Spec => []IInv
    BY InitIInv, StepIInv, PTL DEF Spec
  <2>2. QED
    BY <2>1, PTL DEF IInv
<1>3. QED
  BY <1>1, <1>2, ImplementsBudget, LinesRemembered, PTL

\* At most one line of a kind for the numbers of one interval.
THEOREM OneLine == KEventCount = 10 /\ ConsoleSpec => []OneLinePerInterval
<1>1. ASSUME LineInv PROVE OneLinePerInterval
  <2> SUFFICES ASSUME NEW kind \in Kinds,
                      NEW m \in Numbers(printed, kind), NEW n \in Numbers(printed, kind),
                      m \div KLogIntervalFrames = n \div KLogIntervalFrames
               PROVE  m = n
    BY DEF OneLinePerInterval
  <2>1. ReportsType /\ OtherLines(kind)
    BY <1>1 DEF LineInv
  <2>2. /\ m \in Printed(kind) /\ n \in Printed(kind)
        /\ m \in Reported(kind) /\ n \in Reported(kind)
        /\ m \in Nat /\ n \in Nat /\ KLogIntervalFrames \in Nat \ {0}
    BY <2>1, NumbersAre, ConsoleAssumption
  <2>3. m <= n
    <3>1. CASE m % KLogIntervalFrames = 0
      BY <2>2, <3>1, OneMultiple
    <3>2. CASE m % KLogIntervalFrames # 0
      BY <2>1, <2>2, <3>2 DEF OtherLines
    <3>3. QED
      BY <3>1, <3>2
  <2>4. n <= m
    <3>1. CASE n % KLogIntervalFrames = 0
      BY <2>2, <3>1, OneMultiple
    <3>2. CASE n % KLogIntervalFrames # 0
      BY <2>1, <2>2, <3>2 DEF OtherLines
    <3>3. QED
      BY <3>1, <3>2
  <2>5. QED
    BY <2>2, <2>3, <2>4
<1>2. QED
  BY <1>1, LinesRemembered, PTL
==============================================================================
