------------------------------- MODULE Console -------------------------------
(***************************************************************************)
(* ConsoleHealthMonitor (app/demo/console_health_monitor.hpp) as the frame *)
(* loop and the fault drain call it: every report of a health event is     *)
(* counted, and some are printed.  The deadline monitor runs along          *)
(* (FrameBudget), so that its events come as it raises them; the other     *)
(* reports of an iteration come where section 8 of main.cpp makes them.    *)
(*                                                                         *)
(* A report is <<event, number>>.  The number is the frame's, but for      *)
(* eDriverFault, where the sink counts its own escalations.                *)
(***************************************************************************)
EXTENDS FrameBudget, Integers, FiniteSetsExt

CONSTANTS
  KEventCount,         \* kEventCount
  KLogIntervalFrames,  \* kLogIntervalFrames
  MaxEscalations,      \* bound on the escalations of the fault sink
  ConfiguredDeadline,  \* Config::deadlineMs, in some unit of time
  DefaultDeadline,     \* kDefaultDeadlineMs
  RenderTimes,         \* times a frame may take to record
  NotFinite            \* a render time that is NaN or infinite

ASSUME ConsoleAssumption ==
  /\ ConfiguredDeadline \in Int /\ DefaultDeadline \in Nat \ {0}
  /\ RenderTimes \subseteq Nat \cup {NotFinite}
  /\ KEventCount \in Nat
  /\ KLogIntervalFrames \in Nat \ {0}
  /\ MaxEscalations \in Nat

VARIABLES
  pc,          \* "drain", "sample", "draw", "telemetry", "last telemetry", "stopped"
  seen,        \* m_eventCounts
  faultFrame,  \* m_faultFrame
  reported,    \* observer: the reports
  printed      \* observer: those that made a line

budgetVars == vars
monitorVars == <<seen, faultFrame, reported, printed>>
consoleVars == <<budgetVars, pc, monitorVars>>

\* HealthEvent, in the order of its enumerators.
HealthEvents ==
  <<"eGpuHang", "eDeviceLost", "eSurfaceLost", "eAcquireFailed", "ePresentFailed",
    "eSubmitFailed", "eRecordFailed", "eInputDataInvalid", "eFrameDeadlineMiss",
    "eDriverFault">>
Kinds == {HealthEvents[k] : k \in DOMAIN HealthEvents}
FatalKinds == {HealthEvents[k] : k \in 1..7}
PresentKinds == {"eDeviceLost", "eSurfaceLost", "ePresentFailed"}

\* Seeded fault: the array is sized before eDriverFault was added.
NineSlots(event) == event \in {HealthEvents[k] : k \in 1..(KEventCount - 1)}

\* idx < kEventCount: the event has a slot.
HasSlot(event) == event \in {HealthEvents[k] : k \in 1..KEventCount}

\* Seeded fault: the count is taken after it was raised.
PrintsAfterCounting(event, number) == number % KLogIntervalFrames = 0

\* Seeded fault: the first report of a kind is its last line.
PrintsOnce(event, number) == seen[event] = 0

\* Seeded fault: lines everywhere but at the interval.
PrintsBetween(event, number) == seen[event] = 0 \/ number % KLogIntervalFrames # 0

\* The rate limit.
Prints(event, number) == seen[event] = 0 \/ number % KLogIntervalFrames = 0

OnHealthEvent(event, number) ==
  /\ reported' = reported \cup {<<event, number>>}
  /\ IF HasSlot(event)
     THEN /\ seen' = [seen EXCEPT ![event] = @ + 1]
          /\ printed' = IF Prints(event, number)
                        THEN printed \cup {<<event, number>>} ELSE printed
     ELSE UNCHANGED <<seen, printed>>

ConsoleInit ==
  /\ Init
  /\ pc = "drain"
  /\ seen = [event \in Kinds |-> 0]
  /\ faultFrame = 0
  /\ reported = {} /\ printed = {}

frameNumber == Len(history)

\* OnFault with a critical fault, or OnUnrecordedFaults, called by DrainFaults.
Escalation ==
  /\ pc = "drain"
  /\ faultFrame < MaxEscalations
  /\ OnHealthEvent("eDriverFault", faultFrame)
  /\ faultFrame' = faultFrame + 1
  /\ UNCHANGED <<budgetVars, pc>>

Drained ==
  /\ pc = "drain"
  /\ pc' = "sample"
  /\ UNCHANGED <<budgetVars, monitorVars>>

SampleValid ==
  /\ pc = "sample"
  /\ pc' = "draw"
  /\ UNCHANGED <<budgetVars, monitorVars>>

SampleInvalid ==
  /\ pc = "sample"
  /\ OnHealthEvent("eInputDataInvalid", frameNumber)
  /\ pc' = "draw"
  /\ UNCHANGED <<budgetVars, faultFrame>>

\* A call fails and the loop breaks: the wait before the sample is taken, the
\* acquire, the recording or the submission after it.
CallFails ==
  /\ \/ pc = "sample" /\ \E event \in {"eGpuHang", "eDeviceLost"} : OnHealthEvent(event, frameNumber)
     \/ pc = "draw" /\ \E event \in FatalKinds \ {"eGpuHang", "ePresentFailed"} :
                         OnHealthEvent(event, frameNumber)
  /\ pc' = "stopped"
  /\ UNCHANGED <<budgetVars, faultFrame>>

Presented ==
  /\ pc = "draw"
  /\ pc' = "telemetry"
  /\ UNCHANGED <<budgetVars, monitorVars>>

\* A failed present leaves the loop only after the telemetry.
PresentFails ==
  /\ pc = "draw"
  /\ \E event \in PresentKinds : OnHealthEvent(event, frameNumber)
  /\ pc' = "last telemetry"
  /\ UNCHANGED <<budgetVars, faultFrame>>

\* FrameBudgetMonitor::Init: a deadline that is not positive is not taken.
Deadline == IF ConfiguredDeadline > 0 THEN ConfiguredDeadline ELSE DefaultDeadline

\* withinBudget of RecordFrame.
WithinBudget(renderTime) == renderTime # NotFinite /\ renderTime <= Deadline

\* The budget, its event, and the check of the frame limit.
Telemetry ==
  /\ pc \in {"telemetry", "last telemetry"}
  /\ \E renderTime \in RenderTimes : RecordFrame(WithinBudget(renderTime))
  /\ IF alarms' # alarms
     THEN OnHealthEvent("eFrameDeadlineMiss", frameNumber)
     ELSE UNCHANGED <<seen, reported, printed>>
  /\ pc' = IF pc = "telemetry" /\ frameNumber + 1 < MaxFrames THEN "drain" ELSE "stopped"
  /\ UNCHANGED faultFrame

Terminated == pc = "stopped" /\ UNCHANGED consoleVars

ConsoleNext ==
  \/ Escalation \/ Drained \/ SampleValid \/ SampleInvalid \/ CallFails
  \/ Presented \/ PresentFails \/ Telemetry \/ Terminated

ConsoleSpec == ConsoleInit /\ [][ConsoleNext]_consoleVars
-----------------------------------------------------------------------------
ConsoleTypeOK ==
  /\ TypeOK
  /\ pc \in {"drain", "sample", "draw", "telemetry", "last telemetry", "stopped"}
  /\ seen \in [Kinds -> Nat]
  /\ faultFrame \in 0..MaxEscalations
  /\ reported \subseteq Kinds \X Nat
  /\ printed \subseteq reported

\* The numbers a kind was reported, and printed, with.
Numbers(reports, kind) == {report[2] : report \in {r \in reports : r[1] = kind}}

\* "the first occurrence always logs", of every kind there is.
FirstIsPrinted ==
  \A kind \in Kinds :
    Numbers(reported, kind) # {} => Min(Numbers(reported, kind)) \in Numbers(printed, kind)

\* A fault that lasts stays visible: of as many reports of a kind in
\* consecutive frames as the interval is long, one is printed.
LastingIsPrinted ==
  \A kind \in Kinds, n \in 0..Len(history) :
    LET span == n..(n + KLogIntervalFrames - 1)
    IN  span \subseteq Numbers(reported, kind) => span \cap Numbers(printed, kind) # {}

\* "rate-limited to one log line per event kind per kLogIntervalFrames
\* frames": at most one line for the numbers of an interval.  (For
\* eDriverFault these are escalations, any number of which fit in a frame.)
OneLinePerInterval ==
  \A kind \in Kinds : \A m, n \in Numbers(printed, kind) :
    m \div KLogIntervalFrames = n \div KLogIntervalFrames => m = n
==============================================================================
