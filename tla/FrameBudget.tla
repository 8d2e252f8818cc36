----------------------------- MODULE FrameBudget -----------------------------
(***************************************************************************)
(* The frame-deadline monitor (engine/core/frame_budget.hpp) together with *)
(* the edge-triggered escalation the frame loop builds on it (section 8.7  *)
(* of app/main.cpp).  One RecordFrame action is one frame's telemetry: the *)
(* monitor's RecordFrame and Escalated calls and the loop's update of      *)
(* budgetEscalated, which no other code reads or writes in between.        *)
(*                                                                         *)
(* history and alarms are observers: what every frame's time was, and at   *)
(* which frames an eFrameDeadlineMiss event was raised.                    *)
(***************************************************************************)
EXTENDS BudgetCounter, Sequences

CONSTANT MaxFrames   \* bound on the number of frames recorded

ASSUME FramesAssumption == MaxFrames \in Nat

VARIABLES
  totalMisses,        \* m_totalMisses, a uint32_t that wraps
  consecutiveMisses,  \* m_consecutiveMisses, a uint32_t that saturates
  budgetEscalated,    \* main's flag: the event of this episode is out
  history,            \* observer: history[n] is TRUE iff frame n met the deadline
  alarms              \* observer: frames (from 1) that raised eFrameDeadlineMiss

vars == <<totalMisses, consecutiveMisses, budgetEscalated, history, alarms>>

TypeOK ==
  /\ totalMisses \in 0..CounterMax
  /\ consecutiveMisses \in 0..CounterMax
  /\ budgetEscalated \in BOOLEAN
  /\ history \in Seq(BOOLEAN)
  /\ alarms \subseteq Nat

Init ==
  /\ totalMisses = 0
  /\ consecutiveMisses = 0
  /\ budgetEscalated = FALSE
  /\ history = <<>>
  /\ alarms = {}

\* Seeded fault: the flag is never re-armed by a healthy frame.
NeverRearmed(escalated) == budgetEscalated \/ escalated

\* main's if / else-if / else chain leaves the flag equal to Escalated().
NextEscalated(escalated) == escalated

RecordFrame(within) ==
  LET escalated == EscalatedAt(NextConsecutive(consecutiveMisses, within))
  IN  /\ Len(history) < MaxFrames
      /\ totalMisses' = IF within THEN totalMisses
                        ELSE (totalMisses + 1) % (CounterMax + 1)
      /\ consecutiveMisses' = NextConsecutive(consecutiveMisses, within)
      /\ alarms' = IF escalated /\ ~budgetEscalated
                   THEN alarms \cup {Len(history) + 1} ELSE alarms
      /\ budgetEscalated' = NextEscalated(escalated)
      /\ history' = Append(history, within)

Next == \E within \in BOOLEAN : RecordFrame(within)

Spec == Init /\ [][Next]_vars
-----------------------------------------------------------------------------
\* Frame n is the one at which a run of misses has just reached the
\* threshold: the last MaxConsecutiveMisses frames all missed, and the run
\* started right there.
CompletesRun(n) ==
  /\ MaxConsecutiveMisses > 0
  /\ MaxConsecutiveMisses <= n
  /\ \A k \in (n - MaxConsecutiveMisses + 1)..n : ~history[k]
  /\ n > MaxConsecutiveMisses => history[n - MaxConsecutiveMisses]

\* "Edge-triggered: one event per sustained-miss episode" (main.cpp): a
\* deadline event is raised at exactly the frames where a run of misses
\* reaches the threshold, never earlier, never again in the same run, and
\* always again in the next one, however long a run lasts (the run counter
\* sticking at its maximum included).
OneAlarmPerEpisode == alarms = {n \in 1..Len(history) : CompletesRun(n)}
==============================================================================
