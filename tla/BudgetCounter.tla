---------------------------- MODULE BudgetCounter ----------------------------
(***************************************************************************)
(* The counting core of engine/core/frame_budget.hpp, as operators shared  *)
(* by the monitor's own model (FrameBudget) and by the frame loop that     *)
(* feeds it (FrameLoop).  Render times are abstracted to the one bit       *)
(* RecordFrame derives from them: within the deadline, or not.             *)
(***************************************************************************)
EXTENDS Naturals

CONSTANTS
  MaxConsecutiveMisses,  \* Config::maxConsecutiveMisses; 0 disables escalation
  CounterMax             \* UINT32_MAX, the value at which the run counter sticks

ASSUME BudgetAssumption ==
  /\ MaxConsecutiveMisses \in Nat
  /\ CounterMax \in Nat \ {0}
  /\ MaxConsecutiveMisses <= CounterMax

\* Seeded fault: the counter wraps at its width instead of sticking.
WrappingConsecutive(consecutive, within) ==
  IF within THEN 0 ELSE (consecutive + 1) % (CounterMax + 1)

\* Seeded fault: nothing stops the counter at its width.
UncappedConsecutive(consecutive, within) == IF within THEN 0 ELSE consecutive + 1

\* m_consecutiveMisses after RecordFrame: a hit clears it, a miss adds one
\* unless it already stands at UINT32_MAX.
NextConsecutive(consecutive, within) ==
  IF within THEN 0
  ELSE IF consecutive < CounterMax THEN consecutive + 1
  ELSE consecutive

\* Escalated(): the run of misses has reached the configured threshold.
EscalatedAt(consecutive) ==
  /\ MaxConsecutiveMisses > 0
  /\ consecutive >= MaxConsecutiveMisses
==============================================================================
