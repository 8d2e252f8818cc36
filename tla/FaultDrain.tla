------------------------------ MODULE FaultDrain ------------------------------
(***************************************************************************)
(* Driver faults: VkscContext::DrainFaults polls vkGetFaultData at the top *)
(* of every frame, clears the driver's record and forwards what it read to *)
(* the fault sink (ConsoleHealthMonitor), which turns critical faults and  *)
(* lost records into eDriverFault events.                                  *)
(*                                                                         *)
(* The driver (external) records a fault at any moment into a log of       *)
(* bounded length and only remembers THAT more happened once it is full.   *)
(* The rest of the frame loop is abstracted to finishing a frame or        *)
(* stopping for a failure of its own (FrameLoop has the details).          *)
(***************************************************************************)
EXTENDS Naturals, Sequences, FiniteSets, Functions

CONSTANTS
  PropertyLimit,     \* the device's maxQueryFaultCount: what its log can hold
  MaxFaultEntries,   \* kMaxFaultEntries, the size of the fetch array
  MaxFaults,         \* bound on the faults that occur
  MaxFrames          \* kMaxFrames

ASSUME FaultAssumption ==
  /\ PropertyLimit \in Nat
  /\ MaxFaultEntries \in Nat \ {0}
  /\ MaxFaults \in Nat
  /\ MaxFrames \in Nat \ {0}

VARIABLES
  pc,           \* "poll", "frame" or "stopped"
  frameNumber,
  log,          \* driver: recorded faults, oldest first
  unrecorded,   \* driver: faults occurred that did not fit
  faultFrame,   \* ConsoleHealthMonitor::m_faultFrame
  occurred,     \* observer: occurred[f] = [critical, frame] of fault f
  recorded,     \* observer: faults the driver recorded
  forwarded,    \* observer: OnFault calls, in order
  polls,        \* observer: faults that had occurred at each successful poll
  overflows,    \* observer: the polls that called OnUnrecordedFaults
  events        \* observer: frameNumber argument of each eDriverFault event

vars == <<pc, frameNumber, log, unrecorded, faultFrame, occurred, recorded,
          forwarded, polls, overflows, events>>
observers == <<occurred, recorded, forwarded, polls, overflows, events>>

Faults == 1..Len(occurred)

Init ==
  /\ pc = "poll" /\ frameNumber = 0
  /\ log = <<>> /\ unrecorded = FALSE
  /\ faultFrame = 0
  /\ occurred = <<>> /\ recorded = {} /\ forwarded = <<>>
  /\ polls = <<>> /\ overflows = {} /\ events = <<>>

\* The driver detects a fault.
FaultOccurs ==
  /\ Len(occurred) < MaxFaults
  /\ \E critical \in BOOLEAN :
       occurred' = Append(occurred, [critical |-> critical, frame |-> frameNumber])
  /\ IF Len(log) < PropertyLimit
     THEN /\ log' = Append(log, Len(occurred) + 1)
          /\ recorded' = recorded \cup {Len(occurred) + 1}
          /\ UNCHANGED unrecorded
     ELSE /\ unrecorded' = TRUE
          /\ UNCHANGED <<log, recorded>>
  /\ UNCHANGED <<pc, frameNumber, faultFrame, forwarded, polls, overflows, events>>

\* m_maxQueryFaultCount: a limit reported as 0 is taken as the array size.
MaxQueryFaultCount == IF PropertyLimit > 0 THEN PropertyLimit ELSE MaxFaultEntries

\* Seeded fault: room for one fault less than the log holds.
FaultCountShort ==
  IF MaxQueryFaultCount < MaxFaultEntries THEN MaxQueryFaultCount - 1 ELSE MaxFaultEntries

\* The count passed to vkGetFaultData, clamped to the array.
FaultCount ==
  IF MaxQueryFaultCount < MaxFaultEntries THEN MaxQueryFaultCount ELSE MaxFaultEntries

Fetched == SubSeq(log, 1, IF FaultCount < Len(log) THEN FaultCount ELSE Len(log))

\* The calls of OnFault that name a critical fault, by their places in s.
CriticalIn(s) == {k \in DOMAIN s : occurred[s[k]].critical}

\* Seeded fault: OnUnrecordedFaults only logs.
CriticalEventsOnly ==
  [k \in 1..Cardinality(CriticalIn(Fetched)) |-> faultFrame + k - 1]

\* Critical faults, one by one, then the lost records: one eDriverFault each.
NewEvents ==
  LET n == Cardinality(CriticalIn(Fetched)) + (IF unrecorded THEN 1 ELSE 0)
  IN  [k \in 1..n |-> faultFrame + k - 1]

\* A poll that succeeded, as the observers see it.
Polled(lost) ==
  /\ polls' = Append(polls, Len(occurred))
  /\ overflows' = overflows \cup (IF lost THEN {Len(polls) + 1} ELSE {})

\* Seeded fault: GET_AND_CLEAR replaced by a query that keeps the log.
DrainKeepsLog ==
  /\ pc = "poll"
  /\ forwarded' = forwarded \o Fetched
  /\ Polled(unrecorded)
  /\ events' = events \o NewEvents
  /\ faultFrame' = faultFrame + Len(NewEvents)
  /\ pc' = "frame"
  /\ UNCHANGED <<frameNumber, log, unrecorded, occurred, recorded>>

\* Seeded fault: a latch lets only the first loss through to the sink.
DrainSignalsOnce ==
  LET raised == IF overflows = {} THEN NewEvents ELSE CriticalEventsOnly
  IN  /\ pc = "poll"
      /\ forwarded' = forwarded \o Fetched
      /\ Polled(unrecorded /\ overflows = {})
      /\ events' = events \o raised
      /\ faultFrame' = faultFrame + Len(raised)
      /\ log' = <<>> /\ unrecorded' = FALSE
      /\ pc' = "frame"
      /\ UNCHANGED <<frameNumber, occurred, recorded>>

\* DrainFaults, vkGetFaultData answering SUCCESS or INCOMPLETE: the whole log
\* and the overflow flag are cleared, whatever the array could take.
Drain ==
  /\ pc = "poll"
  /\ forwarded' = forwarded \o Fetched
  /\ Polled(unrecorded)
  /\ events' = events \o NewEvents
  /\ faultFrame' = faultFrame + Len(NewEvents)
  /\ log' = <<>> /\ unrecorded' = FALSE
  /\ pc' = "frame"
  /\ UNCHANGED <<frameNumber, occurred, recorded>>

\* vkGetFaultData fails: a warning, and the frame goes on without a poll.
DrainFail ==
  /\ pc = "poll"
  /\ pc' = "frame"
  /\ UNCHANGED <<frameNumber, log, unrecorded, faultFrame, observers>>

\* Seeded fault: one frame too many.
FinishFrameLate ==
  /\ pc = "frame"
  /\ frameNumber' = frameNumber + 1
  /\ pc' = IF frameNumber >= MaxFrames THEN "stopped" ELSE "poll"
  /\ UNCHANGED <<log, unrecorded, faultFrame, observers>>

\* The rest of the iteration reaches ++frameNumber.
FinishFrame ==
  /\ pc = "frame"
  /\ frameNumber' = frameNumber + 1
  /\ pc' = IF frameNumber + 1 >= MaxFrames THEN "stopped" ELSE "poll"
  /\ UNCHANGED <<log, unrecorded, faultFrame, observers>>

\* A call of the frame failed: break, with no further poll.
AbortFrame ==
  /\ pc = "frame"
  /\ pc' = "stopped"
  /\ UNCHANGED <<frameNumber, log, unrecorded, faultFrame, observers>>

Terminated == pc = "stopped" /\ UNCHANGED vars

Next == FaultOccurs \/ Drain \/ DrainFail \/ FinishFrame \/ AbortFrame \/ Terminated

Spec == Init /\ [][Next]_vars
-----------------------------------------------------------------------------
TypeOK ==
  /\ pc \in {"poll", "frame", "stopped"}
  /\ frameNumber \in 0..MaxFrames
  /\ log \in Seq(Faults)
  /\ unrecorded \in BOOLEAN
  /\ faultFrame \in Nat
  /\ occurred \in Seq([critical : BOOLEAN, frame : Nat])
  /\ recorded \subseteq Faults
  /\ forwarded \in Seq(Faults)
  /\ polls \in Seq(Nat)
  /\ overflows \subseteq DOMAIN polls
  /\ events \in Seq(Nat)

\* "each unique fault is reported at most once per mechanism", and in the
\* order the driver detected them.
ReportedOnceInOrder ==
  \A j, k \in DOMAIN forwarded : j < k => forwarded[j] < forwarded[k]

\* The faults that occurred between the successful poll before the k-th and it.
Since(k) == ((IF k = 1 THEN 0 ELSE polls[k-1]) + 1)..polls[k]

\* The sink hears of every loss, and of no other: a successful poll signals lost
\* records exactly if some fault since the last successful one is never named
\* in an OnFault call - each time anew, and over the polls that failed between
\* them - provided the array is as large as the driver's log.
LossIsSignalled ==
  \A k \in DOMAIN polls : k \in overflows <=> Since(k) \ Range(forwarded) # {}

\* CRITICAL driver faults escalate: one eDriverFault event for each critical
\* fault forwarded and for each overflow signalled.
CriticalEscalates ==
  Len(events) = Cardinality(CriticalIn(forwarded)) + Cardinality(overflows)

\* "a worst-case latency of one frame": a poll that succeeds leaves no recorded
\* fault behind that the sink has not heard of, however many came since the
\* last one and however many polls failed before it - provided the array is as
\* large as the driver's log.
LatencyOneFrame ==
  [][Drain /\ MaxQueryFaultCount <= MaxFaultEntries =>
       recorded' \subseteq Range(forwarded')]_vars
-----------------------------------------------------------------------------
(* A statement of the documentation that the code does not keep.            *)

\* i_fault_sink.hpp: DrainFaults "forwards every recorded fault"; the fetch
\* array is "sized to the device limit so VK_INCOMPLETE cannot occur".
EveryRecordForwarded == recorded \subseteq Range(forwarded) \cup Range(log)
==============================================================================
