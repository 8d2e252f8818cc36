--------------------------- MODULE FrameLoop_proofs ---------------------------
(***************************************************************************)
(* Safety of the frame loop's resource hand-over, for any number of images *)
(* and frames: the fence protocol keeps the CPU out of the vertex and      *)
(* command buffers while the GPU uses them, never waits for a signal that  *)
(* cannot come; every failed call is reported once, as what it is; the two *)
(* semaphores are free whenever they are used again; what a stopped loop   *)
(* leaves on the device follows from the call that stopped it.             *)
(*                                                                         *)
(* The inductive invariant says how the fence, the queue and the loop's    *)
(* position go together: at most one submission is queued; a signalled     *)
(* fence means none is; between the reset of the fence and the submission  *)
(* neither holds; after it at least one does.                              *)
(***************************************************************************)
EXTENDS FrameLoop, SequenceTheorems, FiniteSetTheorems, TLAPS

\* Between WaitAndReset and Submit the loop owns the frame resources.
Owned == {"Attitude", "Acquire", "Record", "Recording", "Submit"}
Handed == {"Present", "Telemetry", "Drain", "Wait"}

\* What the loop holds at each location.
LoopInv ==
  /\ pc \in {"Record", "Recording", "Submit", "Present"} => imageIndex \in Images
  /\ pc = "Submit" => cmd.frame \in Nat

QueueInv ==
  /\ \A j, k \in Renders : j = k
  /\ fence => Renders = {}
  /\ pc \in Owned => Renders = {} /\ ~fence
  /\ pc \in Handed => fence \/ Renders # {}
  /\ fetched # None => queue # <<>> /\ Head(queue).op = "render"

IInv == TypeOK /\ LoopInv /\ QueueInv
-----------------------------------------------------------------------------
\* The queue's submissions after one more operation is issued.
LEMMA AppendRenders ==
  ASSUME NEW q \in Seq(Operations), NEW e \in Operations
  PROVE  /\ Append(q, e) \in Seq(Operations)
         /\ Append(q, e) # <<>>
         /\ q # <<>> => Head(Append(q, e)) = Head(q)
         /\ e.op = "present" => RendersIn(Append(q, e)) = RendersIn(q)
         /\ e.op = "render" => RendersIn(Append(q, e)) = RendersIn(q) \cup {Len(q) + 1}
  BY DEF RendersIn

\* The queue's submissions after its oldest operation is executed.
LEMMA TailRenders ==
  ASSUME NEW q \in Seq(Operations), q # <<>>
  PROVE  /\ Tail(q) \in Seq(Operations)
         /\ Head(q) \in Operations
         /\ Head(q) = q[1] /\ 1 \in DOMAIN q
         /\ \A k \in RendersIn(Tail(q)) : k \in Nat /\ k + 1 \in RendersIn(q) /\ k > 0
         /\ \A k \in RendersIn(q) : k = 1 \/ k - 1 \in RendersIn(Tail(q))
         /\ RendersIn(q) \subseteq Nat
  BY DEF RendersIn

\* An idle queue holds no submission.
LEMMA EmptyRenders == RendersIn(<<>>) = {}
  BY DEF RendersIn

\* The deadline monitor's counter keeps its width.
LEMMA NextConsecutiveType ==
  ASSUME NEW c \in 0..CounterMax, NEW w \in BOOLEAN
  PROVE  NextConsecutive(c, w) \in 0..CounterMax
  BY BudgetAssumption DEF NextConsecutive

\* Every event the loop raises is a health event.
LEMMA Events ==
  /\ \A e \in FatalEvents : e \in HealthEvents
  /\ \A e \in {"eInputDataInvalid", "eFrameDeadlineMiss", "eDriverFault"} : e \in HealthEvents
  /\ FatalEvents = {"eGpuHang", "eDeviceLost", "eSurfaceLost", "eAcquireFailed",
                    "ePresentFailed", "eSubmitFailed", "eRecordFailed"}
  BY DEF FatalEvents, HealthEvents

\* When the loop is entered the fence is signalled and nothing is queued.
LEMMA InitIInv == Init => IInv
<1> SUFFICES ASSUME Init PROVE IInv
  OBVIOUS
<1>1. TypeOK
  <2>1. /\ content \in [Images -> [geometry : Samples \cup {Torn}, colour : Samples]]
        /\ owner \in [Images -> {"engine", "app", "display"}]
    BY DEF Init, Samples, Blank
  <2>2. queue \in Seq(Operations) /\ flips \in Seq([image : Images, frame : Nat])
        /\ report \in Seq(HealthEvents)
    BY EmptySeq DEF Init
  <2>3. /\ pc \in Locations /\ frameNumber \in Nat
        /\ imageIndex \in Images \cup {None}
        /\ consecutiveMisses \in 0..CounterMax
        /\ imageAvailable \in {"unsignalled", "pending", "signalled"}
    BY BudgetAssumption DEF Init, Locations
  <2>4. /\ vbuf \in Samples \cup {Torn} /\ fetched \in Samples \cup {Torn}
        /\ cmd \in [frame : Samples, image : Images \cup {None}]
        /\ onScreen \in [image : Images, frame : Nat] \cup {NothingShown}
        /\ scanout \subseteq Images /\ cause \in Calls \X Results
        /\ kicks \in Nat /\ rendered \in Nat
    BY DEF Init, Samples, Unrecorded, NoCause, Calls, Results
  <2>5. /\ loopRunning \in BOOLEAN /\ renderLate \in BOOLEAN /\ budgetEscalated \in BOOLEAN
        /\ fence \in BOOLEAN /\ renderComplete \in BOOLEAN
    BY DEF Init
  <2>6. QED
    BY <2>1, <2>2, <2>3, <2>4, <2>5 DEF TypeOK
<1>2. LoopInv /\ QueueInv
  BY EmptyRenders DEF Init, LoopInv, QueueInv, Owned, Handed, Renders
<1>3. QED
  BY <1>1, <1>2 DEF IInv

\* Presented frames, in and out of the flip queue.
LEMMA FlipTypes ==
  ASSUME NEW f \in Seq([image : Images, frame : Nat])
  PROVE  /\ \A i \in Images, n \in Nat :
              Append(f, [image |-> i, frame |-> n]) \in Seq([image : Images, frame : Nat])
         /\ f # <<>> => /\ Head(f).image \in Images
                         /\ Head(f) \in [image : Images, frame : Nat]
                         /\ Tail(f) \in Seq([image : Images, frame : Nat])
<1>1. ASSUME NEW i \in Images, NEW n \in Nat
      PROVE  Append(f, [image |-> i, frame |-> n]) \in Seq([image : Images, frame : Nat])
  <2>1. [image |-> i, frame |-> n] \in [image : Images, frame : Nat]
    OBVIOUS
  <2>2. QED
    BY <2>1, AppendProperties
<1>2. ASSUME f # <<>>
      PROVE  /\ Head(f) \in [image : Images, frame : Nat]
             /\ Tail(f) \in Seq([image : Images, frame : Nat])
  BY <1>2, HeadTailProperties
<1>3. QED
  BY <1>1, <1>2

\* What the abort of a frame leaves behind is well typed.
LEMMA AbortTypes ==
  ASSUME TypeOK, NEW call \in Calls, NEW result \in Results, NEW event \in HealthEvents,
         Abort(call, result, event)
  PROVE  /\ pc' \in Locations /\ loopRunning' \in BOOLEAN
         /\ report' \in Seq(HealthEvents) /\ cause' \in Calls \X Results
  BY AppendProperties DEF TypeOK, Abort, Goto, Locations

\* Every call of the loop and every step of the device keeps the types.
LEMMA StepTypeOK == TypeOK /\ LoopInv /\ QueueInv /\ [Next]_vars => TypeOK'
<1> SUFFICES ASSUME TypeOK, LoopInv, QueueInv, [Next]_vars PROVE TypeOK'
  OBVIOUS
<1> USE DEF TypeOK, LoopInv, QueueInv, Locations, Samples, Goto, loopVars, budgetVars, syncVars, bufferVars, deviceVars, observers
<1>1. CASE DrainFaults
  BY <1>1, Events DEF DrainFaults
<1>2. CASE WaitAndReset
  <2>1. pc' \in Locations /\ fence' \in BOOLEAN
    BY <1>2 DEF WaitAndReset
  <2>2. QED
    BY <1>2, <2>1 DEF WaitAndReset
<1>3. CASE WaitTimeout
  <2>1. Abort("wait", "TIMEOUT", "eGpuHang")
    BY <1>3, Events DEF WaitTimeout
  <2>2. /\ pc' \in Locations /\ loopRunning' \in BOOLEAN
        /\ report' \in Seq(HealthEvents) /\ cause' \in Calls \X Results
    BY <2>1, AbortTypes, Events DEF Calls, Results
  <2>3. QED
    BY <1>3, <2>2 DEF WaitTimeout
<1>4. CASE GetAttitude
  BY <1>4, Events, AppendProperties DEF GetAttitude
<1>5. CASE Acquire
  BY <1>5 DEF Acquire
<1>6. CASE WriteVertices
  BY <1>6 DEF WriteVertices
<1>7. CASE RecordFrame
  BY <1>7 DEF RecordFrame
<1>8. CASE Submit
  BY <1>8, AppendRenders DEF Submit, Render, Operations
<1>9. CASE PresentFrame
  BY <1>9, AppendRenders DEF PresentFrame, Present, Operations
<1>10. CASE Telemetry
  <2>1. consecutiveMisses' \in 0..CounterMax /\ budgetEscalated' \in BOOLEAN
    BY <1>10, NextConsecutiveType DEF Telemetry, EscalatedAt
  <2>2. report' \in Seq(HealthEvents) /\ cause' \in Calls \X Results
    BY <1>10, Events, AppendProperties DEF Telemetry, Calls, Results
  <2>3. frameNumber' \in Nat /\ loopRunning' \in BOOLEAN /\ pc' \in Locations
    BY <1>10 DEF Telemetry
  <2>4. QED
    BY <1>10, <2>1, <2>2, <2>3 DEF Telemetry
<1>11. CASE WaitIdle
  BY <1>11 DEF WaitIdle
<1>12. CASE DestroyAll
  BY <1>12 DEF DestroyAll
<1>13. CASE WaitFail
  <2>1. \E result \in Results, event \in HealthEvents : Abort("wait", result, event)
    BY <1>13, Events DEF WaitFail, Results
  <2>2. /\ pc' \in Locations /\ loopRunning' \in BOOLEAN
        /\ report' \in Seq(HealthEvents) /\ cause' \in Calls \X Results
    BY <2>1, AbortTypes, Events DEF Calls, Results
  <2>3. QED
    BY <1>13, <2>2 DEF WaitFail
<1>14. CASE AcquireSuboptimal
  <2>1. Abort("acquire", "SUBOPTIMAL", "eSurfaceLost")
    BY <1>14, Events DEF AcquireSuboptimal
  <2>2. /\ pc' \in Locations /\ loopRunning' \in BOOLEAN
        /\ report' \in Seq(HealthEvents) /\ cause' \in Calls \X Results
    BY <2>1, AbortTypes, Events DEF Calls, Results
  <2>3. QED
    BY <1>14, <2>2 DEF AcquireSuboptimal
<1>15. CASE AcquireFail
  <2>1. \E result \in Results, event \in HealthEvents : Abort("acquire", result, event)
    BY <1>15, Events DEF AcquireFail, AcquireEvent, Results
  <2>2. /\ pc' \in Locations /\ loopRunning' \in BOOLEAN
        /\ report' \in Seq(HealthEvents) /\ cause' \in Calls \X Results
    BY <2>1, AbortTypes, Events DEF Calls, Results
  <2>3. QED
    BY <1>15, <2>2 DEF AcquireFail
<1>16. CASE RecordFail
  <2>1. Abort("record", "NULL", "eRecordFailed")
    BY <1>16, Events DEF RecordFail
  <2>2. /\ pc' \in Locations /\ loopRunning' \in BOOLEAN
        /\ report' \in Seq(HealthEvents) /\ cause' \in Calls \X Results
    BY <2>1, AbortTypes, Events DEF Calls, Results
  <2>3. QED
    BY <1>16, <2>2 DEF RecordFail, Unrecorded
<1>17. CASE SubmitFail
  <2>1. \E result \in Results, event \in HealthEvents : Abort("submit", result, event)
    BY <1>17, Events DEF SubmitFail, Results
  <2>2. /\ pc' \in Locations /\ loopRunning' \in BOOLEAN
        /\ report' \in Seq(HealthEvents) /\ cause' \in Calls \X Results
    BY <2>1, AbortTypes, Events DEF Calls, Results
  <2>3. QED
    BY <1>17, <2>2 DEF SubmitFail
<1>18. CASE PresentFail
  <2>1. \E result \in Results, event \in HealthEvents :
            report' = Append(report, event) /\ cause' = <<"present", result>>
    BY <1>18, Events DEF PresentFail, PresentEvent, Results
  <2>2. report' \in Seq(HealthEvents) /\ cause' \in Calls \X Results
    BY <2>1, AppendProperties DEF Calls
  <2>3. pc' \in Locations /\ loopRunning' \in BOOLEAN
    BY <1>18 DEF PresentFail
  <2>4. QED
    BY <1>18, <2>2, <2>3 DEF PresentFail
<1>19. CASE WaitIdleFail \/ DestroyAllFail
  <2>1. queue' \in Seq(Operations) /\ fetched' \in Samples \cup {Torn}
    <3>1. <<>> \in Seq(Operations)
      BY EmptySeq
    <3>2. IdleWaitFails
      BY <1>19 DEF WaitIdleFail, DestroyAllFail
    <3>3. QED
      BY <3>1, <3>2 DEF IdleWaitFails
  <2>2. pc' \in Locations
    BY <1>19 DEF WaitIdleFail, DestroyAllFail
  <2>3. QED
    BY <1>19, <2>1, <2>2 DEF WaitIdleFail, DestroyAllFail
<1>20. CASE GpuStart
  BY <1>20 DEF GpuStart
<1>21. CASE GpuFinish
  BY <1>21, TailRenders DEF GpuFinish, Operations
<1>22. CASE ImageReady
  BY <1>22 DEF ImageReady
<1>23. CASE PresentExecute
  <2>1. /\ Head(queue).image \in Images /\ Head(queue).frame \in Nat
        /\ Tail(queue) \in Seq(Operations)
    BY <1>23, TailRenders DEF PresentExecute, Operations
  <2>2. flips' \in Seq([image : Images, frame : Nat])
    BY <1>23, <2>1, FlipTypes DEF PresentExecute
  <2>3. owner' \in [Images -> {"engine", "app", "display"}]
    BY <1>23, <2>1 DEF PresentExecute
  <2>4. queue' \in Seq(Operations) /\ renderComplete' \in BOOLEAN
    BY <1>23, <2>1 DEF PresentExecute
  <2>5. QED
    BY <1>23, <2>2, <2>3, <2>4 DEF PresentExecute
<1>24. CASE Flip
  <2>1. flips' \in Seq([image : Images, frame : Nat]) /\ scanout' \subseteq Images
    BY <1>24, FlipTypes DEF Flip
  <2>2. onScreen' \in [image : Images, frame : Nat] \cup {NothingShown}
    BY <1>24, FlipTypes DEF Flip
  <2>3. owner' \in [Images -> {"engine", "app", "display"}]
    BY <1>24 DEF Flip
  <2>4. QED
    BY <1>24, <2>1, <2>2, <2>3 DEF Flip
<1>25. CASE ScanoutDone
  BY <1>25 DEF ScanoutDone
<1>26. CASE Terminated
  BY <1>26 DEF Terminated, vars
<1>27. CASE UNCHANGED vars
  BY <1>27 DEF vars
<1>28. QED
  BY <1>1, <1>2, <1>3, <1>4, <1>5, <1>6, <1>7, <1>8, <1>9, <1>10, <1>11, <1>12, <1>13, <1>14, <1>15, <1>16, <1>17, <1>18, <1>19, <1>20, <1>21, <1>22, <1>23, <1>24, <1>25, <1>26, <1>27 DEF Next, LoopStep, CallFails, GpuStep, DisplayStep

\* From Acquire to Present the loop holds an image, at Submit a recording.
LEMMA StepLoopInv == TypeOK /\ LoopInv /\ QueueInv /\ [Next]_vars => LoopInv'
<1> SUFFICES ASSUME TypeOK, LoopInv, QueueInv, [Next]_vars PROVE LoopInv'
  OBVIOUS
<1> USE DEF TypeOK, LoopInv, Samples, Locations, Goto, Abort, Calls, Results, loopVars, budgetVars, syncVars, bufferVars, deviceVars, observers
<1>1. CASE DrainFaults
  BY <1>1 DEF DrainFaults
<1>2. CASE WaitAndReset
  BY <1>2 DEF WaitAndReset
<1>3. CASE WaitTimeout
  BY <1>3 DEF WaitTimeout
<1>4. CASE GetAttitude
  BY <1>4 DEF GetAttitude
<1>5. CASE Acquire
  BY <1>5 DEF Acquire
<1>6. CASE WriteVertices
  BY <1>6 DEF WriteVertices
<1>7. CASE RecordFrame
  BY <1>7 DEF RecordFrame
<1>8. CASE Submit
  BY <1>8 DEF Submit
<1>9. CASE PresentFrame
  BY <1>9 DEF PresentFrame
<1>10. CASE Telemetry
  BY <1>10 DEF Telemetry
<1>11. CASE WaitIdle
  BY <1>11 DEF WaitIdle
<1>12. CASE DestroyAll
  BY <1>12 DEF DestroyAll
<1>13. CASE WaitFail
  BY <1>13 DEF WaitFail
<1>14. CASE AcquireSuboptimal
  BY <1>14 DEF AcquireSuboptimal
<1>15. CASE AcquireFail
  BY <1>15 DEF AcquireFail
<1>16. CASE RecordFail
  BY <1>16 DEF RecordFail
<1>17. CASE SubmitFail
  BY <1>17 DEF SubmitFail
<1>18. CASE PresentFail
  BY <1>18 DEF PresentFail
<1>19. CASE WaitIdleFail \/ DestroyAllFail
  BY <1>19 DEF WaitIdleFail, DestroyAllFail
<1>20. CASE GpuStart
  BY <1>20 DEF GpuStart
<1>21. CASE GpuFinish
  BY <1>21 DEF GpuFinish
<1>22. CASE ImageReady
  BY <1>22 DEF ImageReady
<1>23. CASE PresentExecute
  BY <1>23 DEF PresentExecute
<1>24. CASE Flip
  BY <1>24 DEF Flip
<1>25. CASE ScanoutDone
  BY <1>25 DEF ScanoutDone
<1>26. CASE Terminated
  BY <1>26 DEF Terminated, vars
<1>27. CASE UNCHANGED vars
  BY <1>27 DEF vars
<1>28. QED
  BY <1>1, <1>2, <1>3, <1>4, <1>5, <1>6, <1>7, <1>8, <1>9, <1>10, <1>11, <1>12, <1>13, <1>14, <1>15, <1>16, <1>17, <1>18, <1>19, <1>20, <1>21, <1>22, <1>23, <1>24, <1>25, <1>26, <1>27 DEF Next, LoopStep, CallFails, GpuStep, DisplayStep

\* The fence, the queue and the loop's position stay in step: the fence is
\* reset only when signalled, and signalled only by the one submission queued.
LEMMA StepQueueInv == TypeOK /\ LoopInv /\ QueueInv /\ [Next]_vars => QueueInv'
<1> SUFFICES ASSUME TypeOK, LoopInv, QueueInv, [Next]_vars PROVE QueueInv'
  OBVIOUS
<1> USE DEF TypeOK, QueueInv, Owned, Handed, Renders, Locations, Goto, Abort, Calls, Results, loopVars, budgetVars, syncVars, bufferVars, deviceVars, observers
<1>1. CASE DrainFaults
  BY <1>1 DEF DrainFaults
<1>2. CASE WaitAndReset
  BY <1>2 DEF WaitAndReset
<1>3. CASE WaitTimeout
  BY <1>3 DEF WaitTimeout
<1>4. CASE GetAttitude
  BY <1>4 DEF GetAttitude
<1>5. CASE Acquire
  BY <1>5 DEF Acquire
<1>6. CASE WriteVertices
  BY <1>6 DEF WriteVertices
<1>7. CASE RecordFrame
  BY <1>7 DEF RecordFrame
<1>8. CASE Submit
  <2>1. Render(imageIndex, cmd.frame) \in Operations
    BY <1>8 DEF Submit, Render, Operations, LoopInv
  <2>2. Renders' = RendersIn(queue) \cup {Len(queue) + 1}
    BY <1>8, <2>1, AppendRenders DEF Submit, Render
  <2>3. RendersIn(queue) = {}
    BY <1>8 DEF Submit
  <2>4. fetched = None /\ queue' # <<>>
    BY <1>8, <2>1, <2>3, TailRenders, AppendRenders DEF Submit, RendersIn
  <2>5. QED
    BY <1>8, <2>2, <2>3, <2>4 DEF Submit
<1>9. CASE PresentFrame
  BY <1>9, AppendRenders DEF PresentFrame, Present, Operations, LoopInv
<1>10. CASE Telemetry
  BY <1>10 DEF Telemetry
<1>11. CASE WaitIdle
  BY <1>11 DEF WaitIdle
<1>12. CASE DestroyAll
  BY <1>12 DEF DestroyAll
<1>13. CASE WaitFail
  BY <1>13 DEF WaitFail
<1>14. CASE AcquireSuboptimal
  BY <1>14 DEF AcquireSuboptimal
<1>15. CASE AcquireFail
  BY <1>15 DEF AcquireFail
<1>16. CASE RecordFail
  BY <1>16 DEF RecordFail
<1>17. CASE SubmitFail
  BY <1>17 DEF SubmitFail
<1>18. CASE PresentFail
  BY <1>18 DEF PresentFail
<1>19. CASE WaitIdleFail \/ DestroyAllFail
  BY <1>19, EmptyRenders DEF WaitIdleFail, DestroyAllFail, IdleWaitFails
<1>20. CASE GpuStart
  BY <1>20, TailRenders DEF GpuStart
<1>21. CASE GpuFinish
  BY <1>21, TailRenders DEF GpuFinish, RendersIn, Operations
<1>22. CASE ImageReady
  BY <1>22 DEF ImageReady
<1>23. CASE PresentExecute
  <2>1. /\ \A k \in Renders' : k + 1 \in RendersIn(queue) /\ k \in Nat
        /\ \A k \in RendersIn(queue) : k - 1 \in Renders' /\ k \in Nat
    <3>1. queue \in Seq(Operations) /\ queue # <<>> /\ queue' = Tail(queue)
      BY <1>23 DEF PresentExecute
    <3>2. 1 \notin RendersIn(queue)
      BY <1>23, <3>1, TailRenders DEF PresentExecute, RendersIn
    <3>3. QED
      BY <3>1, <3>2, TailRenders
  <2>2. fetched = None
    BY <1>23 DEF PresentExecute
  <2>3. /\ \A j, k \in Renders' : j = k
        /\ Renders' = {} <=> Renders = {}
    BY <2>1
  <2>4. UNCHANGED <<pc, fence, fetched>>
    BY <1>23 DEF PresentExecute
  <2>5. QED
    BY <2>2, <2>3, <2>4
<1>24. CASE Flip
  BY <1>24 DEF Flip
<1>25. CASE ScanoutDone
  BY <1>25 DEF ScanoutDone
<1>26. CASE Terminated
  BY <1>26 DEF Terminated, vars
<1>27. CASE UNCHANGED vars
  BY <1>27 DEF vars
<1>28. QED
  BY <1>1, <1>2, <1>3, <1>4, <1>5, <1>6, <1>7, <1>8, <1>9, <1>10, <1>11, <1>12, <1>13, <1>14, <1>15, <1>16, <1>17, <1>18, <1>19, <1>20, <1>21, <1>22, <1>23, <1>24, <1>25, <1>26, <1>27 DEF Next, LoopStep, CallFails, GpuStep, DisplayStep

\* The invariant of the hand-over: it holds in every reachable state, for any
\* number of images and frames.
THEOREM HandOver == Spec => []IInv
<1>1. IInv /\ [Next]_vars => IInv'
  BY StepTypeOK, StepLoopInv, StepQueueInv DEF IInv
<1>2. QED
  BY InitIInv, <1>1, PTL DEF Spec

\* Type correctness.
THEOREM TypeCorrect == Spec => []TypeOK
  BY HandOver, PTL DEF IInv

\* The CPU rewrites the vertex buffer and the command buffer only while the
\* GPU has no submission that uses them.
THEOREM BuffersNotShared == Spec => []BuffersExclusive
<1>1. IInv => BuffersExclusive
  BY DEF IInv, QueueInv, Owned, BuffersExclusive
<1>2. QED
  BY HandOver, <1>1, PTL

\* WaitAndReset is never called on a fence nobody is going to signal.
THEOREM FenceIsSignalled == Spec => []FenceWillSignal
<1>1. IInv => FenceWillSignal
  BY DEF IInv, QueueInv, Handed, FenceWillSignal
<1>2. QED
  BY HandOver, <1>1, PTL
-----------------------------------------------------------------------------
(* What the loop reports.  Before the outcome of a frame's calls is known the *)
(* loop runs and has reported nothing fatal; whatever stops it is known from *)
(* the cause and from the one fatal event it left.                           *)

\* Before the outcome of the frame's calls is known.
Running == {"Drain", "Wait", "Attitude", "Acquire", "Record", "Recording", "Submit", "Present"}

\* The one fatal event of a failed call, and what it says of the result.
ReportedFor(result) ==
  \E k \in DOMAIN report :
    /\ FatalReports = {k}
    /\ result = "DEVICE_LOST" => report[k] = "eDeviceLost"
    /\ result = "TIMEOUT" <=> report[k] = "eGpuHang"

\* What the loop has reported, told from where it is and what ended it.
ReportInv ==
  /\ pc \in Running => loopRunning
  /\ Stopped => ~loopRunning
  /\ loopRunning => cause = NoCause /\ FatalReports = {}
  /\ ~loopRunning =>
       IF cause[1] = "limit" THEN FatalReports = {} /\ cause[2] = "SUCCESS" /\ Stopped
       ELSE /\ cause[1] # "none"
            /\ pc = "Telemetry" => cause[1] = "present"
            /\ ReportedFor(cause[2])

\* The fatal positions of a report after one more event.
LEMMA AppendReport ==
  ASSUME TypeOK, NEW e \in HealthEvents, report' = Append(report, e)
  PROVE  /\ e \notin FatalEvents => FatalReports' = FatalReports
         /\ e \in FatalEvents => FatalReports' = FatalReports \cup {Len(report) + 1}
         /\ DOMAIN report \subseteq DOMAIN report'
         /\ \A k \in DOMAIN report : report'[k] = report[k]
         /\ Len(report) + 1 \in DOMAIN report' /\ report'[Len(report) + 1] = e
<1>1. /\ DOMAIN report = 1..Len(report) /\ Len(report) \in Nat
      /\ DOMAIN report' = 1..(Len(report) + 1)
      /\ \A k \in 1..Len(report) : report'[k] = report[k]
      /\ report'[Len(report) + 1] = e
  BY AppendProperties, LenProperties DEF TypeOK
<1>2. QED
  BY <1>1 DEF FatalReports

\* A call that fails while nothing fatal was reported leaves its one event.
LEMMA AbortReports ==
  ASSUME TypeOK, ReportInv, loopRunning, NEW result, NEW e \in FatalEvents,
         report' = Append(report, e), cause'[2] = result,
         result = "DEVICE_LOST" => e = "eDeviceLost",
         result = "TIMEOUT" <=> e = "eGpuHang"
  PROVE  ReportedFor(cause[2])'
<1>1. FatalReports' = {Len(report) + 1}
  BY AppendReport, Events DEF ReportInv
<1>2. Len(report) + 1 \in DOMAIN report' /\ report'[Len(report) + 1] = e
  BY AppendReport, Events
<1>3. QED
  BY <1>1, <1>2 DEF ReportedFor

\* Reports of other events leave the fatal one as it is.
LEMMA OtherReports ==
  ASSUME TypeOK, NEW result, cause' = cause,
         \/ UNCHANGED report
         \/ \E e \in HealthEvents \ FatalEvents : report' = Append(report, e)
  PROVE  /\ FatalReports' = FatalReports
         /\ ReportedFor(cause[2]) => ReportedFor(cause[2])'
<1>1. CASE UNCHANGED report
  BY <1>1 DEF FatalReports, ReportedFor
<1>2. CASE \E e \in HealthEvents \ FatalEvents : report' = Append(report, e)
  <2>1. /\ FatalReports' = FatalReports /\ DOMAIN report \subseteq DOMAIN report'
        /\ \A k \in DOMAIN report : report'[k] = report[k]
    BY <1>2, AppendReport
  <2>2. QED
    BY <2>1 DEF ReportedFor
<1>3. QED
  BY <1>1, <1>2

\* Each call leaves the reports and the cause it promises.
LEMMA StepReportInv == TypeOK /\ ReportInv /\ [Next]_vars => ReportInv'
<1> SUFFICES ASSUME TypeOK, ReportInv, [Next]_vars PROVE ReportInv'
  OBVIOUS
<1> USE DEF Running, Stopped, Goto
<1>a. /\ cause \in Calls \X Results /\ loopRunning \in BOOLEAN /\ pc \in Locations
      /\ NoCause[1] = "none" /\ NoCause[2] = "none"
  BY DEF TypeOK, NoCause
<1>1. CASE DrainFaults
  <2>1. FatalReports' = {}
    BY <1>1, Events DEF DrainFaults, FatalReports
  <2>2. QED
    BY <1>1, <2>1 DEF DrainFaults, ReportInv
<1>2. CASE GetAttitude
  <2>1. FatalReports' = FatalReports
    BY <1>2, OtherReports, Events DEF GetAttitude
  <2>2. QED
    BY <1>2, <2>1 DEF GetAttitude, ReportInv
<1>3. CASE WaitTimeout
  <2>1. /\ loopRunning /\ loopRunning' = FALSE /\ pc' = "Shutdown"
        /\ cause' = <<"wait", "TIMEOUT">>
        /\ report' = Append(report, "eGpuHang")
    BY <1>3 DEF WaitTimeout, Abort, ReportInv
  <2>2. ReportedFor(cause[2])'
    BY <2>1, AbortReports, Events
  <2>3. QED
    BY <2>1, <2>2 DEF ReportInv
<1>4. CASE WaitFail
  <2>1. /\ loopRunning /\ loopRunning' = FALSE /\ pc' = "Shutdown"
        /\ cause'[1] = "wait" /\ cause'[2] \in {"DEVICE_LOST", "OUT_OF_MEMORY"}
        /\ report' = Append(report, "eDeviceLost")
    BY <1>4 DEF WaitFail, Abort, ReportInv
  <2>2. ReportedFor(cause[2])'
    BY <2>1, AbortReports, Events
  <2>3. QED
    BY <2>1, <2>2 DEF ReportInv
<1>5. CASE AcquireSuboptimal
  <2>1. /\ loopRunning /\ loopRunning' = FALSE /\ pc' = "Shutdown"
        /\ cause' = <<"acquire", "SUBOPTIMAL">>
        /\ report' = Append(report, "eSurfaceLost")
    BY <1>5 DEF AcquireSuboptimal, Abort, ReportInv
  <2>2. ReportedFor(cause[2])'
    BY <2>1, AbortReports, Events
  <2>3. QED
    BY <2>1, <2>2 DEF ReportInv
<1>6. CASE AcquireFail
  <2>1. PICK result \in {"OUT_OF_DATE", "SURFACE_LOST", "DEVICE_LOST", "OUT_OF_MEMORY"} :
          Abort("acquire", result, AcquireEvent(result))
    BY <1>6 DEF AcquireFail
  <2>2. /\ loopRunning /\ loopRunning' = FALSE /\ pc' = "Shutdown"
        /\ cause'[1] = "acquire" /\ cause'[2] = result
        /\ report' = Append(report, AcquireEvent(result))
    BY <1>6, <2>1 DEF AcquireFail, Abort, ReportInv
  <2>3. /\ AcquireEvent(result) \in FatalEvents \ {"eGpuHang"}
        /\ result = "DEVICE_LOST" => AcquireEvent(result) = "eDeviceLost"
    BY Events DEF AcquireEvent
  <2>4. ReportedFor(cause[2])'
    BY <2>2, <2>3, AbortReports, Events
  <2>5. QED
    BY <2>2, <2>4 DEF ReportInv
<1>7. CASE RecordFail
  <2>1. /\ loopRunning /\ loopRunning' = FALSE /\ pc' = "Shutdown"
        /\ cause' = <<"record", "NULL">>
        /\ report' = Append(report, "eRecordFailed")
    BY <1>7 DEF RecordFail, Abort, ReportInv
  <2>2. ReportedFor(cause[2])'
    BY <2>1, AbortReports, Events
  <2>3. QED
    BY <2>1, <2>2 DEF ReportInv
<1>8. CASE SubmitFail
  <2>1. PICK result \in {"DEVICE_LOST", "OUT_OF_MEMORY"}, event \in {"eDeviceLost", "eSubmitFailed"} :
          /\ event = IF result = "DEVICE_LOST" THEN "eDeviceLost" ELSE "eSubmitFailed"
          /\ Abort("submit", result, event)
    BY <1>8 DEF SubmitFail
  <2>2. /\ loopRunning /\ loopRunning' = FALSE /\ pc' = "Shutdown"
        /\ cause'[1] = "submit" /\ cause'[2] = result
        /\ report' = Append(report, event)
    BY <1>8, <2>1 DEF SubmitFail, Abort, ReportInv
  <2>3. ReportedFor(cause[2])'
    BY <2>1, <2>2, AbortReports, Events
  <2>4. QED
    BY <2>2, <2>3 DEF ReportInv
<1>9. CASE PresentFail
  <2>1. PICK result \in {"OUT_OF_DATE", "SURFACE_LOST", "DEVICE_LOST", "OUT_OF_MEMORY"} :
          report' = Append(report, PresentEvent(result)) /\ cause' = <<"present", result>>
    BY <1>9 DEF PresentFail
  <2>2. loopRunning /\ loopRunning' = FALSE /\ pc' = "Telemetry"
    BY <1>9 DEF PresentFail, ReportInv
  <2>3. /\ PresentEvent(result) \in FatalEvents \ {"eGpuHang"}
        /\ result = "DEVICE_LOST" => PresentEvent(result) = "eDeviceLost"
    BY Events DEF PresentEvent
  <2>4. ReportedFor(cause[2])'
    BY <2>1, <2>2, <2>3, AbortReports, Events
  <2>5. QED
    BY <2>1, <2>2, <2>4 DEF ReportInv
<1>10. CASE Telemetry
  <2>1. /\ pc = "Telemetry" /\ pc' \in {"Drain", "Shutdown"}
        /\ \/ UNCHANGED report
           \/ report' = Append(report, "eFrameDeadlineMiss")
    BY <1>10 DEF Telemetry
  <2>2. "eFrameDeadlineMiss" \in HealthEvents \ FatalEvents
    BY Events
  <2>3. FatalReports' = FatalReports
    <3>1. CASE UNCHANGED report
      BY <3>1 DEF FatalReports
    <3>2. CASE report' = Append(report, "eFrameDeadlineMiss")
      BY <3>2, <2>2, AppendReport
    <3>3. QED
      BY <2>1, <3>1, <3>2
  <2>4. CASE loopRunning
    <3>1. cause = NoCause /\ FatalReports = {}
      BY <2>4 DEF ReportInv
    <3>2. \/ loopRunning' /\ pc' = "Drain" /\ cause' = cause
          \/ ~loopRunning' /\ pc' = "Shutdown" /\ cause' = <<"limit", "SUCCESS">>
      BY <1>10, <2>4 DEF Telemetry
    <3>3. QED
      BY <3>1, <3>2, <2>3 DEF ReportInv
  <2>5. CASE ~loopRunning
    <3>1. loopRunning' = FALSE /\ pc' = "Shutdown" /\ cause' = cause
      BY <1>10, <2>5 DEF Telemetry
    <3>2. cause[1] \notin {"limit", "none"} /\ ReportedFor(cause[2])
      BY <2>1, <2>5 DEF ReportInv
    <3>3. ReportedFor(cause[2])'
      BY <2>1, <2>2, <3>1, <3>2, OtherReports
    <3>4. QED
      BY <3>1, <3>2, <3>3, <2>3 DEF ReportInv
  <2>6. QED
    BY <1>a, <2>4, <2>5
<1>11. CASE UNCHANGED <<loopRunning, report, cause>> /\ loopRunning /\ pc' \in Running \cup {"Telemetry"}
  BY <1>11 DEF ReportInv, FatalReports
<1>12. CASE WaitAndReset \/ Acquire \/ WriteVertices \/ RecordFrame \/ Submit \/ PresentFrame
  <2>1. /\ UNCHANGED <<loopRunning, report, cause>> /\ loopRunning
        /\ pc' \in Running \cup {"Telemetry"}
    BY <1>12 DEF ReportInv, WaitAndReset, Acquire, WriteVertices, RecordFrame, Submit,
                 PresentFrame, observers, loopVars
  <2>2. QED
    BY <2>1, <1>11
<1>13. CASE WaitIdle \/ WaitIdleFail \/ DestroyAll \/ DestroyAllFail
  <2>1. /\ UNCHANGED <<loopRunning, report, cause>>
        /\ pc \in {"Shutdown", "Destroy"} /\ pc' \in {"Destroy", "Exited"}
    BY <1>13 DEF WaitIdle, WaitIdleFail, DestroyAll, DestroyAllFail, observers
  <2>2. FatalReports' = FatalReports /\ (ReportedFor(cause[2])' <=> ReportedFor(cause[2]))
    BY <2>1 DEF FatalReports, ReportedFor
  <2>3. QED
    BY <2>1, <2>2 DEF ReportInv
<1>14. CASE UNCHANGED <<pc, loopRunning, report, cause>>
  <2>1. FatalReports' = FatalReports /\ (ReportedFor(cause[2])' <=> ReportedFor(cause[2]))
    BY <1>14 DEF FatalReports, ReportedFor
  <2>2. QED
    BY <1>14, <2>1 DEF ReportInv
<1>15. CASE GpuStep \/ DisplayStep \/ Terminated \/ UNCHANGED vars
  <2>1. UNCHANGED <<pc, loopRunning, report, cause>>
    BY <1>15 DEF GpuStep, GpuStart, GpuFinish, DisplayStep, ImageReady, PresentExecute, Flip,
                 ScanoutDone, Terminated, vars, loopVars, observers
  <2>2. QED
    BY <2>1, <1>14
<1>16. QED
  BY <1>1, <1>2, <1>3, <1>4, <1>5, <1>6, <1>7, <1>8, <1>9, <1>10, <1>12, <1>13, <1>15
  DEF Next, LoopStep, CallFails

\* Every reachable state satisfies both.
THEOREM Reporting == Spec => []ReportInv
<1>1. Init => ReportInv
  BY DEF Init, ReportInv, Running, Stopped, FatalReports, NoCause
<1>2. TypeOK /\ ReportInv /\ [Next]_vars => ReportInv'
  BY StepReportInv
<1>3. QED
  BY TypeCorrect, <1>1, <1>2, PTL DEF Spec

\* A loop stopped by a failed call has reported exactly one fatal event, a lost
\* device as eDeviceLost and a fence timeout as eGpuHang; the frame limit none.
THEOREM FailureIsReported == Spec => []StopIsReported
<1>1. ReportInv => StopIsReported
  <2> SUFFICES ASSUME ReportInv, Stopped PROVE StopIsReported
    BY DEF StopIsReported
  <2>1. ~loopRunning
    BY DEF ReportInv
  <2>2. CASE cause[1] = "limit"
    <3>1. FatalReports = {} /\ cause # NoCause
      BY <2>1, <2>2 DEF ReportInv, NoCause
    <3>2. QED
      BY <2>2, <3>1, FS_EmptySet DEF StopIsReported
  <2>3. CASE cause[1] # "limit"
    <3>1. cause # NoCause /\ ReportedFor(cause[2])
      BY <2>1, <2>3 DEF ReportInv, NoCause
    <3>2. Cardinality(FatalReports) = 1
      BY <3>1, FS_Singleton DEF ReportedFor
    <3>3. QED
      BY <2>3, <3>1, <3>2 DEF StopIsReported, ReportedFor
  <2>4. QED
    BY <2>2, <2>3
<1>2. QED
  BY Reporting, <1>1, PTL

\* Once a fatal event is out the loop makes no further call of a frame.
THEOREM FatalIsFinal == Spec => []FatalStops
<1>1. TypeOK /\ ReportInv => FatalStops
  BY DEF TypeOK, ReportInv, FatalStops, Locations, Running
<1>2. QED
  BY TypeCorrect, Reporting, <1>1, PTL
-----------------------------------------------------------------------------
(* The queue and the semaphores.  Submissions and presents take turns in the *)
(* queue; renderComplete is signalled exactly while a present heads it.      *)

\* Before the frame is submitted.
Unfilled == {"Drain", "Wait", "Attitude", "Acquire", "Record", "Recording", "Submit"}

\* Submissions and presents take turns in the queue, as the loop issues them.
Alternates(q) == \A k \in 2..Len(q) : q[k].op # q[k-1].op

Newest == queue[Len(queue)]

\* The present of the frame last submitted is the next thing queued, or has
\* failed and ended the loop.
IssueInv ==
  /\ Alternates(queue)
  /\ queue # <<>> =>
       /\ pc \in Unfilled => Newest.op = "present"
       /\ pc = "Present" => Newest.op = "render"
       /\ pc = "Telemetry" => (Newest.op = "render" <=> ~loopRunning)

\* renderComplete stands between a completed submission and its present,
\* imageAvailable between an acquire and the end of its submission.
SemaphoreInv ==
  /\ queue # <<>> => (renderComplete <=> Head(queue).op = "present")
  /\ queue = <<>> =>
       /\ pc \in Unfilled \/ (pc = "Telemetry" /\ loopRunning) => ~renderComplete
       /\ pc = "Present" => renderComplete
  /\ pc \in {"Record", "Recording", "Submit"} => imageAvailable # "unsignalled"
  /\ Renders = {} /\ pc \in {"Present", "Telemetry", "Drain", "Wait", "Attitude", "Acquire"} =>
       imageAvailable = "unsignalled"

\* A queue after one more element, position by position.
LEMMA AppendAt ==
  ASSUME NEW S, NEW q \in Seq(S), NEW e \in S
  PROVE  /\ Append(q, e) \in Seq(S) /\ Append(q, e) # <<>>
         /\ Len(q) \in Nat /\ Len(Append(q, e)) = Len(q) + 1
         /\ \A k \in 1..Len(q) : Append(q, e)[k] = q[k] /\ q[k] \in S
         /\ Append(q, e)[Len(q) + 1] = e
         /\ q = <<>> => Len(q) = 0 /\ Head(Append(q, e)) = e
         /\ q # <<>> => Head(Append(q, e)) = Head(q) /\ Head(q) = q[1] /\ Len(q) > 0
<1>1. /\ Append(q, e) \in Seq(S) /\ Append(q, e) # <<>>
      /\ Len(q) \in Nat /\ Len(Append(q, e)) = Len(q) + 1
      /\ Append(q, e)[Len(q) + 1] = e
  BY AppendProperties, LenProperties
<1>2. ASSUME NEW k \in 1..Len(q) PROVE Append(q, e)[k] = q[k] /\ q[k] \in S
  BY AppendProperties, ElementOfSeq
<1>3. q = <<>> => Len(q) = 0 /\ Head(Append(q, e)) = e
  OBVIOUS
<1>4. q # <<>> => Head(Append(q, e)) = Head(q) /\ Head(q) = q[1] /\ Len(q) > 0
  OBVIOUS
<1>5. QED
  BY <1>1, <1>2, <1>3, <1>4

\* A queue after its oldest element is taken, position by position.
LEMMA TailAt ==
  ASSUME NEW S, NEW q \in Seq(S), q # <<>>
  PROVE  /\ Tail(q) \in Seq(S)
         /\ Len(q) \in Nat \ {0} /\ Len(Tail(q)) = Len(q) - 1
         /\ \A k \in 1..(Len(q) - 1) : Tail(q)[k] = q[k + 1]
         /\ \A k \in 1..Len(q) : q[k] \in S
         /\ Head(q) = q[1] /\ Head(q) \in S
         /\ Len(q) = 1 <=> Tail(q) = <<>>
         /\ Len(q) > 1 => Head(Tail(q)) = q[2]
<1>1. /\ Tail(q) \in Seq(S) /\ Head(q) \in S
      /\ Len(q) \in Nat \ {0} /\ Len(Tail(q)) = Len(q) - 1
  BY HeadTailProperties, EmptySeq
<1>2. \A k \in 1..(Len(q) - 1) : Tail(q)[k] = q[k + 1]
  BY <1>1, HeadTailProperties
<1>3. \A k \in 1..Len(q) : q[k] \in S
  BY ElementOfSeq
<1>4. Head(q) = q[1]
  OBVIOUS
<1>5. Len(q) = 1 <=> Tail(q) = <<>>
  <2>1. Tail(q) # <<>> => Len(Tail(q)) # 0
    BY <1>1, EmptySeq
  <2>2. ASSUME Tail(q) = <<>> PROVE Len(Tail(q)) = 0
    <3>1. Len(<<>>) = 0
      OBVIOUS
    <3>2. QED
      BY ONLY <2>2, <3>1
  <2>3. QED
    BY <1>1, <2>1, <2>2
<1>6. Len(q) > 1 => Head(Tail(q)) = q[2]
  OBVIOUS
<1>7. QED
  BY <1>1, <1>2, <1>3, <1>4, <1>5, <1>6

\* Issuing and executing keep the turns.
LEMMA AlternatesKept ==
  ASSUME NEW q \in Seq(Operations), Alternates(q)
  PROVE  /\ q # <<>> => Alternates(Tail(q))
         /\ Len(q) > 1 => Head(Tail(q)).op # Head(q).op
         /\ \A e \in Operations :
              (q # <<>> => q[Len(q)].op # e.op) =>
                /\ Alternates(Append(q, e))
                /\ Append(q, e)[Len(Append(q, e))] = e
<1>1. ASSUME q # <<>> PROVE Alternates(Tail(q))
  BY <1>1, TailAt DEF Alternates
<1>2. ASSUME Len(q) > 1 PROVE Head(Tail(q)).op # Head(q).op
  <2>1. q # <<>>
    BY <1>2
  <2>2. Len(q) \in Nat /\ Head(q) = q[1] /\ Head(Tail(q)) = q[2]
    BY <1>2, <2>1, TailAt
  <2>3. QED
    BY <1>2, <2>2 DEF Alternates
<1>3. ASSUME NEW e \in Operations, q # <<>> => q[Len(q)].op # e.op
      PROVE  Alternates(Append(q, e)) /\ Append(q, e)[Len(Append(q, e))] = e
  BY <1>3, AppendAt DEF Alternates
<1>4. QED
  BY <1>1, <1>2, <1>3

\* The queue and the semaphores together.
Semaphores == IssueInv /\ SemaphoreInv

\* What executing the oldest operation leaves at both ends of the queue.
LEMMA TailEnds ==
  ASSUME TypeOK, Alternates(queue), queue # <<>>, queue' = Tail(queue)
  PROVE  /\ Alternates(queue')
         /\ Head(queue).op \in {"render", "present"}
         /\ queue' # <<>> => /\ Newest' = Newest
                             /\ Head(queue').op \in {"render", "present"} \ {Head(queue).op}
         /\ queue' = <<>> => Newest.op = Head(queue).op
<1>1. /\ queue \in Seq(Operations) /\ Len(queue) \in Nat \ {0}
      /\ Tail(queue) \in Seq(Operations) /\ Len(Tail(queue)) = Len(queue) - 1
      /\ Len(queue) = 1 <=> Tail(queue) = <<>>
      /\ Head(queue) = queue[1] /\ Head(queue) \in Operations
      /\ \A k \in 1..(Len(queue) - 1) : Tail(queue)[k] = queue[k + 1]
  BY TailAt DEF TypeOK
<1>2. Alternates(queue')
  BY <1>1, AlternatesKept
<1>3. Head(queue).op \in {"render", "present"}
  BY <1>1 DEF Operations
<1>4. ASSUME queue' # <<>>
      PROVE  /\ Newest' = Newest
             /\ Head(queue').op \in {"render", "present"} \ {Head(queue).op}
  <2>1. Len(queue) > 1
    BY <1>1, <1>4
  <2>2. Tail(queue)[Len(queue) - 1] = queue[Len(queue)]
    BY <1>1, <2>1
  <2>3. Newest' = Newest
    BY <1>1, <2>2 DEF Newest
  <2>4. Head(Tail(queue)) \in Operations
    BY <1>1, <1>4, TailAt
  <2>5. QED
    BY <1>1, <2>1, <2>3, <2>4, AlternatesKept DEF Operations
<1>5. ASSUME queue' = <<>> PROVE Newest.op = Head(queue).op
  BY <1>1, <1>5 DEF Newest
<1>6. QED
  BY <1>2, <1>3, <1>4, <1>5

\* What issuing an operation leaves at both ends of the queue.
LEMMA AppendEnds ==
  ASSUME TypeOK, Alternates(queue), NEW e \in Operations, queue' = Append(queue, e),
         queue # <<>> => Newest.op # e.op
  PROVE  /\ Alternates(queue') /\ queue' # <<>>
         /\ Newest' = e
         /\ queue # <<>> => Head(queue') = Head(queue)
         /\ queue = <<>> => Head(queue') = e
<1>1. queue \in Seq(Operations)
  BY DEF TypeOK
<1>2. Alternates(queue') /\ queue'[Len(queue')] = e
  BY <1>1, AlternatesKept DEF Newest
<1>3. QED
  BY <1>1, <1>2, AppendAt DEF Newest

\* A queue without a submission starts, if at all, with a present.
LEMMA HeadWithoutRenders ==
  ASSUME TypeOK, Renders = {}, queue # <<>>
  PROVE  Head(queue).op = "present"
<1>1. queue \in Seq(Operations) /\ Head(queue) = queue[1] /\ 1 \in DOMAIN queue
      /\ Head(queue) \in Operations
  BY TailRenders DEF TypeOK
<1>2. queue[1].op # "render"
  BY <1>1 DEF Renders, RendersIn
<1>3. QED
  BY <1>1, <1>2 DEF Operations

\* Each call and each device step keeps the turns and the semaphores.
LEMMA StepSemaphores == IInv /\ ReportInv /\ Semaphores /\ [Next]_vars => Semaphores'
<1> SUFFICES ASSUME IInv, ReportInv, Semaphores, [Next]_vars PROVE Semaphores'
  OBVIOUS
<1> USE DEF Semaphores, Goto
<1>a. TypeOK /\ QueueInv /\ LoopInv /\ IssueInv /\ SemaphoreInv
  BY DEF IInv
<1>b. /\ loopRunning \in BOOLEAN /\ renderComplete \in BOOLEAN
      /\ pc \in {"Wait", "Attitude", "Acquire", "Record", "Recording", "Submit", "Present"}
           => loopRunning
  BY <1>a DEF TypeOK, ReportInv, Running
<1>1. CASE Submit
  <2>1. /\ pc = "Submit" /\ pc' = "Present" /\ Renders = {}
        /\ queue' = Append(queue, Render(imageIndex, cmd.frame))
        /\ UNCHANGED <<imageAvailable, renderComplete>>
    BY <1>1, <1>a DEF Submit, QueueInv, Owned, syncVars
  <2>2. Render(imageIndex, cmd.frame) \in Operations
    BY <1>a, <2>1 DEF LoopInv, Render, Operations
  <2>3. queue # <<>> => Newest.op = "present" /\ Head(queue).op = "present"
    BY <1>a, <2>1, HeadWithoutRenders DEF IssueInv, Unfilled
  <2>4. /\ Alternates(queue') /\ queue' # <<>> /\ Newest'.op = "render"
        /\ queue # <<>> => Head(queue').op = "present"
        /\ queue = <<>> => Head(queue').op = "render"
    BY <1>a, <2>1, <2>2, <2>3, AppendEnds DEF IssueInv, Render
  <2>5. renderComplete <=> queue # <<>>
    BY <1>a, <2>1, <2>3 DEF SemaphoreInv, Unfilled
  <2>6. Renders' # {}
    <3>1. Render(imageIndex, cmd.frame).op = "render" /\ queue \in Seq(Operations)
      BY <1>a DEF TypeOK, Render
    <3>2. Renders' = RendersIn(queue) \cup {Len(queue) + 1}
      BY <2>1, <2>2, <3>1, AppendRenders DEF Renders
    <3>3. QED
      BY <3>2
  <2>7. QED
    BY <2>1, <2>4, <2>5, <2>6 DEF IssueInv, SemaphoreInv, Unfilled
<1>2. CASE PresentFrame
  <2>1. /\ pc = "Present" /\ pc' = "Telemetry" /\ loopRunning' = TRUE
        /\ queue' = Append(queue, Present(imageIndex, frameNumber))
        /\ UNCHANGED <<imageAvailable, renderComplete>>
    BY <1>2, <1>b DEF PresentFrame, syncVars
  <2>2. Present(imageIndex, frameNumber) \in Operations
    BY <1>a, <2>1 DEF LoopInv, TypeOK, Present, Operations
  <2>3. queue # <<>> => Newest.op = "render"
    BY <1>a, <2>1 DEF IssueInv
  <2>4. /\ Alternates(queue') /\ queue' # <<>> /\ Newest'.op = "present"
        /\ queue # <<>> => Head(queue') = Head(queue)
        /\ queue = <<>> => Head(queue').op = "present"
    BY <1>a, <2>1, <2>2, <2>3, AppendEnds DEF IssueInv, Present
  <2>5. Renders' = Renders
    BY <1>a, <2>1, <2>2, AppendRenders DEF Renders, TypeOK, Present
  <2>6. QED
    BY <1>a, <2>1, <2>4, <2>5 DEF IssueInv, SemaphoreInv, Unfilled
<1>3. CASE GpuFinish
  <2>1. /\ queue # <<>> /\ Head(queue).op = "render" /\ queue' = Tail(queue)
        /\ imageAvailable' = "unsignalled" /\ renderComplete' = TRUE
        /\ pc' = pc /\ loopRunning' = loopRunning
    BY <1>3, <1>a DEF GpuFinish, QueueInv, loopVars
  <2>2. /\ Alternates(queue')
        /\ queue' # <<>> => Newest' = Newest /\ Head(queue').op = "present"
        /\ queue' = <<>> => Newest.op = "render"
    BY <1>a, <2>1, TailEnds DEF IssueInv
  <2>3. Renders # {}
    BY <1>a, <2>1, TailRenders DEF TypeOK, Renders, RendersIn
  <2>4. pc \notin {"Record", "Recording", "Submit"}
    BY <1>a, <2>3 DEF QueueInv, Owned
  <2>5. QED
    BY <1>a, <2>1, <2>2, <2>4 DEF IssueInv, SemaphoreInv, Unfilled
<1>4. CASE PresentExecute
  <2>1. /\ queue # <<>> /\ Head(queue).op = "present" /\ queue' = Tail(queue)
        /\ renderComplete' = FALSE
        /\ UNCHANGED <<pc, loopRunning, imageAvailable>>
    BY <1>4 DEF PresentExecute, loopVars
  <2>2. /\ Alternates(queue')
        /\ queue' # <<>> => Newest' = Newest /\ Head(queue').op = "render"
        /\ queue' = <<>> => Newest.op = "present"
    BY <1>a, <2>1, TailEnds DEF IssueInv
  <2>3. Renders' = {} => Renders = {}
    <3>1. queue \in Seq(Operations) /\ Renders' = RendersIn(Tail(queue))
      BY <1>a, <2>1 DEF TypeOK, Renders
    <3>2. 1 \notin RendersIn(queue)
      BY <2>1, <3>1, TailRenders DEF RendersIn
    <3>3. QED
      BY <2>1, <3>1, <3>2, TailRenders DEF Renders
  <2>4. QED
    BY <1>a, <2>1, <2>2, <2>3 DEF IssueInv, SemaphoreInv, Unfilled
<1>5. CASE WaitIdleFail \/ DestroyAllFail
  <2>1. /\ pc' \in {"Destroy", "Exited"} /\ UNCHANGED renderComplete
        /\ queue' = <<>> \/ UNCHANGED queue
    BY <1>5 DEF WaitIdleFail, DestroyAllFail, IdleWaitFails, syncVars
  <2>2. CASE UNCHANGED queue
    BY <1>a, <2>1, <2>2 DEF IssueInv, SemaphoreInv, Unfilled, Newest
  <2>3. CASE queue' = <<>>
    BY <2>1, <2>3 DEF IssueInv, SemaphoreInv, Unfilled, Alternates
  <2>4. QED
    BY <2>1, <2>2, <2>3
<1>6. CASE ImageReady
  BY <1>6, <1>a DEF ImageReady, IssueInv, SemaphoreInv, loopVars, deviceVars, Renders, Newest
<1>7. CASE DrainFaults \/ WaitAndReset \/ GetAttitude \/ WriteVertices \/ RecordFrame
  <2>1. /\ UNCHANGED <<loopRunning, queue, imageAvailable, renderComplete>>
        /\ \/ pc \in {"Drain", "Wait", "Attitude"} /\ pc' \in {"Wait", "Attitude", "Acquire"}
           \/ pc \in {"Record", "Recording"} /\ pc' \in {"Recording", "Submit"}
    BY <1>7 DEF DrainFaults, WaitAndReset, GetAttitude, WriteVertices, RecordFrame,
                syncVars, deviceVars
  <2>2. Renders' = Renders /\ Newest' = Newest
    BY <2>1 DEF Renders, Newest
  <2>3. QED
    BY <1>a, <2>1, <2>2 DEF IssueInv, SemaphoreInv, Unfilled
<1>8. CASE Acquire
  BY <1>8, <1>a DEF Acquire, IssueInv, SemaphoreInv, Unfilled, Newest, Renders
<1>9. CASE Telemetry
  <2>1. /\ pc = "Telemetry" /\ UNCHANGED <<queue, imageAvailable, renderComplete>>
        /\ pc' \in {"Drain", "Shutdown"} /\ (pc' = "Drain" => loopRunning)
    BY <1>9 DEF Telemetry, syncVars, deviceVars
  <2>2. Renders' = Renders /\ Newest' = Newest
    BY <2>1 DEF Renders, Newest
  <2>3. queue # <<>> => Newest.op \in {"render", "present"}
    <3>1. ASSUME queue # <<>> PROVE queue[Len(queue)] \in Operations
      BY <1>a, <3>1, TailAt DEF TypeOK
    <3>2. QED
      BY <3>1 DEF Newest, Operations
  <2>4. QED
    BY <1>a, <1>b, <2>1, <2>2, <2>3 DEF IssueInv, SemaphoreInv, Unfilled
<1>10. CASE PresentFail
  <2>1. /\ pc = "Present" /\ pc' = "Telemetry" /\ loopRunning' = FALSE
        /\ UNCHANGED <<queue, imageAvailable, renderComplete>>
    BY <1>10 DEF PresentFail, syncVars, deviceVars
  <2>2. QED
    BY <1>a, <2>1 DEF IssueInv, SemaphoreInv, Unfilled, Renders, Newest
<1>11. CASE /\ pc' \in {"Shutdown", "Destroy", "Exited"}
            /\ UNCHANGED <<queue, renderComplete>>
  BY <1>a, <1>11 DEF IssueInv, SemaphoreInv, Unfilled, Newest
<1>12. CASE \/ WaitTimeout \/ WaitFail \/ AcquireSuboptimal \/ AcquireFail \/ RecordFail
            \/ SubmitFail \/ WaitIdle \/ DestroyAll
  <2>1. pc' \in {"Shutdown", "Destroy", "Exited"} /\ UNCHANGED <<queue, renderComplete>>
    BY <1>12 DEF WaitTimeout, WaitFail, AcquireSuboptimal, AcquireFail, RecordFail, SubmitFail,
                 WaitIdle, DestroyAll, Abort, syncVars, deviceVars
  <2>2. QED
    BY <2>1, <1>11
<1>13. CASE GpuStart \/ Flip \/ ScanoutDone \/ Terminated \/ UNCHANGED vars
  <2>1. UNCHANGED <<pc, loopRunning, queue, imageAvailable, renderComplete>>
    BY <1>13 DEF GpuStart, Flip, ScanoutDone, Terminated, vars, loopVars, syncVars, deviceVars
  <2>2. QED
    BY <1>a, <2>1 DEF IssueInv, SemaphoreInv, Newest, Renders
<1>14. QED
  BY <1>1, <1>2, <1>3, <1>4, <1>5, <1>6, <1>7, <1>8, <1>9, <1>10, <1>12, <1>13
  DEF Next, LoopStep, CallFails, GpuStep, DisplayStep

\* Every reachable state satisfies it.
THEOREM SemaphoresInStep == Spec => []Semaphores
<1>1. Init => Semaphores
  BY DEF Init, Semaphores, IssueInv, SemaphoreInv, Alternates, Unfilled
<1>2. QED
  BY HandOver, Reporting, <1>1, StepSemaphores, PTL DEF Spec

\* The two semaphores go through every frame without being recreated: no wait
\* or signal of the last frame is outstanding when the next one uses them.
THEOREM SemaphoresReused == Spec => []SemaphoresReusable
<1>1. IInv /\ Semaphores => SemaphoresReusable
  BY DEF IInv, QueueInv, Owned, Semaphores, SemaphoreInv, SemaphoresReusable
<1>2. QED
  BY HandOver, SemaphoresInStep, <1>1, PTL
-----------------------------------------------------------------------------
(* What a stopped loop leaves on the device.                                *)

\* A GPU without a submission runs none.
LEMMA IdleFetchesNothing ==
  ASSUME IInv, Renders = {}
  PROVE  fetched = None
<1>1. ASSUME queue # <<>> PROVE Head(queue).op # "render"
  BY <1>1, HeadWithoutRenders DEF IInv
<1>2. QED
  BY <1>1 DEF IInv, QueueInv

\* A step of the GPU or the display after the loop leaves what the loop left,
\* less what the GPU completed.
LEMMA DeviceLeaves ==
  ASSUME IInv, GpuStep \/ DisplayStep
  PROVE  /\ UNCHANGED <<pc, cause>>
         /\ Renders = {} => Renders' = {}
         /\ Renders' = {} /\ Renders # {} => imageAvailable' = "unsignalled"
         /\ Renders = {} => (imageAvailable' = "unsignalled" <=> imageAvailable = "unsignalled")
<1>1. UNCHANGED <<pc, cause>>
  BY DEF GpuStep, GpuStart, GpuFinish, DisplayStep, ImageReady, PresentExecute, Flip, ScanoutDone,
         loopVars, observers
<1>2. CASE GpuFinish
  <2>1. queue # <<>> /\ Head(queue).op = "render" /\ imageAvailable' = "unsignalled"
    BY <1>2 DEF GpuFinish, IInv, QueueInv
  <2>2. Renders # {}
    BY <2>1, HeadWithoutRenders DEF IInv
  <2>3. QED
    BY <1>1, <2>1, <2>2
<1>3. CASE PresentExecute
  <2>1. queue \in Seq(Operations) /\ queue # <<>> /\ queue' = Tail(queue)
        /\ Head(queue).op = "present" /\ UNCHANGED imageAvailable
    BY <1>3 DEF PresentExecute, IInv, TypeOK
  <2>2. 1 \notin Renders
    BY <2>1, TailRenders DEF Renders, RendersIn
  <2>3. Renders = {} <=> Renders' = {}
    BY <2>1, <2>2, TailRenders DEF Renders
  <2>4. QED
    BY <1>1, <2>1, <2>3
<1>4. CASE ImageReady
  BY <1>1, <1>4 DEF ImageReady, deviceVars, Renders
<1>5. CASE GpuStart \/ Flip \/ ScanoutDone
  BY <1>1, <1>5 DEF GpuStart, Flip, ScanoutDone, syncVars, Renders
<1>6. QED
  BY <1>2, <1>3, <1>4, <1>5 DEF GpuStep, DisplayStep

\* The same, without what the GPU holds in `fetched`.
Leaves ==
  /\ Stopped /\ cause[1] \in {"acquire", "record", "submit"} => Renders = {}
  /\ pc = "Shutdown" /\ Renders = {} =>
       (imageAvailable # "unsignalled" <=>
          cause[1] \in {"record", "submit"} \/ cause = <<"acquire", "SUBOPTIMAL">>)

\* Each way into the shutdown, and each step of it.
LEMMA StepLeaves == IInv /\ ReportInv /\ Semaphores /\ Leaves /\ [Next]_vars => Leaves'
<1> SUFFICES ASSUME IInv, ReportInv, Semaphores, Leaves, [Next]_vars PROVE Leaves'
  OBVIOUS
<1> USE DEF Stopped, Goto
<1>a. TypeOK /\ QueueInv /\ SemaphoreInv
  BY DEF IInv, Semaphores
<1>1. CASE WaitTimeout \/ WaitFail
  <2>1. /\ pc = "Wait" /\ pc' = "Shutdown" /\ cause'[1] = "wait"
        /\ UNCHANGED <<queue, imageAvailable>>
    BY <1>1 DEF WaitTimeout, WaitFail, Abort, deviceVars, syncVars
  <2>2. Renders' = Renders
    BY <2>1 DEF Renders
  <2>3. cause' # <<"acquire", "SUBOPTIMAL">>
    BY <2>1
  <2>4. QED
    BY <1>a, <2>1, <2>2, <2>3 DEF Leaves, SemaphoreInv
<1>2. CASE AcquireSuboptimal
  <2>1. /\ pc = "Acquire" /\ cause' = <<"acquire", "SUBOPTIMAL">> /\ UNCHANGED queue
        /\ imageAvailable' = "pending"
    BY <1>2 DEF AcquireSuboptimal, Abort
  <2>2. Renders' = {}
    BY <1>a, <2>1 DEF QueueInv, Owned, Renders
  <2>3. QED
    BY <2>1, <2>2 DEF Leaves
<1>3. CASE AcquireFail
  <2>1. /\ pc = "Acquire" /\ UNCHANGED <<queue, imageAvailable>> /\ cause'[1] = "acquire"
        /\ cause'[2] \in {"OUT_OF_DATE", "SURFACE_LOST", "DEVICE_LOST", "OUT_OF_MEMORY"}
    BY <1>3 DEF AcquireFail, Abort, deviceVars, syncVars
  <2>2. Renders = {} /\ Renders' = {}
    BY <1>a, <2>1 DEF QueueInv, Owned, Renders
  <2>3. cause' # <<"acquire", "SUBOPTIMAL">>
    BY <2>1
  <2>4. QED
    BY <1>a, <2>1, <2>2, <2>3 DEF Leaves, SemaphoreInv
<1>4. CASE RecordFail \/ SubmitFail
  <2>1. /\ pc \in {"Recording", "Submit"} /\ cause'[1] \in {"record", "submit"}
        /\ UNCHANGED <<queue, imageAvailable>>
    BY <1>4 DEF RecordFail, SubmitFail, Abort, deviceVars, syncVars
  <2>2. Renders' = {}
    BY <1>a, <2>1 DEF QueueInv, Owned, Renders
  <2>3. QED
    BY <1>a, <2>1, <2>2 DEF Leaves, SemaphoreInv
<1>5. CASE Telemetry
  <2>1. /\ pc = "Telemetry" /\ UNCHANGED <<queue, imageAvailable>> /\ pc' \in {"Drain", "Shutdown"}
        /\ pc' = "Shutdown" => cause' = <<"limit", "SUCCESS">> \/ (~loopRunning /\ cause' = cause)
    BY <1>5 DEF Telemetry, deviceVars, syncVars
  <2>2. pc' = "Shutdown" => cause'[1] \in {"limit", "present"}
    BY <2>1 DEF ReportInv
  <2>3. pc' = "Shutdown" => cause' # <<"acquire", "SUBOPTIMAL">>
    BY <2>2
  <2>4. Renders' = Renders
    BY <2>1 DEF Renders
  <2>5. QED
    BY <1>a, <2>1, <2>2, <2>3, <2>4 DEF Leaves, SemaphoreInv
<1>6. CASE WaitIdle \/ WaitIdleFail \/ DestroyAll \/ DestroyAllFail
  <2>1. /\ pc \in {"Shutdown", "Destroy"} /\ pc' \in {"Destroy", "Exited"} /\ UNCHANGED cause
        /\ queue' = <<>> \/ UNCHANGED queue
    BY <1>6 DEF WaitIdle, WaitIdleFail, DestroyAll, DestroyAllFail, IdleWaitFails, deviceVars,
                observers
  <2>2. Renders = {} => Renders' = {}
    BY <2>1, EmptyRenders DEF Renders
  <2>3. QED
    BY <2>1, <2>2 DEF Leaves
<1>7. CASE \/ DrainFaults \/ WaitAndReset \/ GetAttitude \/ Acquire \/ WriteVertices \/ RecordFrame
           \/ Submit \/ PresentFrame \/ PresentFail
  <2>1. ~Stopped'
    BY <1>7 DEF DrainFaults, WaitAndReset, GetAttitude, Acquire, WriteVertices, RecordFrame, Submit,
                PresentFrame, PresentFail
  <2>2. QED
    BY <2>1 DEF Leaves
<1>8. CASE GpuStep \/ DisplayStep
  <2>1. /\ UNCHANGED <<pc, cause>> /\ (Renders = {} => Renders' = {})
        /\ Renders' = {} /\ Renders # {} => imageAvailable' = "unsignalled"
        /\ Renders = {} => (imageAvailable' = "unsignalled" <=> imageAvailable = "unsignalled")
    BY <1>8, DeviceLeaves
  <2>2. cause = <<"acquire", "SUBOPTIMAL">> => cause[1] = "acquire"
    OBVIOUS
  <2>3. QED
    BY <2>1, <2>2 DEF Leaves
<1>9. CASE Terminated \/ UNCHANGED vars
  BY <1>9 DEF Terminated, vars, loopVars, syncVars, deviceVars, observers, Leaves, Renders
<1>10. QED
  BY <1>1, <1>2, <1>3, <1>4, <1>5, <1>6, <1>7, <1>8, <1>9 DEF Next, LoopStep, CallFails

\* What the shutdown finds on the device is told by the call that stopped the
\* loop: nothing to run after a failed acquire, recording or submission,
\* however vkDeviceWaitIdle answers, and an acquire's semaphore signal still
\* outstanding exactly when an image was acquired and not submitted.
THEOREM LeftByCause == Spec => []LeftOnDevice
<1>1. Init => Leaves
  BY DEF Init, Leaves, Stopped
<1>2. IInv /\ Leaves => LeftOnDevice
  BY IdleFetchesNothing DEF Leaves, LeftOnDevice
<1>3. QED
  BY HandOver, Reporting, SemaphoresInStep, StepLeaves, <1>1, <1>2, PTL DEF Spec
==============================================================================
