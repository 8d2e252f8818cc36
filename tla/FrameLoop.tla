------------------------------ MODULE FrameLoop ------------------------------
(***************************************************************************)
(* The frame loop of app/main.cpp (section 8) interleaved with what it     *)
(* drives: the graphics queue, the presentation engine and the frame       *)
(* resources that FrameSync, the vertex buffer and the single command      *)
(* buffer of HorizonRenderer share between the CPU and the GPU.            *)
(*                                                                         *)
(* One action per Vulkan call or callback of the loop; a call's results    *)
(* are its successes and every error the loop tells apart.  The device     *)
(* side (GpuStart .. ScanoutDone) is external: it is what the Vulkan       *)
(* specification lets a queue and a FIFO swapchain do between the calls.   *)
(*                                                                         *)
(* What a frame draws is abstracted to the number of the frame whose       *)
(* attitude it shows: geometry comes from the vertex buffer, colour (white *)
(* or red, by attitude.valid) from the push constants baked into the       *)
(* command buffer.                                                         *)
(***************************************************************************)
EXTENDS BudgetCounter, Sequences, FiniteSets

CONSTANTS
  Images,      \* the swapchain images
  MaxFrames,   \* kMaxFrames; 0 means no limit
  None,        \* no image, no frame
  Torn         \* vertices half old, half new

\* The images are those of one VkSwapchainKHR: a handful.
ASSUME LoopAssumption ==
  /\ MaxFrames \in Nat
  /\ IsFiniteSet(Images)
  /\ None \notin Images /\ None \notin Nat
  /\ Torn \notin Nat /\ Torn # None

VARIABLES
  (* the loop *)
  pc,                 \* the call about to be made
  frameNumber,
  loopRunning,
  imageIndex,         \* the acquired image
  renderLate,         \* renderMs exceeds the deadline (or is not finite)
  consecutiveMisses,  \* FrameBudgetMonitor::m_consecutiveMisses
  budgetEscalated,
  (* FrameSync and the per-frame buffers *)
  fence,              \* m_inFlight: TRUE when signalled
  imageAvailable,     \* "unsignalled", "pending" (acquire issued) or "signalled"
  renderComplete,     \* TRUE when signalled
  vbuf,               \* frame whose vertices the vertex buffer holds; Torn in a write
  cmd,                \* the command buffer: [frame, image] it was recorded for
  (* the device *)
  queue,              \* work submitted to the graphics queue, oldest first
  fetched,            \* vertices the running submission fetched, None if none runs
  content,            \* what each image holds: [geometry, colour] frames
  owner,              \* "engine" (acquirable), "app", or "display" (presented)
  flips,              \* FIFO of [image, frame] presented and not yet shown
  onScreen,           \* [image, frame] being shown
  scanout,            \* images the display hardware may still be reading
  (* observers *)
  report,             \* health events of this iteration, in order
  cause,              \* <<call, result>> that ended the loop
  kicks,              \* heartbeats sent
  rendered            \* submissions the GPU completed

loopVars   == <<pc, frameNumber, loopRunning, imageIndex, renderLate>>
budgetVars == <<consecutiveMisses, budgetEscalated>>
syncVars   == <<fence, imageAvailable, renderComplete>>
bufferVars == <<vbuf, cmd>>
deviceVars == <<queue, fetched, content, owner, flips, onScreen, scanout>>
observers  == <<report, cause, kicks, rendered>>
vars == <<loopVars, budgetVars, syncVars, bufferVars, deviceVars, observers>>

NoCause == <<"none", "none">>
Calls == {"none", "limit", "wait", "acquire", "record", "submit", "present"}
Results == {"none", "SUCCESS", "TIMEOUT", "DEVICE_LOST", "SURFACE_LOST", "OUT_OF_DATE",
            "SUBOPTIMAL", "OUT_OF_MEMORY", "NULL"}
Blank == [geometry |-> None, colour |-> None]
Unrecorded == [frame |-> None, image |-> None]
NothingShown == [image |-> None, frame |-> None]

Locations == {"Drain", "Wait", "Attitude", "Acquire", "Record", "Recording",
              "Submit", "Present", "Telemetry", "Shutdown", "Destroy", "Exited"}

\* The events after which the loop stops.
FatalEvents == {"eGpuHang", "eDeviceLost", "eSurfaceLost", "eAcquireFailed",
                "ePresentFailed", "eSubmitFailed", "eRecordFailed"}
HealthEvents == FatalEvents \cup {"eInputDataInvalid", "eFrameDeadlineMiss", "eDriverFault"}

Operations == [op : {"render", "present"}, image : Images, frame : Nat]
Render(i, n)  == [op |-> "render", image |-> i, frame |-> n]
Present(i, n) == [op |-> "present", image |-> i, frame |-> n]

\* Positions of the queue that hold submissions the GPU has not completed.
RendersIn(q) == {k \in DOMAIN q : q[k].op = "render"}
Renders == RendersIn(queue)
-----------------------------------------------------------------------------
Init ==
  /\ pc = "Drain" /\ frameNumber = 0 /\ loopRunning = TRUE
  /\ imageIndex = None /\ renderLate = FALSE
  /\ consecutiveMisses = 0 /\ budgetEscalated = FALSE
  /\ fence = TRUE            \* created with VK_FENCE_CREATE_SIGNALED_BIT
  /\ imageAvailable = "unsignalled" /\ renderComplete = FALSE
  /\ vbuf = None /\ cmd = Unrecorded
  /\ queue = <<>> /\ fetched = None
  /\ content = [i \in Images |-> Blank]
  /\ owner = [i \in Images |-> "engine"]
  /\ flips = <<>> /\ onScreen = NothingShown /\ scanout = {}
  /\ report = <<>> /\ cause = NoCause /\ kicks = 0 /\ rendered = 0

Goto(l) == pc' = l

\* A failed call: one classified event, then break to the shutdown.
Abort(call, result, event) ==
  /\ Goto("Shutdown")
  /\ loopRunning' = FALSE
  /\ report' = Append(report, event)
  /\ cause' = <<call, result>>

\* 8.0 DrainFaults: the sink raises eDriverFault for critical or unrecorded
\* faults (FaultDrain has the details); the loop goes on either way.
DrainFaults ==
  /\ pc = "Drain"
  /\ Goto("Wait")
  /\ \E faulty \in BOOLEAN : report' = IF faulty THEN <<"eDriverFault">> ELSE <<>>
  /\ UNCHANGED <<frameNumber, loopRunning, imageIndex, renderLate, cause, kicks,
                 rendered, budgetVars, syncVars, bufferVars, deviceVars>>

\* Seeded fault: the result of vkWaitForFences is ignored.
WaitWithoutFence ==
  /\ pc = "Wait"
  /\ Goto("Attitude")
  /\ fence' = FALSE
  /\ UNCHANGED <<frameNumber, loopRunning, imageIndex, renderLate, imageAvailable,
                 renderComplete, budgetVars, bufferVars, deviceVars, observers>>

\* 8.1 FrameSync::WaitAndReset, fence signalled within 5 s and reset.
WaitAndReset ==
  /\ pc = "Wait"
  /\ fence
  /\ Goto("Attitude")
  /\ fence' = FALSE
  /\ UNCHANGED <<frameNumber, loopRunning, imageIndex, renderLate, imageAvailable,
                 renderComplete, budgetVars, bufferVars, deviceVars, observers>>

\* Seeded fault: a timeout is taken for a slow frame and the wait repeated.
WaitTimeoutRetried ==
  /\ pc = "Wait"
  /\ ~fence
  /\ Goto("Drain")
  /\ UNCHANGED <<frameNumber, loopRunning, imageIndex, renderLate, budgetVars,
                 syncVars, bufferVars, deviceVars, observers>>

\* vkWaitForFences gives up after kFenceTimeoutNs with the fence unsignalled.
WaitTimeout ==
  /\ pc = "Wait"
  /\ ~fence
  /\ Abort("wait", "TIMEOUT", "eGpuHang")
  /\ UNCHANGED <<frameNumber, imageIndex, renderLate, kicks, rendered,
                 budgetVars, syncVars, bufferVars, deviceVars>>

\* vkWaitForFences or vkResetFences fails: kError, classified as a lost device.
WaitFail ==
  /\ pc = "Wait"
  /\ \E result \in {"DEVICE_LOST", "OUT_OF_MEMORY"} : Abort("wait", result, "eDeviceLost")
  /\ UNCHANGED <<frameNumber, imageIndex, renderLate, kicks, rendered,
                 budgetVars, syncVars, bufferVars, deviceVars>>

\* 8.2 GetAttitude: an invalid sample is reported and drawn all the same.
GetAttitude ==
  /\ pc = "Attitude"
  /\ Goto("Acquire")
  /\ \E valid \in BOOLEAN :
       report' = IF valid THEN report ELSE Append(report, "eInputDataInvalid")
  /\ UNCHANGED <<frameNumber, loopRunning, imageIndex, renderLate, cause, kicks,
                 rendered, budgetVars, syncVars, bufferVars, deviceVars>>

\* 8.3 vkAcquireNextImageKHR with an infinite timeout: blocks until the
\* engine has an image to hand out; it may still be scanning that image out,
\* and signals imageAvailable when it no longer is.
Acquire ==
  /\ pc = "Acquire"
  /\ Goto("Record")
  /\ \E i \in Images :
       /\ owner[i] = "engine"
       /\ imageIndex' = i
       /\ owner' = [owner EXCEPT ![i] = "app"]
  /\ imageAvailable' = "pending"
  /\ UNCHANGED <<frameNumber, loopRunning, renderLate, fence, renderComplete, queue,
                 fetched, content, flips, onScreen, scanout, budgetVars, bufferVars,
                 observers>>

\* VK_SUBOPTIMAL_KHR hands out an image too, but the loop gives up on it.
AcquireSuboptimal ==
  /\ pc = "Acquire"
  /\ \E i \in Images :
       /\ owner[i] = "engine"
       /\ imageIndex' = i
       /\ owner' = [owner EXCEPT ![i] = "app"]
  /\ imageAvailable' = "pending"
  /\ Abort("acquire", "SUBOPTIMAL", "eSurfaceLost")
  /\ UNCHANGED <<frameNumber, renderLate, fence, renderComplete, queue, fetched, content,
                 flips, onScreen, scanout, kicks, rendered, budgetVars, bufferVars>>

\* Seeded fault: a lost device is filed with the other acquire errors.
AcquireEventCoarse(result) ==
  IF result = "OUT_OF_DATE" THEN "eSurfaceLost" ELSE "eAcquireFailed"

AcquireEvent(result) ==
  CASE result = "OUT_OF_DATE" -> "eSurfaceLost"
    [] result = "DEVICE_LOST" -> "eDeviceLost"
    [] OTHER                  -> "eAcquireFailed"

\* Seeded fault: an out-of-date swapchain is reported and the frame skipped.
AcquireSkipsFrame ==
  /\ pc = "Acquire"
  /\ \E result \in {"OUT_OF_DATE", "SURFACE_LOST", "DEVICE_LOST", "OUT_OF_MEMORY"} :
       IF result = "OUT_OF_DATE"
       THEN /\ Goto("Drain")
            /\ report' = Append(report, "eSurfaceLost")
            /\ UNCHANGED <<loopRunning, cause>>
       ELSE Abort("acquire", result, AcquireEvent(result))
  /\ UNCHANGED <<frameNumber, imageIndex, renderLate, kicks, rendered,
                 budgetVars, syncVars, bufferVars, deviceVars>>

\* Seeded fault: an out-of-date swapchain is retried with a new sample.
AcquireRetries ==
  /\ pc = "Acquire"
  /\ \E result \in {"OUT_OF_DATE", "SURFACE_LOST", "DEVICE_LOST", "OUT_OF_MEMORY"} :
       IF result = "OUT_OF_DATE"
       THEN Goto("Attitude") /\ report' = <<>> /\ UNCHANGED <<loopRunning, cause>>
       ELSE Abort("acquire", result, AcquireEvent(result))
  /\ UNCHANGED <<frameNumber, imageIndex, renderLate, kicks, rendered,
                 budgetVars, syncVars, bufferVars, deviceVars>>

AcquireFail ==
  /\ pc = "Acquire"
  /\ \E result \in {"OUT_OF_DATE", "SURFACE_LOST", "DEVICE_LOST", "OUT_OF_MEMORY"} :
       Abort("acquire", result, AcquireEvent(result))
  /\ UNCHANGED <<frameNumber, imageIndex, renderLate, kicks, rendered,
                 budgetVars, syncVars, bufferVars, deviceVars>>

\* 8.4 RecordFrame, first half: the memcpy into the mapped, host-coherent
\* vertex buffer, before the command buffer is begun.
WriteVertices ==
  /\ pc = "Record"
  /\ Goto("Recording")
  /\ vbuf' = Torn
  /\ UNCHANGED <<frameNumber, loopRunning, imageIndex, renderLate, cmd,
                 budgetVars, syncVars, deviceVars, observers>>

\* RecordFrame, second half: the command buffer is begun (implicitly reset),
\* recorded and ended.  Only this call is timed against the budget.
RecordFrame ==
  /\ pc = "Recording"
  /\ Goto("Submit")
  /\ vbuf' = frameNumber
  /\ cmd' = [frame |-> frameNumber, image |-> imageIndex]
  /\ renderLate' \in BOOLEAN
  /\ UNCHANGED <<frameNumber, loopRunning, imageIndex, budgetVars, syncVars,
                 deviceVars, observers>>

\* RecordFrame returns VK_NULL_HANDLE: vkBegin/EndCommandBuffer failed.
RecordFail ==
  /\ pc = "Recording"
  /\ vbuf' = frameNumber
  /\ cmd' = Unrecorded
  /\ Abort("record", "NULL", "eRecordFailed")
  /\ UNCHANGED <<frameNumber, imageIndex, renderLate, kicks, rendered,
                 budgetVars, syncVars, deviceVars>>

\* 8.5 vkQueueSubmit: waits imageAvailable, signals renderComplete and the fence.
Submit ==
  /\ pc = "Submit"
  /\ Goto("Present")
  /\ queue' = Append(queue, Render(imageIndex, cmd.frame))
  /\ UNCHANGED <<frameNumber, loopRunning, imageIndex, renderLate, fetched, content,
                 owner, flips, onScreen, scanout, budgetVars, syncVars, bufferVars,
                 observers>>

SubmitFail ==
  /\ pc = "Submit"
  /\ \E result \in {"DEVICE_LOST", "OUT_OF_MEMORY"} :
       Abort("submit", result,
             IF result = "DEVICE_LOST" THEN "eDeviceLost" ELSE "eSubmitFailed")
  /\ UNCHANGED <<frameNumber, imageIndex, renderLate, kicks, rendered,
                 budgetVars, syncVars, bufferVars, deviceVars>>

\* 8.6 vkQueuePresentKHR accepted (SUBOPTIMAL included): the heartbeat is kicked.
PresentFrame ==
  /\ pc = "Present"
  /\ Goto("Telemetry")
  /\ queue' = Append(queue, Present(imageIndex, frameNumber))
  /\ kicks' = kicks + 1
  /\ UNCHANGED <<frameNumber, loopRunning, imageIndex, renderLate, fetched, content,
                 owner, flips, onScreen, scanout, report, cause, rendered,
                 budgetVars, syncVars, bufferVars>>

PresentEvent(result) ==
  CASE result = "DEVICE_LOST"  -> "eDeviceLost"
    [] result = "SURFACE_LOST" -> "eSurfaceLost"
    [] OTHER                   -> "ePresentFailed"

\* Seeded fault: the present error is reported but loopRunning stays true.
PresentFailKeepsRunning ==
  /\ pc = "Present"
  /\ Goto("Telemetry")
  /\ \E result \in {"OUT_OF_DATE", "SURFACE_LOST", "DEVICE_LOST", "OUT_OF_MEMORY"} :
       report' = Append(report, PresentEvent(result))
  /\ UNCHANGED <<frameNumber, loopRunning, imageIndex, renderLate, cause, kicks,
                 rendered, budgetVars, syncVars, bufferVars, deviceVars>>

\* A failed present clears loopRunning but does not break: telemetry follows.
PresentFail ==
  /\ pc = "Present"
  /\ Goto("Telemetry")
  /\ loopRunning' = FALSE
  /\ \E result \in {"OUT_OF_DATE", "SURFACE_LOST", "DEVICE_LOST", "OUT_OF_MEMORY"} :
       /\ report' = Append(report, PresentEvent(result))
       /\ cause' = <<"present", result>>
  /\ UNCHANGED <<frameNumber, imageIndex, renderLate, kicks, rendered,
                 budgetVars, syncVars, bufferVars, deviceVars>>

\* 8.7 and 8.8: budget, edge-triggered deadline event, ++frameNumber, limit.
Telemetry ==
  LET consecutive == NextConsecutive(consecutiveMisses, ~renderLate)
      escalated   == EscalatedAt(consecutive)
      limit       == MaxFrames > 0 /\ frameNumber + 1 >= MaxFrames
  IN  /\ pc = "Telemetry"
      /\ consecutiveMisses' = consecutive
      /\ budgetEscalated' = escalated
      /\ report' = IF escalated /\ ~budgetEscalated
                   THEN Append(report, "eFrameDeadlineMiss") ELSE report
      /\ frameNumber' = frameNumber + 1
      /\ loopRunning' = (loopRunning /\ ~limit)
      /\ Goto(IF loopRunning /\ ~limit THEN "Drain" ELSE "Shutdown")
      /\ cause' = IF loopRunning /\ limit THEN <<"limit", "SUCCESS">> ELSE cause
      /\ UNCHANGED <<imageIndex, renderLate, kicks, rendered, syncVars, bufferVars,
                     deviceVars>>

\* Seeded fault: the fence is waited for in place of the device.
WaitIdleOnFence ==
  /\ pc = "Shutdown"
  /\ fence
  /\ Goto("Destroy")
  /\ UNCHANGED <<frameNumber, loopRunning, imageIndex, renderLate, budgetVars, syncVars,
                 bufferVars, deviceVars, observers>>

\* ShutdownAll: vkDeviceWaitIdle returns once no submission is left to run.
WaitIdle ==
  /\ pc = "Shutdown"
  /\ Renders = {}
  /\ Goto("Destroy")
  /\ UNCHANGED <<frameNumber, loopRunning, imageIndex, renderLate, budgetVars, syncVars,
                 bufferVars, deviceVars, observers>>

\* A failed vkDeviceWaitIdle: the device is lost, its work with it, or memory
\* ran out and the GPU works on.
IdleWaitFails ==
  \/ queue' = <<>> /\ fetched' = None
  \/ UNCHANGED <<queue, fetched>>

\* Any failure of the wait is logged: "proceeding".
WaitIdleFail ==
  /\ pc = "Shutdown"
  /\ Goto("Destroy")
  /\ IdleWaitFails
  /\ UNCHANGED <<frameNumber, loopRunning, imageIndex, renderLate, content, owner,
                 flips, onScreen, scanout, budgetVars, syncVars, bufferVars, observers>>

\* The rest of ShutdownAll destroys sync, renderer, swapchain, display, then
\* waits for the device again before it destroys the context.
DestroyAll ==
  /\ pc = "Destroy"
  /\ Renders = {}
  /\ Goto("Exited")
  /\ UNCHANGED <<frameNumber, loopRunning, imageIndex, renderLate, budgetVars, syncVars,
                 bufferVars, deviceVars, observers>>

\* VkscContext::Shutdown's own wait is best-effort too.
DestroyAllFail ==
  /\ pc = "Destroy"
  /\ Goto("Exited")
  /\ IdleWaitFails
  /\ UNCHANGED <<frameNumber, loopRunning, imageIndex, renderLate, content, owner,
                 flips, onScreen, scanout, budgetVars, syncVars, bufferVars, observers>>
-----------------------------------------------------------------------------
(* The device.  Submissions and presents execute in issue order; the GPU    *)
(* may fetch vertices before imageAvailable is signalled, because the       *)
(* submission waits for it only at COLOR_ATTACHMENT_OUTPUT.                 *)

ImageReady ==
  /\ imageAvailable = "pending"
  /\ imageIndex \notin scanout
  /\ imageAvailable' = "signalled"
  /\ UNCHANGED <<loopVars, budgetVars, fence, renderComplete, bufferVars, deviceVars,
                 observers>>

GpuStart ==
  /\ pc # "Exited"
  /\ fetched = None
  /\ queue # <<>> /\ Head(queue).op = "render"
  /\ fetched' = vbuf
  /\ UNCHANGED <<loopVars, budgetVars, syncVars, bufferVars, queue, content, owner,
                 flips, onScreen, scanout, observers>>

\* Seeded fault: submitInfo.waitSemaphoreCount left at 0.
NoSubmitWait == TRUE

\* submitInfo's one wait: colour output starts when the image is available.
SubmitWait == imageAvailable = "signalled"

GpuFinish ==
  /\ pc # "Exited"
  /\ fetched # None
  /\ SubmitWait
  /\ imageAvailable' = "unsignalled"
  /\ renderComplete' = TRUE
  /\ fence' = TRUE
  /\ content' = [content EXCEPT ![Head(queue).image] =
                   [geometry |-> fetched, colour |-> Head(queue).frame]]
  /\ queue' = Tail(queue)
  /\ fetched' = None
  /\ rendered' = rendered + 1
  /\ UNCHANGED <<loopVars, budgetVars, bufferVars, owner, flips, onScreen, scanout,
                 report, cause, kicks>>

PresentExecute ==
  /\ pc # "Exited"
  /\ queue # <<>> /\ Head(queue).op = "present"
  /\ renderComplete
  /\ renderComplete' = FALSE
  /\ flips' = Append(flips, [image |-> Head(queue).image, frame |-> Head(queue).frame])
  /\ owner' = [owner EXCEPT ![Head(queue).image] = "display"]
  /\ queue' = Tail(queue)
  /\ UNCHANGED <<loopVars, budgetVars, fence, imageAvailable, bufferVars, fetched,
                 content, onScreen, scanout, observers>>

\* Vertical blank: the oldest presented image replaces the one on screen,
\* which goes back to the engine although its scan-out may not be over.
Flip ==
  /\ pc # "Exited"
  /\ flips # <<>>
  /\ onScreen' = Head(flips)
  /\ flips' = Tail(flips)
  /\ scanout' = scanout \cup {Head(flips).image}
  /\ owner' = [i \in Images |-> IF i = onScreen.image THEN "engine" ELSE owner[i]]
  /\ UNCHANGED <<loopVars, budgetVars, syncVars, bufferVars, queue, fetched, content,
                 observers>>

ScanoutDone ==
  /\ scanout \notin {{}, {onScreen.image}}
  /\ scanout' = scanout \cap {onScreen.image}
  /\ UNCHANGED <<loopVars, budgetVars, syncVars, bufferVars, queue, fetched, content,
                 owner, flips, onScreen, observers>>
-----------------------------------------------------------------------------
\* main() has returned.
Terminated == pc = "Exited" /\ UNCHANGED vars

\* What the loop does by itself, on every schedule: no call's error result.
LoopStep ==
  \/ DrainFaults \/ WaitAndReset \/ WaitTimeout \/ GetAttitude \/ Acquire
  \/ WriteVertices \/ RecordFrame \/ Submit \/ PresentFrame \/ Telemetry
  \/ WaitIdle \/ DestroyAll

CallFails ==
  \/ WaitFail \/ AcquireSuboptimal \/ AcquireFail \/ RecordFail \/ SubmitFail
  \/ PresentFail \/ WaitIdleFail \/ DestroyAllFail

GpuStep == GpuStart \/ GpuFinish
DisplayStep == ImageReady \/ PresentExecute \/ Flip \/ ScanoutDone

Next == LoopStep \/ CallFails \/ GpuStep \/ DisplayStep \/ Terminated

Spec == Init /\ [][Next]_vars

\* The loop thread keeps running; the queue and the display need not.
LoopFairness == WF_vars(LoopStep)
GpuFairness == WF_vars(GpuStep)
DisplayFairness == WF_vars(DisplayStep)

HungGpuSpec == Spec /\ LoopFairness /\ DisplayFairness
StalledDisplaySpec == Spec /\ LoopFairness /\ GpuFairness
-----------------------------------------------------------------------------
Samples == Nat \cup {None}

TypeOK ==
  /\ pc \in Locations
  /\ frameNumber \in Nat
  /\ loopRunning \in BOOLEAN
  /\ imageIndex \in Images \cup {None}
  /\ renderLate \in BOOLEAN
  /\ consecutiveMisses \in 0..CounterMax
  /\ budgetEscalated \in BOOLEAN
  /\ fence \in BOOLEAN
  /\ imageAvailable \in {"unsignalled", "pending", "signalled"}
  /\ renderComplete \in BOOLEAN
  /\ vbuf \in Samples \cup {Torn}
  /\ cmd \in [frame : Samples, image : Images \cup {None}]
  /\ queue \in Seq(Operations)
  /\ fetched \in Samples \cup {Torn}
  /\ content \in [Images -> [geometry : Samples \cup {Torn}, colour : Samples]]
  /\ owner \in [Images -> {"engine", "app", "display"}]
  /\ flips \in Seq([image : Images, frame : Nat])
  /\ onScreen \in [image : Images, frame : Nat] \cup {NothingShown}
  /\ scanout \subseteq Images
  /\ report \in Seq(HealthEvents)
  /\ cause \in Calls \X Results
  /\ kicks \in Nat
  /\ rendered \in Nat

\* The vertex buffer and the one command buffer are rewritten only while no
\* submission that uses them is pending: IFrameRenderer's "RecordFrame must
\* be called only after the caller has confirmed the GPU is not reading".
BuffersExclusive == pc \in {"Record", "Recording", "Submit"} => Renders = {}

\* The loop never waits on a fence nobody will signal: when WaitAndReset is
\* reached the fence is signalled or a submission that signals it is queued.
\* (The fence is reset before calls that may fail, so a path that went on
\* after such a failure would wait for good.)
FenceWillSignal == pc = "Wait" => fence \/ Renders # {}

\* The two semaphores are reused every frame without being recreated:
\* imageAvailable goes into an acquire with no signal or wait outstanding,
\* and a submission signals renderComplete only after the present of the
\* previous frame has consumed it.
SemaphoresReusable ==
  /\ pc = "Acquire" => imageAvailable = "unsignalled" /\ Renders = {}
  /\ fetched # None => ~renderComplete

\* A presented image shows one frame's attitude, geometry and colour alike,
\* and it is the frame it was presented for: no stale, mixed or half-written
\* vertices reach the screen.
ImageIntact ==
  \A shown \in {flips[k] : k \in DOMAIN flips} \cup {onScreen} :
    shown # NothingShown =>
      content[shown.image] = [geometry |-> shown.frame, colour |-> shown.frame]

\* The GPU never writes an image the display is still reading (the submission
\* waits imageAvailable, which the engine signals after the scan-out).
NoTearing ==
  [][\A i \in Images : content'[i] # content[i] => i \notin scanout]_vars

\* Frames that have been on the screen.
Shown == IF onScreen = NothingShown THEN 0 ELSE onScreen.frame + 1

\* What a heartbeat proves to the watchdog: kicks run at most one frame ahead
\* of the frames the GPU has completed, and at most the free images ahead of
\* the frames the display has shown, so a hung GPU or display silences them.
HeartbeatLead ==
  /\ kicks <= rendered + 1
  /\ kicks + (IF Shown = 0 THEN 0 ELSE 1) <= Shown + Cardinality(Images)

Stopped == pc \in {"Shutdown", "Destroy", "Exited"}
FatalReports == {k \in DOMAIN report : report[k] \in FatalEvents}

\* ARCHITECTURE.md, "Every failure path reports exactly one classified health
\* event before the safe shutdown": a loop stopped by a failed call has
\* reported one fatal event, a lost device as eDeviceLost and a fence timeout
\* as eGpuHang; one stopped by the frame limit has reported none.
StopIsReported ==
  Stopped =>
    /\ cause # NoCause
    /\ Cardinality(FatalReports) = IF cause[1] = "limit" THEN 0 ELSE 1
    /\ \A k \in FatalReports :
         /\ cause[2] = "DEVICE_LOST" => report[k] = "eDeviceLost"
         /\ cause[2] = "TIMEOUT" <=> report[k] = "eGpuHang"

\* "the loop never continues past an unrecoverable Vulkan error": once a fatal
\* event is out no further call of the loop is made, bar the telemetry of the
\* frame whose present failed.
FatalStops == FatalReports # {} => pc \in {"Telemetry", "Shutdown", "Destroy", "Exited"}

\* What a stopped loop leaves to the shutdown follows from the call that
\* stopped it.  After a failed acquire, recording or submission the GPU has
\* nothing to run, whatever vkDeviceWaitIdle then answers.  With the GPU idle
\* the acquire's semaphore signal, which vkDeviceWaitIdle does not wait for, is
\* outstanding exactly after a suboptimal acquire, a failed recording or a
\* failed submission.
LeftOnDevice ==
  /\ Stopped /\ cause[1] \in {"acquire", "record", "submit"} => Renders = {} /\ fetched = None
  /\ pc = "Shutdown" /\ Renders = {} =>
       (imageAvailable # "unsignalled" <=>
          cause[1] \in {"record", "submit"} \/ cause = <<"acquire", "SUBOPTIMAL">>)

\* A GPU that stops for good cannot hold the loop: the 5 s fence timeout ends
\* it, whatever the GPU was doing.
LoopEnds == <>Stopped

\* The safe shutdown returns, or the GPU keeps a submission for good:
\* vkDeviceWaitIdle, without a timeout, waits for nothing else - not for a
\* fence that was reset for a frame never submitted, nor for an image that
\* was acquired and never presented.
ShutdownReturns == <>(pc = "Exited") \/ <>[](Renders # {})
-----------------------------------------------------------------------------
(* Statements of the documentation that the code does not keep.             *)

\* "exactly one classified health event": nothing is reported after the event
\* of the failed call.
NoEventAfterFailure ==
  Stopped /\ FatalReports # {} => report[Len(report)] \in FatalEvents

\* "all waits bounded, no unbounded blocking": the loop ends even when the
\* display stops handing out images.
AcquireBounded == <>Stopped
==============================================================================
