# Soteria: specifications, model checks and proofs

Soteria draws an artificial horizon with Vulkan SC: a fixed-schedule frame loop
(`app/main.cpp`) over a small engine (`engine/`) and one renderer
(`app/rendering/`). This directory holds TLA+ models of the loop, of what it
drives and of its start-up and shutdown, the TLC configurations that check them
and the TLAPS proofs about them. Paths below are relative to the repository;
`PROJECT.json` maps every definition to its lines.

## The system

One thread does everything. `main` builds a configuration that reserves every
object the device may ever have, initialises five components in order, runs the
frame loop for `kMaxFrames` frames or until a call fails, and shuts the
components down in reverse. What is concurrent is the device: the graphics
queue runs submissions, the presentation engine shows images, the driver
records faults, all while the thread goes on.

| Part | State | Operations | Hard about it |
|---|---|---|---|
| Frame loop, `app/main.cpp` | `loopRunning`, `frameNumber`, `imageIndex`, `budgetEscalated` | nine steps per frame, each with its error results | which of them may follow which failure; one event per failure |
| `FrameSync` | one fence, two semaphores | `Init`, `WaitAndReset`, `Shutdown` | the fence is all that keeps the CPU off buffers in use; reset before calls that may fail |
| `FrameBudgetMonitor` | deadline, run and total of misses | `Init`, `RecordFrame`, `Escalated` | edge-triggered, counters of finite width, times that are not finite |
| `VkscContext` | instance, device, queue, fault limit | `Init`, `DrainFaults`, `Shutdown`, device selection | the poll clears the driver's record |
| `ConsoleHealthMonitor` | count per event kind, `m_faultFrame` | `OnHealthEvent`, `Kick`, `OnFault`, `OnUnrecordedFaults` | the rate limit of its lines; driver faults are numbered by themselves |
| `HorizonRenderer` | pipelines, framebuffers, one command buffer | `Init`, `RecordFrame`, `DestroyAll` | one buffer for all frames; `Init` fails half-way |
| `VertexBuffer` | buffer, memory, mapping | `Init`, `Write`, `Shutdown` | persistently mapped, rewritten every frame |
| `CommandPool`, `PipelineCacheSc` | one handle each | `Init`, `AllocateBuffers`, `Shutdown` | the pool cannot be destroyed, the cache header is untrusted |
| `SwapchainSc`, `DisplayOutput` | images, views, surface | `Init`, `Shutdown` | the swapchain cannot be destroyed; the driver picks the image count |
| `horizon_geometry.cpp`, the shaders | none | `ComputeHorizonVertices`, the background's verdict on a pixel | CPU and GPU compute the horizon each from a formula of its own |
| `FixedString` | a buffer and its length | one append per kind of value, truncating | the most negative integer, carries of a rounding, a full buffer |
| Demo attitude source and report | the clock; nothing | `GetAttitude`; `OnFrameComplete` | invalid samples |

Interaction: `main` calls everything directly. Callbacks run inside its calls
(`IFaultSink` inside `DrainFaults`, `IHealthMonitor` and `IHeartbeat` from the
loop). Thread and device share the vertex buffer, the command buffer and the
swapchain images, and meet at the fence and at the two semaphores.

What makes each part correct: the loop never touches what the device uses,
always ends, and says why; whole frames reach the screen, once each and in
order; a run of deadline misses raises one event; no driver fault is forwarded
twice and none vanishes unsignalled; the first event of a kind makes a line and
a lasting one goes on making them, but not one per frame; the lines, the
background and the telemetry of a frame show one attitude, and none when the
sample is invalid; a line of text is cut at its end only; a start-up that fails anywhere, and every
shutdown, destroys each object once, after its users. `PROJECT.json` lists the
hazards behind these, each at its line.

## Modules

| Module | Models |
|---|---|
| `BudgetCounter` | the miss counter of `FrameBudgetMonitor`, as operators |
| `FrameBudget` | the monitor's counters with main's edge trigger |
| `Console` | the health monitor under the reports of the loop, the deadline monitor (`FrameBudget`) and the fault sink |
| `FrameLoop` | section 8 of `main` interleaved with queue, presentation engine and display |
| `HorizonDisplay` | abstract: what the display promises, with no Vulkan in it |
| `FrameLoopRefines` | the refinement mapping from `FrameLoop` to `HorizonDisplay` |
| `FaultDrain` | driver fault log, `DrainFaults`, the fault sink |
| `Lifecycle` | initialisation, failure and shutdown of the five components |
| `DeviceSelection`, `DisplaySelection`, `SwapchainSelection`, `MemorySelection`, `CacheHeader` | what the start-up picks from what the driver reports, as operators |
| `Selection` | the five as calls with an answer; `MCSelection` has the platforms |
| `FixedText` | the appends of `FixedString`, as operators |
| `HorizonPicture` | geometry, push constants, background shader and displayed metrics of one frame, as operators |
| `Output` | the two as lines and frames put out; `MCOutput` has the inputs |
| `FaultDrain_proofs`, `Lifecycle_proofs`, `Selection_proofs`, `Output_proofs` | the theorems about these modules |
| `Console_proofs` | the theorems about `FrameBudget` and `Console` |
| `FrameLoop_proofs` | the hand-over of resources, the reports and the semaphores of `FrameLoop` |
| `FrameLoopImages_proofs` | frame numbers, images and pictures of `FrameLoop`, and the refinement; extends the former |
| `Recursion_proofs` | lemmas about numbers, folds and recursive functions, for the proofs about `Selection` and `Output` |

`FrameLoop` and `FrameBudget` share `BudgetCounter`; `Console` extends
`FrameBudget` with the rest of an iteration, as far as it reports. `FrameLoop`
takes a poll for faults as one step that may report `eDriverFault`, and destruction as one
step; `FaultDrain` and `Lifecycle` look inside these and take the loop as one
step in turn. `Selection` looks inside five calls that merely succeed or fail in
`Lifecycle`, `Output` inside the frame that is a number in `FrameLoop`.

### FrameLoop

`pc` names the call about to be made. One action is one Vulkan call or callback
with its success, and one more for each kind of failure:

| Action | Code |
|---|---|
| `DrainFaults` | 8.0; at most one `eDriverFault` is kept, the loop goes on either way |
| `WaitAndReset`, `WaitTimeout`, `WaitFail` | 8.1 and `FrameSync::WaitAndReset`: signalled and reset; 5 s without a signal; an error |
| `GetAttitude` | 8.2; the sample is valid or not |
| `Acquire`, `AcquireSuboptimal`, `AcquireFail` | 8.3; blocks until an image is free |
| `WriteVertices`, `RecordFrame`, `RecordFail` | 8.4, split at the copy into the mapped buffer: a submission that fetches in between gets torn vertices |
| `Submit`, `SubmitFail` | 8.5 |
| `PresentFrame`, `PresentFail` | 8.6; a failed present does not break, the telemetry still runs |
| `Telemetry` | 8.7 and 8.8 |
| `WaitIdle`, `WaitIdleFail` | section 9; `ShutdownAll`'s `vkDeviceWaitIdle`, any of whose failures is only logged |
| `DestroyAll`, `DestroyAllFail` | section 9; the `Shutdown` of each component, the last of which waits for the device once more |

The device side is external, taken from how the code uses Vulkan. A submission
fetches vertices when it starts and writes colour when its wait on
`imageAvailable` is satisfied, since the code waits at
`COLOR_ATTACHMENT_OUTPUT` only. Submissions and presents execute in issue
order. Presents form a FIFO (`VK_PRESENT_MODE_FIFO_KHR`). An image that leaves
the screen can be acquired while the display still reads it. A
`vkDeviceWaitIdle` that fails has one of two outcomes: the device is lost and its
work is gone, or (out of memory) the queue stays as it was and may go on.
Destruction may then come under a running submission; what such a submission does
with destroyed objects is not modelled, it goes on as before.

A frame's picture is the number of the frame it was computed for, once for its
geometry (vertex buffer) and once for its colour (push constants in the command
buffer). Render times are within the deadline or not.

### HorizonDisplay and the refinement

The abstract display has frames sent, frames shown, what the screen holds, a
verdict and whether all is down. `Send`, `Show`, `Judge` and `GoDown` are its
steps. The mapping reads the screen's contents from the *image* on screen, so
that a write into that image, or vertices of another frame in it, has no
abstract step. Sent frames are heartbeats. `Depth` is the number of images.

### Console

`pc` divides an iteration where the reports come: the drain (any number of
escalations), the sample, the draw (every failure between the sample and the
present), the telemetry. A report is an event and its number; `reported` and
`printed` are observers, `seen` is `m_eventCounts`. The deadline event comes
exactly when `FrameBudget`'s edge trigger fires. A render time is a number or
`NotFinite`; the configured deadline is not positive, so that `Init`'s default
is what frames are judged by. Logging is taken as enabled; where it is compiled
out nothing is printed and the counts are the same.

### FaultDrain

The driver may record a fault between any two steps; a full log leaves only a
flag. `Drain` is `DrainFaults` with all its sink calls; `DrainFail` a failing
`vkGetFaultData`. `vkGetFaultData` with the `GET_AND_CLEAR_ALL` behaviour is
taken to return the oldest records that fit and to clear the log and the flag.
`FinishFrame` and `AbortFrame` stand for the rest of the iteration. `forwarded`,
`overflows` and `events` are what the sink has heard; critical faults are counted
by their places in it.

### Lifecycle

`CreateObject` and `InitFails` are one call of the current `Init`, succeeding
or failing, at every point of its sequence; `todo` holds the destroy calls of a
failure path or of a `Shutdown`, made one by one by `DestroyObject`. `live` is
the driver's view and `held` the members'. A clean-up looks at each handle when
its turn comes and skips one that is null, as the code does. Kinds Vulkan SC
cannot destroy stay in `live` until the device goes. How many images the driver
makes is its choice. The surface is not a parent of the swapchain, which
outlives it; `SurfaceOutlivesUse` says that nothing a call can destroy does, the
device and the instance apart.

### Selection

A behaviour is one call on one platform: `SelectPhysicalDevice`, the part of
`DisplayOutput::Init` and of `SwapchainSc::Init` before the first object is
made, `VertexBuffer::Init`'s search for a memory type, or
`ValidatePipelineCacheHeader`. The operators follow the loops where
their order matters (the best mode is a fold) and are otherwise sets and their
minimum. The properties compare the answer with the sentence that documents it.
A query that fails is one that reports nothing, since no caller tells the two
apart. An enumeration fetches as many items as the array holds, and
`VK_INCOMPLETE`, which the driver answers when there were more, is an error to
the code; queue families, whose query has no result, are silently cut. Memory
types come in the order Vulkan prescribes: one whose flags are a strict subset
of another's before it.

### FixedText, HorizonPicture and Output

A behaviour is one line, a chain of appends to a buffer of some capacity, or
one frame. Text is a sequence of characters, since what the properties are about
is where it is cut and what number it denotes. A float is a multiple of
`1 / FloatUnit`, so the product with the scale is exact; the code's product may
round, and for such a value its last decimal may differ.

An attitude is a roll, as a point with integer coordinates on a circle of radius
`R`, and a pitch in degrees; `Degree` lengths make a degree of pitch. With that
the rotation and the shader's inverse are exact, and the two can be compared.
Vertices that do not turn with the attitude and lie on the roll scale stay in
polar form. The background shader is asked about a point at a time.

## Runs

| Run | Instance | Shows |
|---|---|---|
| `FrameLoop` | 3 images, 5 frames, threshold 2, counter maximum 3, `HungGpuSpec` | the safety properties and the refinement `ImplementsDisplay`; though the GPU may stop, `LoopEnds`, and `ShutdownReturns` unless a submission never ends; with a GPU that does not, `KeepsPromises`: the refinement with liveness |
| `Console` | threshold 2, counter maximum 3, 7 frames, interval 3, 4 escalations | `OneAlarmPerEpisode` on every pattern of misses; which reports make a line |
| `FaultDrain` | log of 2, array of 3, 6 faults, 3 frames | order, loss, escalation and latency |
| `Lifecycle` | arrays of 3, a driver that makes 1 to 4 images | cleanliness of every failure and shutdown |
| `Selection` | arrays of 2, pixels modulo 8, index end modulo 256; about 41 000 platforms | device, display, swapchain and memory type are those documented |
| `Output` | 16-bit words, 4 decimals, buffers of 2 to 20, up to 3 appends; roll circle of radius 5, 11 pitches, 5 extents | truncation and numbers of lines; one horizon in lines, background and telemetry |
| `FrameLoopStalled` | 2 images, 4 frames, `StalledDisplaySpec` | violation of `AcquireBounded` |
| `FrameLoopEvents` | 2 images, 3 frames | violation of `NoEventAfterFailure` |
| `FaultDrainClamp` | log of 3, array of 2 | violation of `EveryRecordForwarded` |
| `SelectionFirst` | the devices of `Selection` | violation of `FirstDevicesEnumerated` |
| `SelectionWrap` | the caches of `Selection` | violation of `IndexInsideBlob` |
| `OutputBank` | the frames of `Output` | violation of `RightWingDown` |

Why the bounds are enough. Three images is the array size of the code; five
frames take every image around once and reuse two, with a queue and a flip FIFO
as full as they get, and hold a deadline episode (two misses), its end and the
start of the next. With a counter maximum of 3 the run counter sticks. Without
a frame limit the loop is the same loop, only longer: the theorems about it have
no bound. Liveness is checked in the same run, so the images, though
interchangeable, are not declared a symmetry. In `FaultDrain`
six faults overflow a log of two twice, with a poll after each, so that a second
loss must be signalled on its own; three frames allow a failed poll between. The
fourth image in `Lifecycle` is the driver exceeding the arrays. In `Selection`
every array is offered none, some, as many and one more than it holds, and one
mode and some index ends wrap. Seven frames of `Console` are more than two of
its intervals and hold two complete deadline episodes, and runs that pin the
counter; escalations reach the second multiple of the interval. `Output` has
both sides of every power of ten and of the largest word, the most negative
integer, fractions that round, carry and need leading zeros, and buffers that
end in every piece; its attitudes lie in all four quadrants and on the axes, its
pitches on every line of the ladder, one degree from the horizon and beyond the
ladder's end. Deadlock is checked in every run but those of
`Selection` and `Output`, where a behaviour ends with its answer: `Terminated`,
after the loop has ended or `main` has returned, is the only step to itself.

Fairness. `LoopFairness` is weak fairness of the loop thread's own steps: the
thread is never descheduled for good, and a call whose success is possible does
not fail to return. No failure is ever forced. `GpuFairness` and
`DisplayFairness` say that the queue and the display keep working; the code
cannot ensure that, so each is dropped where its loss is the question. `HungGpuSpec` leaves the GPU free to stop: the loop still ends, by the
fence timeout, and `KeepsPromises` has a working GPU as the antecedent of its
own formula. `StalledDisplaySpec` leaves the display free to stop: there the
loop may not end.

## Where the code and its documentation differ

Each of the first six is a run that ends in a violation; the others were met
while modelling.

- `docs/ARCHITECTURE.md:125`: exactly one event before the shutdown. A failed
  present runs on into the telemetry, which may add `eFrameDeadlineMiss`.
- `docs/ARCHITECTURE.md:108`: all waits bounded. The acquire waits with
  `UINT64_MAX`.
- `engine/core/i_fault_sink.hpp:6`: every recorded fault is forwarded. A device
  limit above `kMaxFaultEntries` makes one poll clear what it did not fetch.
- `engine/core/vksc_context.hpp:84`: enumeration stops at the first
  `maxPhysicalDevices` devices. With more devices than that it fails.
- `engine/data/i_attitude_source.hpp:10`, `app/rendering/horizon_geometry.hpp:57`:
  positive roll is right wing down. The world turns the other way on the screen.
- `engine/rendering/pipeline_cache.cpp:92`: no overflow possible. The offset is
  64 bits wide itself, so an index that begins near 2^64 wraps into the blob.
- `app/main.cpp:105`: all GPU work is finished before any object is destroyed.
  A `vkDeviceWaitIdle` that fails, for want of memory say, is only logged.
- `engine/data/i_health_monitor.hpp:52`: the frame counter at detection. Driver
  fault events carry a count of escalations.
- `engine/wsi/display_output.hpp:11`: the mode of the largest area. An area of
  2^32 pixels or more wraps and loses.
- `engine/rendering/swapchain.hpp:51`, `docs/ARCHITECTURE.md:104`: the swapchain is
  destroyed, strictly in reverse. It goes with the device, after its surface.
- `engine/core/i_fault_sink.hpp:18`: a latency of one frame. Nothing polls after
  the last frame.
- `engine/core/i_fault_sink.hpp:65`: a critical fault is unrecoverable. It is
  reported and the loop goes on.
- `engine/data/i_frame_report.hpp:24` and `:22`: the roll actually rendered, and
  the wall time of the submit. The rotation is applied in normalised coordinates
  without the aspect ratio, so that on a wide display the horizon is flatter than
  the roll; `renderTimeMs` is the time `RecordFrame` takes.
- `app/rendering/horizon_geometry.cpp:52`: ladder lines as long on every display.
  For the same reason only while the roll is level.
- `app/shaders/horizon_bg.frag:19`: a transition band of one degree. It
  is half a degree high.
- `app/demo/console_health_monitor.hpp:8`: one line per event kind per interval.
  The first report makes a line whatever its number, so frames 59 and 60 may both
  have one; driver faults are numbered by themselves, so any number of intervals
  fits in a frame; and a later deadline episode whose only event is off the
  interval makes none.
- `engine/core/vksc_context.cpp:228`: the message of a failed `vkCreateDevice` has
  a buffer of 64; its text with a result of an extension is longer and is cut
  in the hexadecimal number.
- `engine/data/i_health_monitor.hpp:32`: `eSurfaceLost`. A surface lost in the
  acquire is reported as `eAcquireFailed`.
- `engine/rendering/i_frame_renderer.hpp:81`: a recording lasts per image. There
  is one command buffer for all images.
- `docs/ARCHITECTURE.md:125` again: the safe shutdown. After a GPU hang
  `vkDeviceWaitIdle` in `ShutdownAll` waits without a bound.

## Proofs

`FrameLoop_proofs` proves, for any number of images and frames and any
threshold, `TypeOK`, `BuffersExclusive` and `FenceWillSignal` as invariants of
`Spec`. Neither of the last two is inductive. The invariant that is, `IInv`, ties the fence, the queue and the
loop's position together: at most one submission is queued; a signalled fence
means none is; from `WaitAndReset` to `Submit` the fence is down and no
submission is queued; from `Present` back to `Wait` the fence is up or a
submission is queued; a running submission is the head of the queue. `LoopInv`
adds that the loop holds an image and a recording when it submits. The
assumptions are those the module states on its constants.

`Console_proofs` proves `OneAlarmPerEpisode` of `FrameBudget` for every threshold,
counter width and number of frames. Its invariant reads the run counter back from the
history: the last `consecutiveMisses` frames missed, and unless the counter
stands at its maximum the frame before them did not. It needs the threshold to
be no larger than the counter's maximum (`BudgetAssumption`), which the code
has by type: both are `uint32_t`.

It carries that over to the whole loop, whose steps are steps of
`FrameBudget` or leave it alone, and proves `ConsoleTypeOK`, `FirstIsPrinted`,
`LastingIsPrinted` and `OneLinePerInterval` for every interval, threshold and
number of frames. None of the last three is inductive: that the first report is
printed rests on the numbers of a kind never falling, and that a second one in
an interval is not rests on both being either multiples of it or the first.
`LineInv` says so, kind by kind. It assumes a slot for each event
(`KEventCount = 10`), as the code's comment does.

`Selection_proofs` proves all the properties of the run, `DeviceWanted`,
`DisplayAsDocumented`, `SwapchainOffered` and `MemoryNeedsNoFlush`, for every platform, array size and integer width. Its
invariant only says that the answer is what the call makes of a platform of the
sets; the work is in lemmas about `Side`, `Extent`, `ImageCount`, the least element of a set of numbers, which is what a search for the
first finds, and the fold over the modes (`BestModeIsFirst`: after each mode, the
best so far is the first of the largest area). `PlatformAssumption` says what may
be reported: lists numbered from 1, drivers that are some driver (the value by
which the configuration asks for any is not one), surfaces whose bounds are in
order, extents in pixels, planes that support displays there are, each once.
`DisplayAsDocumented` leaves out areas that do not fit the word they are compared
in, for which it would fail, and `SwapchainOffered` surfaces that
need more images than the arrays hold, of which nothing is documented. That an
accepted cache's index lies inside the blob is not a theorem: see
`SelectionWrap`.

### What the loop reports and what the semaphores hold

`FrameLoop_proofs` has two more invariants on top of `IInv`. `ReportInv` proves
`StopIsReported` and `FatalStops`: while the outcome of a frame's calls is open
the loop runs and has reported nothing fatal; once it has stopped, either the
frame limit did it and there is no fatal event, or a call did and there is one,
which fits the call's result; `Telemetry` is reached after a failure only if the
present failed. `IssueInv` and `SemaphoreInv` prove `SemaphoresReusable`:
submissions and presents alternate in the queue, `renderComplete` is signalled
exactly while a present is at its head, and `imageAvailable` is in use from
an acquire to the end of the submission that waits for it. `LeftOnDevice`
follows with one more invariant, `Leaves`: what the shutdown finds on the device
is told by the call that stopped the loop. After a failed acquire, recording or
submission the GPU has nothing to run, since the fence was waited for and nothing
was submitted since, so a failed `vkDeviceWaitIdle` does no harm there; after a
timeout, a failed wait, a present or the last frame it may. The acquire's signal,
which no wait on the device covers, is outstanding exactly after a suboptimal
acquire, a failed recording or a failed submission.

### What reaches the screen

`FrameLoopImages_proofs` follows a frame from the loop to the screen.
`NumberInv` has frame numbers consecutive over screen, flips, queue and loop,
and `RenderedInv` puts the GPU's count where the queue says; together with
`LimitInv` they are `OrderInv`. `PlaceInv` gives every image one place: the
engine's, the loop's, or one position on the way to the screen; by
`AvailableInv`, while `imageAvailable` is signalled the display has stopped
reading the image acquired. `IntactInv` and `ContentInv` carry the picture
along: the vertices a submission fetched, and the colour in its commands, are
those of its frame, since the loop cannot have rewritten them. From these follow

- `ImageIntact` and `NoTearing`;
- `HeartbeatLead`: the frames between heartbeat and screen sit in different
  images, so there are no more of them than images (a pigeonhole argument by
  cardinalities, for which `LoopAssumption` says that `Images` is finite);
- `ImplementsDisplay` without liveness: a step of
  the loop or the device is a step of `HorizonDisplay` or leaves the mapped
  variables alone. `PresentFrame` is `Send`, `Flip` is `Show`, a step that stops
  the loop is `Judge`, `DestroyAll` and `DestroyAllFail` are
  `GoDown`. That the GPU's write is a stutter is where `AvailableInv` is needed,
  that a flip shows the next frame whole is where `NumberInv` and `IntactInv` are,
  and that a verdict is one is where `ReportInv` is.

### Driver faults

`FaultDrain_proofs` proves `TypeOK`, `ReportedOnceInOrder` (forwarded and logged
faults together, `InLine`, are in order of occurrence) and `CriticalEscalates`
for every limit of the driver and every array size. `EveryRecordForwarded`,
`LossIsSignalled` and `LatencyOneFrame` are proved for drivers whose log the
array can take (`ArrayFits`). For the first of them this is needed, as the run
`FaultDrainClamp` shows; `LatencyOneFrame` states it itself; and
`LossIsSignalled` fails without it too, since what a clamped poll clears is never
signalled. `LossIsSignalled` is about each poll on its own; `PollInv` carries it
from one to the next: the last successful poll parts the faults forwarded from
those in the log, and the flag is up exactly if one after it is not in the log.
The code clamps without a word, so the theorem's hypothesis is a condition on the
device, not something the code ensures.

### Start-up and shutdown

`Lifecycle_proofs` proves all seven invariants of the run, for every array size
and every number of images a driver may make. None of `HandlesLive`,
`ParentsOutlive`, `SurfaceOutlivesUse`, `NothingLeaks`, `LoopIsEquipped` and
`WithinReservation` is inductive, since a clean-up is a list of calls made one by one. `IInv` adds

- `Typed`, `Counted`: the counts of images and framebuffers are zero until their
  calls, then what the driver made, at most the array size once the swapchain has
  accepted it;
- `Standing`, `Complete`: while component `at` is initialised those before it are
  initialised, and each has all its objects until its own `Shutdown` runs;
- `Kept`: the component at work holds what its `Init` has made so far. Every
  object has a `Place` in the sequence of its `Init`; it is held only if that is
  at most `done`, and until a call fails then always;
- `Left`: what is live without a handle is of a kind that cannot be destroyed;
- `Planned`: the calls a clean-up has yet to make reach every handle of the
  component, and go by `Rank`, in which children come before their parents.

`Stacked` says besides that components become ready in order and cease to be in
reverse, from which `SurfaceOutlivesUse` follows: what uses the surface belongs to
a later component, and while that has anything the display has its surface.

That the code's clean-up lists do reach every handle, in that order, is proved
list by list (`ShutdownInOrder`, `UndoInOrder`); for a failed `Init` of the
renderer the list is the clean-up of `CreateFramebuffers` or of
`VertexBuffer::Init`, followed by `DestroyAll`.

### Folds and recursive functions

The library's theorems about induction and recursion take an operator as a
parameter, which no installed prover can instantiate. `Recursion_proofs` does
without them. A non-empty set of numbers has a least element (`LeastElement`,
from the well-foundedness of the order), so a set that holds 0 and every
successor holds every number (`AllNumbers`): induction, over a set. By it a
stepwise defined function exists (`FoldExists`, `RecursionExists`), so the
`CHOOSE` behind a recursive definition has something to choose, and what it
chooses goes step by step (`FoldSteps`). A step is a function, given as data.
Each fold the models use is unfolded once this way: the modes of a display, the
calls of an append chain, the digits of a text, the powers of a base, and
`FlattenSeq`.

### What is put out

`Output_proofs` proves the five properties of the run. Its invariant says that
the answer is what the call makes of an input; the rest are lemmas about the
operators.

Frames, for every attitude on the circle, every pitch and every extent, those
without an area included:

- `FailureIsShown`: a picture depends on the sample through what `Drawn` makes of
  it;
- `OneHorizon`, `PitchIsRead`: the first fourteen vertices are computed
  symbolically (`LadderVertices`, `FirstVertices`), and `TurnedBack` says that the
  shader's inverse rotation of a rotated point gives its height back, R * R times
  as large, which is where cos * cos + sin * sin = R * R is used. Each vertex then
  lies as far from the horizon as its angle says (`VertexHeights`), and the first
  rung is beyond the band (`BeyondBand`).

Lines, for every chain of appends, capacity and width of the integers:

- `LinesAreCut`: each call writes a text, `TextOf`, that does not depend on the
  buffer (`PieceWrites`); a call of several appends is cut in each of them, and
  cutting at every append or once at the end gives the same text (`AppendCut`).
  So a line is the concatenation of its calls' texts, cut once (`LineIs`);
- `NumbersAreRead`: the digits are quotients by the powers of the base, taken
  modulo the base, and reading them back gives the number modulo the base's power
  (`WideValue`: after k of c digits the value is n \div base^(c - k), less what lies
  beyond the first digit). `DigitCountIs` says that there are no zeros in front,
  `PaddedIs` that a fraction's zeros and digits are exactly its decimals, and
  `FloatParts` that the fraction, rounded half up, is at most the scale, that the
  carry does not overflow the word and that the error is at most half a unit of
  the last decimal.

`TextAssumption` says that the digits there is room for, and the decimals, go
with the width of a word: 10 and 4 for 32 bits in the code. `OutputAssumption`
says what an append may be given: numbers of their type's width, and floats whose
integer part fits a word, beyond which the code's conversion is undefined; the
largest word has no fraction, since no float there has one. Of the observer's
buffer `Ample` it says that no single piece of the inputs reaches its end.

### What stays with the model checker

Liveness under fairness: `KeepsPromises`, `LoopEnds` and `ShutdownReturns`, which
need ENABLED, out of this prover's reach. Every invariant that the passing runs
check is proved, and the safety part of the refinement.

## Not modelled

- The generated pipeline cache and the tools that make it; the allocator
  interface, which nothing implements or uses; the table of results and the
  annotation macros.
- The writing of finished lines to a stream, and which words they are made of.
- Rounding of floating-point numbers, and rolls whose sine or cosine is not
  rational. The three shaders that hand a position or a colour through.
- The clock of the demo source: `FrameLoop` and `Output` allow every sample.
- Durations. The budget is a comparison, a timeout is a choice the loop has while
  the fence is down; what lies outside `RecordFrame` (fence wait, acquire,
  present) is not in the budget, in the code as in the model.
- A second `Init` after a `Shutdown` on one device, which `main` never makes, and
  arguments rejected by an `Init` or `Write` that `main` never passes.
- The decoding of header fields from bytes, and `CaptureIdentity`'s copy for the
  log.
- What `main` returns: `EXIT_SUCCESS` after a loop that ended in a failure, too.

## What could follow

1. `FrameLoop` composed with `FaultDrain`: an event for every fault the driver
   saw before a failed call, or not.
2. Rolls whose sine and cosine are not rational: the theorems about frames use
   only cos * cos + sin * sin = R * R and would hold of any field, but TLC and
   the provers have the integers.
