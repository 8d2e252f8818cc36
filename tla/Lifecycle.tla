------------------------------ MODULE Lifecycle ------------------------------
(***************************************************************************)
(* Start-up and shutdown of app/main.cpp: the five components initialised  *)
(* in order, each by a sequence of Vulkan calls any one of which may fail; *)
(* the clean-up inside a failing Init; ShutdownAll.                        *)
(*                                                                         *)
(* An object is <<kind, index>>.  live is what the driver has created and  *)
(* not destroyed, held is the handles the components' members keep: the    *)
(* two differ because Vulkan SC cannot destroy swapchains, memory and      *)
(* command pools, whose handles are dropped and which go with the device.  *)
(* How an object is configured is abstracted away.  The frame loop itself  *)
(* is one step here (FrameLoop has the details).                           *)
(***************************************************************************)
EXTENDS Naturals, Sequences, FiniteSets

CONSTANTS
  KMaxImages,       \* SwapchainSc::kMaxImages, HorizonRenderer::kMaxFramebuffers
  MaxDriverImages   \* bound on the images a driver makes

ASSUME ImagesAssumption ==
  /\ KMaxImages \in Nat \ {0}
  /\ MaxDriverImages \in Nat \ {0}

VARIABLES
  phase,             \* "init", "undo", "loop", "shutdown", "destroying", "returned"
  at,                \* index of the component being initialised or shut down
  done,              \* objects its Init has created
  imageCount,        \* SwapchainSc::m_imageCount
  framebufferCount,  \* HorizonRenderer::m_framebufferCount
  todo,              \* handles still to look at, and to destroy if there are any
  live, held, ready, \* ready: components with m_initialised set
  exitCode           \* what main returns

vars == <<phase, at, done, imageCount, framebufferCount, todo, live, held, ready, exitCode>>

Components == <<"context", "display", "swapchain", "renderer", "sync">>

Many(kind, n) == [i \in 1..n |-> <<kind, i>>]
One(kind) == Many(kind, 1)
-----------------------------------------------------------------------------
(* The objects each Init creates, in order.                                *)

ContextCreates == One("instance") \o One("device")
DisplayCreates == One("surface")
SwapchainCreates(n) == One("swapchain") \o Many("imageView", n)

LayoutCreates == One("renderPass") \o One("pipelineLayout")
CacheCreates == One("pipelineCache")
PipelineCreates == Many("pipeline", 2)          \* BG, LINE
FramebufferCreates(n) == Many("framebuffer", n)
PoolCreates == One("commandPool") \o One("commandBuffer")
VertexBufferCreates == One("buffer") \o One("memory") \o One("mapping")

RendererCreates(n) ==
  LayoutCreates \o CacheCreates \o PipelineCreates \o FramebufferCreates(n)
    \o PoolCreates \o VertexBufferCreates

SyncCreates == Many("semaphore", 2) \o One("fence")

Creates(c) ==
  CASE c = "context"   -> ContextCreates
    [] c = "display"   -> DisplayCreates
    [] c = "swapchain" -> SwapchainCreates(imageCount)
    [] c = "renderer"  -> RendererCreates(imageCount)
    [] c = "sync"      -> SyncCreates

ObjectsOf(c) == {Creates(c)[k] : k \in DOMAIN Creates(c)}

\* vkDestroyDevice takes these with it: Vulkan SC has no call to destroy them.
Undestroyable == {"swapchain", "commandPool", "commandBuffer", "memory"}
Retained == {o \in live : o[1] \in Undestroyable}

\* The object an object was created from, or that it refers to.
Parents(o) ==
  CASE o[1] = "instance" -> {}
    [] o[1] \in {"device", "surface"} -> {<<"instance", 1>>}
    [] o[1] = "swapchain" -> {<<"device", 1>>}
    [] o[1] = "imageView" -> {<<"swapchain", 1>>}
    [] o[1] = "pipeline" ->
         {<<"renderPass", 1>>, <<"pipelineLayout", 1>>, <<"pipelineCache", 1>>}
    [] o[1] = "framebuffer" -> {<<"renderPass", 1>>, <<"imageView", o[2]>>}
    [] o[1] = "commandBuffer" -> {<<"commandPool", 1>>}
    [] o[1] = "mapping" -> {<<"memory", 1>>, <<"buffer", 1>>}
    [] OTHER -> {<<"device", 1>>}
-----------------------------------------------------------------------------
Init ==
  /\ phase = "init" /\ at = 1 /\ done = 0
  /\ imageCount = 0 /\ framebufferCount = 0
  /\ todo = <<>> /\ live = {} /\ held = {} /\ ready = {}
  /\ exitCode = "none"

Current == Components[at]

\* Seeded fault: more images than the arrays hold are taken as they come.
AnyImages == TRUE

\* vkGetSwapchainImagesKHR with the count clamped to kMaxImages answers
\* VK_INCOMPLETE when the driver made more, which Init takes for a failure.
ImagesFit == imageCount <= KMaxImages

\* A vkCreate* (vkAllocate*, vkMapMemory) call of the current Init succeeds.
CreateObject ==
  /\ phase = "init"
  /\ done < Len(Creates(Current))
  /\ Current = "swapchain" /\ done = 1 => ImagesFit
  /\ LET o == Creates(Current)[done + 1]
     IN  /\ live' = live \cup {o}
         /\ held' = held \cup {o}
         /\ IF o[1] = "swapchain" THEN imageCount' \in 1..MaxDriverImages
            ELSE UNCHANGED imageCount
         /\ framebufferCount' = IF o = <<"framebuffer", imageCount>> THEN imageCount
                                ELSE framebufferCount
  /\ done' = done + 1
  /\ UNCHANGED <<phase, at, todo, ready, exitCode>>

\* Init returns kOk; main goes on to the next component, or into the loop.
InitOk ==
  /\ phase = "init"
  /\ done = Len(Creates(Current))
  /\ ready' = ready \cup {Current}
  /\ done' = 0
  /\ IF at < Len(Components) THEN at' = at + 1 /\ UNCHANGED phase
     ELSE phase' = "loop" /\ UNCHANGED at
  /\ UNCHANGED <<imageCount, framebufferCount, todo, live, held, exitCode>>

\* VertexBuffer::Shutdown unmaps the memory and destroys the buffer.
VertexBufferDestroys ==
  IF <<"mapping", 1>> \in held THEN One("mapping") \o One("buffer") ELSE <<>>

\* Seeded fault: creation order, with the render pass first to go.
DestroyAllInOrder ==
  VertexBufferDestroys \o LayoutCreates \o CacheCreates \o PipelineCreates
    \o Many("framebuffer", framebufferCount)

\* HorizonRenderer::DestroyAll; only the framebuffers counted are visited, and
\* the command pool's handle is dropped on the way.
DestroyAll ==
  VertexBufferDestroys \o Many("framebuffer", framebufferCount)
    \o << <<"pipeline", 2>>, <<"pipeline", 1>>, <<"pipelineCache", 1>>,
          <<"pipelineLayout", 1>>, <<"renderPass", 1>> >>

\* Seeded fault: only the objects the members count are destroyed.
UndoRendererCounted == DestroyAll

\* CreateFramebuffers destroys the ones it made before it failed, VertexBuffer
\* the buffer whose memory or mapping failed; then DestroyAll does the rest.
\* (The render pass fails alone: there is nothing to destroy yet.)
UndoRenderer ==
  (IF framebufferCount = 0 THEN Many("framebuffer", imageCount) ELSE One("buffer"))
    \o DestroyAll

\* What a failing Init destroys itself, as far as there are handles.
Undo(c) ==
  CASE c = "context"   -> One("instance")
    [] c = "display"   -> <<>>
    [] c = "swapchain" -> Many("imageView", imageCount)
    [] c = "renderer"  -> UndoRenderer
    [] c = "sync"      -> << <<"semaphore", 2>>, <<"semaphore", 1>> >>

\* A call of the current Init fails, a query or a creation.
InitFails ==
  /\ phase = "init"
  /\ done < Len(Creates(Current))
  /\ phase' = "undo"
  /\ todo' = Undo(Current)
  /\ UNCHANGED <<at, done, imageCount, framebufferCount, live, held, ready, exitCode>>

\* Seeded fault: a member is not set back to VK_NULL_HANDLE.
DestroyKeepingHandle ==
  /\ todo # <<>>
  /\ LET o == Head(todo)
     IN  live' = (live \ {o}) \ (IF o[1] = "device" THEN Retained ELSE {})
  /\ todo' = Tail(todo)
  /\ UNCHANGED <<phase, at, done, imageCount, framebufferCount, held, ready, exitCode>>

\* A vkDestroy* call, unless there is no handle: it goes with the object.
DestroyObject ==
  /\ todo # <<>>
  /\ LET o == Head(todo)
     IN  IF o \in held
         THEN /\ live' = (live \ {o}) \ (IF o[1] = "device" THEN Retained ELSE {})
              /\ held' = held \ {o}
         ELSE UNCHANGED <<live, held>>
  /\ todo' = Tail(todo)
  /\ UNCHANGED <<phase, at, done, imageCount, framebufferCount, ready, exitCode>>

\* A component is empty again: no handle kept, no image or framebuffer counted.
Forget(c) ==
  /\ held' = held \ ObjectsOf(c)
  /\ imageCount' = IF c = "swapchain" THEN 0 ELSE imageCount
  /\ framebufferCount' = IF c = "renderer" THEN 0 ELSE framebufferCount

\* The failed Init returns.  A context that failed has cleaned up after
\* itself and main returns; otherwise main calls ShutdownAll.
UndoDone ==
  /\ phase = "undo"
  /\ todo = <<>>
  /\ Forget(Current)
  /\ done' = 0
  /\ exitCode' = "EXIT_FAILURE"
  /\ IF Current = "context" THEN phase' = "returned" /\ UNCHANGED at
     ELSE phase' = "shutdown" /\ at' = Len(Components)
  /\ UNCHANGED <<todo, live, ready>>

\* The frame loop ends, at its limit or for a failure, and ShutdownAll runs.
\* A failure is not told to the caller: main returns EXIT_SUCCESS.
LoopEnds ==
  /\ phase = "loop"
  /\ phase' = "shutdown"
  /\ exitCode' = "EXIT_SUCCESS"
  /\ UNCHANGED <<at, done, imageCount, framebufferCount, todo, live, held, ready>>

SyncDestroys == << <<"fence", 1>>, <<"semaphore", 2>>, <<"semaphore", 1>> >>
SwapchainDestroys == Many("imageView", imageCount)
DisplayDestroys == One("surface")
ContextDestroys == One("device") \o One("instance")

\* Seeded fault: ShutdownAll takes the display before the swapchain.
ShutdownSwapped(c) ==
  IF c \notin ready /\ c # "renderer" THEN <<>>
  ELSE CASE c = "renderer"  -> DestroyAll
         [] c = "sync"      -> SyncDestroys
         [] c = "swapchain" -> DisplayDestroys
         [] c = "display"   -> SwapchainDestroys
         [] c = "context"   -> ContextDestroys

\* What Shutdown destroys, as far as there are handles.  Every Shutdown returns
\* at once unless its component is initialised, the renderer's excepted: it
\* always tries.
Shutdown(c) ==
  IF c \notin ready /\ c # "renderer" THEN <<>>
  ELSE CASE c = "renderer"  -> DestroyAll
         [] c = "sync"      -> SyncDestroys
         [] c = "swapchain" -> SwapchainDestroys
         [] c = "display"   -> DisplayDestroys
         [] c = "context"   -> ContextDestroys

ShutdownStarts ==
  /\ phase = "shutdown"
  /\ phase' = "destroying"
  /\ todo' = Shutdown(Current)
  /\ UNCHANGED <<at, done, imageCount, framebufferCount, live, held, ready, exitCode>>

\* The Shutdown returns; ShutdownAll goes on to the component before it.
ShutdownDone ==
  /\ phase = "destroying"
  /\ todo = <<>>
  /\ Forget(Current)
  /\ ready' = ready \ {Current}
  /\ IF at > 1 THEN phase' = "shutdown" /\ at' = at - 1
     ELSE phase' = "returned" /\ UNCHANGED at
  /\ UNCHANGED <<done, todo, live, exitCode>>

Terminated == phase = "returned" /\ UNCHANGED vars

Next ==
  \/ CreateObject \/ InitOk \/ InitFails \/ DestroyObject \/ UndoDone
  \/ LoopEnds \/ ShutdownStarts \/ ShutdownDone \/ Terminated

Spec == Init /\ [][Next]_vars
-----------------------------------------------------------------------------
(* BuildContextConfig: how many objects of each kind the device may have.  *)
Reserved ==
  [semaphore |-> 2, fence |-> 1, commandPool |-> 1, commandBuffer |-> 1, renderPass |-> 1,
   pipelineCache |-> 1, pipelineLayout |-> 1, pipeline |-> 2, framebuffer |-> KMaxImages,
   swapchain |-> 1, surface |-> 1, buffer |-> 1, memory |-> 1, imageView |-> KMaxImages]

Kinds == DOMAIN Reserved \cup {"instance", "device", "mapping"}
Objects == Kinds \X (1..(KMaxImages + MaxDriverImages + 2))

TypeOK ==
  /\ phase \in {"init", "undo", "loop", "shutdown", "destroying", "returned"}
  /\ at \in 1..Len(Components)
  /\ done \in 0..Len(Creates(Current))
  /\ imageCount \in 0..MaxDriverImages
  /\ framebufferCount \in 0..KMaxImages
  /\ todo \in Seq(Objects)
  /\ live \subseteq Objects
  /\ held \subseteq Objects
  /\ ready \subseteq {Components[k] : k \in DOMAIN Components}
  /\ exitCode \in {"none", "EXIT_SUCCESS", "EXIT_FAILURE"}

\* Whatever call fails, no member keeps the handle of an object that is gone,
\* so no later Shutdown destroys an object twice.
HandlesLive == held \subseteq live

\* Nothing is destroyed under an object made from it: ARCHITECTURE.md,
\* "releases handles in reverse creation order", within a component and from
\* one to the next, in a failed Init as in ShutdownAll.  (A swapchain's surface
\* is not among its Parents: of it see SurfaceOutlivesUse.)
ParentsOutlive == \A o \in live : Parents(o) \subseteq live

\* The surface is destroyed while its swapchain still exists, for Vulkan SC can
\* only take the swapchain with the device.  By then nothing else made from the
\* device is left that a call could destroy or use, on every path.
SurfaceOutlivesUse ==
  \A o \in live : o[1] \in {"instance", "device"} \cup Undestroyable \/ <<"surface", 1>> \in live

\* "cleans up everything on any failure path": vkDestroyDevice comes after
\* everything made from the device that can be destroyed, what a failed Init
\* made included, and main returns with nothing left in the driver.
NothingLeaks ==
  /\ <<"device", 1>> \notin live => live \subseteq {<<"instance", 1>>}
  /\ phase = "returned" => live = {}

\* The device never has more objects of a kind than were reserved for it, the
\* ones that a failed Init left behind included.
WithinReservation ==
  \A kind \in DOMAIN Reserved : Cardinality({o \in live : o[1] = kind}) <= Reserved[kind]

\* The frame loop finds every component complete, and one framebuffer and one
\* view for every image the swapchain can hand out.
LoopIsEquipped ==
  phase = "loop" =>
    /\ \A k \in DOMAIN Components :
         Components[k] \in ready /\ ObjectsOf(Components[k]) \subseteq held
    /\ framebufferCount = imageCount
    /\ imageCount \in 1..KMaxImages
=============================================================================
