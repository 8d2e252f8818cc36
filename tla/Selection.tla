------------------------------ MODULE Selection ------------------------------
(***************************************************************************)
(* The choices the program makes from what the driver reports before it    *)
(* creates anything of it: the device, the display, the swapchain, the     *)
(* memory of the vertex buffer, and whether the embedded pipeline cache is *)
(* fit to be used.  Lifecycle has each of them as a call that may fail;    *)
(* here is what a call answers.                                            *)
(*                                                                         *)
(* A behaviour is one call: `platform` is what the driver reports, drawn   *)
(* from the sets of the constants, and `answer` what the code makes of it. *)
(***************************************************************************)
EXTENDS DeviceSelection, DisplaySelection, SwapchainSelection, CacheHeader, MemorySelection

CONSTANTS
  DevicePlatforms,      \* [devices, preferred, maxDevices]
  DisplayPlatforms,     \* [displays, modes, planes]
  SwapchainPlatforms,   \* [caps, formats, wish]
  Blobs,                \* pipeline caches
  Memories,             \* [types, allowed]
  NoAnswer              \* the call has not returned

\* What a surface may report: image counts and extents whose bounds are in
\* order, and a current extent, if any, within them (an external promise).
Surface(caps) ==
  /\ caps \in [minImageCount : Nat \ {0}, maxImageCount : Nat,
              currentExtent : [width : Nat, height : Nat],
              minImageExtent : [width : Nat, height : Nat],
              maxImageExtent : [width : Nat, height : Nat]]
  /\ caps.maxImageCount > 0 => caps.minImageCount <= caps.maxImageCount
  /\ caps.minImageExtent.width <= caps.maxImageExtent.width
  /\ caps.minImageExtent.height <= caps.maxImageExtent.height
  /\ caps.currentExtent.width # UndefinedExtent =>
       /\ caps.currentExtent.width \in caps.minImageExtent.width..caps.maxImageExtent.width
       /\ caps.currentExtent.height \in caps.minImageExtent.height..caps.maxImageExtent.height

\* What the loader may report of devices, memory and displays: lists numbered
\* from 1, drivers that are some driver (VkDriverId has no value 0), visible
\* regions counted in pixels, and planes that support displays of the device,
\* each once.
Listed(list) == Len(list) \in Nat /\ DOMAIN list = 1..Len(list)

ASSUME PlatformAssumption ==
  /\ \A p \in DevicePlatforms :
       /\ Listed(p.devices)
       /\ \A d \in DOMAIN p.devices :
            Listed(p.devices[d].families) /\ p.devices[d].driver # AnyDriver
  /\ \A p \in DisplayPlatforms :
       /\ p.displays \in Nat
       /\ Listed(p.modes)
       /\ \A m \in DOMAIN p.modes : p.modes[m].width \in Nat /\ p.modes[m].height \in Nat
       /\ Listed(p.planes)
       /\ \A k \in DOMAIN p.planes : Listed(p.planes[k]) /\ Len(p.planes[k]) <= p.displays
  /\ \A p \in Memories : Listed(p.types)
  /\ Blobs \subseteq Fields
  /\ \A p \in SwapchainPlatforms :
       Surface(p.caps) /\ p.wish \in [width : Nat, height : Nat]

VARIABLES
  call,       \* "device", "display", "swapchain", "cache" or "memory"
  platform,
  answer

vars == <<call, platform, answer>>

Init ==
  /\ \/ call = "device" /\ platform \in DevicePlatforms
     \/ call = "display" /\ platform \in DisplayPlatforms
     \/ call = "swapchain" /\ platform \in SwapchainPlatforms
     \/ call = "cache" /\ platform \in Blobs
     \/ call = "memory" /\ platform \in Memories
  /\ answer = NoAnswer

Returns(name, result) ==
  /\ call = name /\ answer = NoAnswer
  /\ answer' = result
  /\ UNCHANGED <<call, platform>>

DeviceSelected ==
  Returns("device",
          SelectPhysicalDevice(platform.devices, platform.preferred, platform.maxDevices))

DisplaySelected == Returns("display", SelectDisplay(platform))

SwapchainRequested ==
  Returns("swapchain", SwapchainRequest(platform.caps, platform.formats, platform.wish))

CacheValidated ==
  Returns("cache", [result |-> ValidatePipelineCacheHeader(platform)])

MemorySelected == Returns("memory", SelectMemoryType(platform))

Next ==
  \/ DeviceSelected \/ DisplaySelected \/ SwapchainRequested \/ CacheValidated
  \/ MemorySelected

Spec == Init /\ [][Next]_vars
-----------------------------------------------------------------------------
Answered(name) == call = name /\ answer # NoAnswer
Succeeded(name) == Answered(name) /\ answer.result = "kOk"

\* vksc_context.hpp, SelectPhysicalDevice: the first device of the preferred
\* driver that can draw, else the first that can draw; an error only when the
\* enumeration is at fault or no device can draw.  A device can draw if one of
\* the families looked at can, and the family answered is the first such.
CanDraw(d) == GraphicsFamilies(platform.devices[d]) # {}
Prefers(d, e) ==
  LET likes(x) == platform.devices[x].driver = platform.preferred
  IN  (likes(d) /\ ~likes(e)) \/ ((likes(d) <=> likes(e)) /\ d <= e)

DeviceWanted ==
  /\ Succeeded("device") =>
       /\ answer.family = Min(GraphicsFamilies(platform.devices[answer.device]))
       /\ \A e \in DOMAIN platform.devices : CanDraw(e) => Prefers(answer.device, e)
  /\ Answered("device") /\ answer.result = "kNotFound" =>
       ~ \E e \in DOMAIN platform.devices : CanDraw(e)

\* display_output.hpp, "Init() selects": the first display, its mode with the
\* largest visible area - the first of several - and the first plane that
\* supports the display.  The largest area is counted in 32 bits: the promise
\* holds for platforms none of whose modes has 2^32 pixels.
DisplayAsDocumented ==
  Succeeded("display") /\ (\A m \in DOMAIN platform.modes : Area(platform.modes[m]) < PixelsWord) =>
    LET area(m) == Area(platform.modes[m])
        supports(p) == Contains(platform.planes[p], answer.display)
    IN  /\ \A m \in DOMAIN platform.modes :
             /\ area(m) <= area(answer.mode)
             /\ m < answer.mode => area(m) < area(answer.mode)
        /\ supports(answer.plane)
        /\ \A p \in 1..(answer.plane - 1) : ~supports(p)

\* What vkCreateSwapchainKHR is asked for is what the surface offers, on every
\* surface that needs no more images than the arrays hold: an extent within
\* its bounds, a number of images within its bounds that the arrays hold, and
\* one more than the surface keeps for itself wherever it allows that.
Within(n, low, high) == low <= n /\ n <= high

SwapchainOffered ==
  Succeeded("swapchain") /\ platform.caps.minImageCount <= KMaxSwapImages =>
    LET caps == platform.caps
    IN  /\ Within(answer.extent.width, caps.minImageExtent.width, caps.maxImageExtent.width)
        /\ Within(answer.extent.height, caps.minImageExtent.height, caps.maxImageExtent.height)
        /\ Within(answer.minImageCount, caps.minImageCount, KMaxSwapImages)
        /\ caps.maxImageCount > 0 => answer.minImageCount <= caps.maxImageCount
        /\ answer.minImageCount = caps.minImageCount =>
             caps.minImageCount \in {caps.maxImageCount, KMaxSwapImages}

\* The vertex buffer is written through a persistent mapping and never flushed
\* ("host-coherent, no explicit flush needed", horizon_renderer.cpp), so its
\* memory is visible and coherent; it is asked for whenever the device has
\* such memory for the buffer; and on a device that lists a type before all
\* those with more properties, as Vulkan has it, it is plain: no type that
\* would do lacks a property (cached, say) that the chosen one has.
InVulkanOrder(types) ==
  \A s, t \in DOMAIN types : types[s] \subseteq types[t] /\ types[s] # types[t] => s < t

WouldDo(t) == t \in platform.allowed /\ {"HOST_VISIBLE", "HOST_COHERENT"} \subseteq platform.types[t]

MemoryNeedsNoFlush ==
  /\ Succeeded("memory") =>
       /\ WouldDo(answer.type)
       /\ InVulkanOrder(platform.types) =>
            ~ \E t \in DOMAIN platform.types :
                /\ WouldDo(t) /\ platform.types[t] \subseteq platform.types[answer.type]
                /\ platform.types[t] # platform.types[answer.type]
  /\ Answered("memory") /\ answer.result # "kOk" => ~ \E t \in DOMAIN platform.types : WouldDo(t)
-----------------------------------------------------------------------------
(* Statements of documentation and comments that the code does not keep.    *)

\* vksc_context.hpp: "Enumeration stops at the first maxPhysicalDevices
\* devices reported by the driver", so it fails only when there is none.
FirstDevicesEnumerated ==
  Answered("device") /\ answer.result = "kVkscEnumerateFailed" => platform.devices = <<>>

\* pipeline_cache.cpp: "offset + count * stride must not exceed the blob size.
\* 64-bit arithmetic throughout - no overflow possible."
IndexInsideBlob == Succeeded("cache") => TrueIndexEnd(platform) <= platform.size
==============================================================================
