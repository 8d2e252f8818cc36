-------------------------- MODULE SwapchainSelection --------------------------
(***************************************************************************)
(* SwapchainSc::Init up to vkCreateSwapchainKHR: the swapchain requested   *)
(* from the surface's capabilities `caps`, its `formats` and the caller's  *)
(* preferred size `wish`, the mode's size; 0 is no preference.              *)
(*                                                                         *)
(* An extent is [width, height].  caps.currentExtent.width may be          *)
(* UndefinedExtent: the surface takes the swapchain's size.  If a query    *)
(* fails, of the formats or before them of the capabilities, there are no  *)
(* formats: the code treats these alike.                                   *)
(***************************************************************************)
EXTENDS Integers, Sequences, Functions

CONSTANTS
  KMaxSwapImages,     \* kMaxImages, the size of the arrays of images
  KMaxFormats,        \* size of the array of formats
  UndefinedExtent,    \* kUndefinedExtent
  Fallback,           \* kFallbackWidth and kFallbackHeight
  RequiredFormat      \* Config::requiredFormat

ASSUME SwapchainAssumption ==
  /\ KMaxSwapImages \in Nat \ {0}
  /\ KMaxFormats \in Nat \ {0}
  /\ UndefinedExtent \in Nat
  /\ Fallback \in [width : Nat \ {0}, height : Nat \ {0}]

FormatSupported(formats) == Len(formats) \in 1..KMaxFormats /\ RequiredFormat \in Range(formats)

AtLeast(n, low) == IF n < low THEN low ELSE n
AtMost(n, high) == IF n > high THEN high ELSE n

\* Seeded fault: the lower bound is forgotten.
UnclampedSide(wish, fallback, low, high) == AtMost(IF wish > 0 THEN wish ELSE fallback, high)

\* One side of the extent when the surface leaves the choice to the program.
Side(wish, fallback, low, high) ==
  AtMost(AtLeast(IF wish > 0 THEN wish ELSE fallback, low), high)

Extent(caps, wish) ==
  IF caps.currentExtent.width # UndefinedExtent
  THEN caps.currentExtent
  ELSE [width |-> Side(wish.width, Fallback.width,
                       caps.minImageExtent.width, caps.maxImageExtent.width),
        height |-> Side(wish.height, Fallback.height,
                        caps.minImageExtent.height, caps.maxImageExtent.height)]

\* One image more than the surface needs, so that one is always free; a
\* maxImageCount of 0 is no limit.
ImageCount(caps) ==
  AtMost(IF caps.maxImageCount > 0 THEN AtMost(caps.minImageCount + 1, caps.maxImageCount)
         ELSE caps.minImageCount + 1,
         KMaxSwapImages)

SwapchainRequest(caps, formats, wish) ==
  IF FormatSupported(formats)
  THEN [result |-> "kOk", extent |-> Extent(caps, wish), minImageCount |-> ImageCount(caps)]
  ELSE [result |-> "kVkscSwapchainFailed"]
==============================================================================
