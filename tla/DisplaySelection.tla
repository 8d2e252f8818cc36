--------------------------- MODULE DisplaySelection ---------------------------
(***************************************************************************)
(* DisplayOutput::Init up to the creation of the surface: which display,   *)
(* mode and plane the frames are shown on.                                 *)
(*                                                                         *)
(* The platform: `displays` the number of displays, `modes` the visible    *)
(* regions of the first display's modes, `planes` for each plane the       *)
(* displays it supports.  Displays, modes and planes are numbered from 1.  *)
(* A query that fails answers nothing: the code treats the two alike.      *)
(***************************************************************************)
EXTENDS Naturals, SequencesExt

CONSTANTS
  KMaxDisplays, KMaxModes, KMaxPlanes,   \* sizes of the arrays
  PixelsWord                             \* 2^32: pixels is a uint32_t

ASSUME DisplayAssumption ==
  {KMaxDisplays, KMaxModes, KMaxPlanes, PixelsWord} \subseteq Nat \ {0}

NoDisplay == [result |-> "kVkscNoDisplay", display |-> 0, mode |-> 0, plane |-> 0]

\* Each enumeration counts, clamps the count to its array and fetches: the
\* fetch answers VK_INCOMPLETE, an error here, when the clamp left items out.
Enumerated(n, capacity) == n \in 1..capacity
DisplaysEnumerated(platform) == Enumerated(platform.displays, KMaxDisplays)
ModesEnumerated(platform) == Enumerated(Len(platform.modes), KMaxModes)
PlanesEnumerated(platform) == Enumerated(Len(platform.planes), KMaxPlanes)

ChosenDisplay == 1

Area(region) == region.width * region.height
Pixels(region) == Area(region) % PixelsWord

\* Seeded fault: >= in the comparison, which makes the last of equals win.
LastBestMode(modes) ==
  FoldLeftDomain(LAMBDA best, m :
                   IF Pixels(modes[m]) >= best.pixels
                   THEN [mode |-> m, pixels |-> Pixels(modes[m])] ELSE best,
                 [mode |-> 1, pixels |-> 0], modes).mode

\* The loop over the modes, keeping the best so far.
BestMode(modes) ==
  FoldLeftDomain(LAMBDA best, m :
                   IF Pixels(modes[m]) > best.pixels
                   THEN [mode |-> m, pixels |-> Pixels(modes[m])] ELSE best,
                 [mode |-> 1, pixels |-> 0], modes).mode

\* The first plane whose supported displays could be fetched and include the
\* chosen one; 0 if there is none.
ChosenPlane(planes) ==
  SelectInSeq(planes, LAMBDA supported : /\ Enumerated(Len(supported), KMaxDisplays)
                                         /\ Contains(supported, ChosenDisplay))

SelectDisplay(platform) ==
  IF /\ DisplaysEnumerated(platform)
     /\ ModesEnumerated(platform)
     /\ PlanesEnumerated(platform)
     /\ ChosenPlane(platform.planes) # 0
  THEN [result |-> "kOk", display |-> ChosenDisplay,
        mode |-> BestMode(platform.modes), plane |-> ChosenPlane(platform.planes)]
  ELSE NoDisplay
==============================================================================
