-------------------------- MODULE Selection_proofs --------------------------
(***************************************************************************)
(* The selections proved for every size of the arrays, every width of the  *)
(* integers and every platform.                                            *)
(***************************************************************************)
EXTENDS Selection, Recursion_proofs

\* An answer is what the call makes of a platform the assumptions speak of.
AnswerOfCall ==
  /\ call = "display" =>
       /\ platform \in DisplayPlatforms
       /\ answer # NoAnswer => answer = SelectDisplay(platform)
  /\ call = "swapchain" =>
       /\ platform \in SwapchainPlatforms
       /\ answer # NoAnswer =>
            answer = SwapchainRequest(platform.caps, platform.formats, platform.wish)
  /\ call = "cache" =>
       /\ platform \in Blobs
       /\ answer # NoAnswer => answer = [result |-> ValidatePipelineCacheHeader(platform)]
  /\ call = "device" =>
       /\ platform \in DevicePlatforms
       /\ answer # NoAnswer =>
            answer = SelectPhysicalDevice(platform.devices, platform.preferred,
                                          platform.maxDevices)
  /\ call = "memory" =>
       /\ platform \in Memories
       /\ answer # NoAnswer => answer = SelectMemoryType(platform)

\* The answer of a call is computed once, from the platform it started with.
THEOREM AnswerInvariant == Spec => []AnswerOfCall
<1>1. Init => AnswerOfCall
  BY DEF Init, AnswerOfCall
<1>2. AnswerOfCall /\ [Next]_vars => AnswerOfCall'
  <2> SUFFICES ASSUME AnswerOfCall, [Next]_vars PROVE AnswerOfCall'
    OBVIOUS
  <2>1. CASE DeviceSelected
    BY <2>1 DEF AnswerOfCall, DeviceSelected, Returns
  <2>2. CASE DisplaySelected
    BY <2>2 DEF AnswerOfCall, DisplaySelected, Returns
  <2>3. CASE SwapchainRequested
    BY <2>3 DEF AnswerOfCall, SwapchainRequested, Returns
  <2>4. CASE CacheValidated
    BY <2>4 DEF AnswerOfCall, CacheValidated, Returns
  <2>5. CASE MemorySelected
    BY <2>5 DEF AnswerOfCall, MemorySelected, Returns
  <2>6. CASE UNCHANGED vars
    BY <2>6 DEF AnswerOfCall, vars
  <2> QED
    BY <2>1, <2>2, <2>3, <2>4, <2>5, <2>6 DEF Next
<1> QED
  BY <1>1, <1>2, PTL DEF Spec
-----------------------------------------------------------------------------
\* A side of the extent that the program chooses is within the surface's bounds.
LEMMA SideWithin ==
  ASSUME NEW wish \in Nat, NEW fallback \in Nat, NEW low \in Nat, NEW high \in Nat,
         low <= high
  PROVE  Within(Side(wish, fallback, low, high), low, high)
BY DEF Within, Side, AtLeast, AtMost

\* The extent requested is within the bounds of every surface.
LEMMA ExtentWithin ==
  ASSUME NEW caps, Surface(caps), NEW wish \in [width : Nat, height : Nat]
  PROVE  /\ Within(Extent(caps, wish).width,
                   caps.minImageExtent.width, caps.maxImageExtent.width)
         /\ Within(Extent(caps, wish).height,
                   caps.minImageExtent.height, caps.maxImageExtent.height)
<1>1. CASE caps.currentExtent.width # UndefinedExtent
  BY <1>1 DEF Extent, Surface, Within
<1>2. CASE caps.currentExtent.width = UndefinedExtent
  <2>1. Within(Side(wish.width, Fallback.width,
                    caps.minImageExtent.width, caps.maxImageExtent.width),
               caps.minImageExtent.width, caps.maxImageExtent.width)
    BY SideWithin, SwapchainAssumption DEF Surface
  <2>2. Within(Side(wish.height, Fallback.height,
                    caps.minImageExtent.height, caps.maxImageExtent.height),
               caps.minImageExtent.height, caps.maxImageExtent.height)
    BY SideWithin, SwapchainAssumption DEF Surface
  <2> QED
    BY <1>2, <2>1, <2>2 DEF Extent
<1> QED
  BY <1>1, <1>2

\* The number of images requested is one the surface offers and the arrays
\* hold, and leaves one to spare unless a bound forbids it.
LEMMA ImageCountOffered ==
  ASSUME NEW caps, Surface(caps), caps.minImageCount <= KMaxSwapImages
  PROVE  /\ Within(ImageCount(caps), caps.minImageCount, KMaxSwapImages)
         /\ caps.maxImageCount > 0 => ImageCount(caps) <= caps.maxImageCount
         /\ ImageCount(caps) = caps.minImageCount =>
              caps.minImageCount \in {caps.maxImageCount, KMaxSwapImages}
BY SwapchainAssumption DEF ImageCount, AtMost, Within, Surface

\* vkCreateSwapchainKHR is asked for what the surface offers, whatever the
\* surface's capabilities, the caller's wish and the size of the arrays.
THEOREM SwapchainIsOffered == Spec => []SwapchainOffered
<1>1. AnswerOfCall => SwapchainOffered
  <2> SUFFICES ASSUME AnswerOfCall, Succeeded("swapchain"),
                      platform.caps.minImageCount <= KMaxSwapImages
               PROVE  SwapchainOffered
    BY DEF SwapchainOffered
  <2>1. /\ Surface(platform.caps)
        /\ platform.wish \in [width : Nat, height : Nat]
        /\ answer = SwapchainRequest(platform.caps, platform.formats, platform.wish)
    BY PlatformAssumption DEF AnswerOfCall, Succeeded, Answered
  <2>2. /\ answer.extent = Extent(platform.caps, platform.wish)
        /\ answer.minImageCount = ImageCount(platform.caps)
    BY <2>1 DEF SwapchainRequest, Succeeded
  <2> QED
    BY <2>1, <2>2, ExtentWithin, ImageCountOffered DEF SwapchainOffered
<1> QED
  BY <1>1, AnswerInvariant, PTL
-----------------------------------------------------------------------------
\* The memory of the vertex buffer: the first type that will do is one, and
\* where the device orders its types as Vulkan has it none has fewer
\* properties; an error means that there is none.
THEOREM MemoryIsPlain == Spec => []MemoryNeedsNoFlush
<1>1. AnswerOfCall => MemoryNeedsNoFlush
  <2> SUFFICES ASSUME AnswerOfCall, Answered("memory") PROVE MemoryNeedsNoFlush
    BY DEF MemoryNeedsNoFlush, Succeeded
  <2> DEFINE S == SuitableTypes(platform)
  <2>1. Listed(platform.types) /\ answer = SelectMemoryType(platform)
    BY PlatformAssumption DEF AnswerOfCall, Answered
  <2>2. S \in SUBSET Nat
    BY <2>1 DEF Listed, SuitableTypes
  <2>3. \A t \in DOMAIN platform.types : t \in S <=> WouldDo(t)
    BY DEF SuitableTypes, WouldDo, KRequiredFlags
  <2>4. S \subseteq DOMAIN platform.types
    BY DEF SuitableTypes
  <2> HIDE DEF S
  <2>5. CASE S = {}
    <3>1. answer.result = "kVkscBufferFailed"
      BY <2>1, <2>5 DEF S, SelectMemoryType
    <3> QED
      BY <2>3, <2>5, <3>1 DEF MemoryNeedsNoFlush, Succeeded
  <2>6. CASE S # {}
    <3>1. answer.result = "kOk" /\ answer.type = Min(S)
      BY <2>1, <2>6 DEF S, SelectMemoryType, FirstType
    <3>2. answer.type \in S /\ \A t \in S : answer.type <= t
      BY <2>2, <2>6, <3>1, LeastElement
    <3>3. WouldDo(answer.type)
      BY <2>3, <2>4, <3>2
    <3>4. ASSUME InVulkanOrder(platform.types), NEW t \in DOMAIN platform.types,
                 WouldDo(t), platform.types[t] \subseteq platform.types[answer.type],
                 platform.types[t] # platform.types[answer.type]
          PROVE  FALSE
      <4>1. t \in S /\ answer.type \in DOMAIN platform.types
        BY <2>3, <2>4, <3>2, <3>4
      <4>2. t < answer.type
        BY <3>4, <4>1 DEF InVulkanOrder
      <4>3. t \in Nat /\ answer.type \in Nat /\ answer.type <= t
        BY <2>2, <3>2, <4>1
      <4> QED
        BY <4>2, <4>3
    <3> QED
      BY <3>1, <3>3, <3>4 DEF MemoryNeedsNoFlush
  <2> QED
    BY <2>5, <2>6
<1> QED
  BY <1>1, AnswerInvariant, PTL
-----------------------------------------------------------------------------
\* The device: the first of the preferred driver that can draw, else the first
\* that can draw, with the first of its families that can; kNotFound means
\* that no device can draw.
THEOREM DeviceIsWanted == Spec => []DeviceWanted
<1>1. AnswerOfCall => DeviceWanted
  <2> SUFFICES ASSUME AnswerOfCall, Answered("device") PROVE DeviceWanted
    BY DEF DeviceWanted, Succeeded
  <2> DEFINE devices == platform.devices
             preferred == platform.preferred
             all == {devices[d].driver : d \in DOMAIN devices}
             passes == Passes(devices, preferred)
             able == {d \in DOMAIN devices : CanDraw(d)}
             fruitful == {p \in DOMAIN passes : Eligible(devices, passes[p]) # {}}
             likes(x) == devices[x].driver = preferred
  <2>1. /\ DOMAIN devices \subseteq Nat
        /\ \A d \in DOMAIN devices : devices[d].driver # AnyDriver
        /\ answer = SelectPhysicalDevice(devices, preferred, platform.maxDevices)
    BY PlatformAssumption DEF AnswerOfCall, Answered, Listed
  <2>2. /\ Eligible(devices, all) = able
        /\ Eligible(devices, {preferred}) = {d \in able : likes(d)}
    BY DEF Eligible, CanDraw
  <2>3. /\ preferred = AnyDriver => DOMAIN passes = {1} /\ passes[1] = all
        /\ preferred # AnyDriver =>
             DOMAIN passes = {1, 2} /\ passes[1] = {preferred} /\ passes[2] = all
    <3>1. passes = IF preferred = AnyDriver THEN <<all>> ELSE <<{preferred}, all>>
      BY DEF Passes
    <3> HIDE DEF all, passes
    <3> QED
      BY <3>1
  <2> HIDE DEF all, passes, able, likes
  <2>4. CASE ~DevicesEnumerated(devices, platform.maxDevices)
    <3>1. answer.result = "kVkscEnumerateFailed"
      BY <2>1, <2>4 DEF SelectPhysicalDevice, NoDevice
    <3> QED
      BY <3>1 DEF DeviceWanted, Succeeded
  <2>5. CASE DevicesEnumerated(devices, platform.maxDevices) /\ fruitful = {}
    <3>1. answer.result = "kNotFound"
      BY <2>1, <2>5 DEF SelectPhysicalDevice, NoDevice, passes
    <3>2. able = {}
      BY <2>2, <2>3, <2>5
    <3> QED
      BY <3>1, <3>2 DEF DeviceWanted, Succeeded, able
  <2>6. CASE DevicesEnumerated(devices, platform.maxDevices) /\ fruitful # {}
    <3> DEFINE chosen == Eligible(devices, passes[Min(fruitful)])
    <3>1. /\ answer.result = "kOk" /\ answer.device = Min(chosen)
          /\ answer.family = Min(GraphicsFamilies(devices[answer.device]))
      BY <2>1, <2>6 DEF SelectPhysicalDevice, passes
    <3>2. fruitful \in SUBSET Nat /\ fruitful \subseteq {1, 2}
      BY <2>3
    <3>3. Min(fruitful) \in fruitful /\ \A p \in fruitful : Min(fruitful) <= p
      BY <2>6, <3>2, LeastElement
    <3>4. chosen # {} /\ chosen \in SUBSET Nat
      BY <2>1, <3>3 DEF Eligible
    <3>5. answer.device \in chosen /\ \A d \in chosen : answer.device <= d
      BY <3>1, <3>4, LeastElement
    <3>6. ASSUME NEW e \in DOMAIN devices, CanDraw(e) PROVE Prefers(answer.device, e)
      <4>1. CASE preferred = AnyDriver
        <5>1. chosen = able
          BY <2>2, <2>3, <3>2, <3>3, <4>1
        <5>2. ~likes(answer.device) /\ ~likes(e) /\ answer.device <= e
          BY <2>1, <3>5, <3>6, <4>1, <5>1 DEF able, likes
        <5> QED
          BY <5>2 DEF Prefers, likes
      <4>2. CASE preferred # AnyDriver /\ 1 \in fruitful
        <5>1. Min(fruitful) = 1
          <6>1. Min(fruitful) \in {1, 2} /\ Min(fruitful) <= 1
            BY <3>2, <3>3, <4>2
          <6> QED
            BY <6>1
        <5>2. chosen = {d \in able : likes(d)}
          BY <2>2, <2>3, <4>2, <5>1
        <5>3. likes(answer.device) /\ (likes(e) => answer.device <= e)
          BY <3>5, <3>6, <5>2 DEF able
        <5> QED
          BY <5>3 DEF Prefers, likes
      <4>3. CASE preferred # AnyDriver /\ 1 \notin fruitful
        <5>1. Min(fruitful) = 2
          BY <3>2, <3>3, <4>3
        <5>2. chosen = able /\ {d \in able : likes(d)} = {}
          BY <2>2, <2>3, <4>3, <5>1
        <5>3. ~likes(answer.device) /\ ~likes(e) /\ answer.device <= e
          BY <3>5, <3>6, <5>2 DEF able
        <5> QED
          BY <5>3 DEF Prefers, likes
      <4> QED
        BY <4>1, <4>2, <4>3
    <3> QED
      BY <3>1, <3>6 DEF DeviceWanted
  <2> QED
    BY <2>4, <2>5, <2>6
<1> QED
  BY <1>1, AnswerInvariant, PTL
-----------------------------------------------------------------------------
\* The loop over the modes, one mode at a time: best[k] is what it holds after
\* the first k of them.
LEMMA BestSoFar ==
  ASSUME NEW modes, NEW n \in Nat, DOMAIN modes = 1..n,
         \A m \in 1..n : Pixels(modes[m]) \in Nat
  PROVE  \E best \in [0..n -> [mode : Nat, pixels : Nat]] :
           /\ BestMode(modes) = best[n].mode
           /\ best[0] = [mode |-> 1, pixels |-> 0]
           /\ \A k \in 0..(n - 1) :
                best[k + 1] = IF Pixels(modes[k + 1]) > best[k].pixels
                              THEN [mode |-> k + 1, pixels |-> Pixels(modes[k + 1])]
                              ELSE best[k]
<1> DEFINE Best   == [mode : Nat, pixels : Nat]
           none   == [mode |-> 1, pixels |-> 0]
           places == [i \in DOMAIN modes |-> i]
           next(iter, s) ==
             IF s = {} THEN none
             ELSE IF Pixels(modes[places[Max(s)]]) > iter[s \ {Max(s)}].pixels
                  THEN [mode |-> places[Max(s)], pixels |-> Pixels(modes[places[Max(s)]])]
                  ELSE iter[s \ {Max(s)}]
           it   == CHOOSE iter : iter = [s \in SUBSET (DOMAIN places) |-> next(iter, s)]
           step == [p \in Best \X Nat |->
                      IF p[2] \in 1..n /\ Pixels(modes[p[2]]) > p[1].pixels
                      THEN [mode |-> p[2], pixels |-> Pixels(modes[p[2]])] ELSE p[1]]
           best == [k \in 0..n |-> it[1..k]]
<1>1. BestMode(modes) = it[DOMAIN places].mode
  BY DEF BestMode, FoldLeftDomain, FoldLeft, MapThenFoldSet
<1>2. DOMAIN places = 1..n
  OBVIOUS
<1>3. none \in Best /\ step \in [Best \X Nat -> Best]
  OBVIOUS
<1>a. ASSUME NEW s \in SUBSET (1..n), s # {} PROVE Max(s) \in 1..n /\ places[Max(s)] = Max(s)
  BY <1>a, GreatestElement
<1>4. PICK h : Folds(h, n, Best, none, step)
  BY <1>3, FoldExists
<1>5. h = [s \in SUBSET (DOMAIN places) |-> next(h, s)]
  <2>1. ASSUME NEW s \in SUBSET (1..n) PROVE h[s] = next(h, s)
    <3>1. CASE s = {}
      BY <1>4, <3>1 DEF Folds
    <3>2. CASE s # {}
      <4>1. Max(s) \in 1..n /\ Max(s) \in Nat /\ s \ {Max(s)} \in SUBSET (1..n)
            /\ places[Max(s)] = Max(s)
        <5>1. Max(s) \in 1..n /\ places[Max(s)] = Max(s)
          BY <3>2, <1>a
        <5>2. s \ {Max(s)} \in SUBSET (1..n)
          OBVIOUS
        <5> HIDE DEF places
        <5> QED
          BY <5>1, <5>2
      <4>2. h[s \ {Max(s)}] \in Best
        BY <1>4, <4>1 DEF Folds
      <4>3. h[s] = step[<<h[s \ {Max(s)}], Max(s)>>]
        BY <1>4, <3>2 DEF Folds
      <4> HIDE DEF places, Best
      <4> QED
        BY <3>2, <4>1, <4>2, <4>3
    <3> QED
      BY <3>1, <3>2
  <2>2. h \in [SUBSET (1..n) -> Best]
    BY <1>4 DEF Folds
  <2> HIDE DEF next, places, Best
  <2> QED
    BY <1>2, <2>1, <2>2
<1>6. it = [s \in SUBSET (DOMAIN places) |-> next(it, s)]
  <2> HIDE DEF next, places, Best
  <2> QED
    BY <1>5
<1>7. it[{}] = none
  <2>1. {} \in SUBSET (DOMAIN places)
    OBVIOUS
  <2>2. it[{}] = next(it, {})
    <3> HIDE DEF next, places, it
    <3> QED
      BY <1>6, <2>1
  <2> HIDE DEF it
  <2> QED
    BY <2>2
<1>8. ASSUME NEW k \in 0..(n - 1)
      PROVE  it[1..(k + 1)] = IF Pixels(modes[k + 1]) > it[1..k].pixels
                              THEN [mode |-> k + 1, pixels |-> Pixels(modes[k + 1])]
                              ELSE it[1..k]
  <2>1. /\ 1..(k + 1) # {} /\ Max(1..(k + 1)) = k + 1 /\ (1..(k + 1)) \ {k + 1} = 1..k
        /\ k + 1 \in 1..n
    <3>1. k \in Nat /\ k + 1 \in 1..n
      OBVIOUS
    <3> QED
      BY <3>1, UpToGreatest
  <2>2. 1..(k + 1) \in SUBSET (DOMAIN places) /\ places[k + 1] = k + 1
    BY <2>1
  <2>3. it[1..(k + 1)] = next(it, 1..(k + 1))
    <3> HIDE DEF next, places, it
    <3> QED
      BY <1>6, <2>2
  <2> HIDE DEF it, places
  <2> QED
    BY <2>1, <2>2, <2>3
<1> HIDE DEF it
<1>9. \A k \in Nat : k <= n => it[1..k] \in Best
  <2> DEFINE S == {k \in Nat : k <= n => it[1..k] \in Best}
  <2>1. 0 \in S
    <3>1. 1..0 = {}
      OBVIOUS
    <3> QED
      BY <1>3, <1>7, <3>1
  <2>2. ASSUME NEW k \in Nat, k \in S PROVE k + 1 \in S
    <3>1. ASSUME k + 1 <= n PROVE it[1..(k + 1)] \in Best
      <4>1. k \in 0..(n - 1) /\ k + 1 \in 1..n /\ it[1..k] \in Best
        BY <2>2, <3>1
      <4>2. Pixels(modes[k + 1]) \in Nat /\ k + 1 \in Nat
        BY <4>1
      <4>3. CASE Pixels(modes[k + 1]) > it[1..k].pixels
        <5>1. it[1..(k + 1)] = [mode |-> k + 1, pixels |-> Pixels(modes[k + 1])]
          BY <1>8, <4>1, <4>3
        <5> QED
          BY <4>2, <5>1
      <4>4. CASE ~(Pixels(modes[k + 1]) > it[1..k].pixels)
        <5>1. it[1..(k + 1)] = it[1..k]
          BY <1>8, <4>1, <4>4
        <5> QED
          BY <4>1, <5>1
      <4> QED
        BY <4>3, <4>4
    <3> QED
      BY <3>1
  <2> QED
    BY <2>1, <2>2, AllNumbers
<1>10. best \in [0..n -> Best]
  BY <1>9
<1>11. BestMode(modes) = best[n].mode
  BY <1>1, <1>2
<1>12. best[0] = none
  <2>1. 1..0 = {} /\ best[0] = it[1..0]
    OBVIOUS
  <2> QED
    BY <1>7, <2>1
<1>13. ASSUME NEW k \in 0..(n - 1)
      PROVE  best[k + 1] = IF Pixels(modes[k + 1]) > best[k].pixels
                           THEN [mode |-> k + 1, pixels |-> Pixels(modes[k + 1])]
                           ELSE best[k]
  <2>1. k \in 0..n /\ k + 1 \in 0..n
    OBVIOUS
  <2> QED
    BY <1>8, <2>1
<1> QED
  BY <1>10, <1>11, <1>12, <1>13

\* Of the first k modes, b is the first of those with the most pixels; or all
\* have none, and b is where the search started.
FirstOf(b, pixels, k) ==
  IF b = [mode |-> 1, pixels |-> 0] THEN \A m \in 1..k : pixels[m] = 0
  ELSE /\ b.mode \in 1..k /\ b.pixels = pixels[b.mode]
       /\ \A m \in 1..k : /\ pixels[m] <= b.pixels
                          /\ m < b.mode => pixels[m] < b.pixels

\* It stays so with one mode more.
LEMMA FirstOfMore ==
  ASSUME NEW n \in Nat, NEW pixels \in [1..n -> Nat], NEW k \in 0..(n - 1),
         NEW b \in [mode : Nat, pixels : Nat], NEW c,
         FirstOf(b, pixels, k),
         c = IF pixels[k + 1] > b.pixels THEN [mode |-> k + 1, pixels |-> pixels[k + 1]] ELSE b
  PROVE  FirstOf(c, pixels, k + 1)
<1>1. /\ k + 1 \in 1..n /\ pixels[k + 1] \in Nat
      /\ \A m \in 1..(k + 1) : (m \in 1..k \/ m = k + 1) /\ m \in 1..n /\ pixels[m] \in Nat
  OBVIOUS
<1>2. b.mode \in Nat /\ b.pixels \in Nat
  OBVIOUS
<1>3. \A m \in 1..k : pixels[m] <= b.pixels
  BY <1>1, <1>2 DEF FirstOf
<1>4. CASE pixels[k + 1] > b.pixels
  <2>1. c.mode = k + 1 /\ c.pixels = pixels[k + 1] /\ c # [mode |-> 1, pixels |-> 0]
    BY <1>1, <1>2, <1>4
  <2>2. \A m \in 1..(k + 1) : pixels[m] <= c.pixels /\ (m < c.mode => pixels[m] < c.pixels)
    <3> TAKE m \in 1..(k + 1)
    <3>1. CASE m = k + 1
      BY <1>1, <2>1, <3>1
    <3>2. CASE m \in 1..k
      <4>1. pixels[m] <= b.pixels /\ pixels[m] \in Nat
        BY <1>1, <1>3, <3>2
      <4> QED
        BY <1>1, <1>2, <1>4, <2>1, <4>1
    <3> QED
      BY <1>1, <3>1, <3>2
  <2> QED
    BY <1>1, <2>1, <2>2 DEF FirstOf
<1>5. CASE ~(pixels[k + 1] > b.pixels)
  <2>1. c = b /\ pixels[k + 1] <= b.pixels
    BY <1>1, <1>2, <1>5
  <2>2. CASE b = [mode |-> 1, pixels |-> 0]
    BY <1>1, <2>1, <2>2 DEF FirstOf
  <2>3. CASE b # [mode |-> 1, pixels |-> 0]
    BY <1>1, <1>2, <2>1, <2>3 DEF FirstOf
  <2> QED
    BY <2>2, <2>3
<1> QED
  BY <1>4, <1>5

\* The mode found is the first of those with the most pixels.
LEMMA BestModeIsFirst ==
  ASSUME NEW modes, NEW n \in Nat \ {0}, DOMAIN modes = 1..n,
         \A m \in 1..n : Pixels(modes[m]) \in Nat
  PROVE  /\ BestMode(modes) \in 1..n
         /\ \A m \in 1..n :
              /\ Pixels(modes[m]) <= Pixels(modes[BestMode(modes)])
              /\ m < BestMode(modes) => Pixels(modes[m]) < Pixels(modes[BestMode(modes)])
<1> DEFINE Best == [mode : Nat, pixels : Nat]
           pixels == [m \in 1..n |-> Pixels(modes[m])]
<1>1. PICK best \in [0..n -> Best] :
        /\ BestMode(modes) = best[n].mode
        /\ best[0] = [mode |-> 1, pixels |-> 0]
        /\ \A k \in 0..(n - 1) :
             best[k + 1] = IF Pixels(modes[k + 1]) > best[k].pixels
                           THEN [mode |-> k + 1, pixels |-> Pixels(modes[k + 1])]
                           ELSE best[k]
  BY BestSoFar
<1>2. pixels \in [1..n -> Nat] /\ \A m \in 1..n : pixels[m] = Pixels(modes[m])
  OBVIOUS
<1> HIDE DEF pixels
<1> DEFINE S == {k \in Nat : k <= n => FirstOf(best[k], pixels, k)}
<1>3. 0 \in S
  BY <1>1 DEF FirstOf
<1>4. ASSUME NEW k \in Nat, k \in S PROVE k + 1 \in S
  <2> SUFFICES ASSUME k + 1 <= n PROVE FirstOf(best[k + 1], pixels, k + 1)
    OBVIOUS
  <2>1. k \in 0..(n - 1) /\ k \in 0..n /\ k + 1 \in 1..n /\ FirstOf(best[k], pixels, k)
    BY <1>4
  <2>2. best[k] \in Best
    BY <2>1
  <2>3. best[k + 1] = IF pixels[k + 1] > best[k].pixels
                      THEN [mode |-> k + 1, pixels |-> pixels[k + 1]] ELSE best[k]
    BY <1>1, <1>2, <2>1
  <2> QED
    BY <1>2, <2>1, <2>2, <2>3, FirstOfMore
<1>5. FirstOf(best[n], pixels, n)
  <2>1. Nat \subseteq S
    <3> HIDE DEF S
    <3> QED
      BY <1>3, <1>4, AllNumbers
  <2> QED
    BY <2>1
<1>6. BestMode(modes) = best[n].mode /\ best[n] \in Best
  BY <1>1
<1>7. CASE best[n] = [mode |-> 1, pixels |-> 0]
  <2>1. BestMode(modes) = 1 /\ \A m \in 1..n : pixels[m] = 0
    BY <1>5, <1>6, <1>7 DEF FirstOf
  <2> QED
    BY <1>2, <2>1
<1>8. CASE best[n] # [mode |-> 1, pixels |-> 0]
  <2>1. /\ best[n].mode \in 1..n /\ best[n].pixels = pixels[best[n].mode]
        /\ \A m \in 1..n : /\ pixels[m] <= best[n].pixels
                           /\ m < best[n].mode => pixels[m] < best[n].pixels
    BY <1>5, <1>8 DEF FirstOf
  <2> QED
    BY <1>2, <1>6, <2>1
<1> QED
  BY <1>7, <1>8

\* The display: the first one, its mode with the largest visible area - the
\* first of several - and the first plane that supports it, as long as no
\* area wraps.
THEOREM DisplayIsDocumented == Spec => []DisplayAsDocumented
<1>1. AnswerOfCall => DisplayAsDocumented
  <2> SUFFICES ASSUME AnswerOfCall, Succeeded("display"),
                      \A m \in DOMAIN platform.modes : Area(platform.modes[m]) < PixelsWord
               PROVE  DisplayAsDocumented
    BY DEF DisplayAsDocumented
  <2> DEFINE modes  == platform.modes
             planes == platform.planes
             n      == Len(modes)
             fetched == {k \in 1..Len(planes) : /\ Enumerated(Len(planes[k]), KMaxDisplays)
                                                /\ Contains(planes[k], ChosenDisplay)}
  <2>1. /\ platform \in DisplayPlatforms /\ answer = SelectDisplay(platform)
        /\ answer.result = "kOk"
    BY DEF AnswerOfCall, Succeeded, Answered
  <2>2. /\ platform.displays \in Nat
        /\ n \in Nat /\ DOMAIN modes = 1..n
        /\ \A m \in 1..n : modes[m].width \in Nat /\ modes[m].height \in Nat
        /\ Len(planes) \in Nat /\ DOMAIN planes = 1..Len(planes)
        /\ \A k \in 1..Len(planes) : Len(planes[k]) \in Nat /\ Len(planes[k]) <= platform.displays
    BY <2>1, PlatformAssumption DEF Listed
  <2> HIDE DEF modes, planes, n
  <2>3. /\ DisplaysEnumerated(platform) /\ n \in 1..KMaxModes /\ ChosenPlane(planes) # 0
        /\ answer.display = 1 /\ answer.mode = BestMode(modes)
        /\ answer.plane = ChosenPlane(planes)
    <3>1. CASE ~(/\ DisplaysEnumerated(platform) /\ ModesEnumerated(platform)
                 /\ PlanesEnumerated(platform) /\ ChosenPlane(platform.planes) # 0)
      BY <2>1, <3>1 DEF SelectDisplay, NoDisplay
    <3>2. CASE /\ DisplaysEnumerated(platform) /\ ModesEnumerated(platform)
               /\ PlanesEnumerated(platform) /\ ChosenPlane(platform.planes) # 0
      <4>1. answer = [result |-> "kOk", display |-> ChosenDisplay,
                      mode |-> BestMode(modes), plane |-> ChosenPlane(planes)]
        BY <2>1, <3>2 DEF SelectDisplay, modes, planes
      <4> QED
        BY <3>2, <4>1 DEF ModesEnumerated, Enumerated, ChosenDisplay, modes, planes, n
    <3> QED
      BY <3>1, <3>2
  <2>4. \A m \in 1..n : Area(modes[m]) \in Nat /\ Area(modes[m]) = Pixels(modes[m])
    <3> TAKE m \in 1..n
    <3>1. Area(modes[m]) \in Nat
      BY <2>2 DEF Area
    <3>2. Area(modes[m]) < PixelsWord /\ PixelsWord \in Nat \ {0}
      BY <2>2, DisplayAssumption DEF modes
    <3> QED
      BY <3>1, <3>2 DEF Pixels
  <2>5. /\ BestMode(modes) \in 1..n
        /\ \A m \in 1..n :
             /\ Pixels(modes[m]) <= Pixels(modes[BestMode(modes)])
             /\ m < BestMode(modes) => Pixels(modes[m]) < Pixels(modes[BestMode(modes)])
    <3>1. n \in Nat \ {0} /\ \A m \in 1..n : Pixels(modes[m]) \in Nat
      BY <2>2, <2>3, <2>4
    <3> QED
      BY <2>2, <3>1, BestModeIsFirst
  <2>6. /\ ChosenPlane(planes) \in fetched
        /\ \A k \in fetched : ChosenPlane(planes) <= k
    <3>1. ChosenPlane(planes) = IF fetched # {} THEN Min(fetched) ELSE 0
      BY DEF ChosenPlane, SelectInSeq
    <3>2. fetched # {} /\ fetched \in SUBSET Nat
      BY <2>3, <3>1
    <3> QED
      BY <3>1, <3>2, LeastElement
  <2>7. \A k \in 1..Len(planes) : Contains(planes[k], 1) => k \in fetched
    <3> SUFFICES ASSUME NEW k \in 1..Len(planes), Contains(planes[k], 1) PROVE k \in fetched
      OBVIOUS
    <3>1. Len(planes[k]) \in 1..platform.displays
      <4>1. PICK i \in 1..Len(planes[k]) : planes[k][i] = 1
        BY DEF Contains
      <4> QED
        BY <2>2, <4>1
    <3>2. Enumerated(Len(planes[k]), KMaxDisplays)
      BY <2>2, <2>3, <3>1, DisplayAssumption DEF DisplaysEnumerated, Enumerated
    <3> QED
      BY <3>2 DEF ChosenDisplay
  <2>8. \A p \in 1..(answer.plane - 1) : ~Contains(planes[p], 1)
    BY <2>2, <2>3, <2>6, <2>7
  <2>9. Contains(planes[answer.plane], 1)
    BY <2>3, <2>6 DEF ChosenDisplay
  <2>10. ASSUME NEW m \in DOMAIN modes
         PROVE  /\ Area(modes[m]) <= Area(modes[answer.mode])
                /\ m < answer.mode => Area(modes[m]) < Area(modes[answer.mode])
    BY <2>2, <2>3, <2>4, <2>5
  <2>11. \A m \in DOMAIN platform.modes :
           /\ Area(platform.modes[m]) <= Area(platform.modes[answer.mode])
           /\ m < answer.mode => Area(platform.modes[m]) < Area(platform.modes[answer.mode])
    BY <2>10, Zenon DEF modes
  <2>12. Contains(platform.planes[answer.plane], answer.display)
    BY <2>3, <2>9 DEF planes
  <2>13. \A p \in 1..(answer.plane - 1) : ~Contains(platform.planes[p], answer.display)
    BY <2>3, <2>8 DEF planes
  <2> QED
    BY <2>11, <2>12, <2>13 DEF DisplayAsDocumented
<1> QED
  BY <1>1, AnswerInvariant, PTL
=============================================================================
