\* Every platform of the sets: each array is offered one item too many, each
\* bound is met from both sides.  A behaviour ends with its answer.
CONSTANTS
  KMaxPhysicalDevices = 2
  KMaxQueueFamilies = 2
  AnyDriver = AnyDriver
  KMaxDisplays = 2
  KMaxModes = 2
  KMaxPlanes = 2
  PixelsWord = 8
  KMaxSwapImages = 3
  KMaxFormats = 2
  UndefinedExtent = 99
  Fallback <- MCFallback
  RequiredFormat = "required"
  KScHeaderBytes = 2
  KMinIndexStride = 2
  IndexWord = 256
  DevicePlatforms <- MCDevices
  DisplayPlatforms <- MCDisplays
  SwapchainPlatforms <- MCSwapchains
  Blobs <- MCBlobs
  Memories <- MCMemories
  NoAnswer = NoAnswer
SPECIFICATION Spec
INVARIANTS DeviceWanted DisplayAsDocumented SwapchainOffered MemoryNeedsNoFlush
CHECK_DEADLOCK FALSE
