\* The caches of Selection.cfg, with indices that begin near the word's end.
CONSTANTS
  KMaxPhysicalDevices = 2
  KMaxQueueFamilies = 2
  AnyDriver = AnyDriver
  KMaxDisplays = 2
  KMaxModes = 2
  KMaxPlanes = 2
  PixelsWord = 8
  KMaxSwapImages = 3
  KMaxFormats = 2
  UndefinedExtent = 99
  Fallback <- MCFallback
  RequiredFormat = "required"
  KScHeaderBytes = 2
  KMinIndexStride = 2
  IndexWord = 256
  DevicePlatforms = {}
  DisplayPlatforms = {}
  SwapchainPlatforms = {}
  Blobs <- MCBlobs
  Memories = {}
  NoAnswer = NoAnswer
SPECIFICATION Spec
INVARIANTS IndexInsideBlob
CHECK_DEADLOCK FALSE
