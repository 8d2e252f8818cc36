\* The devices of Selection.cfg, with caps below the number of devices.
CONSTANTS
  KMaxPhysicalDevices = 2
  KMaxQueueFamilies = 2
  AnyDriver = AnyDriver
  KMaxDisplays = 2
  KMaxModes = 2
  KMaxPlanes = 2
  PixelsWord = 8
  KMaxSwapImages = 3
  KMaxFormats = 2
  UndefinedExtent = 99
  Fallback <- MCFallback
  RequiredFormat = "required"
  KScHeaderBytes = 2
  KMinIndexStride = 2
  IndexWord = 256
  DevicePlatforms <- MCDevices
  DisplayPlatforms = {}
  SwapchainPlatforms = {}
  Blobs = {}
  Memories = {}
  NoAnswer = NoAnswer
SPECIFICATION Spec
INVARIANTS FirstDevicesEnumerated
CHECK_DEADLOCK FALSE
