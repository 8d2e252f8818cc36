---------------------------- MODULE DeviceSelection ----------------------------
(***************************************************************************)
(* VkscContext::SelectPhysicalDevice: the physical device and the queue    *)
(* family the program renders with.                                        *)
(*                                                                         *)
(* A device is [driver |-> its VkDriverId, families |-> a sequence that    *)
(* says of each queue family whether it can draw]; devices and families    *)
(* are numbered from 1.  A query that fails answers an empty sequence: the *)
(* code treats the two alike.                                              *)
(***************************************************************************)
EXTENDS Naturals, Sequences, FiniteSetsExt

CONSTANTS
  KMaxPhysicalDevices,   \* size of the array of devices
  KMaxQueueFamilies,     \* size of the array of queue families
  AnyDriver              \* VkDriverId 0: no preference

ASSUME DeviceAssumption ==
  /\ KMaxPhysicalDevices \in Nat \ {0}
  /\ KMaxQueueFamilies \in Nat \ {0}

NoDevice(result) == [result |-> result, device |-> 0, family |-> 0]

\* The second call of an enumeration, with room for the first `room` of n
\* items: VK_INCOMPLETE unless they all fit.
FetchAnswer(n, room) == IF room < n THEN "VK_INCOMPLETE" ELSE "VK_SUCCESS"

\* The caller's cap, brought into 1..KMaxPhysicalDevices.
DeviceCap(maxDevices) ==
  IF maxDevices = 0 THEN 1 ELSE Min({maxDevices, KMaxPhysicalDevices})

\* Both calls of vkEnumeratePhysicalDevices are content.
DevicesEnumerated(devices, maxDevices) ==
  /\ devices # <<>>
  /\ FetchAnswer(Len(devices), Min({Len(devices), DeviceCap(maxDevices)})) = "VK_SUCCESS"

\* The families looked at that can draw; those beyond the array are dropped.
GraphicsFamilies(device) ==
  {f \in 1..Min({Len(device.families), KMaxQueueFamilies}) : device.families[f]}

\* Seeded fault: no second pass.
OnePass(devices, preferred) ==
  <<IF preferred = AnyDriver THEN {devices[d].driver : d \in DOMAIN devices} ELSE {preferred}>>

\* The drivers each pass accepts: the preferred one first, then any.
Passes(devices, preferred) ==
  LET all == {devices[d].driver : d \in DOMAIN devices}
  IN  IF preferred = AnyDriver THEN <<all>> ELSE <<{preferred}, all>>

Eligible(devices, drivers) ==
  {d \in DOMAIN devices : devices[d].driver \in drivers /\ GraphicsFamilies(devices[d]) # {}}

SelectPhysicalDevice(devices, preferred, maxDevices) ==
  LET passes == Passes(devices, preferred)
      fruitful == {p \in DOMAIN passes : Eligible(devices, passes[p]) # {}}
  IN  IF ~DevicesEnumerated(devices, maxDevices)
        THEN NoDevice("kVkscEnumerateFailed")
      ELSE IF fruitful = {}
        THEN NoDevice("kNotFound")
      ELSE LET d == Min(Eligible(devices, passes[Min(fruitful)]))
           IN  [result |-> "kOk", device |-> d, family |-> Min(GraphicsFamilies(devices[d]))]
==============================================================================
