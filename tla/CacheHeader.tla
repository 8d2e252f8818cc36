----------------------------- MODULE CacheHeader -----------------------------
(***************************************************************************)
(* ValidatePipelineCacheHeader: the checks the embedded pipeline cache     *)
(* passes before the driver is given it.                                   *)
(*                                                                         *)
(* A blob is [size, headerSize, sc, supported, indexCount, indexStride,    *)
(* indexOffset]: its size in bytes and the fields read from it, where sc   *)
(* and supported say whether the header version and the validation         *)
(* version are the Vulkan SC ones.  A null pointer is a blob of size 0.    *)
(* A vendor or device ID that differs is only logged and is left out.      *)
(***************************************************************************)
EXTENDS Naturals

CONSTANTS
  KScHeaderBytes,    \* kScHeaderBytes
  KMinIndexStride,   \* kMinIndexStride
  IndexWord          \* 2^64: indexEnd is a uint64_t

ASSUME CacheAssumption ==
  /\ KScHeaderBytes \in Nat \ {0}
  /\ KMinIndexStride \in Nat \ {0}
  /\ IndexWord \in Nat \ {0}

Fields == [size : Nat, headerSize : Nat, sc : BOOLEAN, supported : BOOLEAN,
           indexCount : Nat, indexStride : Nat, indexOffset : Nat]

\* The end of the index that the header describes.
TrueIndexEnd(blob) == blob.indexOffset + blob.indexCount * blob.indexStride

IndexEnd(blob) == TrueIndexEnd(blob) % IndexWord

ValidatePipelineCacheHeader(blob) ==
  IF /\ blob.size >= KScHeaderBytes
     /\ blob.headerSize = KScHeaderBytes /\ blob.sc
     /\ blob.supported
     /\ blob.indexStride >= KMinIndexStride
     /\ IndexEnd(blob) <= blob.size
  THEN "kOk" ELSE "kVkscCacheInvalid"
==============================================================================
