---------------------------- MODULE MemorySelection ----------------------------
(***************************************************************************)
(* The memory type VertexBuffer::Init allocates from.  A memory is         *)
(* [types |-> for each memory type its property flags, in the device's     *)
(* order, allowed |-> the types memoryTypeBits has a bit for].             *)
(***************************************************************************)
EXTENDS Naturals, Sequences, FiniteSetsExt

\* kRequiredFlags: written through a mapping, and seen without a flush.
KRequiredFlags == {"HOST_VISIBLE", "HOST_COHERENT"}

SuitableTypes(memory) ==
  {t \in memory.allowed \cap DOMAIN memory.types : KRequiredFlags \subseteq memory.types[t]}

\* Seeded fault: the loop goes on after a match.
LastType(types) == Max(types)

\* The loop breaks at the first match.
FirstType(types) == Min(types)

SelectMemoryType(memory) ==
  IF SuitableTypes(memory) = {} THEN [result |-> "kVkscBufferFailed", type |-> 0]
  ELSE [result |-> "kOk", type |-> FirstType(SuitableTypes(memory))]
==============================================================================
