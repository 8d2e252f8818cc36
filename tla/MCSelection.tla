----------------------------- MODULE MCSelection -----------------------------
(* Small platforms around every bound of the selections: array sizes are 2, *)
(* so 3 items are one too many; areas wrap at 8, index ends at 256.         *)
EXTENDS Selection

\* Sequences of up to n elements of S.
UpTo(S, n) == UNION {[1..k -> S] : k \in 0..n}

MCDevices ==
  [devices : UpTo([driver : {"preferred", "other"}, families : UpTo(BOOLEAN, 3)], 2)
             \cup [1..3 -> [driver : {"preferred", "other"}, families : {<<TRUE>>, <<FALSE, TRUE>>}]],
   preferred : {"preferred", AnyDriver},
   maxDevices : 0..3]

\* Visible regions are not empty; areas 1, 2, 4, 6, and 9, which wraps to 1.
Regions == {[width |-> a[1], height |-> a[2]] :
              a \in {<<1, 1>>, <<2, 1>>, <<1, 2>>, <<2, 2>>, <<3, 2>>, <<3, 3>>}}

\* A plane supports some of the platform's displays, in any order.
PlaneDisplays(n) == {s \in UpTo(1..n, n) : IsInjective(s)}

MCDisplays ==
  UNION {[displays : {n}, modes : UpTo(Regions, 2), planes : UpTo(PlaneDisplays(n), 3)] :
           n \in 0..2}
  \cup UNION {[displays : {n}, modes : [1..3 -> Regions], planes : [1..1 -> PlaneDisplays(n)]] :
           n \in 1..3}

Extents(S) == [width : S, height : S]

\* The minimal extent is at least 1 and at most the maximal one, and a
\* surface that has a current extent allows that one.
MCCaps ==
  {c \in [minImageCount : 1..4, maxImageCount : 0..5, currentExtent : Extents({2, 99}),
          minImageExtent : Extents({1, 2}), maxImageExtent : Extents({2, 4})] :
     /\ c.maxImageCount > 0 => c.minImageCount <= c.maxImageCount
     /\ c.currentExtent.width = 99 <=> c.currentExtent.height = 99}

MCSwapchains ==
  [caps : MCCaps, formats : {<<"required">>, <<"other", "required">>},
   wish : Extents({0, 1, 5})]
  \cup [caps : {CHOOSE c \in MCCaps : TRUE}, formats : UpTo({"required", "other"}, 3),
        wish : Extents({0})]

MCFallback == [width |-> 3, height |-> 3]

MCBlobs ==
  [size : {0, 2, 3, 6, 9}, headerSize : {2, 3}, sc : BOOLEAN, supported : BOOLEAN,
   indexCount : 0..4, indexStride : 0..4, indexOffset : {0, 2, 3, 5, 250, 255}]

\* Up to three types, with every combination of the two flags asked for and
\* one nobody asks for; the device's order is any.
Flags == {"HOST_VISIBLE", "HOST_COHERENT", "HOST_CACHED"}
MCMemories ==
  UNION {[types : [1..n -> SUBSET Flags], allowed : SUBSET (1..n)] : n \in 0..3}
==============================================================================
