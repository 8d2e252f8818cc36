--------------------------- MODULE Lifecycle_proofs ---------------------------
(* Start-up and shutdown proved for every size of the arrays and every number *)
(* of images a driver makes: whichever call fails, each object is destroyed   *)
(* once, after the objects made from it, and none is left.                    *)
EXTENDS Lifecycle, FiniteSetTheorems, SequenceTheorems, TLAPS

\* Any object, of any kind and number.
Anything == Kinds \X Nat

\* The sequence of n objects of a kind.
LEMMA ManyAt ==
  ASSUME NEW kind \in Kinds, NEW n \in Nat
  PROVE  /\ Many(kind, n) \in Seq(Anything) /\ Len(Many(kind, n)) = n
         /\ DOMAIN Many(kind, n) = 1..n
         /\ \A i \in 1..n : Many(kind, n)[i] = <<kind, i>>
<1>1. Many(kind, n) = [i \in 1..n |-> <<kind, i>>]
  BY DEF Many
<1>2. \A i \in 1..n : <<kind, i>> \in Anything
  BY DEF Anything
<1>3. Many(kind, n) \in Seq(Anything) /\ Len(Many(kind, n)) = n
  BY <1>1, <1>2
<1> QED
  BY <1>1, <1>3

\* One object of a kind.
LEMMA OneAt ==
  ASSUME NEW kind \in Kinds
  PROVE  /\ One(kind) \in Seq(Anything) /\ Len(One(kind)) = 1
         /\ DOMAIN One(kind) = {1} /\ One(kind)[1] = <<kind, 1>>
<1>1. 1..1 = {1} /\ 1 \in Nat
  OBVIOUS
<1> QED
  BY <1>1, ManyAt DEF One

\* The kinds there are.
LEMMA KindsAre ==
  Kinds = {"instance", "device", "surface", "swapchain", "imageView", "renderPass",
           "pipelineLayout", "pipelineCache", "pipeline", "framebuffer", "commandPool",
           "commandBuffer", "buffer", "memory", "mapping", "semaphore", "fence"}
BY DEF Kinds, Reserved

\* A sequence of objects after another, place by place.
LEMMA Joined ==
  ASSUME NEW S, NEW s \in Seq(S), NEW t \in Seq(S), NEW w, w = s \o t
  PROVE  /\ w \in Seq(S) /\ Len(s) \in Nat /\ Len(t) \in Nat
         /\ Len(w) = Len(s) + Len(t)
         /\ \A k \in 1..(Len(s) + Len(t)) : w[k] = IF k <= Len(s) THEN s[k] ELSE t[k - Len(s)]
BY ConcatProperties, LenProperties

\* Two single objects.
LEMMA TwoAt ==
  ASSUME NEW a \in Kinds, NEW b \in Kinds, NEW w, w = One(a) \o One(b)
  PROVE  /\ w \in Seq(Anything) /\ Len(w) = 2
         /\ w[1] = <<a, 1>> /\ w[2] = <<b, 1>>
<1> DEFINE first == One(a)
           last == One(b)
<1>1. first \in Seq(Anything) /\ last \in Seq(Anything)
  BY OneAt
<1>2. Len(first) = 1 /\ first[1] = <<a, 1>> /\ Len(last) = 1 /\ last[1] = <<b, 1>>
  BY OneAt
<1>3. w = first \o last
  OBVIOUS
<1> HIDE DEF first, last
<1>4. /\ w \in Seq(Anything) /\ Len(w) = Len(first) + Len(last)
      /\ \A k \in 1..(Len(first) + Len(last)) :
           w[k] = IF k <= Len(first) THEN first[k] ELSE last[k - Len(first)]
  BY <1>1, <1>3, Joined
<1> QED
  BY <1>2, <1>4

-----------------------------------------------------------------------------
\* The number of the component an object belongs to.
Level(o) ==
  CASE o[1] \in {"instance", "device"} -> 1
    [] o[1] = "surface" -> 2
    [] o[1] \in {"swapchain", "imageView"} -> 3
    [] o[1] \in {"semaphore", "fence"} -> 5
    [] OTHER -> 4

\* How many objects of a kind are made for n images.
Most(kind, n) ==
  IF kind \in {"imageView", "framebuffer"} THEN n
  ELSE IF kind \in {"pipeline", "semaphore"} THEN 2 ELSE 1

\* The objects of component c, for n images.
Whole(c, n) == {o \in Anything : Level(o) = c /\ o[2] \in 1..Most(o[1], n)}

\* What the Init of component c creates for n images, and the place of o in it.
MadeBy(c, n) ==
  CASE c = 1 -> ContextCreates
    [] c = 2 -> DisplayCreates
    [] c = 3 -> SwapchainCreates(n)
    [] c = 4 -> RendererCreates(n)
    [] c = 5 -> SyncCreates

Place(o, n) ==
  CASE o[1] \in {"instance", "surface", "swapchain", "renderPass"} -> 1
    [] o[1] \in {"device", "pipelineLayout"} -> 2
    [] o[1] = "imageView" -> 1 + o[2]
    [] o[1] \in {"pipelineCache", "fence"} -> 3
    [] o[1] = "pipeline" -> 3 + o[2]
    [] o[1] = "framebuffer" -> 5 + o[2]
    [] o[1] = "commandPool" -> 6 + n
    [] o[1] = "commandBuffer" -> 7 + n
    [] o[1] = "buffer" -> 8 + n
    [] o[1] = "memory" -> 9 + n
    [] o[1] = "mapping" -> 10 + n
    [] o[1] = "semaphore" -> o[2]

\* Children have a lower rank than their parents of the same component.
Rank(o) ==
  CASE o[1] = "mapping" -> 1
    [] o[1] = "buffer" -> 2
    [] o[1] = "framebuffer" -> 3
    [] o[1] = "pipeline" -> 4
    [] o[1] = "device" -> 5
    [] OTHER -> 6

\* Handles of component c that can be destroyed, children before their parents.
DestroysInOrder(s, c) ==
  /\ s \in Seq(Objects)
  /\ \A k \in 1..Len(s) : Level(s[k]) = c /\ s[k][1] \notin Undestroyable
  /\ \A j, k \in 1..Len(s) : j <= k => Rank(s[j]) <= Rank(s[k])

\* s holds o.
Reaches(s, o) == \E k \in 1..Len(s) : s[k] = o

-----------------------------------------------------------------------------
\* What the Init of every component but the renderer creates, in order.
LEMMA MadeByOthers ==
  ASSUME NEW n \in Nat
  PROVE  /\ MadeBy(1, n) \in Seq(Anything) /\ Len(MadeBy(1, n)) = 2
         /\ MadeBy(1, n)[1] = <<"instance", 1>>
         /\ MadeBy(1, n)[2] = <<"device", 1>>
         /\ MadeBy(2, n) \in Seq(Anything) /\ Len(MadeBy(2, n)) = 1
         /\ MadeBy(2, n)[1] = <<"surface", 1>>
         /\ MadeBy(3, n) \in Seq(Anything)
         /\ Len(MadeBy(3, n)) = 1 + n
         /\ MadeBy(3, n)[1] = <<"swapchain", 1>>
         /\ \A i \in 1..n : MadeBy(3, n)[1 + i] = <<"imageView", i>>
         /\ MadeBy(5, n) \in Seq(Anything) /\ Len(MadeBy(5, n)) = 3
         /\ MadeBy(5, n)[1] = <<"semaphore", 1>>
         /\ MadeBy(5, n)[2] = <<"semaphore", 2>>
         /\ MadeBy(5, n)[3] = <<"fence", 1>>
<1>0. {"instance", "device", "surface", "swapchain", "imageView", "semaphore", "fence"}
        \subseteq Kinds
  BY KindsAre
<1>1. /\ MadeBy(1, n) = One("instance") \o One("device")
      /\ MadeBy(2, n) = One("surface")
      /\ MadeBy(3, n) = One("swapchain") \o Many("imageView", n)
      /\ MadeBy(5, n) = Many("semaphore", 2) \o One("fence")
  BY DEF MadeBy, ContextCreates, DisplayCreates, SwapchainCreates, SyncCreates
<1>2. \A kind \in Kinds, m \in Nat :
        Many(kind, m) \in Seq(Anything) /\ One(kind) \in Seq(Anything)
  BY ManyAt, OneAt
<1>3. /\ MadeBy(1, n) \in Seq(Anything) /\ Len(MadeBy(1, n)) = 2
      /\ MadeBy(1, n)[1] = <<"instance", 1>>
      /\ MadeBy(1, n)[2] = <<"device", 1>>
  <2> DEFINE first == One("instance")
             last == One("device")
  <2>1. first \in Seq(Anything) /\ last \in Seq(Anything)
    BY <1>0, <1>2
  <2>2. /\ Len(first) = 1 /\ first[1] = <<"instance", 1>>
        /\ Len(last) = 1 /\ last[1] = <<"device", 1>>
    BY <1>0, OneAt
  <2> HIDE DEF first, last
  <2>3. MadeBy(1, n) = first \o last
    BY <1>1 DEF first, last
  <2>4. /\ MadeBy(1, n) \in Seq(Anything)
        /\ Len(MadeBy(1, n)) = Len(first) + Len(last)
        /\ \A k \in 1..(Len(first) + Len(last)) : MadeBy(1, n)[k] =
             IF k <= Len(first) THEN first[k] ELSE last[k - Len(first)]
    BY <2>1, <2>3, ConcatProperties
  <2> QED
    BY <2>2, <2>4
<1>4. /\ MadeBy(2, n) \in Seq(Anything) /\ Len(MadeBy(2, n)) = 1
      /\ MadeBy(2, n)[1] = <<"surface", 1>>
  BY <1>0, <1>1, OneAt
<1>5. /\ MadeBy(3, n) \in Seq(Anything)
      /\ Len(MadeBy(3, n)) = 1 + n
      /\ MadeBy(3, n)[1] = <<"swapchain", 1>>
      /\ \A i \in 1..n : MadeBy(3, n)[1 + i] = <<"imageView", i>>
  <2> DEFINE first == One("swapchain")
             last == Many("imageView", n)
  <2>1. first \in Seq(Anything) /\ last \in Seq(Anything)
    BY <1>0, <1>2
  <2>2. /\ Len(first) = 1 /\ first[1] = <<"swapchain", 1>>
        /\ Len(last) = n /\ \A i \in 1..n : last[i] = <<"imageView", i>>
    BY <1>0, OneAt, ManyAt
  <2> HIDE DEF first, last
  <2>3. MadeBy(3, n) = first \o last
    BY <1>1 DEF first, last
  <2>4. /\ MadeBy(3, n) \in Seq(Anything)
        /\ Len(MadeBy(3, n)) = Len(first) + Len(last)
        /\ \A k \in 1..(Len(first) + Len(last)) : MadeBy(3, n)[k] =
             IF k <= Len(first) THEN first[k] ELSE last[k - Len(first)]
    BY <2>1, <2>3, ConcatProperties
  <2> QED
    BY <2>2, <2>4
<1>6. /\ MadeBy(5, n) \in Seq(Anything) /\ Len(MadeBy(5, n)) = 3
      /\ MadeBy(5, n)[1] = <<"semaphore", 1>>
      /\ MadeBy(5, n)[2] = <<"semaphore", 2>>
      /\ MadeBy(5, n)[3] = <<"fence", 1>>
  <2> DEFINE first == Many("semaphore", 2)
             last == One("fence")
  <2>1. first \in Seq(Anything) /\ last \in Seq(Anything)
    BY <1>0, <1>2
  <2>2. /\ Len(first) = 2 /\ \A i \in 1..2 : first[i] = <<"semaphore", i>>
        /\ Len(last) = 1 /\ last[1] = <<"fence", 1>>
    BY <1>0, OneAt, ManyAt
  <2> HIDE DEF first, last
  <2>3. MadeBy(5, n) = first \o last
    BY <1>1 DEF first, last
  <2>4. /\ MadeBy(5, n) \in Seq(Anything)
        /\ Len(MadeBy(5, n)) = Len(first) + Len(last)
        /\ \A k \in 1..(Len(first) + Len(last)) : MadeBy(5, n)[k] =
             IF k <= Len(first) THEN first[k] ELSE last[k - Len(first)]
    BY <2>1, <2>3, ConcatProperties
  <2> QED
    BY <2>2, <2>4
<1> QED
  BY <1>3, <1>4, <1>5, <1>6

\* The ten objects of the renderer and a framebuffer for each image.
LEMMA RendererCreatesOf ==
  ASSUME NEW n \in Nat, NEW w, w = RendererCreates(n)
  PROVE  /\ w \in Seq(Anything) /\ Len(w) = 10 + n
         /\ w[1] = <<"renderPass", 1>> /\ w[2] = <<"pipelineLayout", 1>>
         /\ w[3] = <<"pipelineCache", 1>>
         /\ w[4] = <<"pipeline", 1>> /\ w[5] = <<"pipeline", 2>>
         /\ \A i \in 1..n : w[5 + i] = <<"framebuffer", i>>
         /\ w[6 + n] = <<"commandPool", 1>> /\ w[7 + n] = <<"commandBuffer", 1>>
         /\ w[8 + n] = <<"buffer", 1>> /\ w[9 + n] = <<"memory", 1>>
         /\ w[10 + n] = <<"mapping", 1>>
<1>0. {"renderPass", "pipelineLayout", "pipelineCache", "pipeline", "framebuffer",
       "commandPool", "commandBuffer", "buffer", "memory", "mapping"} \subseteq Kinds
  BY KindsAre
<1> DEFINE layout == LayoutCreates
           cache == CacheCreates
           pipes == PipelineCreates
           frames == FramebufferCreates(n)
           pool == PoolCreates
           bound == One("buffer") \o One("memory")
           mapping == One("mapping")
           vertices == VertexBufferCreates
           p3 == layout \o cache
           p5 == p3 \o pipes
           pf == p5 \o frames
           pp == pf \o pool
<1>2. cache \in Seq(Anything) /\ Len(cache) = 1 /\ cache[1] = <<"pipelineCache", 1>>
  BY <1>0, OneAt DEF CacheCreates
<1>3. pipes \in Seq(Anything) /\ Len(pipes) = 2 /\ \A i \in 1..2 : pipes[i] = <<"pipeline", i>>
  BY <1>0, ManyAt DEF PipelineCreates
<1>4. /\ frames \in Seq(Anything) /\ Len(frames) = n
      /\ \A i \in 1..n : frames[i] = <<"framebuffer", i>>
  BY <1>0, ManyAt DEF FramebufferCreates
<1>7. mapping \in Seq(Anything) /\ Len(mapping) = 1 /\ mapping[1] = <<"mapping", 1>>
  BY <1>0, OneAt
<1>8. vertices = bound \o mapping
  BY DEF VertexBufferCreates
<1>9. w = pp \o vertices
  BY DEF RendererCreates
<1>01. /\ layout = One("renderPass") \o One("pipelineLayout")
      /\ pool = One("commandPool") \o One("commandBuffer")
      /\ bound = One("buffer") \o One("memory")
  BY DEF LayoutCreates, PoolCreates
<1> HIDE DEF layout, cache, pipes, frames, pool, bound, mapping, vertices
<1>1. /\ layout \in Seq(Anything) /\ Len(layout) = 2
      /\ layout[1] = <<"renderPass", 1>> /\ layout[2] = <<"pipelineLayout", 1>>
  <2>1. "renderPass" \in Kinds /\ "pipelineLayout" \in Kinds
    BY <1>0
  <2>2. layout = One("renderPass") \o One("pipelineLayout")
    BY <1>01
  <2> QED
    BY <2>1, <2>2, TwoAt, Zenon
<1>5. /\ pool \in Seq(Anything) /\ Len(pool) = 2
      /\ pool[1] = <<"commandPool", 1>> /\ pool[2] = <<"commandBuffer", 1>>
  <2>1. "commandPool" \in Kinds /\ "commandBuffer" \in Kinds
    BY <1>0
  <2>2. pool = One("commandPool") \o One("commandBuffer")
    BY <1>01
  <2> QED
    BY <2>1, <2>2, TwoAt, Zenon
<1>6. /\ bound \in Seq(Anything) /\ Len(bound) = 2
      /\ bound[1] = <<"buffer", 1>> /\ bound[2] = <<"memory", 1>>
  <2>1. "buffer" \in Kinds /\ "memory" \in Kinds
    BY <1>0
  <2>2. bound = One("buffer") \o One("memory")
    BY <1>01
  <2> QED
    BY <2>1, <2>2, TwoAt, Zenon
<1>10. /\ vertices \in Seq(Anything) /\ Len(vertices) = Len(bound) + Len(mapping)
       /\ \A k \in 1..(Len(bound) + Len(mapping)) :
            vertices[k] = IF k <= Len(bound) THEN bound[k] ELSE mapping[k - Len(bound)]
  <2>1. bound \in Seq(Anything) /\ mapping \in Seq(Anything)
    BY <1>6, <1>7
  <2> QED
    BY <1>8, <2>1, Joined
<1>11. /\ p3 \in Seq(Anything) /\ Len(p3) = Len(layout) + Len(cache)
       /\ \A k \in 1..(Len(layout) + Len(cache)) :
            p3[k] = IF k <= Len(layout) THEN layout[k] ELSE cache[k - Len(layout)]
  <2>1. layout \in Seq(Anything) /\ cache \in Seq(Anything)
    BY <1>1, <1>2
  <2> QED
    BY <2>1, Joined
<1> HIDE DEF p3
<1>12. /\ p5 \in Seq(Anything) /\ Len(p5) = Len(p3) + Len(pipes)
       /\ \A k \in 1..(Len(p3) + Len(pipes)) :
            p5[k] = IF k <= Len(p3) THEN p3[k] ELSE pipes[k - Len(p3)]
  <2>1. p3 \in Seq(Anything) /\ pipes \in Seq(Anything)
    BY <1>11, <1>3
  <2> QED
    BY <2>1, Joined
<1> HIDE DEF p5
<1>13. /\ pf \in Seq(Anything) /\ Len(pf) = Len(p5) + Len(frames)
       /\ \A k \in 1..(Len(p5) + Len(frames)) :
            pf[k] = IF k <= Len(p5) THEN p5[k] ELSE frames[k - Len(p5)]
  <2>1. p5 \in Seq(Anything) /\ frames \in Seq(Anything)
    BY <1>12, <1>4
  <2> QED
    BY <2>1, Joined
<1> HIDE DEF pf
<1>14. /\ pp \in Seq(Anything) /\ Len(pp) = Len(pf) + Len(pool)
       /\ \A k \in 1..(Len(pf) + Len(pool)) :
            pp[k] = IF k <= Len(pf) THEN pf[k] ELSE pool[k - Len(pf)]
  <2>1. pf \in Seq(Anything) /\ pool \in Seq(Anything)
    BY <1>13, <1>5
  <2> QED
    BY <2>1, Joined
<1> HIDE DEF pp
<1>15. /\ w \in Seq(Anything) /\ Len(w) = Len(pp) + Len(vertices)
       /\ \A k \in 1..(Len(pp) + Len(vertices)) :
            w[k] = IF k <= Len(pp) THEN pp[k] ELSE vertices[k - Len(pp)]
  <2>1. pp \in Seq(Anything) /\ vertices \in Seq(Anything)
    BY <1>14, <1>10
  <2> QED
    BY <1>9, <2>1, Joined
<1>16. /\ Len(vertices) = 3 /\ vertices[1] = <<"buffer", 1>>
       /\ vertices[2] = <<"memory", 1>> /\ vertices[3] = <<"mapping", 1>>
  BY <1>6, <1>7, <1>10
<1>17. /\ Len(p5) = 5 /\ p5[1] = <<"renderPass", 1>> /\ p5[2] = <<"pipelineLayout", 1>>
       /\ p5[3] = <<"pipelineCache", 1>>
       /\ p5[4] = <<"pipeline", 1>> /\ p5[5] = <<"pipeline", 2>>
  <2>1. /\ Len(p3) = 3 /\ p3[1] = <<"renderPass", 1>> /\ p3[2] = <<"pipelineLayout", 1>>
        /\ p3[3] = <<"pipelineCache", 1>>
    BY <1>1, <1>2, <1>11
  <2> QED
    BY <1>3, <1>12, <2>1
<1>18. Len(pf) = 5 + n /\ Len(pp) = 7 + n /\ Len(w) = 10 + n
  BY <1>4, <1>5, <1>13, <1>14, <1>15, <1>16, <1>17
<1>19. ASSUME NEW k \in 1..5 PROVE w[k] = p5[k]
  BY <1>4, <1>5, <1>13, <1>14, <1>15, <1>16, <1>17, <1>18
<1>20. ASSUME NEW i \in 1..n PROVE w[5 + i] = <<"framebuffer", i>>
  <2>1. 5 + i \in 1..(5 + n) /\ ~(5 + i <= 5) /\ (5 + i) - 5 = i
    OBVIOUS
  <2>2. pf[5 + i] = frames[i]
    BY <1>4, <1>13, <1>17, <2>1
  <2>3. pp[5 + i] = pf[5 + i]
    BY <1>5, <1>14, <1>18, <2>1
  <2>4. w[5 + i] = pp[5 + i]
    BY <1>15, <1>16, <1>18, <2>1
  <2> QED
    BY <1>4, <2>2, <2>3, <2>4
<1>21. w[6 + n] = <<"commandPool", 1>> /\ w[7 + n] = <<"commandBuffer", 1>>
  BY <1>5, <1>14, <1>15, <1>16, <1>18
<1>22. /\ w[8 + n] = <<"buffer", 1>> /\ w[9 + n] = <<"memory", 1>>
       /\ w[10 + n] = <<"mapping", 1>>
  BY <1>15, <1>16, <1>18
<1>23. w[1] = p5[1] /\ w[2] = p5[2] /\ w[3] = p5[3] /\ w[4] = p5[4] /\ w[5] = p5[5]
  BY <1>19
<1>24. w \in Seq(Anything)
  BY <1>15
<1> QED
  BY ONLY <1>17, <1>18, <1>20, <1>21, <1>22, <1>23, <1>24
-----------------------------------------------------------------------------
\* An object is a kind and a number.
LEMMA Pairs ==
  ASSUME NEW o \in Anything
  PROVE  o[1] \in Kinds /\ o[2] \in Nat /\ o = <<o[1], o[2]>>
BY DEF Anything

\* The kinds of the components.
LEMMA KindsOfLevels ==
  ASSUME NEW o \in Anything
  PROVE  /\ Level(o) \in 1..5
         /\ Level(o) = 1 <=> o[1] \in {"instance", "device"}
         /\ Level(o) = 2 <=> o[1] = "surface"
         /\ Level(o) = 3 <=> o[1] \in {"swapchain", "imageView"}
         /\ Level(o) = 4 <=> o[1] \in {"renderPass", "pipelineLayout", "pipelineCache",
              "pipeline", "framebuffer", "commandPool", "commandBuffer", "buffer", "memory",
              "mapping"}
         /\ Level(o) = 5 <=> o[1] \in {"semaphore", "fence"}
BY KindsAre, Pairs DEF Level

\* How many objects the Init of component c creates.
HowMany(c, n) ==
  IF c = 1 THEN 2 ELSE IF c = 2 THEN 1 ELSE IF c = 3 THEN 1 + n
  ELSE IF c = 4 THEN 10 + n ELSE 3

\* w has the objects of component c in their places.
InPlaces(w, c, n) ==
  /\ \A k \in 1..Len(w) : w[k] \in Whole(c, n) /\ Place(w[k], n) = k
  /\ \A o \in Whole(c, n) : Place(o, n) \in 1..Len(w) /\ w[Place(o, n)] = o

\* Every place of what an Init creates holds an object of the component, and
\* every object of the component has its place.
LEMMA PlacesIn ==
  ASSUME NEW c \in 1..5, NEW n \in Nat, NEW w, w = MadeBy(c, n)
  PROVE  /\ w \in Seq(Anything) /\ Len(w) \in Nat
         /\ Len(w) = HowMany(c, n) /\ InPlaces(w, c, n)
<1>0. \A o \in Whole(c, n) : o \in Anything /\ Level(o) = c /\ o[2] \in 1..Most(o[1], n)
  BY DEF Whole
<1>1. CASE c = 1
  <2>1. /\ w \in Seq(Anything) /\ Len(w) = 2
        /\ w[1] = <<"instance", 1>> /\ w[2] = <<"device", 1>>
    BY <1>1, MadeByOthers
  <2>2. \A k \in 1..2 : w[k] \in Whole(c, n) /\ Place(w[k], n) = k
    BY <1>1, <2>1, KindsAre DEF Whole, Level, Most, Place, Anything
  <2>3. ASSUME NEW o \in Whole(c, n) PROVE Place(o, n) \in 1..2 /\ w[Place(o, n)] = o
    <3>1. o[1] \in {"instance", "device"} /\ o = <<o[1], o[2]>>
      BY <1>0, <1>1, KindsOfLevels, Pairs
    <3>2. o[2] = 1
      BY <1>0, <3>1 DEF Most
    <3>3. Place(o, n) = IF o[1] = "instance" THEN 1 ELSE 2
      BY <3>1 DEF Place
    <3> QED
      BY <2>1, <3>1, <3>2, <3>3
  <2> QED
    BY <1>1, <2>1, <2>2, <2>3 DEF HowMany, InPlaces
<1>2. CASE c = 2
  <2>1. w \in Seq(Anything) /\ Len(w) = 1 /\ w[1] = <<"surface", 1>>
    BY <1>2, MadeByOthers
  <2>2. \A k \in 1..1 : w[k] \in Whole(c, n) /\ Place(w[k], n) = k
    BY <1>2, <2>1, KindsAre DEF Whole, Level, Most, Place, Anything
  <2>3. ASSUME NEW o \in Whole(c, n) PROVE Place(o, n) \in 1..1 /\ w[Place(o, n)] = o
    BY <1>0, <1>2, <2>1, KindsOfLevels, Pairs DEF Most, Place
  <2> QED
    BY <1>2, <2>1, <2>2, <2>3 DEF HowMany, InPlaces
<1>3. CASE c = 3
  <2>1. /\ w \in Seq(Anything) /\ Len(w) = 1 + n /\ w[1] = <<"swapchain", 1>>
        /\ \A i \in 1..n : w[1 + i] = <<"imageView", i>>
    BY <1>3, MadeByOthers
  <2>2. ASSUME NEW k \in 1..(1 + n) PROVE w[k] \in Whole(c, n) /\ Place(w[k], n) = k
    <3>1. CASE k = 1
      BY <1>3, <2>1, <3>1, KindsAre DEF Whole, Level, Most, Place, Anything
    <3>2. CASE k # 1
      <4>1. PICK i \in 1..n : k = 1 + i
        <5>1. k - 1 \in 1..n /\ k = 1 + (k - 1)
          BY <3>2
        <5> QED
          BY <5>1
      <4>2. w[k] = <<"imageView", i>>
        BY <2>1, <4>1
      <4> QED
        BY <1>3, <4>1, <4>2, KindsAre DEF Whole, Level, Most, Place, Anything
    <3> QED
      BY <3>1, <3>2
  <2>3. ASSUME NEW o \in Whole(c, n) PROVE Place(o, n) \in 1..(1 + n) /\ w[Place(o, n)] = o
    <3>1. CASE o[1] = "swapchain"
      <4>1. o[2] = 1 /\ Place(o, n) = 1
        BY <1>0, <3>1 DEF Most, Place
      <4>2. o = <<o[1], o[2]>>
        BY <1>0, Pairs
      <4> QED
        BY <2>1, <3>1, <4>1, <4>2
    <3>2. CASE o[1] = "imageView"
      <4>1. o[2] \in 1..n /\ Place(o, n) = 1 + o[2]
        BY <1>0, <3>2 DEF Most, Place
      <4>2. o = <<"imageView", o[2]>>
        BY <1>0, <3>2, Pairs
      <4>3. w[1 + o[2]] = <<"imageView", o[2]>>
        BY <2>1, <4>1
      <4>4. 1 + o[2] \in 1..(1 + n)
        BY <4>1
      <4> QED
        BY <4>1, <4>2, <4>3, <4>4
    <3> QED
      BY <1>0, <1>3, <3>1, <3>2, KindsOfLevels
  <2> QED
    BY <1>3, <2>1, <2>2, <2>3 DEF HowMany, InPlaces
<1>5. CASE c = 5
  <2>1. /\ w \in Seq(Anything) /\ Len(w) = 3 /\ w[1] = <<"semaphore", 1>>
        /\ w[2] = <<"semaphore", 2>> /\ w[3] = <<"fence", 1>>
    BY <1>5, MadeByOthers
  <2>2. \A k \in 1..3 : w[k] \in Whole(c, n) /\ Place(w[k], n) = k
    BY <1>5, <2>1, KindsAre DEF Whole, Level, Most, Place, Anything
  <2>3. ASSUME NEW o \in Whole(c, n) PROVE Place(o, n) \in 1..3 /\ w[Place(o, n)] = o
    BY <1>0, <1>5, <2>1, KindsOfLevels, Pairs DEF Most, Place
  <2> QED
    BY <1>5, <2>1, <2>2, <2>3 DEF HowMany, InPlaces
<1>4. CASE c = 4
  <2>0. w = RendererCreates(n)
    BY <1>4 DEF MadeBy
  <2>1. /\ w \in Seq(Anything) /\ Len(w) = 10 + n
        /\ w[1] = <<"renderPass", 1>> /\ w[2] = <<"pipelineLayout", 1>>
        /\ w[3] = <<"pipelineCache", 1>>
        /\ w[4] = <<"pipeline", 1>> /\ w[5] = <<"pipeline", 2>>
        /\ \A i \in 1..n : w[5 + i] = <<"framebuffer", i>>
        /\ w[6 + n] = <<"commandPool", 1>> /\ w[7 + n] = <<"commandBuffer", 1>>
        /\ w[8 + n] = <<"buffer", 1>> /\ w[9 + n] = <<"memory", 1>>
        /\ w[10 + n] = <<"mapping", 1>>
    BY <2>0, RendererCreatesOf
  <2>4. ASSUME NEW kind \in {"renderPass", "pipelineLayout", "pipelineCache", "pipeline",
                             "framebuffer", "commandPool", "commandBuffer", "buffer",
                             "memory", "mapping"},
               NEW i \in 1..Most(kind, n)
        PROVE  <<kind, i>> \in Whole(c, n)
    BY <1>4, KindsAre DEF Whole, Level, Anything
  <2>5. /\ <<"renderPass", 1>> \in Whole(c, n) /\ <<"pipelineLayout", 1>> \in Whole(c, n)
        /\ <<"pipelineCache", 1>> \in Whole(c, n)
        /\ <<"pipeline", 1>> \in Whole(c, n) /\ <<"pipeline", 2>> \in Whole(c, n)
        /\ <<"commandPool", 1>> \in Whole(c, n) /\ <<"commandBuffer", 1>> \in Whole(c, n)
        /\ <<"buffer", 1>> \in Whole(c, n) /\ <<"memory", 1>> \in Whole(c, n)
        /\ <<"mapping", 1>> \in Whole(c, n)
    BY <2>4 DEF Most
  <2>2. ASSUME NEW k \in 1..(10 + n) PROVE w[k] \in Whole(c, n) /\ Place(w[k], n) = k
    <3>1. CASE k \in 1..5
      <4>1. k = 1 \/ k = 2 \/ k = 3 \/ k = 4 \/ k = 5
        BY <3>1
      <4>2. w[k] \in Whole(c, n)
        BY <2>1, <2>5, <4>1
      <4>3. Place(w[k], n) = k
        BY <2>1, <4>1 DEF Place
      <4> QED
        BY <4>2, <4>3
    <3>2. CASE k \in 6..(5 + n)
      <4>1. PICK i \in 1..n : k = 5 + i
        <5>1. k - 5 \in 1..n /\ k = 5 + (k - 5)
          BY <3>2
        <5> QED
          BY <5>1
      <4>2. w[k] = <<"framebuffer", i>>
        BY <2>1, <4>1
      <4> QED
        BY <1>4, <4>1, <4>2, KindsAre DEF Whole, Level, Most, Place, Anything
    <3>3. CASE k > 5 + n
      <4>1. k = 6 + n \/ k = 7 + n \/ k = 8 + n \/ k = 9 + n \/ k = 10 + n
        BY <3>3
      <4>2. w[k] \in Whole(c, n)
        BY <2>1, <2>5, <4>1
      <4>3. Place(w[k], n) = k
        BY <2>1, <4>1 DEF Place
      <4> QED
        BY <4>2, <4>3
    <3> QED
      BY <3>1, <3>2, <3>3
  <2>3. ASSUME NEW o \in Whole(c, n) PROVE Place(o, n) \in 1..(10 + n) /\ w[Place(o, n)] = o
    <3>1. CASE o[1] = "framebuffer"
      <4>1. o[2] \in 1..n /\ Place(o, n) = 5 + o[2]
        BY <1>0, <3>1 DEF Most, Place
      <4>2. o = <<"framebuffer", o[2]>>
        BY <1>0, <3>1, Pairs
      <4>3. w[5 + o[2]] = <<"framebuffer", o[2]>>
        BY <2>1, <4>1
      <4>4. 5 + o[2] \in 1..(10 + n)
        BY <4>1
      <4> QED
        BY <4>1, <4>2, <4>3, <4>4
    <3>2. CASE o[1] \in {"renderPass", "pipelineLayout", "pipelineCache", "pipeline"}
      <4>1. o[2] \in {1, 2} /\ (o[1] # "pipeline" => o[2] = 1)
        BY <1>0, <3>2 DEF Most
      <4>3. o = <<o[1], o[2]>>
        BY <1>0, Pairs
      <4>2. Place(o, n) = IF o[1] = "renderPass" THEN 1 ELSE IF o[1] = "pipelineLayout" THEN 2
                          ELSE IF o[1] = "pipelineCache" THEN 3 ELSE 3 + o[2]
        BY <3>2 DEF Place
      <4>4. Place(o, n) \in 1..5
        BY <3>2, <4>1, <4>2
      <4>5. w[Place(o, n)] = o
        <5>1. CASE o[1] = "pipeline"
          <6>1. Place(o, n) = 3 + o[2] /\ o = <<"pipeline", o[2]>>
            BY <4>2, <4>3, <5>1
          <6>2. (o[2] = 1 /\ Place(o, n) = 4) \/ (o[2] = 2 /\ Place(o, n) = 5)
            BY <4>1, <6>1
          <6> QED
            BY <2>1, <6>1, <6>2
        <5>2. CASE o[1] # "pipeline"
          BY <2>1, <3>2, <4>1, <4>2, <4>3, <5>2
        <5> QED
          BY <5>1, <5>2
      <4> QED
        BY <4>4, <4>5
    <3>3. CASE o[1] \in {"commandPool", "commandBuffer", "buffer", "memory", "mapping"}
      <4>1. o[2] = 1
        BY <1>0, <3>3 DEF Most
      <4>3. o = <<o[1], o[2]>>
        BY <1>0, Pairs
      <4>2. Place(o, n) = IF o[1] = "commandPool" THEN 6 + n
                          ELSE IF o[1] = "commandBuffer" THEN 7 + n
                          ELSE IF o[1] = "buffer" THEN 8 + n
                          ELSE IF o[1] = "memory" THEN 9 + n ELSE 10 + n
        BY <3>3 DEF Place
      <4>4. Place(o, n) \in 1..(10 + n)
        BY <3>3, <4>2
      <4>5. w[Place(o, n)] = o
        BY <2>1, <3>3, <4>1, <4>2, <4>3
      <4> QED
        BY <4>4, <4>5
    <3> QED
      BY <1>0, <1>4, <3>1, <3>2, <3>3, KindsOfLevels
  <2> QED
    BY <1>4, <2>1, <2>2, <2>3 DEF HowMany, InPlaces
<1> QED
  BY <1>1, <1>2, <1>3, <1>4, <1>5

\* What an Init creates is what the component has.
LEMMA MadeIsWhole ==
  ASSUME NEW c \in 1..5, NEW n \in Nat
  PROVE  Whole(c, n) = {MadeBy(c, n)[k] : k \in 1..Len(MadeBy(c, n))}
<1> DEFINE w == MadeBy(c, n)
<1>1. w = MadeBy(c, n)
  OBVIOUS
<1> HIDE DEF w
<1>2. \A k \in 1..Len(w) : w[k] \in Whole(c, n)
  BY <1>1, PlacesIn DEF InPlaces
<1>3. ASSUME NEW o \in Whole(c, n) PROVE \E k \in 1..Len(w) : w[k] = o
  <2>1. InPlaces(w, c, n)
    BY <1>1, PlacesIn
  <2>2. Place(o, n) \in 1..Len(w) /\ w[Place(o, n)] = o
    BY <2>1 DEF InPlaces
  <2> QED
    BY <2>2
<1>4. Whole(c, n) = {w[k] : k \in 1..Len(w)}
  BY <1>2, <1>3
<1> QED
  BY <1>1, <1>4

\* Each object of a component has its place.
LEMMA ItsPlace ==
  ASSUME NEW c \in 1..5, NEW n \in Nat, NEW o \in Whole(c, n)
  PROVE  /\ Place(o, n) \in 1..HowMany(c, n) /\ HowMany(c, n) \in Nat
         /\ MadeBy(c, n)[Place(o, n)] = o
<1> DEFINE w == MadeBy(c, n)
<1>1. w = MadeBy(c, n)
  OBVIOUS
<1> HIDE DEF w
<1>2. InPlaces(w, c, n) /\ Len(w) = HowMany(c, n) /\ Len(w) \in Nat
  BY <1>1, PlacesIn
<1>3. Place(o, n) \in 1..Len(w) /\ w[Place(o, n)] = o
  BY <1>2 DEF InPlaces
<1> QED
  BY <1>1, <1>2, <1>3

\* Only images and framebuffers depend on how many images there are.
LEMMA MoreImages ==
  ASSUME NEW n \in Nat, NEW m \in Nat, NEW c, NEW o \in Whole(c, n),
         n <= m \/ o[1] \notin {"imageView", "framebuffer"}
  PROVE  o \in Whole(c, m)
BY DEF Whole, Most

\* The other components have the same objects whatever their number.
LEMMA SameWithout ==
  ASSUME NEW n \in Nat, NEW m \in Nat, NEW c \in 1..2
  PROVE  Whole(c, n) = Whole(c, m)
<1>1. ASSUME NEW o \in Anything, Level(o) = c PROVE Most(o[1], n) = Most(o[1], m)
  BY <1>1, KindsOfLevels DEF Most
<1> QED
  BY <1>1 DEF Whole

\* An object's parents are objects of components before its own, or have an
\* earlier place in it; those that can be destroyed have a higher rank.
LEMMA ParentsBefore ==
  ASSUME NEW n \in Nat, NEW c \in 1..5, NEW o \in Whole(c, n), NEW p \in Parents(o)
  PROVE  /\ p \in Whole(Level(p), n) /\ Level(p) \in 1..c
         /\ Level(p) = c => Place(p, n) < Place(o, n)
         /\ Level(p) = c /\ p[1] \notin Undestroyable => Rank(o) < Rank(p)
<1>1. o \in Anything /\ Level(o) = c /\ o[2] \in 1..Most(o[1], n) /\ o[1] \in Kinds
  BY Pairs DEF Whole
<1>2. CASE o[1] = "imageView"
  BY <1>1, <1>2, KindsAre, KindsOfLevels
  DEF Parents, Whole, Level, Most, Place, Rank, Undestroyable, Anything
<1>3. CASE o[1] = "framebuffer"
  BY <1>1, <1>3, KindsAre, KindsOfLevels
  DEF Parents, Whole, Level, Most, Place, Rank, Undestroyable, Anything
<1>4. CASE o[1] \in {"pipeline", "commandBuffer", "mapping"}
  BY <1>1, <1>4, KindsAre, KindsOfLevels
  DEF Parents, Whole, Level, Most, Place, Rank, Undestroyable, Anything
<1>5. CASE o[1] \in {"instance", "device", "surface", "swapchain"}
  BY <1>1, <1>5, KindsAre, KindsOfLevels
  DEF Parents, Whole, Level, Most, Place, Rank, Undestroyable, Anything
<1>6. CASE o[1] \in Kinds \ {"imageView", "framebuffer", "pipeline", "commandBuffer",
                              "mapping", "instance", "device", "surface", "swapchain"}
  <2>1. p = <<"device", 1>>
    BY <1>6 DEF Parents
  <2>2. c # 1
    BY <1>1, <1>6, KindsOfLevels
  <2> QED
    BY <2>1, <2>2, KindsAre DEF Whole, Level, Most, Anything
<1> QED
  BY <1>1, <1>2, <1>3, <1>4, <1>5, <1>6
-----------------------------------------------------------------------------
\* w is a list of handles after another.
InTurn(w, s, t) ==
  /\ \A o : Reaches(s, o) \/ Reaches(t, o) => Reaches(w, o)
  /\ \A k \in 1..Len(w) : (\E j \in 1..Len(s) : w[k] = s[j])
                          \/ (\E j \in 1..Len(t) : w[k] = t[j])

\* Two lists in order are one in order if the second starts no lower than the
\* first ends.
LEMMA InOrderJoined ==
  ASSUME NEW c, NEW s, NEW t, DestroysInOrder(s, c), DestroysInOrder(t, c),
         \A j \in 1..Len(s), k \in 1..Len(t) : Rank(s[j]) <= Rank(t[k])
  PROVE  DestroysInOrder(s \o t, c) /\ InTurn(s \o t, s, t)
<1> DEFINE w == s \o t
<1>1. s \in Seq(Objects) /\ t \in Seq(Objects)
  BY DEF DestroysInOrder
<1>2. /\ w \in Seq(Objects) /\ Len(s) \in Nat /\ Len(t) \in Nat
      /\ Len(w) = Len(s) + Len(t)
      /\ \A k \in 1..(Len(s) + Len(t)) : w[k] = IF k <= Len(s) THEN s[k] ELSE t[k - Len(s)]
  BY <1>1, Joined
<1> HIDE DEF w
<1>3. ASSUME NEW k \in 1..Len(w)
      PROVE  \/ k \in 1..Len(s) /\ w[k] = s[k]
             \/ ~(k <= Len(s)) /\ k - Len(s) \in 1..Len(t) /\ w[k] = t[k - Len(s)]
  BY <1>2
<1>4. \A k \in 1..Len(w) : (\E j \in 1..Len(s) : w[k] = s[j])
                           \/ (\E j \in 1..Len(t) : w[k] = t[j])
  BY <1>3
<1>5. ASSUME NEW o, Reaches(s, o) \/ Reaches(t, o) PROVE Reaches(w, o)
  <2>1. CASE Reaches(s, o)
    <3>1. PICK k \in 1..Len(s) : s[k] = o
      BY <2>1 DEF Reaches
    <3>2. k \in 1..Len(w) /\ w[k] = s[k]
      BY <1>2
    <3> QED
      BY <3>1, <3>2 DEF Reaches
  <2>2. CASE Reaches(t, o)
    <3>1. PICK k \in 1..Len(t) : t[k] = o
      BY <2>2 DEF Reaches
    <3>2. Len(s) + k \in 1..Len(w) /\ w[Len(s) + k] = t[k]
      BY <1>2
    <3> QED
      BY <3>1, <3>2 DEF Reaches
  <2> QED
    BY <1>5, <2>1, <2>2
<1>6. \A k \in 1..Len(w) : Level(w[k]) = c /\ w[k][1] \notin Undestroyable
  BY <1>4 DEF DestroysInOrder
<1>7. ASSUME NEW j \in 1..Len(w), NEW k \in 1..Len(w), j <= k
      PROVE  Rank(w[j]) <= Rank(w[k])
  <2>1. CASE k <= Len(s)
    <3>1. j \in 1..Len(s) /\ k \in 1..Len(s) /\ w[j] = s[j] /\ w[k] = s[k]
      BY <1>2, <1>7, <2>1
    <3> QED
      BY <1>7, <3>1 DEF DestroysInOrder
  <2>2. CASE j <= Len(s) /\ ~(k <= Len(s))
    <3>1. j \in 1..Len(s) /\ k - Len(s) \in 1..Len(t) /\ w[j] = s[j] /\ w[k] = t[k - Len(s)]
      BY <1>2, <2>2
    <3> QED
      BY <3>1
  <2>3. CASE ~(j <= Len(s))
    <3>1. /\ j - Len(s) \in 1..Len(t) /\ k - Len(s) \in 1..Len(t)
          /\ j - Len(s) <= k - Len(s)
          /\ w[j] = t[j - Len(s)] /\ w[k] = t[k - Len(s)]
      BY <1>2, <1>7, <2>3
    <3> QED
      BY <3>1 DEF DestroysInOrder
  <2> QED
    BY <1>2, <2>1, <2>2, <2>3
<1>8. DestroysInOrder(w, c)
  BY <1>2, <1>6, <1>7 DEF DestroysInOrder
<1>9. InTurn(w, s, t)
  BY <1>4, <1>5 DEF InTurn
<1> QED
  BY <1>8, <1>9 DEF w

\* The handles of one kind.
LEMMA ManyInOrder ==
  ASSUME NEW kind \in Kinds \ Undestroyable, NEW n \in 0..(KMaxImages + MaxDriverImages + 2),
         NEW c, c = Level(<<kind, 1>>), NEW w, w = Many(kind, n)
  PROVE  /\ DestroysInOrder(w, c)
         /\ \A i \in 1..n : Reaches(w, <<kind, i>>)
         /\ \A k \in 1..Len(w) : Rank(w[k]) = Rank(<<kind, 1>>)
<1>1. KMaxImages \in Nat /\ MaxDriverImages \in Nat /\ n \in Nat
  BY ImagesAssumption
<1>2. w = [i \in 1..n |-> <<kind, i>>] /\ Len(w) = n
  BY <1>1, ManyAt DEF Many
<1>3. \A i \in 1..n : <<kind, i>> \in Objects
  BY <1>1 DEF Objects
<1>4. w \in Seq(Objects)
  BY <1>1, <1>2, <1>3
<1>5. \A i \in 1..n : Level(<<kind, i>>) = c /\ Rank(<<kind, i>>) = Rank(<<kind, 1>>)
  BY DEF Level, Rank
<1>6. \A k \in 1..Len(w) : w[k] = <<kind, k>>
  BY <1>2
<1>7. Rank(<<kind, 1>>) \in Nat
  BY DEF Rank
<1>8. \A k \in 1..Len(w) : /\ Level(w[k]) = c /\ Rank(w[k]) = Rank(<<kind, 1>>)
                            /\ w[k][1] \notin Undestroyable
  <2> SUFFICES ASSUME NEW k \in 1..Len(w)
               PROVE  /\ Level(w[k]) = c /\ Rank(w[k]) = Rank(<<kind, 1>>)
                      /\ w[k][1] \notin Undestroyable
    OBVIOUS
  <2>1. k \in 1..n /\ w[k] = <<kind, k>>
    BY <1>2, <1>6
  <2> QED
    BY <1>5, <2>1
<1>9. \A i \in 1..n : Reaches(w, <<kind, i>>)
  BY <1>2, <1>6 DEF Reaches
<1>10. DestroysInOrder(w, c)
  BY <1>4, <1>7, <1>8 DEF DestroysInOrder
<1> QED
  BY <1>8, <1>9, <1>10

\* No handle at all.
LEMMA EmptyInOrder ==
  ASSUME NEW c
  PROVE  DestroysInOrder(<<>>, c) /\ Len(<<>>) = 0
BY EmptySeq DEF DestroysInOrder

\* Two handles, of different kinds or the same.
LEMMA PairInOrder ==
  ASSUME NEW a \in Kinds \ Undestroyable, NEW b \in Kinds \ Undestroyable,
         NEW c, c = Level(<<a, 1>>), c = Level(<<b, 1>>), Rank(<<a, 1>>) <= Rank(<<b, 1>>),
         NEW w, w = One(a) \o One(b)
  PROVE  /\ DestroysInOrder(w, c)
         /\ Reaches(w, <<a, 1>>) /\ Reaches(w, <<b, 1>>)
         /\ \A k \in 1..Len(w) : Rank(w[k]) <= Rank(<<b, 1>>)
<1>1. w \in Seq(Anything) /\ Len(w) = 2 /\ w[1] = <<a, 1>> /\ w[2] = <<b, 1>>
  BY TwoAt
<1>2. \A k \in 1..Len(w) : w[k] \in {<<a, 1>>, <<b, 1>>}
  BY ONLY <1>1
<1>3. <<a, 1>> \in Objects /\ <<b, 1>> \in Objects
  BY ImagesAssumption DEF Objects
<1>4. w \in Seq(Objects)
  <2>1. w \in [1..Len(w) -> Anything] /\ Len(w) \in Nat
    BY ONLY <1>1, LenProperties
  <2>2. w \in [1..Len(w) -> Objects]
    BY ONLY <1>2, <1>3, <2>1
  <2>3. w \in UNION {[1..n -> Objects] : n \in Nat}
    BY ONLY <2>1, <2>2
  <2> QED
    BY ONLY <2>3, SeqDef
<1>5. Rank(<<a, 1>>) \in Nat /\ Rank(<<b, 1>>) \in Nat
  BY DEF Rank
<1>6. \A j, k \in 1..Len(w) : j <= k => Rank(w[j]) <= Rank(w[k])
  BY ONLY <1>1, <1>5, Rank(<<a, 1>>) <= Rank(<<b, 1>>)
<1>7. \A k \in 1..Len(w) : Rank(w[k]) <= Rank(<<b, 1>>)
  BY ONLY <1>1, <1>5, Rank(<<a, 1>>) <= Rank(<<b, 1>>)
<1>8. \A k \in 1..Len(w) : Level(w[k]) = c /\ w[k][1] \notin Undestroyable
  <2>1. a \notin Undestroyable /\ b \notin Undestroyable
    OBVIOUS
  <2>2. <<a, 1>>[1] = a /\ <<b, 1>>[1] = b
    OBVIOUS
  <2> QED
    BY ONLY <1>2, <2>1, <2>2, c = Level(<<a, 1>>), c = Level(<<b, 1>>), Zenon
<1>9. Reaches(w, <<a, 1>>) /\ Reaches(w, <<b, 1>>)
  BY <1>1 DEF Reaches
<1>10. DestroysInOrder(w, c)
  BY <1>4, <1>6, <1>8 DEF DestroysInOrder
<1> QED
  BY <1>7, <1>9, <1>10

\* What HorizonRenderer::DestroyAll looks at: everything the renderer may have
\* but the buffer of a mapping that was not made.
LEMMA RendererDestroys ==
  ASSUME framebufferCount \in 0..KMaxImages
  PROVE  /\ DestroysInOrder(DestroyAll, 4)
         /\ \A o \in Whole(4, framebufferCount) :
              /\ o[1] \notin Undestroyable
              /\ <<"mapping", 1>> \in held \/ o[1] \notin {"mapping", "buffer"}
              => Reaches(DestroyAll, o)
         /\ <<"mapping", 1>> \notin held => \A k \in 1..Len(DestroyAll) : Rank(DestroyAll[k]) >= 3
<1> DEFINE vertices == VertexBufferDestroys
           frames == Many("framebuffer", framebufferCount)
           rest == << <<"pipeline", 2>>, <<"pipeline", 1>>, <<"pipelineCache", 1>>,
                      <<"pipelineLayout", 1>>, <<"renderPass", 1>> >>
           front == vertices \o frames
           all == front \o rest
<1>0. DestroyAll = all
  BY DEF DestroyAll
<1>1. /\ DestroysInOrder(vertices, 4)
      /\ \A k \in 1..Len(vertices) : Rank(vertices[k]) <= 2
      /\ <<"mapping", 1>> \in held =>
           Reaches(vertices, <<"mapping", 1>>) /\ Reaches(vertices, <<"buffer", 1>>)
      /\ <<"mapping", 1>> \notin held => Len(vertices) = 0
  <2>1. CASE <<"mapping", 1>> \in held
    <3>1. vertices = One("mapping") \o One("buffer")
      BY <2>1 DEF VertexBufferDestroys
    <3>2. /\ "mapping" \in Kinds \ Undestroyable /\ "buffer" \in Kinds \ Undestroyable
          /\ 4 = Level(<<"mapping", 1>>) /\ 4 = Level(<<"buffer", 1>>)
          /\ Rank(<<"mapping", 1>>) <= Rank(<<"buffer", 1>>) /\ Rank(<<"buffer", 1>>) = 2
      BY KindsAre DEF Undestroyable, Level, Rank
    <3> HIDE DEF vertices
    <3>3. /\ DestroysInOrder(vertices, 4)
          /\ Reaches(vertices, <<"mapping", 1>>) /\ Reaches(vertices, <<"buffer", 1>>)
          /\ \A k \in 1..Len(vertices) : Rank(vertices[k]) <= Rank(<<"buffer", 1>>)
      BY <3>1, <3>2, PairInOrder
    <3> QED
      BY <2>1, <3>2, <3>3
  <2>2. CASE <<"mapping", 1>> \notin held
    <3>1. vertices = <<>>
      BY <2>2 DEF VertexBufferDestroys
    <3> QED
      BY <2>2, <3>1, EmptyInOrder
  <2> QED
    BY <2>1, <2>2
<1>2. /\ DestroysInOrder(frames, 4)
      /\ \A i \in 1..framebufferCount : Reaches(frames, <<"framebuffer", i>>)
      /\ \A k \in 1..Len(frames) : Rank(frames[k]) = 3
  <2>1. /\ "framebuffer" \in Kinds \ Undestroyable
        /\ 4 = Level(<<"framebuffer", 1>>) /\ Rank(<<"framebuffer", 1>>) = 3
    BY KindsAre DEF Undestroyable, Level, Rank
  <2>2. framebufferCount \in 0..(KMaxImages + MaxDriverImages + 2)
    BY ImagesAssumption
  <2> QED
    BY <2>1, <2>2, ManyInOrder
<1>3. /\ DestroysInOrder(rest, 4)
      /\ \A o \in {<<"pipeline", 2>>, <<"pipeline", 1>>, <<"pipelineCache", 1>>,
                   <<"pipelineLayout", 1>>, <<"renderPass", 1>>} : Reaches(rest, o)
      /\ \A k \in 1..Len(rest) : Rank(rest[k]) >= 4
  <2>1. Len(rest) = 5
    OBVIOUS
  <2>2. {<<"pipeline", 2>>, <<"pipeline", 1>>, <<"pipelineCache", 1>>,
         <<"pipelineLayout", 1>>, <<"renderPass", 1>>} \subseteq Objects
    BY KindsAre, ImagesAssumption DEF Objects
  <2>3. rest \in Seq(Objects)
    BY <2>2
  <2>4. \A k \in 1..5 : /\ Level(rest[k]) = 4 /\ rest[k][1] \notin Undestroyable
                        /\ Rank(rest[k]) = IF k <= 2 THEN 4 ELSE 6
    BY DEF Level, Undestroyable, Rank
  <2>5. rest[1] = <<"pipeline", 2>> /\ rest[2] = <<"pipeline", 1>>
        /\ rest[3] = <<"pipelineCache", 1>> /\ rest[4] = <<"pipelineLayout", 1>>
        /\ rest[5] = <<"renderPass", 1>>
    OBVIOUS
  <2> HIDE DEF rest
  <2>6. DestroysInOrder(rest, 4)
    BY <2>1, <2>3, <2>4 DEF DestroysInOrder
  <2>7. /\ Reaches(rest, <<"pipeline", 2>>) /\ Reaches(rest, <<"pipeline", 1>>)
        /\ Reaches(rest, <<"pipelineCache", 1>>) /\ Reaches(rest, <<"pipelineLayout", 1>>)
        /\ Reaches(rest, <<"renderPass", 1>>)
    BY <2>1, <2>5 DEF Reaches
  <2> QED
    BY <2>1, <2>4, <2>6, <2>7
<1> HIDE DEF vertices, frames, rest
<1>4. DestroysInOrder(front, 4) /\ InTurn(front, vertices, frames)
  <2>1. \A j \in 1..Len(vertices), k \in 1..Len(frames) : Rank(vertices[j]) <= Rank(frames[k])
    <3> SUFFICES ASSUME NEW j \in 1..Len(vertices), NEW k \in 1..Len(frames)
                 PROVE  Rank(vertices[j]) <= Rank(frames[k])
      OBVIOUS
    <3>1. Rank(vertices[j]) <= 2 /\ Rank(frames[k]) = 3 /\ Rank(vertices[j]) \in Nat
      BY <1>1, <1>2 DEF Rank
    <3> QED
      BY <3>1
  <2> QED
    BY <1>1, <1>2, <2>1, InOrderJoined, Zenon
<1> HIDE DEF front
<1>5. \A k \in 1..Len(front) : /\ Rank(front[k]) <= 3
                               /\ <<"mapping", 1>> \notin held => Rank(front[k]) = 3
  <2> SUFFICES ASSUME NEW k \in 1..Len(front)
               PROVE  /\ Rank(front[k]) <= 3
                      /\ <<"mapping", 1>> \notin held => Rank(front[k]) = 3
    OBVIOUS
  <2>1. CASE \E j \in 1..Len(vertices) : front[k] = vertices[j]
    <3>1. Rank(front[k]) <= 2 /\ Rank(front[k]) \in Nat
      BY <1>1, <2>1 DEF Rank
    <3>2. <<"mapping", 1>> \in held
      BY <1>1, <2>1
    <3> QED
      BY <3>1, <3>2
  <2>2. CASE \E j \in 1..Len(frames) : front[k] = frames[j]
    BY <1>2, <2>2
  <2> QED
    BY <1>4, <2>1, <2>2 DEF InTurn
<1>6. DestroysInOrder(all, 4) /\ InTurn(all, front, rest)
  <2>1. \A j \in 1..Len(front), k \in 1..Len(rest) : Rank(front[j]) <= Rank(rest[k])
    <3> SUFFICES ASSUME NEW j \in 1..Len(front), NEW k \in 1..Len(rest)
                 PROVE  Rank(front[j]) <= Rank(rest[k])
      OBVIOUS
    <3>1. /\ Rank(front[j]) <= 3 /\ Rank(rest[k]) >= 4
          /\ Rank(front[j]) \in Nat /\ Rank(rest[k]) \in Nat
      BY <1>3, <1>5 DEF Rank
    <3> QED
      BY <3>1
  <2> QED
    BY <1>3, <1>4, <2>1, InOrderJoined, Zenon
<1> HIDE DEF all
<1>7. ASSUME NEW o \in Whole(4, framebufferCount), o[1] \notin Undestroyable,
             <<"mapping", 1>> \in held \/ o[1] \notin {"mapping", "buffer"}
      PROVE  Reaches(DestroyAll, o)
  <2>1. /\ o[1] \in {"renderPass", "pipelineLayout", "pipelineCache", "pipeline",
                     "framebuffer", "buffer", "mapping"}
        /\ o = <<o[1], o[2]>>
        /\ o[2] \in 1..Most(o[1], framebufferCount)
    BY <1>7, KindsOfLevels, Pairs DEF Whole, Undestroyable
  <2>2. CASE o[1] \in {"mapping", "buffer"}
    <3>1. o[2] = 1
      BY <2>1, <2>2 DEF Most
    <3> QED
      BY <1>0, <1>1, <1>4, <1>6, <1>7, <2>1, <2>2, <3>1 DEF InTurn
  <2>3. CASE o[1] = "framebuffer"
    <3>1. o[2] \in 1..framebufferCount
      BY <2>1, <2>3 DEF Most
    <3> QED
      BY <1>0, <1>2, <1>4, <1>6, <2>1, <2>3, <3>1 DEF InTurn
  <2>4. CASE o[1] \in {"renderPass", "pipelineLayout", "pipelineCache", "pipeline"}
    <3>1. o[2] \in {1, 2} /\ (o[1] # "pipeline" => o[2] = 1)
      BY <2>1, <2>4 DEF Most
    <3>2. o \in {<<"pipeline", 2>>, <<"pipeline", 1>>, <<"pipelineCache", 1>>,
                 <<"pipelineLayout", 1>>, <<"renderPass", 1>>}
      BY <2>1, <2>4, <3>1
    <3> QED
      BY <1>0, <1>3, <1>6, <3>2 DEF InTurn
  <2> QED
    BY <2>1, <2>2, <2>3, <2>4
<1>8. ASSUME NEW k \in 1..Len(all), <<"mapping", 1>> \notin held PROVE Rank(all[k]) >= 3
  <2>1. CASE \E j \in 1..Len(front) : all[k] = front[j]
    BY <1>5, <1>8, <2>1
  <2>2. CASE \E j \in 1..Len(rest) : all[k] = rest[j]
    <3>1. Rank(all[k]) >= 4 /\ Rank(all[k]) \in Nat
      BY <1>3, <2>2 DEF Rank
    <3> QED
      BY <3>1
  <2> QED
    BY <1>6, <2>1, <2>2 DEF InTurn
<1>9. DestroysInOrder(DestroyAll, 4)
  BY <1>0, <1>6
<1>10. <<"mapping", 1>> \notin held => \A k \in 1..Len(DestroyAll) : Rank(DestroyAll[k]) >= 3
  BY <1>0, <1>8
<1>11. \A o \in Whole(4, framebufferCount) :
         o[1] \notin Undestroyable
           /\ (<<"mapping", 1>> \in held \/ o[1] \notin {"mapping", "buffer"})
         => Reaches(DestroyAll, o)
  BY <1>7
<1> QED
  BY <1>9, <1>10, <1>11

\* What a failing HorizonRenderer::Init looks at, before there is a mapping:
\* everything it may have, the buffer if there are framebuffers already.
LEMMA RendererUndone ==
  ASSUME framebufferCount \in 0..KMaxImages, imageCount \in 0..MaxDriverImages,
         <<"mapping", 1>> \notin held
  PROVE  /\ DestroysInOrder(UndoRenderer, 4)
         /\ \A o \in Whole(4, imageCount) :
              /\ o[1] \notin Undestroyable /\ o[1] # "mapping"
              /\ o[1] = "buffer" => framebufferCount # 0
              /\ o[1] = "framebuffer" => framebufferCount \in {0, imageCount}
              => Reaches(UndoRenderer, o)
<1> DEFINE first == IF framebufferCount = 0 THEN Many("framebuffer", imageCount)
                    ELSE Many("buffer", 1)
           all == first \o DestroyAll
<1>0. UndoRenderer = all
  BY DEF UndoRenderer, One
<1>1. /\ DestroysInOrder(first, 4) /\ \A k \in 1..Len(first) : Rank(first[k]) \in {2, 3}
      /\ framebufferCount = 0 => \A i \in 1..imageCount : Reaches(first, <<"framebuffer", i>>)
      /\ framebufferCount # 0 => Reaches(first, <<"buffer", 1>>)
  <2>1. /\ "framebuffer" \in Kinds \ Undestroyable /\ "buffer" \in Kinds \ Undestroyable
        /\ 4 = Level(<<"framebuffer", 1>>) /\ 4 = Level(<<"buffer", 1>>)
        /\ Rank(<<"framebuffer", 1>>) = 3 /\ Rank(<<"buffer", 1>>) = 2
    BY KindsAre DEF Undestroyable, Level, Rank
  <2>2. /\ imageCount \in 0..(KMaxImages + MaxDriverImages + 2)
        /\ 1 \in 0..(KMaxImages + MaxDriverImages + 2) /\ 1 \in 1..1
    BY ImagesAssumption
  <2>3. CASE framebufferCount = 0
    <3>1. first = Many("framebuffer", imageCount)
      BY <2>3
    <3> HIDE DEF first
    <3> QED
      BY <2>1, <2>2, <2>3, <3>1, ManyInOrder
  <2>4. CASE framebufferCount # 0
    <3>1. first = Many("buffer", 1)
      BY <2>4
    <3> HIDE DEF first
    <3> QED
      BY <2>1, <2>2, <2>4, <3>1, ManyInOrder
  <2> QED
    BY <2>3, <2>4
<1>2. /\ DestroysInOrder(DestroyAll, 4)
      /\ \A k \in 1..Len(DestroyAll) : Rank(DestroyAll[k]) >= 3
  BY RendererDestroys
<1>3. ASSUME NEW o \in Whole(4, framebufferCount), o[1] \notin Undestroyable,
             o[1] \notin {"mapping", "buffer"}
      PROVE  Reaches(DestroyAll, o)
  BY <1>3, RendererDestroys
<1> HIDE DEF first
<1>4. \A j \in 1..Len(first), k \in 1..Len(DestroyAll) : Rank(first[j]) <= Rank(DestroyAll[k])
  <2> SUFFICES ASSUME NEW j \in 1..Len(first), NEW k \in 1..Len(DestroyAll)
               PROVE  Rank(first[j]) <= Rank(DestroyAll[k])
    OBVIOUS
  <2>1. Rank(first[j]) \in {2, 3} /\ Rank(DestroyAll[k]) >= 3 /\ Rank(DestroyAll[k]) \in Nat
    BY <1>1, <1>2 DEF Rank
  <2> QED
    BY <2>1
<1>5. DestroysInOrder(all, 4) /\ InTurn(all, first, DestroyAll)
  BY <1>1, <1>2, <1>4, InOrderJoined, Zenon
<1> HIDE DEF all
<1>6. ASSUME NEW o \in Whole(4, imageCount),
             o[1] \notin Undestroyable, o[1] # "mapping",
             o[1] = "buffer" => framebufferCount # 0,
             o[1] = "framebuffer" => framebufferCount \in {0, imageCount}
      PROVE  Reaches(all, o)
  <2>1. o = <<o[1], o[2]>> /\ o \in Anything /\ Level(o) = 4
        /\ o[2] \in 1..Most(o[1], imageCount)
    BY Pairs DEF Whole
  <2>2. CASE o[1] = "buffer"
    <3>1. o[2] = 1
      BY <2>1, <2>2 DEF Most
    <3>2. o = <<"buffer", 1>>
      BY <2>1, <2>2, <3>1
    <3> QED
      BY <1>1, <1>5, <1>6, <2>2, <3>2 DEF InTurn
  <2>3. CASE o[1] = "framebuffer" /\ framebufferCount = 0
    <3>1. o[2] \in 1..imageCount
      BY <2>1, <2>3 DEF Most
    <3>2. Reaches(first, o)
      BY <1>1, <2>1, <2>3, <3>1
    <3> QED
      BY <1>5, <3>2 DEF InTurn
  <2>4. CASE o[1] # "buffer" /\ ~(o[1] = "framebuffer" /\ framebufferCount = 0)
    <3>1. Most(o[1], imageCount) = Most(o[1], framebufferCount)
      BY <1>6, <2>1, <2>4, KindsOfLevels DEF Most
    <3>2. o \in Whole(4, framebufferCount)
      BY <2>1, <3>1 DEF Whole
    <3>3. Reaches(DestroyAll, o)
      BY <1>3, <1>6, <2>4, <3>2
    <3> QED
      BY <1>5, <3>3 DEF InTurn
  <2> QED
    BY <2>2, <2>3, <2>4
<1> QED
  BY <1>0, <1>5, <1>6
-----------------------------------------------------------------------------
Initialising == phase \in {"init", "undo"}
Cleaning == phase \in {"undo", "destroying"}

Typed ==
  /\ phase \in {"init", "undo", "loop", "shutdown", "destroying", "returned"}
  /\ at \in 1..5 /\ done \in 0..Len(MadeBy(at, imageCount))
  /\ imageCount \in 0..MaxDriverImages /\ framebufferCount \in 0..KMaxImages
  /\ ready \subseteq {Components[k] : k \in DOMAIN Components}
  /\ exitCode \in {"none", "EXIT_SUCCESS", "EXIT_FAILURE"}

\* The counts of images and framebuffers, known once they are made.
Counted ==
  /\ Initialising =>
       /\ at < 3 \/ (at = 3 /\ done = 0) => imageCount = 0
       /\ (at = 3 /\ done > 0) \/ at > 3 => imageCount > 0
       /\ (at = 3 /\ done > 1) \/ at > 3 => imageCount <= KMaxImages
       /\ framebufferCount =
            IF at = 5 \/ (at = 4 /\ done >= 5 + imageCount) THEN imageCount ELSE 0
  /\ ~Initialising => done = 0
  /\ "swapchain" \in ready => imageCount \in 1..KMaxImages
  /\ "renderer" \in ready => framebufferCount = imageCount

\* The components before the one at work are initialised; the loop has all.
Standing ==
  /\ Initialising => \A k \in 1..5 : Components[k] \in ready <=> k < at
  /\ phase = "loop" => at = 5 /\ \A k \in 1..5 : Components[k] \in ready
  /\ phase = "returned" => at = 1 /\ ready = {}
  /\ \A k \in 1..5 : Components[k] \in ready => k <= at

\* An initialised component has all its objects until its Shutdown runs.
Complete ==
  \A k \in 1..5 :
    Components[k] \in ready /\ ~(phase = "destroying" /\ k = at) =>
      Whole(k, imageCount) \subseteq held

\* Handles are kept by initialised components and the one being initialised,
\* which holds what its Init has made so far.
Kept ==
  /\ \A o \in held : Components[Level(o)] \in ready \/ (Initialising /\ Level(o) = at)
  /\ Initialising => \A o \in held : Level(o) = at => Place(o, imageCount) <= done
  /\ phase = "init" =>
       \A o \in Whole(at, imageCount) : Place(o, imageCount) <= done => o \in held

\* What is live without a handle could not be destroyed.
Left ==
  /\ \A o \in live : o \in Whole(Level(o), imageCount)
  /\ \A o \in live : o \in held \/ o[1] \in Undestroyable

\* A clean-up still looks at every handle of its component that can be
\* destroyed, at children before their parents.
Planned ==
  /\ ~Cleaning => todo = <<>>
  /\ DestroysInOrder(todo, at)
  /\ Cleaning =>
       \A o \in held : Level(o) = at /\ o[1] \notin Undestroyable => Reaches(todo, o)

IInv ==
  /\ Typed /\ Counted /\ Standing /\ Complete /\ Kept /\ Left /\ Planned
  /\ HandlesLive /\ ParentsOutlive /\ NothingLeaks
-----------------------------------------------------------------------------
\* The components in order.
LEMMA ComponentsAre ==
  /\ Len(Components) = 5 /\ DOMAIN Components = 1..5
  /\ Components[1] = "context" /\ Components[2] = "display" /\ Components[3] = "swapchain"
  /\ Components[4] = "renderer" /\ Components[5] = "sync"
BY DEF Components

\* Two places have two components.
LEMMA ComponentsDiffer ==
  ASSUME NEW j \in 1..5, NEW k \in 1..5, Components[j] = Components[k]
  PROVE  j = k
<1>1. (j = 1 \/ j = 2 \/ j = 3 \/ j = 4 \/ j = 5) /\ (k = 1 \/ k = 2 \/ k = 3 \/ k = 4 \/ k = 5)
  OBVIOUS
<1> QED
  BY <1>1, ComponentsAre

\* What a component creates, and all its objects.
LEMMA CreatesAre ==
  ASSUME imageCount \in Nat, NEW c \in 1..5
  PROVE  /\ Creates(Components[c]) = MadeBy(c, imageCount)
         /\ ObjectsOf(Components[c]) = Whole(c, imageCount)
<1>1. Creates(Components[c]) = MadeBy(c, imageCount)
  BY ComponentsAre DEF Creates, MadeBy
<1>2. MadeBy(c, imageCount) \in Seq(Anything)
  BY PlacesIn
<1>3. DOMAIN MadeBy(c, imageCount) = 1..Len(MadeBy(c, imageCount))
  BY <1>2, LenProperties
<1>4. ObjectsOf(Components[c])
        = {MadeBy(c, imageCount)[k] : k \in 1..Len(MadeBy(c, imageCount))}
  BY <1>1, <1>3 DEF ObjectsOf
<1> QED
  BY <1>1, <1>4, MadeIsWhole

\* A held object is one of its component's.
LEMMA HeldIsWhole ==
  ASSUME Left, HandlesLive, NEW o \in held
  PROVE  /\ o \in Anything /\ Level(o) \in 1..5 /\ o = <<o[1], o[2]>>
         /\ o \in Whole(Level(o), imageCount) /\ o[2] \in 1..Most(o[1], imageCount)
<1>1. o \in Whole(Level(o), imageCount)
  BY DEF Left, HandlesLive
<1>2. o \in Anything /\ o[2] \in 1..Most(o[1], imageCount)
  BY <1>1 DEF Whole
<1> QED
  BY <1>1, <1>2, KindsOfLevels, Pairs

\* A failing Init looks at every handle its component has, in order.
LEMMA UndoInOrder ==
  ASSUME Typed, Counted, Kept, Left, HandlesLive,
         phase = "init", done < Len(MadeBy(at, imageCount))
  PROVE  /\ DestroysInOrder(Undo(Current), at)
         /\ \A o \in held : Level(o) = at /\ o[1] \notin Undestroyable =>
              Reaches(Undo(Current), o)
<1>1. /\ at \in 1..5 /\ done \in Nat /\ imageCount \in 0..MaxDriverImages
      /\ framebufferCount \in 0..KMaxImages /\ imageCount \in Nat
  <2>1. Len(MadeBy(at, imageCount)) \in Nat
    BY PlacesIn, ImagesAssumption DEF Typed
  <2> QED
    BY <2>1, ImagesAssumption DEF Typed
<1>2. ASSUME NEW o \in held, Level(o) = at
      PROVE  /\ o = <<o[1], o[2]>> /\ o \in Anything /\ o \in Whole(at, imageCount)
             /\ o[2] \in 1..Most(o[1], imageCount)
             /\ Place(o, imageCount) <= done
  BY <1>2, HeldIsWhole DEF Kept, Initialising
<1>3. Current = Components[at]
  BY DEF Current
<1>4. CASE at = 1
  <2>1. Undo(Current) = Many("instance", 1) /\ done < 2
    BY <1>1, <1>3, <1>4, ComponentsAre, PlacesIn DEF HowMany, Undo, One
  <2>2. /\ "instance" \in Kinds \ Undestroyable /\ 1 = Level(<<"instance", 1>>)
        /\ 1 \in 0..(KMaxImages + MaxDriverImages + 2) /\ 1 \in 1..1
    BY KindsAre, ImagesAssumption DEF Undestroyable, Level
  <2>3. DestroysInOrder(Undo(Current), 1) /\ Reaches(Undo(Current), <<"instance", 1>>)
    BY <2>1, <2>2, ManyInOrder
  <2>4. ASSUME NEW o \in held, Level(o) = at PROVE o = <<"instance", 1>>
    <3>1. o[1] \in {"instance", "device"}
      BY <1>2, <1>4, <2>4, KindsOfLevels
    <3>2. Place(o, imageCount) = IF o[1] = "device" THEN 2 ELSE 1
      BY <3>1 DEF Place
    <3>3. o[1] = "instance"
      BY <1>1, <1>2, <2>1, <2>4, <3>1, <3>2
    <3>4. o[2] = 1
      BY <1>2, <2>4, <3>3 DEF Most
    <3> QED
      BY <1>2, <2>4, <3>3, <3>4
  <2> QED
    BY <1>4, <2>3, <2>4
<1>5. CASE at = 2
  <2>1. Undo(Current) = <<>> /\ done < 1
    BY <1>1, <1>3, <1>5, ComponentsAre, PlacesIn DEF HowMany, Undo
  <2>2. ASSUME NEW o \in held, Level(o) = at PROVE FALSE
    <3>1. o[1] = "surface"
      BY <1>2, <1>5, <2>2, KindsOfLevels
    <3>2. Place(o, imageCount) = 1
      BY <3>1 DEF Place
    <3> QED
      BY <1>1, <1>2, <2>1, <2>2, <3>2
  <2> QED
    BY <2>1, <2>2, EmptyInOrder
<1>6. CASE at = 3
  <2>1. Undo(Current) = Many("imageView", imageCount)
    BY <1>3, <1>6, ComponentsAre DEF Undo
  <2>2. /\ "imageView" \in Kinds \ Undestroyable /\ 3 = Level(<<"imageView", 1>>)
        /\ imageCount \in 0..(KMaxImages + MaxDriverImages + 2)
    BY <1>1, KindsAre, ImagesAssumption DEF Undestroyable, Level
  <2>3. /\ DestroysInOrder(Undo(Current), 3)
        /\ \A i \in 1..imageCount : Reaches(Undo(Current), <<"imageView", i>>)
    BY <2>1, <2>2, ManyInOrder
  <2>4. ASSUME NEW o \in held, Level(o) = at, o[1] \notin Undestroyable
        PROVE  o[1] = "imageView" /\ o[2] \in 1..imageCount /\ o = <<o[1], o[2]>>
    <3>1. o[1] = "imageView"
      BY <1>2, <1>6, <2>4, KindsOfLevels DEF Undestroyable
    <3> QED
      BY <1>2, <2>4, <3>1 DEF Most
  <2> QED
    BY <1>6, <2>3, <2>4
<1>7. CASE at = 4
  <2>1. Undo(Current) = UndoRenderer /\ done < 10 + imageCount
    BY <1>1, <1>3, <1>7, ComponentsAre, PlacesIn DEF HowMany, Undo
  <2>2. <<"mapping", 1>> \notin held
    <3>1. Place(<<"mapping", 1>>, imageCount) = 10 + imageCount /\ Level(<<"mapping", 1>>) = 4
      BY DEF Place, Level
    <3> QED
      BY <1>1, <1>2, <1>7, <2>1, <3>1
  <2>3. /\ imageCount > 0
        /\ framebufferCount = IF done >= 5 + imageCount THEN imageCount ELSE 0
    BY <1>7 DEF Counted, Initialising
  <2>4. ASSUME NEW o \in held, Level(o) = at, o[1] \notin Undestroyable
        PROVE  Reaches(UndoRenderer, o)
    <3>1. o[1] # "mapping"
      <4>1. o[1] = "mapping" => o[2] = 1
        BY <1>2, <2>4 DEF Most
      <4> QED
        BY <1>2, <2>2, <2>4, <4>1
    <3>2. o[1] = "buffer" => framebufferCount # 0
      <4>1. o[1] = "buffer" => Place(o, imageCount) = 8 + imageCount
        BY DEF Place
      <4> QED
        BY <1>1, <1>2, <2>3, <2>4, <4>1
    <3>3. framebufferCount \in {0, imageCount}
      BY <2>3
    <3>4. o \in Whole(4, imageCount)
      BY <1>2, <1>7, <2>4
    <3> QED
      BY <1>1, <2>2, <2>4, <3>1, <3>2, <3>3, <3>4, RendererUndone
  <2>5. DestroysInOrder(UndoRenderer, 4)
    BY <1>1, <2>2, RendererUndone
  <2> QED
    BY <1>7, <2>1, <2>4, <2>5
<1>8. CASE at = 5
  <2> DEFINE both == << <<"semaphore", 2>>, <<"semaphore", 1>> >>
  <2>0. Undo(Current) = both
    BY <1>3, <1>8, ComponentsAre DEF Undo
  <2>1. Undo(Current) = both /\ done < 3
    <3>1. Len(MadeBy(at, imageCount)) = 3
      BY <1>1, <1>8, PlacesIn DEF HowMany
    <3> QED
      BY <2>0, <3>1
  <2>2. Len(both) = 2 /\ both[1] = <<"semaphore", 2>> /\ both[2] = <<"semaphore", 1>>
    OBVIOUS
  <2>3. both \in Seq(Objects)
    BY KindsAre, ImagesAssumption DEF Objects
  <2> HIDE DEF both
  <2>4. \A k \in 1..2 : /\ Level(both[k]) = 5 /\ both[k][1] \notin Undestroyable
                        /\ Rank(both[k]) = 6
    BY <2>2 DEF Level, Undestroyable, Rank
  <2>5. DestroysInOrder(both, 5)
    BY <2>2, <2>3, <2>4 DEF DestroysInOrder
  <2>6. ASSUME NEW o \in held, Level(o) = at PROVE Reaches(both, o)
    <3>1. o[1] \in {"semaphore", "fence"}
      BY <1>2, <1>8, <2>6, KindsOfLevels
    <3>2. Place(o, imageCount) <= 2
      <4>1. Place(o, imageCount) \in Nat
        BY <1>2, <2>6, <3>1, Pairs DEF Place
      <4> QED
        BY <1>1, <1>2, <2>1, <2>6, <4>1
    <3>3. o[1] = "semaphore"
      BY <3>1, <3>2 DEF Place
    <3>4. o[2] \in {1, 2}
      BY <1>2, <2>6, <3>3 DEF Most
    <3>5. o \in {<<"semaphore", 1>>, <<"semaphore", 2>>}
      BY <1>2, <2>6, <3>3, <3>4
    <3> QED
      BY <2>2, <3>5 DEF Reaches
  <2> QED
    BY <1>8, <2>1, <2>5, <2>6
<1> QED
  BY <1>1, <1>4, <1>5, <1>6, <1>7, <1>8

\* So does a Shutdown.
LEMMA ShutdownInOrder ==
  ASSUME Typed, Counted, Complete, Kept, Left, HandlesLive, phase = "shutdown"
  PROVE  /\ DestroysInOrder(Shutdown(Current), at)
         /\ \A o \in held : Level(o) = at /\ o[1] \notin Undestroyable =>
              Reaches(Shutdown(Current), o)
<1>1. /\ at \in 1..5 /\ imageCount \in 0..MaxDriverImages
      /\ framebufferCount \in 0..KMaxImages /\ imageCount \in Nat
  BY ImagesAssumption DEF Typed
<1>2. ASSUME NEW o \in held, Level(o) = at
      PROVE  /\ o = <<o[1], o[2]>> /\ o \in Anything /\ o \in Whole(at, imageCount)
             /\ o[2] \in 1..Most(o[1], imageCount)
             /\ Components[at] \in ready
  BY <1>2, HeldIsWhole DEF Kept, Initialising
<1>3. Current = Components[at]
  BY DEF Current
<1>4. CASE at = 4
  <2>1. Shutdown(Current) = DestroyAll
    BY <1>3, <1>4, ComponentsAre DEF Shutdown
  <2>2. ASSUME NEW o \in held, Level(o) = at, o[1] \notin Undestroyable
        PROVE  Reaches(DestroyAll, o)
    <3>1. framebufferCount = imageCount
      BY <1>2, <1>4, <2>2, ComponentsAre DEF Counted
    <3>2. <<"mapping", 1>> \in Whole(4, imageCount)
      BY KindsAre DEF Whole, Anything, Level, Most
    <3>3. <<"mapping", 1>> \in held
      BY <1>2, <1>4, <2>2, <3>2 DEF Complete
    <3> QED
      BY <1>1, <1>2, <1>4, <2>2, <3>1, <3>3, RendererDestroys
  <2>3. DestroysInOrder(DestroyAll, 4)
    BY <1>1, RendererDestroys
  <2> QED
    BY <1>4, <2>1, <2>2, <2>3
<1>5. CASE at # 4 /\ Components[at] \notin ready
  <2>1. Components[at] # "renderer"
    BY <1>1, <1>5, ComponentsAre, ComponentsDiffer
  <2>2. Shutdown(Current) = <<>>
    BY <1>3, <1>5, <2>1 DEF Shutdown
  <2> QED
    BY <1>2, <1>5, <2>2, EmptyInOrder
<1>6. CASE at = 1 /\ Components[at] \in ready
  <2>1. Shutdown(Current) = One("device") \o One("instance")
    BY <1>3, <1>6, ComponentsAre DEF Shutdown, ContextDestroys
  <2>2. /\ "device" \in Kinds \ Undestroyable /\ "instance" \in Kinds \ Undestroyable
        /\ 1 = Level(<<"device", 1>>) /\ 1 = Level(<<"instance", 1>>)
        /\ Rank(<<"device", 1>>) <= Rank(<<"instance", 1>>)
    BY KindsAre DEF Undestroyable, Level, Rank
  <2>3. /\ DestroysInOrder(Shutdown(Current), 1)
        /\ Reaches(Shutdown(Current), <<"device", 1>>)
        /\ Reaches(Shutdown(Current), <<"instance", 1>>)
    BY <2>1, <2>2, PairInOrder
  <2>4. ASSUME NEW o \in held, Level(o) = at PROVE o \in {<<"device", 1>>, <<"instance", 1>>}
    <3>1. o[1] \in {"instance", "device"}
      BY <1>2, <1>6, <2>4, KindsOfLevels
    <3>2. o[2] = 1
      BY <1>2, <2>4, <3>1 DEF Most
    <3> QED
      BY <1>2, <2>4, <3>1, <3>2
  <2> QED
    BY <1>6, <2>3, <2>4
<1>7. CASE at = 2 /\ Components[at] \in ready
  <2>1. Shutdown(Current) = Many("surface", 1)
    BY <1>3, <1>7, ComponentsAre DEF Shutdown, DisplayDestroys, One
  <2>2. /\ "surface" \in Kinds \ Undestroyable /\ 2 = Level(<<"surface", 1>>)
        /\ 1 \in 0..(KMaxImages + MaxDriverImages + 2) /\ 1 \in 1..1
    BY KindsAre, ImagesAssumption DEF Undestroyable, Level
  <2>3. DestroysInOrder(Shutdown(Current), 2) /\ Reaches(Shutdown(Current), <<"surface", 1>>)
    BY <2>1, <2>2, ManyInOrder
  <2>4. ASSUME NEW o \in held, Level(o) = at PROVE o = <<"surface", 1>>
    <3>1. o[1] = "surface"
      BY <1>2, <1>7, <2>4, KindsOfLevels
    <3>2. o[2] = 1
      BY <1>2, <2>4, <3>1 DEF Most
    <3> QED
      BY <1>2, <2>4, <3>1, <3>2
  <2> QED
    BY <1>7, <2>3, <2>4
<1>8. CASE at = 3 /\ Components[at] \in ready
  <2>1. Shutdown(Current) = Many("imageView", imageCount)
    BY <1>3, <1>8, ComponentsAre DEF Shutdown, SwapchainDestroys
  <2>2. /\ "imageView" \in Kinds \ Undestroyable /\ 3 = Level(<<"imageView", 1>>)
        /\ imageCount \in 0..(KMaxImages + MaxDriverImages + 2)
    BY <1>1, KindsAre, ImagesAssumption DEF Undestroyable, Level
  <2>3. /\ DestroysInOrder(Shutdown(Current), 3)
        /\ \A i \in 1..imageCount : Reaches(Shutdown(Current), <<"imageView", i>>)
    BY <2>1, <2>2, ManyInOrder
  <2>4. ASSUME NEW o \in held, Level(o) = at, o[1] \notin Undestroyable
        PROVE  o[1] = "imageView" /\ o[2] \in 1..imageCount /\ o = <<o[1], o[2]>>
    <3>1. o[1] = "imageView"
      BY <1>2, <1>8, <2>4, KindsOfLevels DEF Undestroyable
    <3> QED
      BY <1>2, <2>4, <3>1 DEF Most
  <2> QED
    BY <1>8, <2>3, <2>4
<1>9. CASE at = 5 /\ Components[at] \in ready
  <2> DEFINE all == << <<"fence", 1>>, <<"semaphore", 2>>, <<"semaphore", 1>> >>
  <2>1. Shutdown(Current) = all
    BY <1>3, <1>9, ComponentsAre DEF Shutdown, SyncDestroys
  <2>2. /\ Len(all) = 3 /\ all[1] = <<"fence", 1>>
        /\ all[2] = <<"semaphore", 2>> /\ all[3] = <<"semaphore", 1>>
    OBVIOUS
  <2>3. all \in Seq(Objects)
    BY KindsAre, ImagesAssumption DEF Objects
  <2> HIDE DEF all
  <2>4. \A k \in 1..3 : /\ Level(all[k]) = 5 /\ all[k][1] \notin Undestroyable
                        /\ Rank(all[k]) = 6
    BY <2>2 DEF Level, Undestroyable, Rank
  <2>5. DestroysInOrder(all, 5)
    BY <2>2, <2>3, <2>4 DEF DestroysInOrder
  <2>6. ASSUME NEW o \in held, Level(o) = at PROVE Reaches(all, o)
    <3>1. o[1] \in {"semaphore", "fence"}
      BY <1>2, <1>9, <2>6, KindsOfLevels
    <3>2. o[2] \in {1, 2} /\ (o[1] = "fence" => o[2] = 1)
      BY <1>2, <2>6, <3>1 DEF Most
    <3>3. o \in {<<"fence", 1>>, <<"semaphore", 1>>, <<"semaphore", 2>>}
      BY <1>2, <2>6, <3>1, <3>2
    <3> QED
      BY <2>2, <3>3 DEF Reaches
  <2> QED
    BY <1>9, <2>1, <2>5, <2>6
<1> QED
  BY <1>1, <1>4, <1>5, <1>6, <1>7, <1>8, <1>9
-----------------------------------------------------------------------------
\* Nothing is there at first.
LEMMA InitIInv ==
  ASSUME Init
  PROVE  IInv
<1>1. /\ phase = "init" /\ at = 1 /\ done = 0 /\ imageCount = 0 /\ framebufferCount = 0
      /\ todo = <<>> /\ live = {} /\ held = {} /\ ready = {} /\ exitCode = "none"
  BY DEF Init
<1>2. Typed
  <2>1. Len(MadeBy(1, 0)) \in Nat
    BY PlacesIn
  <2> QED
    BY <1>1, <2>1, ImagesAssumption DEF Typed
<1>3. Counted /\ Standing
  BY <1>1 DEF Counted, Standing, Initialising
<1>4. Complete
  BY <1>1 DEF Complete
<1>5. Kept
  <2>1. ASSUME NEW o \in Whole(1, 0) PROVE ~(Place(o, 0) <= 0)
    BY ItsPlace
  <2> QED
    BY <1>1, <2>1 DEF Kept
<1>6. Left /\ HandlesLive /\ ParentsOutlive /\ NothingLeaks
  BY <1>1 DEF Left, HandlesLive, ParentsOutlive, NothingLeaks
<1>7. Planned
  BY <1>1, EmptyInOrder DEF Planned
<1> QED
  BY <1>2, <1>3, <1>4, <1>5, <1>6, <1>7 DEF IInv

\* An Init creates its next object.
LEMMA CreateObjectIInv ==
  ASSUME IInv, CreateObject
  PROVE  IInv'
<1> DEFINE n == imageCount
           o == MadeBy(at, n)[done + 1]
<1>1. /\ Typed /\ Counted /\ Standing /\ Complete /\ Kept /\ Left /\ Planned
      /\ HandlesLive /\ ParentsOutlive /\ NothingLeaks
  BY DEF IInv
<1>2. /\ at \in 1..5 /\ n \in Nat /\ n \in 0..MaxDriverImages /\ Current = Components[at]
      /\ framebufferCount \in 0..KMaxImages
  BY <1>1, ImagesAssumption DEF Typed, Current
<1>3. Creates(Current) = MadeBy(at, n) /\ Len(MadeBy(at, n)) = HowMany(at, n)
      /\ Len(MadeBy(at, n)) \in Nat /\ InPlaces(MadeBy(at, n), at, n)
  BY <1>2, CreatesAre, PlacesIn
<1>4. done \in Nat /\ done < HowMany(at, n) /\ phase = "init"
  BY <1>1, <1>3 DEF Typed, CreateObject
<1>5. /\ live' = live \cup {o} /\ held' = held \cup {o}
      /\ IF o[1] = "swapchain" THEN n' \in 1..MaxDriverImages ELSE n' = n
      /\ framebufferCount' = IF o = <<"framebuffer", n>> THEN n ELSE framebufferCount
      /\ done' = done + 1
      /\ phase' = phase /\ at' = at /\ todo' = todo /\ ready' = ready /\ exitCode' = exitCode
  BY <1>3 DEF CreateObject
<1>6. at = 3 /\ done = 1 => n <= KMaxImages
  BY <1>2, ComponentsAre DEF CreateObject, ImagesFit
<1>7. o \in Whole(at, n) /\ Place(o, n) = done + 1
  <2>1. done + 1 \in 1..Len(MadeBy(at, n))
    BY <1>3, <1>4
  <2> QED
    BY <1>3, <2>1 DEF InPlaces
<1> HIDE DEF o
<1>8. /\ o \in Anything /\ Level(o) = at /\ o[2] \in 1..Most(o[1], n) /\ o = <<o[1], o[2]>>
  BY <1>7, Pairs DEF Whole
<1>9. n' = n \/ (at = 3 /\ done = 0 /\ n = 0 /\ n' \in 1..MaxDriverImages)
  <2>1. CASE o[1] = "swapchain"
    <3>1. at = 3 /\ Place(o, n) = 1
      BY <1>8, <2>1, KindsOfLevels DEF Place
    <3> QED
      BY <1>1, <1>4, <1>5, <1>7, <2>1, <3>1 DEF Counted, Initialising
  <2>2. CASE o[1] # "swapchain"
    BY <1>5, <2>2
  <2> QED
    BY <2>1, <2>2
<1>10. n' \in Nat /\ n <= n' /\ n' \in 0..MaxDriverImages
  BY <1>2, <1>9, ImagesAssumption
<1>11. \A k \in 1..5 : Components[k] \in ready <=> k < at
  BY <1>1, <1>4 DEF Standing, Initialising
<1>12. ASSUME NEW k \in 1..5, Components[k] \in ready
       PROVE  Whole(k, n') = Whole(k, n) /\ Whole(k, n) \subseteq held
  <2>1. k < at
    BY <1>11, <1>12
  <2>2. Whole(k, n) \subseteq held
    BY <1>1, <1>4, <1>12 DEF Complete
  <2>3. CASE n' = n
    BY <2>2, <2>3
  <2>4. CASE n' # n
    <3>1. k \in 1..2
      BY <1>2, <1>9, <2>1, <2>4
    <3> QED
      BY <1>2, <1>10, <2>2, <3>1, SameWithout
  <2> QED
    BY <2>3, <2>4
<1>13. ASSUME NEW x \in held PROVE x \in Whole(Level(x), n) /\ Level(x) \in 1..5
  BY <1>1, <1>13, HeldIsWhole
<1>14. ASSUME NEW x \in held, Level(x) = at
       PROVE  n' = n /\ Place(x, n) <= done /\ Place(x, n) \in Nat
  <2>1. Place(x, n) <= done
    BY <1>1, <1>4, <1>14 DEF Kept, Initialising
  <2>2. Place(x, n) \in 1..HowMany(at, n) /\ HowMany(at, n) \in Nat
    BY <1>2, <1>13, <1>14, ItsPlace
  <2> QED
    BY <1>4, <1>9, <2>1, <2>2
<1>15. Typed'
  <2>1. framebufferCount' \in 0..KMaxImages
    <3>1. CASE o = <<"framebuffer", n>>
      <4>1. at = 4
        BY <1>8, <3>1, KindsOfLevels
      <4> QED
        BY <1>1, <1>2, <1>4, <1>5, <3>1, <4>1 DEF Counted, Initialising
    <3>2. CASE o # <<"framebuffer", n>>
      BY <1>2, <1>5, <3>2
    <3> QED
      BY <3>1, <3>2
  <2>2. done' \in 0..Len(MadeBy(at, n'))
    <3>1. CASE n' = n
      BY <1>3, <1>4, <1>5, <3>1
    <3>2. CASE n' # n
      <4>1. Len(MadeBy(3, n')) = HowMany(3, n')
        BY <1>10, PlacesIn
      <4>2. HowMany(3, n') = 1 + n'
        BY DEF HowMany
      <4> QED
        BY <1>5, <1>9, <1>10, <3>2, <4>1, <4>2
    <3> QED
      BY <3>1, <3>2
  <2>3. at' \in 1..5 /\ n' \in 0..MaxDriverImages
    BY <1>2, <1>5, <1>10
  <2> QED
    BY <1>1, <1>5, <2>1, <2>2, <2>3 DEF Typed
<1>16. Counted'
  <2>1. at = 4 => (o = <<"framebuffer", n>> <=> done + 1 = 5 + n)
    <3> SUFFICES ASSUME at = 4 PROVE o = <<"framebuffer", n>> <=> done + 1 = 5 + n
      OBVIOUS
    <3>1. n > 0
      BY <1>1, <1>4 DEF Counted, Initialising
    <3>2. Place(<<"framebuffer", n>>, n) = 5 + n
      BY DEF Place
    <3>3. <<"framebuffer", n>> \in Whole(4, n)
      BY <1>2, <3>1, KindsAre DEF Whole, Anything, Level, Most
    <3>4. MadeBy(4, n)[5 + n] = <<"framebuffer", n>>
      BY <1>2, <3>2, <3>3, ItsPlace
    <3>5. o = MadeBy(4, n)[done + 1]
      BY DEF o
    <3> QED
      BY <1>7, <3>2, <3>4, <3>5
  <2>2. at # 4 => o # <<"framebuffer", n>>
    BY <1>8, KindsOfLevels
  <2>3. framebufferCount' =
          IF at' = 5 \/ (at' = 4 /\ done' >= 5 + n') THEN n' ELSE 0
    <3>1. framebufferCount = IF at = 5 \/ (at = 4 /\ done >= 5 + n) THEN n ELSE 0
      BY <1>1, <1>4 DEF Counted, Initialising
    <3> QED
      BY <1>2, <1>4, <1>5, <1>9, <2>1, <2>2, <3>1
  <2>4. "swapchain" \in ready => 3 < at
    BY <1>11, ComponentsAre
  <2>5. "renderer" \notin ready \/ 4 < at
    BY <1>11, ComponentsAre
  <2>6. /\ at' < 3 \/ (at' = 3 /\ done' = 0) => n' = 0
        /\ (at' = 3 /\ done' > 0) \/ at' > 3 => n' > 0
        /\ (at' = 3 /\ done' > 1) \/ at' > 3 => n' <= KMaxImages
    <3>1. /\ at < 3 \/ (at = 3 /\ done = 0) => n = 0
          /\ (at = 3 /\ done > 0) \/ at > 3 => n > 0
          /\ (at = 3 /\ done > 1) \/ at > 3 => n <= KMaxImages
      BY <1>1, <1>4 DEF Counted, Initialising
    <3>2. at = 3 /\ done = 0 => n' > 0
      <4> SUFFICES ASSUME at = 3, done = 0 PROVE n' > 0
        OBVIOUS
      <4>1. <<"swapchain", 1>> \in Whole(3, n) /\ Place(<<"swapchain", 1>>, n) = 1
        BY KindsAre DEF Whole, Anything, Level, Most, Place
      <4>2. MadeBy(3, n)[1] = <<"swapchain", 1>>
        BY <1>2, <4>1, ItsPlace
      <4>3. o[1] = "swapchain"
        BY <4>2 DEF o
      <4> QED
        BY <1>5, <4>3
    <3> QED
      BY <1>2, <1>4, <1>5, <1>6, <1>9, <3>1, <3>2
  <2>7. "swapchain" \in ready' => n' \in 1..KMaxImages
    BY <1>1, <1>5, <1>9, <2>4 DEF Counted
  <2>8. "renderer" \in ready' => framebufferCount' = n'
    BY <1>2, <1>5, <2>3, <2>5
  <2> QED
    BY <1>4, <1>5, <2>3, <2>6, <2>7, <2>8 DEF Counted, Initialising
<1>17. Standing'
  BY <1>1, <1>5 DEF Standing, Initialising
<1>18. Complete'
  BY <1>4, <1>5, <1>12 DEF Complete
<1>19. Kept'
  <2>1. Place(o, n') = done'
    BY <1>4, <1>5, <1>7, <1>9, <1>10 DEF Place
  <2>2. ASSUME NEW x \in held'
        PROVE  /\ Components[Level(x)] \in ready' \/ (Initialising' /\ Level(x) = at')
               /\ Level(x) = at' => Place(x, n') <= done'
    <3>1. CASE x \in held
      <4>1. Components[Level(x)] \in ready' \/ (Initialising' /\ Level(x) = at')
        BY <1>1, <1>4, <1>5, <3>1 DEF Kept, Initialising
      <4>2. Level(x) = at' => Place(x, n') <= done'
        BY <1>4, <1>5, <1>14, <3>1
      <4> QED
        BY <4>1, <4>2
    <3>2. CASE x = o
      BY <1>4, <1>5, <1>8, <2>1, <3>2 DEF Initialising
    <3> QED
      BY <1>5, <2>2, <3>1, <3>2
  <2>3. ASSUME NEW x \in Whole(at', n'), Place(x, n') <= done' PROVE x \in held'
    <3>1. CASE n' = n
      <4>1. Place(x, n) \in 1..HowMany(at, n) /\ MadeBy(at, n)[Place(x, n)] = x
        BY <1>2, <1>5, <2>3, <3>1, ItsPlace
      <4>2. CASE Place(x, n) <= done
        BY <1>1, <1>4, <1>5, <2>3, <3>1, <4>2 DEF Kept
      <4>3. CASE Place(x, n) = done + 1
        BY <1>5, <4>1, <4>3 DEF o
      <4> QED
        BY <1>4, <1>5, <2>3, <3>1, <4>1, <4>2, <4>3
    <3>2. CASE n' # n
      <4>1. Place(x, n') \in 1..HowMany(3, n') /\ MadeBy(3, n')[Place(x, n')] = x
        BY <1>5, <1>9, <1>10, <2>3, <3>2, ItsPlace
      <4>2. Place(x, n') = 1 /\ Place(o, n') = 1
        BY <1>5, <1>9, <2>1, <2>3, <3>2, <4>1
      <4>3. o \in Whole(3, n')
        BY <1>2, <1>7, <1>9, <1>10, <3>2, MoreImages
      <4>4. MadeBy(3, n')[1] = o
        BY <1>10, <4>2, <4>3, ItsPlace
      <4> QED
        BY <1>5, <4>1, <4>2, <4>4
    <3> QED
      BY <3>1, <3>2
  <2> QED
    BY <1>4, <1>5, <2>2, <2>3 DEF Kept, Initialising
<1>20. Left'
  <2>1. ASSUME NEW x \in live' PROVE x \in Whole(Level(x), n')
    <3>1. x \in Whole(Level(x), n)
      BY <1>1, <1>5, <1>7, <1>8 DEF Left
    <3> QED
      BY <1>2, <1>10, <3>1, MoreImages
  <2>2. \A x \in live' : x \in held' \/ x[1] \in Undestroyable
    BY <1>1, <1>5 DEF Left
  <2> QED
    BY <2>1, <2>2 DEF Left
<1>21. Planned' /\ HandlesLive'
  BY <1>1, <1>4, <1>5 DEF Planned, Cleaning, HandlesLive
<1>22. ParentsOutlive'
  <2>1. ASSUME NEW p \in Parents(o) PROVE p \in live
    <3>1. /\ p \in Whole(Level(p), n) /\ Level(p) \in 1..at
          /\ Level(p) = at => Place(p, n) < Place(o, n)
      BY <1>2, <1>7, ParentsBefore
    <3>2. CASE Level(p) < at
      <4>1. Components[Level(p)] \in ready /\ Level(p) \in 1..5
        BY <1>2, <1>11, <3>1, <3>2
      <4> QED
        BY <1>1, <1>12, <3>1, <4>1 DEF HandlesLive
    <3>3. CASE Level(p) = at
      <4>1. Place(p, n) \in 1..HowMany(at, n)
        BY <1>2, <3>1, <3>3, ItsPlace
      <4>2. Place(p, n) <= done
        BY <1>4, <1>7, <3>1, <3>3, <4>1
      <4> QED
        BY <1>1, <1>4, <3>1, <3>3, <4>2 DEF Kept, HandlesLive
    <3> QED
      BY <1>2, <3>1, <3>2, <3>3
  <2> QED
    BY <1>1, <1>5, <2>1 DEF ParentsOutlive
<1>23. NothingLeaks'
  <2>1. CASE at = 1
    <3>1. o[1] \in {"instance", "device"} /\ o[2] = 1
      BY <1>8, <2>1, KindsOfLevels DEF Most
    <3>2. o \in {<<"instance", 1>>, <<"device", 1>>}
      BY <1>8, <3>1
    <3> QED
      BY <1>1, <1>4, <1>5, <3>2 DEF NothingLeaks
  <2>2. CASE at # 1
    <3>1. Components[1] \in ready
      BY <1>2, <1>11, <2>2
    <3>2. <<"device", 1>> \in Whole(1, n)
      BY KindsAre DEF Whole, Anything, Level, Most
    <3> QED
      BY <1>1, <1>4, <1>5, <1>12, <3>1, <3>2 DEF HandlesLive, NothingLeaks
  <2> QED
    BY <2>1, <2>2
<1> QED
  BY <1>15, <1>16, <1>17, <1>18, <1>19, <1>20, <1>21, <1>22, <1>23 DEF IInv

\* An Init is through.
LEMMA InitOkIInv ==
  ASSUME IInv, InitOk
  PROVE  IInv'
<1> DEFINE n == imageCount
<1>1. /\ Typed /\ Counted /\ Standing /\ Complete /\ Kept /\ Left /\ Planned
      /\ HandlesLive /\ ParentsOutlive /\ NothingLeaks
  BY DEF IInv
<1>2. /\ at \in 1..5 /\ n \in Nat /\ Current = Components[at] /\ Len(Components) = 5
  BY <1>1, ImagesAssumption, ComponentsAre DEF Typed, Current
<1>3. done = HowMany(at, n) /\ phase = "init"
  BY <1>2, CreatesAre, PlacesIn DEF InitOk
<1>4. /\ ready' = ready \cup {Components[at]} /\ done' = 0
      /\ imageCount' = n /\ framebufferCount' = framebufferCount /\ todo' = todo
      /\ live' = live /\ held' = held /\ exitCode' = exitCode
      /\ IF at < 5 THEN at' = at + 1 /\ phase' = phase ELSE phase' = "loop" /\ at' = at
  BY <1>2 DEF InitOk
<1>5. ASSUME NEW k \in 1..5 PROVE Components[k] \in ready' <=> k <= at
  <2>1. Components[k] \in ready <=> k < at
    BY <1>1, <1>3 DEF Standing, Initialising
  <2> QED
    BY <1>2, <1>4, <2>1, ComponentsDiffer
<1>6. Whole(at, n) \subseteq held
  <2>1. ASSUME NEW o \in Whole(at, n) PROVE o \in held
    <3>1. Place(o, n) \in 1..HowMany(at, n)
      BY <1>2, ItsPlace
    <3> QED
      BY <1>1, <1>3, <3>1 DEF Kept
  <2> QED
    BY <2>1
<1>7. Typed'
  <2>1. at' \in 1..5
    BY <1>2, <1>4
  <2>2. Len(MadeBy(at', n)) \in Nat
    BY <1>2, <2>1, PlacesIn
  <2>3. done' \in 0..Len(MadeBy(at', imageCount'))
    BY <1>4, <2>2
  <2>4. ready' \subseteq {Components[k] : k \in DOMAIN Components}
    BY <1>1, <1>2, <1>4, ComponentsAre DEF Typed
  <2>5. phase' \in {"init", "undo", "loop", "shutdown", "destroying", "returned"}
    BY <1>3, <1>4
  <2> QED
    BY <1>1, <1>4, <2>1, <2>3, <2>4, <2>5 DEF Typed
<1>8. Counted'
  <2>1. /\ at < 3 \/ (at = 3 /\ done = 0) => n = 0
        /\ (at = 3 /\ done > 0) \/ at > 3 => n > 0
        /\ (at = 3 /\ done > 1) \/ at > 3 => n <= KMaxImages
        /\ framebufferCount = IF at = 5 \/ (at = 4 /\ done >= 5 + n) THEN n ELSE 0
    BY <1>1, <1>3 DEF Counted, Initialising
  <2>2. done = HowMany(at, n)
    BY <1>3
  <2>3. at = 3 => n > 0 /\ n <= KMaxImages
    BY <1>2, <2>1, <2>2 DEF HowMany
  <2>4. framebufferCount = IF at >= 4 THEN n ELSE 0
    BY <1>2, <2>1, <2>2 DEF HowMany
  <2>5. /\ at < 5 => at' = at + 1 /\ Initialising'
        /\ at = 5 => ~Initialising'
    BY <1>2, <1>3, <1>4 DEF Initialising
  <2>6. Initialising' =>
          /\ at' < 3 \/ (at' = 3 /\ done' = 0) => n' = 0
          /\ (at' = 3 /\ done' > 0) \/ at' > 3 => n' > 0
          /\ (at' = 3 /\ done' > 1) \/ at' > 3 => n' <= KMaxImages
          /\ framebufferCount' = IF at' = 5 \/ (at' = 4 /\ done' >= 5 + n') THEN n' ELSE 0
    BY <1>2, <1>4, <2>1, <2>3, <2>4, <2>5
  <2>7. "swapchain" \in ready' => n \in 1..KMaxImages
    BY <1>2, <1>5, <2>1, <2>3, ComponentsAre, ImagesAssumption
  <2>8. "renderer" \in ready' => framebufferCount = n
    BY <1>2, <1>5, <2>4, ComponentsAre
  <2> QED
    BY <1>4, <2>6, <2>7, <2>8 DEF Counted
<1>9. Standing'
  <2>1. Initialising' => at' = at + 1
    BY <1>2, <1>3, <1>4 DEF Initialising
  <2>2. phase' = "loop" => at = 5 /\ at' = 5
    BY <1>2, <1>3, <1>4
  <2>3. phase' # "returned" /\ at <= at' /\ at' \in 1..5
    BY <1>2, <1>3, <1>4
  <2>4. \A k \in 1..5 : Components[k] \in ready' => k <= at'
    BY <1>2, <1>5, <2>3
  <2>5. Initialising' => \A k \in 1..5 : Components[k] \in ready' <=> k < at'
    BY <1>2, <1>5, <2>1
  <2>6. phase' = "loop" => at' = 5 /\ \A k \in 1..5 : Components[k] \in ready'
    BY <1>5, <2>2
  <2> QED
    BY <2>3, <2>4, <2>5, <2>6 DEF Standing
<1>10. Complete'
  <2>1. ASSUME NEW k \in 1..5, Components[k] \in ready' PROVE Whole(k, n) \subseteq held
    <3>1. CASE k = at
      BY <1>6, <3>1
    <3>2. CASE k # at
      <4>1. Components[k] \in ready
        BY <1>2, <1>4, <2>1, <3>2, ComponentsDiffer
      <4> QED
        BY <1>1, <1>3, <4>1 DEF Complete
    <3> QED
      BY <3>1, <3>2
  <2> QED
    BY <1>4, <2>1 DEF Complete
<1>11. Kept'
  <2>1. ASSUME NEW o \in held
        PROVE  Components[Level(o)] \in ready' /\ (Initialising' => Level(o) # at')
    <3>1. Level(o) \in 1..5
      BY <1>1, HeldIsWhole
    <3>2. Level(o) <= at
      <4>1. Components[Level(o)] \in ready \/ Level(o) = at
        BY <1>1 DEF Kept
      <4>2. Components[Level(o)] \in ready => Level(o) <= at
        BY <1>1, <3>1 DEF Standing
      <4> QED
        BY <1>2, <4>1, <4>2
    <3>3. Initialising' => at' = at + 1
      BY <1>2, <1>3, <1>4 DEF Initialising
    <3> QED
      BY <1>2, <1>5, <3>1, <3>2, <3>3
  <2>2. ASSUME NEW o \in Whole(at', n), phase' = "init" PROVE ~(Place(o, n) <= 0)
    <3>1. at' \in 1..5
      BY <1>2, <1>4
    <3> QED
      BY <1>2, <3>1, ItsPlace
  <2> QED
    BY <1>4, <2>1, <2>2 DEF Kept
<1>12. Left' /\ HandlesLive' /\ ParentsOutlive'
  BY <1>1, <1>4 DEF Left, HandlesLive, ParentsOutlive
<1>13. Planned'
  <2>1. todo = <<>>
    BY <1>1, <1>3 DEF Planned, Cleaning
  <2>2. ~Cleaning'
    BY <1>2, <1>3, <1>4 DEF Cleaning
  <2> QED
    BY <1>4, <2>1, <2>2, EmptyInOrder DEF Planned
<1>14. NothingLeaks'
  BY <1>1, <1>2, <1>3, <1>4 DEF NothingLeaks
<1> QED
  BY <1>7, <1>8, <1>9, <1>10, <1>11, <1>12, <1>13, <1>14 DEF IInv

\* A call of an Init fails, and it starts to clean up.
LEMMA InitFailsIInv ==
  ASSUME IInv, InitFails
  PROVE  IInv'
<1>1. /\ Typed /\ Counted /\ Standing /\ Complete /\ Kept /\ Left /\ Planned
      /\ HandlesLive /\ ParentsOutlive /\ NothingLeaks
  BY DEF IInv
<1>2. /\ phase = "init" /\ phase' = "undo" /\ todo' = Undo(Current)
      /\ at' = at /\ done' = done /\ imageCount' = imageCount
      /\ framebufferCount' = framebufferCount /\ live' = live /\ held' = held
      /\ ready' = ready /\ exitCode' = exitCode
  BY DEF InitFails
<1>3. done < Len(MadeBy(at, imageCount))
  <2>1. at \in 1..5 /\ imageCount \in Nat /\ Current = Components[at]
    BY <1>1, ImagesAssumption DEF Typed, Current
  <2> QED
    BY <2>1, CreatesAre DEF InitFails
<1>4. /\ DestroysInOrder(Undo(Current), at)
      /\ \A o \in held : Level(o) = at /\ o[1] \notin Undestroyable =>
           Reaches(Undo(Current), o)
  BY <1>1, <1>2, <1>3, UndoInOrder
<1>5. Planned'
  BY <1>2, <1>4 DEF Planned, Cleaning
<1>6. Typed'
  BY <1>1, <1>2 DEF Typed
<1>7. Counted' /\ Standing' /\ Kept'
  BY <1>1, <1>2 DEF Counted, Standing, Kept, Initialising
<1>8. Complete' /\ Left' /\ HandlesLive' /\ ParentsOutlive' /\ NothingLeaks'
  BY <1>1, <1>2 DEF Complete, Left, HandlesLive, ParentsOutlive, NothingLeaks
<1> QED
  BY <1>5, <1>6, <1>7, <1>8 DEF IInv

\* The frame loop ends.
LEMMA LoopEndsIInv ==
  ASSUME IInv, LoopEnds
  PROVE  IInv'
<1>1. /\ Typed /\ Counted /\ Standing /\ Complete /\ Kept /\ Left /\ Planned
      /\ HandlesLive /\ ParentsOutlive /\ NothingLeaks
  BY DEF IInv
<1>2. /\ phase = "loop" /\ phase' = "shutdown" /\ exitCode' = "EXIT_SUCCESS"
      /\ at' = at /\ done' = done /\ imageCount' = imageCount
      /\ framebufferCount' = framebufferCount /\ live' = live /\ held' = held
      /\ ready' = ready /\ todo' = todo
  BY DEF LoopEnds
<1>3. Typed' /\ Planned'
  BY <1>1, <1>2 DEF Typed, Planned, Cleaning
<1>4. Counted' /\ Standing' /\ Kept'
  BY <1>1, <1>2 DEF Counted, Standing, Kept, Initialising
<1>5. Complete' /\ Left' /\ HandlesLive' /\ ParentsOutlive' /\ NothingLeaks'
  BY <1>1, <1>2 DEF Complete, Left, HandlesLive, ParentsOutlive, NothingLeaks
<1> QED
  BY <1>3, <1>4, <1>5 DEF IInv

\* A Shutdown starts.
LEMMA ShutdownStartsIInv ==
  ASSUME IInv, ShutdownStarts
  PROVE  IInv'
<1>1. /\ Typed /\ Counted /\ Standing /\ Complete /\ Kept /\ Left /\ Planned
      /\ HandlesLive /\ ParentsOutlive /\ NothingLeaks
  BY DEF IInv
<1>2. /\ phase = "shutdown" /\ phase' = "destroying" /\ todo' = Shutdown(Current)
      /\ at' = at /\ done' = done /\ imageCount' = imageCount
      /\ framebufferCount' = framebufferCount /\ live' = live /\ held' = held
      /\ ready' = ready /\ exitCode' = exitCode
  BY DEF ShutdownStarts
<1>3. Planned'
  <2>1. /\ DestroysInOrder(Shutdown(Current), at)
        /\ \A o \in held : Level(o) = at /\ o[1] \notin Undestroyable =>
             Reaches(Shutdown(Current), o)
    BY <1>1, <1>2, ShutdownInOrder
  <2> QED
    BY <1>2, <2>1 DEF Planned, Cleaning
<1>4. Typed'
  BY <1>1, <1>2 DEF Typed
<1>5. Counted' /\ Standing' /\ Kept'
  BY <1>1, <1>2 DEF Counted, Standing, Kept, Initialising
<1>6. Complete' /\ Left' /\ HandlesLive' /\ ParentsOutlive' /\ NothingLeaks'
  BY <1>1, <1>2 DEF Complete, Left, HandlesLive, ParentsOutlive, NothingLeaks
<1> QED
  BY <1>3, <1>4, <1>5, <1>6 DEF IInv

\* A handle of the component at work or of one before it.
LEMMA HeldUpToHere ==
  ASSUME Typed, Standing, Kept, Left, HandlesLive, NEW o \in held
  PROVE  Level(o) \in 1..at /\ o \in Whole(Level(o), imageCount)
<1>1. Level(o) \in 1..5 /\ o \in Whole(Level(o), imageCount) /\ at \in 1..5
  BY HeldIsWhole DEF Typed
<1>2. Components[Level(o)] \in ready \/ Level(o) = at
  BY DEF Kept
<1>3. Components[Level(o)] \in ready => Level(o) <= at
  BY <1>1 DEF Standing
<1> QED
  BY <1>1, <1>2, <1>3

\* A handle is looked at, and its object destroyed if there is one.
LEMMA DestroyObjectIInv ==
  ASSUME IInv, DestroyObject
  PROVE  IInv'
<1> DEFINE h == Head(todo)
           n == imageCount
<1>1. /\ Typed /\ Counted /\ Standing /\ Complete /\ Kept /\ Left /\ Planned
      /\ HandlesLive /\ ParentsOutlive /\ NothingLeaks
  BY DEF IInv
<1>2. /\ Cleaning /\ phase # "init" /\ phase # "returned" /\ phase # "loop"
      /\ at \in 1..5 /\ n \in Nat
  BY <1>1, ImagesAssumption DEF Typed, DestroyObject, Planned, Cleaning
<1>3. /\ IF h \in held
         THEN /\ live' = (live \ {h}) \ (IF h[1] = "device" THEN Retained ELSE {})
              /\ held' = held \ {h}
         ELSE live' = live /\ held' = held
      /\ todo' = Tail(todo)
      /\ phase' = phase /\ at' = at /\ done' = done /\ imageCount' = n
      /\ framebufferCount' = framebufferCount /\ ready' = ready /\ exitCode' = exitCode
  BY DEF DestroyObject
<1>4. /\ todo \in Seq(Objects) /\ Len(todo) \in Nat /\ 1 \in 1..Len(todo) /\ h = todo[1]
      /\ todo' \in Seq(Objects) /\ Len(todo') = Len(todo) - 1
      /\ \A k \in 1..Len(todo') : todo'[k] = todo[k + 1]
  <2>1. todo \in Seq(Objects) /\ todo # <<>>
    BY <1>1 DEF Planned, DestroysInOrder, DestroyObject
  <2>2. Len(todo) \in Nat \ {0}
    BY <2>1, EmptySeq
  <2>3. /\ Tail(todo) \in Seq(Objects) /\ Len(Tail(todo)) = Len(todo) - 1
        /\ \A k \in 1..Len(Tail(todo)) : Tail(todo)[k] = todo[k + 1]
    BY <2>1, HeadTailProperties
  <2> QED
    BY <1>3, <2>1, <2>2, <2>3
<1>5. /\ Level(h) = at /\ h[1] \notin Undestroyable
      /\ \A k \in 1..Len(todo) : Rank(h) <= Rank(todo[k])
  BY <1>1, <1>4 DEF Planned, DestroysInOrder
<1>6. held' \subseteq held /\ live' \subseteq live /\ h \notin held'
      /\ held \subseteq held' \cup {h}
  BY <1>3
<1> HIDE DEF h
<1>7. Planned'
  <2>1. DestroysInOrder(todo', at)
    <3>1. ASSUME NEW k \in 1..Len(todo')
          PROVE  k + 1 \in 1..Len(todo) /\ todo'[k] = todo[k + 1]
      BY <1>4
    <3>2. \A k \in 1..Len(todo') : Level(todo'[k]) = at /\ todo'[k][1] \notin Undestroyable
      BY <1>1, <3>1 DEF Planned, DestroysInOrder
    <3>3. ASSUME NEW j \in 1..Len(todo'), NEW k \in 1..Len(todo'), j <= k
          PROVE  Rank(todo'[j]) <= Rank(todo'[k])
      <4>1. j + 1 <= k + 1
        BY <1>4, <3>3
      <4> QED
        BY <1>1, <3>1, <4>1 DEF Planned, DestroysInOrder
    <3> QED
      BY <1>4, <3>2, <3>3 DEF DestroysInOrder
  <2>2. ASSUME NEW o \in held', Level(o) = at, o[1] \notin Undestroyable
        PROVE  Reaches(todo', o)
    <3>1. PICK k \in 1..Len(todo) : todo[k] = o
      BY <1>1, <1>2, <1>6, <2>2 DEF Planned, Reaches
    <3>2. k # 1
      BY <1>4, <1>6, <3>1
    <3>3. k - 1 \in 1..Len(todo') /\ (k - 1) + 1 = k
      BY <1>4, <3>2
    <3>4. todo'[k - 1] = o
      BY <1>4, <3>1, <3>3
    <3> QED
      BY <3>3, <3>4 DEF Reaches
  <2> QED
    BY <1>2, <1>3, <2>1, <2>2 DEF Planned, Cleaning
<1>8. Typed' /\ Counted' /\ Standing'
  BY <1>1, <1>3 DEF Typed, Counted, Standing, Initialising
<1>9. Complete'
  <2>1. ASSUME NEW k \in 1..5, Components[k] \in ready, ~(phase = "destroying" /\ k = at)
        PROVE  Whole(k, n) \subseteq held'
    <3>1. Whole(k, n) \subseteq held
      BY <1>1, <2>1 DEF Complete
    <3>2. k # at
      BY <1>1, <1>2, <2>1 DEF Cleaning, Standing, Initialising
    <3>3. h \notin Whole(k, n)
      BY <1>5, <3>2 DEF Whole
    <3> QED
      BY <1>6, <3>1, <3>3
  <2> QED
    BY <1>3, <2>1 DEF Complete
<1>10. Kept'
  BY <1>1, <1>2, <1>3, <1>6 DEF Kept, Initialising
<1>11. Left'
  BY <1>1, <1>3, <1>6 DEF Left
<1>12. HandlesLive' /\ ParentsOutlive' /\ NothingLeaks'
  <2>1. CASE h \notin held
    BY <1>1, <1>3, <2>1 DEF HandlesLive, ParentsOutlive, NothingLeaks
  <2>2. CASE h \in held
    <3>1. h \in live /\ h \in Anything /\ h \in Whole(at, n) /\ h[2] \in 1..Most(h[1], n)
          /\ h = <<h[1], h[2]>>
      BY <1>1, <1>5, <2>2, HeldIsWhole DEF HandlesLive
    <3>2. ASSUME NEW x \in held PROVE Level(x) \in 1..at /\ x \in Whole(Level(x), n)
      BY <1>1, <3>2, HeldUpToHere
    <3>3. ASSUME NEW x \in live PROVE x \in Whole(Level(x), n) /\ x \in Anything
                                      /\ Level(x) \in 1..5
      <4>1. x \in Whole(Level(x), n)
        BY <1>1 DEF Left
      <4> QED
        BY <4>1, KindsOfLevels DEF Whole
    <3>4. ASSUME NEW x \in live, h \in Parents(x) PROVE x[1] \in Undestroyable
      <4> SUFFICES ASSUME x[1] \notin Undestroyable PROVE FALSE
        OBVIOUS
      <4>1. x \in held
        BY <1>1 DEF Left
      <4>2. /\ Level(h) \in 1..Level(x)
            /\ Level(h) = Level(x) /\ h[1] \notin Undestroyable => Rank(x) < Rank(h)
        BY <1>2, <3>3, <3>4, ParentsBefore
      <4>3. Level(x) = at /\ Rank(x) < Rank(h)
        BY <1>2, <1>5, <3>2, <4>1, <4>2
      <4>4. PICK k \in 1..Len(todo) : todo[k] = x
        BY <1>1, <1>2, <4>1, <4>3 DEF Planned, Reaches
      <4>5. Rank(h) <= Rank(x) /\ Rank(h) \in Nat /\ Rank(x) \in Nat
        BY <1>5, <4>4 DEF Rank
      <4> QED
        BY <4>3, <4>5
    <3>5. ASSUME NEW x \in live, h \in Parents(x) PROVE h[1] = "device"
      <4>1. x[1] \in {"swapchain", "commandPool", "commandBuffer", "memory"}
        BY <3>4, <3>5 DEF Undestroyable
      <4>2. h \in {<<"device", 1>>, <<"commandPool", 1>>}
        BY <3>5, <4>1 DEF Parents
      <4> QED
        BY <1>5, <4>2 DEF Undestroyable
    <3>6. CASE h[1] # "device"
      <4>1. live' = live \ {h} /\ held' = held \ {h}
        BY <1>3, <2>2, <3>6
      <4>2. <<"device", 1>> # h
        BY <3>6
      <4>3. HandlesLive'
        BY <1>1, <4>1 DEF HandlesLive
      <4>4. ParentsOutlive'
        BY <1>1, <3>5, <3>6, <4>1 DEF ParentsOutlive
      <4>5. NothingLeaks'
        BY <1>1, <1>2, <1>3, <4>1, <4>2 DEF NothingLeaks
      <4> QED
        BY <4>3, <4>4, <4>5
    <3>7. CASE h[1] = "device"
      <4>1. live' = (live \ {h}) \ Retained /\ held' = held \ {h}
        BY <1>3, <2>2, <3>7
      <4>2. at = 1
        BY <1>5, <3>7 DEF Level
      <4>3. ASSUME NEW x \in held PROVE x \in {<<"instance", 1>>, <<"device", 1>>}
        <5>1. x \in Whole(1, n) /\ x \in Anything
          BY <3>2, <4>2 DEF Whole
        <5>2. x[1] \in {"instance", "device"} /\ x[2] \in 1..Most(x[1], n) /\ x = <<x[1], x[2]>>
          BY <5>1, KindsOfLevels, Pairs DEF Whole
        <5>3. x[2] = 1
          BY <5>2 DEF Most
        <5> QED
          BY <5>2, <5>3
      <4>4. h = <<"device", 1>>
        BY <2>2, <3>7, <4>3
      <4>5. ASSUME NEW x \in live' PROVE x = <<"instance", 1>>
        <5>1. x \in live /\ x # h /\ x[1] \notin Undestroyable
          BY <4>1 DEF Retained
        <5>2. x \in held
          BY <1>1, <5>1 DEF Left
        <5> QED
          BY <4>3, <4>4, <5>1, <5>2
      <4>6. HandlesLive'
        <5>1. ASSUME NEW x \in held' PROVE x \in live'
          <6>1. x \in live /\ x # h /\ x \in held
            BY <1>1, <4>1 DEF HandlesLive
          <6>2. x[1] \notin Undestroyable
            BY <4>3, <6>1 DEF Undestroyable
          <6> QED
            BY <4>1, <6>1, <6>2 DEF Retained
        <5> QED
          BY <5>1 DEF HandlesLive
      <4>7. ParentsOutlive'
        BY <4>5 DEF ParentsOutlive, Parents
      <4>8. NothingLeaks'
        BY <1>2, <1>3, <4>5 DEF NothingLeaks
      <4> QED
        BY <4>6, <4>7, <4>8
    <3> QED
      BY <3>6, <3>7
  <2> QED
    BY <2>1, <2>2
<1> QED
  BY <1>7, <1>8, <1>9, <1>10, <1>11, <1>12 DEF IInv

\* A component at the end of its clean-up forgets the handles that are left,
\* and none of them could have been destroyed.
LEMMA NothingForgotten ==
  ASSUME IInv, Cleaning, todo = <<>>, Forget(Current), live' = live
  PROVE  /\ \A o \in held' : Level(o) \in 1..(at - 1) /\ Components[Level(o)] \in ready
         /\ \A k \in 1..5 : k # at /\ Components[k] \in ready =>
              Whole(k, imageCount') \subseteq held'
         /\ imageCount' = IF at = 3 THEN 0 ELSE imageCount
         /\ framebufferCount' = IF at = 4 THEN 0 ELSE framebufferCount
         /\ Left' /\ HandlesLive' /\ (at = 1 => live = {})
<1> DEFINE n == imageCount
<1>1. /\ Typed /\ Counted /\ Standing /\ Complete /\ Kept /\ Left /\ Planned
      /\ HandlesLive /\ ParentsOutlive /\ NothingLeaks
  BY DEF IInv
<1>2. at \in 1..5 /\ n \in Nat /\ Current = Components[at]
  BY <1>1, ImagesAssumption DEF Typed, Current
<1>3. /\ held' = held \ Whole(at, n)
      /\ imageCount' = IF at = 3 THEN 0 ELSE n
      /\ framebufferCount' = IF at = 4 THEN 0 ELSE framebufferCount
  <2>1. Current = "swapchain" <=> at = 3
    BY <1>2, ComponentsAre, ComponentsDiffer
  <2>2. Current = "renderer" <=> at = 4
    BY <1>2, ComponentsAre, ComponentsDiffer
  <2>3. ObjectsOf(Current) = Whole(at, n)
    BY <1>2, CreatesAre
  <2> QED
    BY <2>1, <2>2, <2>3 DEF Forget
<1>4. ASSUME NEW o \in held
      PROVE  /\ Level(o) \in 1..at /\ o \in Whole(Level(o), n)
             /\ Level(o) # at => Components[Level(o)] \in ready
             /\ Level(o) = at => o[1] \in Undestroyable
  <2>1. Level(o) \in 1..at /\ o \in Whole(Level(o), n)
    BY <1>1, HeldUpToHere
  <2>2. ~Reaches(todo, o)
    BY EmptySeq DEF Reaches
  <2> QED
    BY <1>1, <2>1, <2>2 DEF Kept, Planned
<1>5. ASSUME NEW o \in held' PROVE Level(o) \in 1..(at - 1) /\ Components[Level(o)] \in ready
  <2>1. o \in held /\ Level(o) # at
    BY <1>3, <1>4
  <2> QED
    BY <1>2, <1>4, <2>1
<1>6. ASSUME NEW k \in 1..5, k # at, Components[k] \in ready
      PROVE  Whole(k, imageCount') \subseteq held'
  <2>1. k < at /\ Whole(k, n) \subseteq held
    BY <1>1, <1>2, <1>6 DEF Standing, Complete
  <2>2. Whole(k, imageCount') = Whole(k, n)
    <3>1. CASE at = 3
      BY <1>2, <1>3, <2>1, <3>1, SameWithout
    <3>2. CASE at # 3
      BY <1>3, <3>2
    <3> QED
      BY <3>1, <3>2
  <2>3. Whole(k, n) \cap Whole(at, n) = {}
    BY <1>6 DEF Whole
  <2> QED
    BY <1>3, <2>1, <2>2, <2>3
<1>7. Left'
  <2>1. ASSUME NEW x \in live PROVE x \in Whole(Level(x), imageCount')
    <3>1. x \in Whole(Level(x), n) /\ x \in Anything
      BY <1>1 DEF Left, Whole
    <3>2. CASE at # 3
      BY <1>3, <3>1, <3>2
    <3>3. CASE at = 3
      <4>1. x[1] \notin {"imageView", "framebuffer"}
        <5> SUFFICES ASSUME x[1] \in {"imageView", "framebuffer"} PROVE FALSE
          OBVIOUS
        <5>1. x[1] \notin Undestroyable /\ Level(x) \in {3, 4}
          BY DEF Undestroyable, Level
        <5>2. x \in held
          BY <1>1, <5>1 DEF Left
        <5> QED
          BY <1>4, <3>3, <5>1, <5>2
      <4>2. imageCount' \in Nat
        BY <1>3, <3>3
      <4> QED
        BY <1>2, <3>1, <4>1, <4>2, MoreImages
    <3> QED
      BY <3>2, <3>3
  <2>2. ASSUME NEW x \in live PROVE x \in held' \/ x[1] \in Undestroyable
    <3>1. CASE x \in held
      <4>1. x \in Whole(at, n) => Level(x) = at
        BY DEF Whole
      <4> QED
        BY <1>3, <1>4, <3>1, <4>1
    <3>2. CASE x \notin held
      BY <1>1, <3>2 DEF Left
    <3> QED
      BY <3>1, <3>2
  <2> QED
    BY <2>1, <2>2 DEF Left
<1>8. HandlesLive'
  BY <1>1, <1>3 DEF HandlesLive
<1>9. ASSUME at = 1 PROVE live = {}
  <2>1. \A x \in held : Level(x) = 1 /\ x[1] \in Undestroyable
    BY <1>4, <1>9
  <2>2. <<"device", 1>> \notin live /\ <<"instance", 1>> \notin live
    BY <1>1, <2>1 DEF Left, Undestroyable
  <2> QED
    BY <1>1, <2>2 DEF NothingLeaks
<1> QED
  BY <1>3, <1>5, <1>6, <1>7, <1>8, <1>9

\* A failed Init returns.
LEMMA UndoDoneIInv ==
  ASSUME IInv, UndoDone
  PROVE  IInv'
<1>1. /\ Typed /\ Counted /\ Standing /\ Complete /\ Kept /\ Left /\ Planned
      /\ HandlesLive /\ ParentsOutlive /\ NothingLeaks
  BY DEF IInv
<1>2. /\ phase = "undo" /\ todo = <<>> /\ Forget(Current) /\ done' = 0
      /\ exitCode' = "EXIT_FAILURE" /\ todo' = todo /\ live' = live /\ ready' = ready
      /\ at \in 1..5
      /\ IF at = 1 THEN phase' = "returned" /\ at' = at ELSE phase' = "shutdown" /\ at' = 5
  <2>1. at \in 1..5 /\ Current = Components[at]
    BY <1>1 DEF Typed, Current
  <2>2. Current = "context" <=> at = 1
    BY <2>1, ComponentsAre, ComponentsDiffer
  <2> QED
    BY <2>1, <2>2, ComponentsAre DEF UndoDone
<1>3. /\ \A o \in held' : Level(o) \in 1..(at - 1) /\ Components[Level(o)] \in ready
      /\ \A k \in 1..5 : k # at /\ Components[k] \in ready =>
           Whole(k, imageCount') \subseteq held'
      /\ imageCount' = IF at = 3 THEN 0 ELSE imageCount
      /\ framebufferCount' = IF at = 4 THEN 0 ELSE framebufferCount
      /\ Left' /\ HandlesLive' /\ (at = 1 => live = {})
  BY <1>2, NothingForgotten DEF Cleaning
<1>4. \A k \in 1..5 : Components[k] \in ready <=> k < at
  BY <1>1, <1>2 DEF Standing, Initialising
<1>5. Typed'
  <2>1. /\ at' \in 1..5
        /\ phase' \in {"init", "undo", "loop", "shutdown", "destroying", "returned"}
    BY <1>2
  <2>2. imageCount' \in 0..MaxDriverImages /\ framebufferCount' \in 0..KMaxImages
    BY <1>1, <1>3, ImagesAssumption DEF Typed
  <2>3. imageCount' \in Nat
    BY <2>2, ImagesAssumption
  <2>4. Len(MadeBy(at', imageCount')) \in Nat
    BY <2>1, <2>3, PlacesIn
  <2> QED
    BY <1>1, <1>2, <2>1, <2>2, <2>4 DEF Typed
<1>6. Counted'
  <2>1. "swapchain" \in ready => imageCount \in 1..KMaxImages /\ 3 < at
    BY <1>1, <1>4, ComponentsAre DEF Counted
  <2>2. "renderer" \in ready => framebufferCount = imageCount /\ 4 < at
    BY <1>1, <1>4, ComponentsAre DEF Counted
  <2>3. done' = 0 /\ ~Initialising'
    BY <1>2 DEF Initialising
  <2>4. "swapchain" \in ready' => imageCount' \in 1..KMaxImages
    BY <1>2, <1>3, <2>1
  <2>5. "renderer" \in ready' => framebufferCount' = imageCount'
    BY <1>2, <1>3, <2>2
  <2> QED
    BY <2>3, <2>4, <2>5 DEF Counted
<1>7. Standing'
  <2>1. at' = 1 => ready = {}
    <3> SUFFICES ASSUME at' = 1 PROVE ready = {}
      OBVIOUS
    <3>1. at = 1
      BY <1>2
    <3>2. \A k \in 1..5 : Components[k] \notin ready
      BY <1>4, <3>1
    <3> QED
      BY <1>1, <3>2, ComponentsAre DEF Typed
  <2>2. \A k \in 1..5 : Components[k] \in ready => k <= at'
    BY <1>2, <1>4
  <2>3. phase' = "returned" => at' = 1
    BY <1>2
  <2> QED
    BY <1>2, <2>1, <2>2, <2>3 DEF Standing, Initialising
<1>8. Complete'
  BY <1>2, <1>3, <1>4 DEF Complete
<1>9. Kept'
  <2>1. phase' = "returned" => held' = {}
    BY <1>2, <1>3
  <2> QED
    BY <1>2, <1>3, <2>1 DEF Kept, Initialising
<1>10. Planned'
  BY <1>2, EmptyInOrder DEF Planned, Cleaning
<1>11. ParentsOutlive'
  BY <1>1, <1>2 DEF ParentsOutlive
<1>12. NothingLeaks'
  BY <1>1, <1>2, <1>3 DEF NothingLeaks
<1> QED
  BY <1>3, <1>5, <1>6, <1>7, <1>8, <1>9, <1>10, <1>11, <1>12 DEF IInv

\* A Shutdown returns.
LEMMA ShutdownDoneIInv ==
  ASSUME IInv, ShutdownDone
  PROVE  IInv'
<1>1. /\ Typed /\ Counted /\ Standing /\ Complete /\ Kept /\ Left /\ Planned
      /\ HandlesLive /\ ParentsOutlive /\ NothingLeaks
  BY DEF IInv
<1>2. /\ phase = "destroying" /\ todo = <<>> /\ Forget(Current)
      /\ done' = done /\ todo' = todo /\ live' = live /\ exitCode' = exitCode
      /\ ready' = ready \ {Components[at]} /\ at \in 1..5
      /\ IF at > 1 THEN phase' = "shutdown" /\ at' = at - 1
         ELSE phase' = "returned" /\ at' = at
  BY <1>1 DEF ShutdownDone, Typed, Current
<1>3. /\ \A o \in held' : Level(o) \in 1..(at - 1) /\ Components[Level(o)] \in ready
      /\ \A k \in 1..5 : k # at /\ Components[k] \in ready =>
           Whole(k, imageCount') \subseteq held'
      /\ imageCount' = IF at = 3 THEN 0 ELSE imageCount
      /\ framebufferCount' = IF at = 4 THEN 0 ELSE framebufferCount
      /\ Left' /\ HandlesLive' /\ (at = 1 => live = {})
  BY <1>2, NothingForgotten DEF Cleaning
<1>4. ASSUME NEW k \in 1..5
      PROVE  Components[k] \in ready' <=> Components[k] \in ready /\ k < at
  <2>1. Components[k] \in ready => k <= at
    BY <1>1 DEF Standing
  <2> QED
    BY <1>2, <2>1, ComponentsDiffer
<1>5. Typed'
  <2>1. /\ at' \in 1..5
        /\ phase' \in {"init", "undo", "loop", "shutdown", "destroying", "returned"}
    BY <1>2
  <2>2. imageCount' \in 0..MaxDriverImages /\ framebufferCount' \in 0..KMaxImages
    BY <1>1, <1>3, ImagesAssumption DEF Typed
  <2>3. imageCount' \in Nat
    BY <2>2, ImagesAssumption
  <2>4. Len(MadeBy(at', imageCount')) \in Nat
    BY <2>1, <2>3, PlacesIn
  <2>5. done' = 0
    BY <1>1, <1>2 DEF Counted, Initialising
  <2>6. ready' \subseteq {Components[k] : k \in DOMAIN Components}
    BY <1>1, <1>2 DEF Typed
  <2>7. exitCode' \in {"none", "EXIT_SUCCESS", "EXIT_FAILURE"}
    BY <1>1, <1>2 DEF Typed
  <2> QED
    BY <2>1, <2>2, <2>4, <2>5, <2>6, <2>7 DEF Typed
<1>6. Counted'
  <2>1. "swapchain" \in ready' => imageCount \in 1..KMaxImages /\ 3 < at
    BY <1>1, <1>4, ComponentsAre DEF Counted
  <2>2. "renderer" \in ready' => framebufferCount = imageCount /\ 4 < at
    BY <1>1, <1>4, ComponentsAre DEF Counted
  <2>3. done' = 0 /\ ~Initialising'
    BY <1>1, <1>2 DEF Counted, Initialising
  <2>4. "swapchain" \in ready' => imageCount' \in 1..KMaxImages
    BY <1>2, <1>3, <2>1
  <2>5. "renderer" \in ready' => framebufferCount' = imageCount'
    BY <1>2, <1>3, <2>2
  <2> QED
    BY <2>3, <2>4, <2>5 DEF Counted
<1>7. Standing'
  <2>1. at = 1 => ready' = {}
    <3> SUFFICES ASSUME at = 1 PROVE ready' = {}
      OBVIOUS
    <3>1. \A k \in 1..5 : Components[k] \notin ready'
      BY <1>4
    <3>2. ready' \subseteq {Components[k] : k \in DOMAIN Components}
      BY <1>1, <1>2 DEF Typed
    <3> QED
      BY <3>1, <3>2, ComponentsAre
  <2>2. \A k \in 1..5 : Components[k] \in ready' => k <= at'
    BY <1>2, <1>4
  <2>3. phase' = "returned" => at' = 1 /\ at = 1
    BY <1>2
  <2> QED
    BY <1>2, <2>1, <2>2, <2>3 DEF Standing, Initialising
<1>8. Complete'
  BY <1>2, <1>3, <1>4 DEF Complete
<1>9. Kept'
  <2>1. phase' = "returned" => held' = {}
    BY <1>2, <1>3
  <2>2. ASSUME NEW o \in held' PROVE Components[Level(o)] \in ready'
    <3>1. Level(o) \in 1..(at - 1) /\ Components[Level(o)] \in ready
      BY <1>3
    <3> QED
      BY <1>2, <1>4, <3>1
  <2> QED
    BY <1>2, <2>1, <2>2 DEF Kept, Initialising
<1>10. Planned'
  BY <1>2, EmptyInOrder DEF Planned, Cleaning
<1>11. ParentsOutlive'
  BY <1>1, <1>2 DEF ParentsOutlive
<1>12. NothingLeaks'
  BY <1>1, <1>2, <1>3 DEF NothingLeaks
<1> QED
  BY <1>3, <1>5, <1>6, <1>7, <1>8, <1>9, <1>10, <1>11, <1>12 DEF IInv

\* A step that changes nothing.
LEMMA NothingIInv ==
  ASSUME IInv, UNCHANGED vars
  PROVE  IInv'
BY DEF IInv, vars, Typed, Counted, Standing, Complete, Kept, Left, Planned, HandlesLive,
       ParentsOutlive, NothingLeaks, Initialising, Cleaning
-----------------------------------------------------------------------------
\* The inductive invariant.
THEOREM AlwaysIInv == Spec => []IInv
<1>1. Init => IInv
  BY InitIInv
<1>2. IInv /\ [Next]_vars => IInv'
  <2> SUFFICES ASSUME IInv, [Next]_vars PROVE IInv'
    OBVIOUS
  <2>1. CASE CreateObject
    BY <2>1, CreateObjectIInv
  <2>2. CASE InitOk
    BY <2>2, InitOkIInv
  <2>3. CASE InitFails
    BY <2>3, InitFailsIInv
  <2>4. CASE DestroyObject
    BY <2>4, DestroyObjectIInv
  <2>5. CASE UndoDone
    BY <2>5, UndoDoneIInv
  <2>6. CASE LoopEnds
    BY <2>6, LoopEndsIInv
  <2>7. CASE ShutdownStarts
    BY <2>7, ShutdownStartsIInv
  <2>8. CASE ShutdownDone
    BY <2>8, ShutdownDoneIInv
  <2>9. CASE Terminated
    BY <2>9, NothingIInv DEF Terminated
  <2>10. CASE UNCHANGED vars
    BY <2>10, NothingIInv
  <2> QED
    BY <2>1, <2>2, <2>3, <2>4, <2>5, <2>6, <2>7, <2>8, <2>9, <2>10 DEF Next
<1> QED
  BY <1>1, <1>2, PTL DEF Spec

\* The types hold whatever fails.
THEOREM TypeCorrect == Spec => []TypeOK
<1>1. IInv => TypeOK
  <2> SUFFICES ASSUME IInv PROVE TypeOK
    OBVIOUS
  <2>1. Typed /\ Left /\ HandlesLive /\ Planned
    BY DEF IInv
  <2>2. /\ at \in 1..5 /\ imageCount \in Nat /\ imageCount \in 0..MaxDriverImages
        /\ Current = Components[at] /\ Len(Components) = 5
    BY <2>1, ImagesAssumption, ComponentsAre DEF Typed, Current
  <2>3. done \in 0..Len(Creates(Current))
    BY <2>1, <2>2, CreatesAre DEF Typed
  <2>4. live \subseteq Objects
    <3>1. ASSUME NEW o \in live PROVE o \in Objects
      <4>1. o \in Anything /\ o[2] \in 1..Most(o[1], imageCount)
        BY <2>1 DEF Left, Whole
      <4>2. o[1] \in Kinds /\ o = <<o[1], o[2]>>
        BY <4>1, Pairs
      <4>3. o[2] \in 1..(KMaxImages + MaxDriverImages + 2)
        BY <2>2, <4>1, ImagesAssumption DEF Most
      <4> QED
        BY <4>2, <4>3 DEF Objects
    <3> QED
      BY <3>1
  <2>5. todo \in Seq(Objects)
    BY <2>1 DEF Planned, DestroysInOrder
  <2> QED
    BY <2>1, <2>2, <2>3, <2>4, <2>5 DEF TypeOK, Typed, HandlesLive
<1> QED
  BY <1>1, AlwaysIInv, PTL

\* No member keeps the handle of an object that is gone.
THEOREM NoDanglingHandle == Spec => []HandlesLive
<1>1. IInv => HandlesLive
  BY DEF IInv
<1> QED
  BY <1>1, AlwaysIInv, PTL

\* Nothing is destroyed under an object made from it.
THEOREM ChildrenGoFirst == Spec => []ParentsOutlive
<1>1. IInv => ParentsOutlive
  BY DEF IInv
<1> QED
  BY <1>1, AlwaysIInv, PTL

\* Components become ready in order and cease to be in reverse.
Stacked ==
  \A k \in 1..5 : Components[k] \in ready => \A j \in 1..k : Components[j] \in ready

LEMMA AlwaysStacked == Spec => []Stacked
<1>1. Init => Stacked
  BY DEF Init, Stacked
<1>2. IInv /\ Stacked /\ [Next]_vars => Stacked'
  <2> SUFFICES ASSUME IInv, Stacked, [Next]_vars,
                      NEW k \in 1..5, Components[k] \in ready', NEW j \in 1..k
               PROVE  Components[j] \in ready'
    BY DEF Stacked
  <2>1. Standing /\ at \in 1..5 /\ j \in 1..5 /\ Current = Components[at]
    BY DEF IInv, Typed, Current
  <2>2. CASE InitOk
    <3>1. ready' = ready \cup {Components[at]} /\ phase = "init"
      BY <2>1, <2>2 DEF InitOk
    <3>2. CASE Components[k] \in ready
      BY <3>1, <3>2 DEF Stacked
    <3>3. CASE Components[k] = Components[at]
      <4>1. k = at
        BY <2>1, <3>3, ComponentsDiffer
      <4>2. j < at => Components[j] \in ready
        BY <2>1, <3>1 DEF Standing, Initialising
      <4> QED
        BY <3>1, <4>1, <4>2
    <3> QED
      BY <3>1, <3>2, <3>3
  <2>3. CASE ShutdownDone
    <3>1. ready' = ready \ {Components[at]}
      BY <2>1, <2>3 DEF ShutdownDone
    <3>2. Components[k] \in ready /\ k # at /\ k <= at
      BY <2>1, <3>1 DEF Standing
    <3>3. Components[j] \in ready /\ j # at
      BY <2>1, <3>2 DEF Stacked
    <3> QED
      BY <2>1, <3>1, <3>3, ComponentsDiffer
  <2>4. CASE ready' = ready
    BY <2>4 DEF Stacked
  <2> QED
    BY <2>2, <2>3, <2>4
       DEF Next, CreateObject, InitFails, DestroyObject, UndoDone, LoopEnds, ShutdownStarts,
           Terminated, vars
<1> QED
  BY <1>1, <1>2, AlwaysIInv, PTL DEF Spec

\* The surface outlives everything made after it that a call can destroy.
THEOREM SurfaceGoesLate == Spec => []SurfaceOutlivesUse
<1>1. IInv /\ Stacked => SurfaceOutlivesUse
  <2> SUFFICES ASSUME IInv, Stacked, NEW o \in live,
                      o[1] \notin {"instance", "device"} \cup Undestroyable
               PROVE  <<"surface", 1>> \in live
    BY DEF SurfaceOutlivesUse
  <2> DEFINE c == Level(o)
  <2>1. /\ at \in 1..5 /\ imageCount \in Nat
        /\ Standing /\ Complete /\ Kept /\ Left /\ HandlesLive
    BY ImagesAssumption DEF IInv, Typed
  <2>2. o \in held
    BY <2>1 DEF Left
  <2>3. /\ o[1] \in Kinds /\ c \in 1..5 /\ o = <<o[1], o[2]>>
        /\ o[2] \in 1..Most(o[1], imageCount)
    BY <2>1, <2>2, HeldIsWhole, Pairs
  <2>4. CASE o[1] = "surface"
    <3>1. o[2] = 1
      BY <2>3, <2>4 DEF Most
    <3> QED
      BY <2>3, <2>4, <3>1
  <2>5. CASE o[1] # "surface"
    <3>1. c >= 3
      BY <2>3, <2>5 DEF Level
    <3> HIDE DEF c
    <3>2. Components[c] \in ready \/ (Initialising /\ c = at)
      BY <2>1, <2>2 DEF Kept, c
    <3>3. at >= 3 /\ Components[2] \in ready
      <4>1. CASE Components[c] \in ready
        BY <2>1, <2>3, <3>1, <4>1 DEF Standing, Stacked, c
      <4>2. CASE Initialising /\ c = at
        BY <2>1, <3>1, <4>2 DEF Standing
      <4> QED
        BY <3>2, <4>1, <4>2
    <3>4. Whole(2, imageCount) \subseteq held
      BY <2>1, <3>3 DEF Complete
    <3>5. <<"surface", 1>> \in Whole(2, imageCount)
      BY <2>1 DEF Whole, Anything, Kinds, Reserved, Level, Most
    <3> QED
      BY <2>1, <3>4, <3>5 DEF HandlesLive
  <2> QED
    BY <2>4, <2>5
<1> QED
  BY <1>1, AlwaysIInv, AlwaysStacked, PTL

\* The device goes after all that can be destroyed, and main leaves nothing.
THEOREM NothingIsLeft == Spec => []NothingLeaks
<1>1. IInv => NothingLeaks
  BY DEF IInv
<1> QED
  BY <1>1, AlwaysIInv, PTL

\* The frame loop has every component complete.
THEOREM TheLoopIsEquipped == Spec => []LoopIsEquipped
<1>1. IInv => LoopIsEquipped
  <2> SUFFICES ASSUME IInv, phase = "loop" PROVE LoopIsEquipped
    BY DEF LoopIsEquipped
  <2>1. Typed /\ Counted /\ Standing /\ Complete
    BY DEF IInv
  <2>2. \A k \in 1..5 : Components[k] \in ready
    BY <2>1 DEF Standing
  <2>3. imageCount \in Nat
    BY <2>1, ImagesAssumption DEF Typed
  <2>4. \A k \in 1..5 : ObjectsOf(Components[k]) \subseteq held
    BY <2>1, <2>2, <2>3, CreatesAre DEF Complete
  <2>5. framebufferCount = imageCount /\ imageCount \in 1..KMaxImages
    BY <2>1, <2>2, ComponentsAre DEF Counted
  <2> QED
    BY <2>2, <2>4, <2>5, ComponentsAre DEF LoopIsEquipped
<1> QED
  BY <1>1, AlwaysIInv, PTL

\* Objects of one kind are at most as many as are made of it.
LEMMA AtMost ==
  ASSUME NEW kind, NEW m \in Nat, NEW S, \A o \in S : o \in {<<kind, i>> : i \in 1..m}
  PROVE  Cardinality(S) \in Nat /\ Cardinality(S) <= m
<1> DEFINE all == {<<kind, i>> : i \in 1..m}
           number == [o \in all |-> o[2]]
<1>1. IsFiniteSet(1..m) /\ Cardinality(1..m) = m
  <2>1. /\ IsFiniteSet(1..m)
        /\ Cardinality(1..m) = IF 1 > m THEN 0 ELSE m - 1 + 1
    <3>1. 1 \in Int /\ m \in Int
      OBVIOUS
    <3> QED
      BY ONLY <3>1, FS_Interval
  <2> QED
    BY <2>1
<1>2. number \in Injection(all, 1..m)
  BY DEF Injection, IsInjective
<1>3. IsFiniteSet(all) /\ Cardinality(all) <= m
  BY <1>1, <1>2, FS_Injection
<1>4. IsFiniteSet(S) /\ Cardinality(S) <= Cardinality(all)
  BY <1>3, FS_Subset
<1> QED
  BY <1>3, <1>4, FS_CardinalityType

\* The device never has more objects of a kind than were reserved for it.
THEOREM ReservationHolds == Spec => []WithinReservation
<1>1. IInv => WithinReservation
  <2> SUFFICES ASSUME IInv, NEW kind \in DOMAIN Reserved
               PROVE  Cardinality({o \in live : o[1] = kind}) <= Reserved[kind]
    BY DEF WithinReservation
  <2> DEFINE S == {o \in live : o[1] = kind}
             m == Most(kind, imageCount)
  <2>1. Typed /\ Counted /\ Standing /\ Kept /\ Left /\ HandlesLive
    BY DEF IInv
  <2>2. imageCount \in Nat /\ framebufferCount \in 0..KMaxImages /\ KMaxImages \in Nat
    BY <2>1, ImagesAssumption DEF Typed
  <2>3. ASSUME NEW o \in S
        PROVE  o \in Whole(Level(o), imageCount) /\ o[2] \in 1..m /\ o = <<kind, o[2]>>
    <3>1. o \in Whole(Level(o), imageCount) /\ o[1] = kind
      BY <2>1 DEF Left
    <3>2. o \in Anything /\ o[2] \in 1..m
      BY <3>1 DEF Whole
    <3> QED
      BY <3>1, <3>2, Pairs
  <2>4. m \in Nat
    BY <2>2 DEF Most
  <2>5. Cardinality(S) <= m
    <3>1. \A o \in S : o \in {<<kind, i>> : i \in 1..m}
      BY <2>3
    <3> HIDE DEF S, m
    <3> QED
      BY <2>4, <3>1, AtMost
  <2>6. ASSUME kind \in {"imageView", "framebuffer"}, S # {} PROVE m <= KMaxImages
    <3>1. PICK o \in S : TRUE
      BY <2>6
    <3>2. /\ o \in live /\ o[1] = kind /\ o[1] \notin Undestroyable
          /\ Level(o) = IF kind = "imageView" THEN 3 ELSE 4
      BY <2>6, <3>1 DEF Undestroyable, Level
    <3>3. o \in held
      BY <2>1, <3>2 DEF Left
    <3>4. m = imageCount
      BY <2>6 DEF Most
    <3>5. CASE Components[Level(o)] \in ready
      BY <2>1, <2>2, <2>6, <3>2, <3>4, <3>5, ComponentsAre DEF Counted
    <3>6. CASE Initialising /\ Level(o) = at
      <4>1. Place(o, imageCount) <= done
        BY <2>1, <3>3, <3>6 DEF Kept
      <4>2. kind = "imageView" => Place(o, imageCount) > 1 /\ Place(o, imageCount) \in Nat
        BY <2>3, <3>1, <3>2, <3>4 DEF Place
      <4>3. done \in Nat
        <5>1. Len(MadeBy(at, imageCount)) \in Nat
          BY <2>1, <2>2, PlacesIn DEF Typed
        <5> QED
          BY <2>1, <5>1 DEF Typed
      <4>4. (at = 3 /\ done > 1) \/ at > 3
        BY <2>6, <3>2, <3>6, <4>1, <4>2, <4>3
      <4> QED
        BY <2>1, <3>4, <3>6, <4>4 DEF Counted
    <3> QED
      BY <2>1, <3>3, <3>5, <3>6 DEF Kept
  <2>7. CASE kind \in {"imageView", "framebuffer"} /\ S # {}
    <3>1. Reserved[kind] = KMaxImages
      BY <2>7 DEF Reserved
    <3>2. Cardinality(S) \in Nat
      <4>1. \A o \in S : o \in {<<kind, i>> : i \in 1..m}
        BY <2>3
      <4> HIDE DEF S, m
      <4> QED
        BY <2>4, <4>1, AtMost
    <3> QED
      BY <2>2, <2>4, <2>5, <2>6, <2>7, <3>1, <3>2
  <2>8. CASE S = {}
    <3>1. Cardinality(S) = 0 /\ Reserved[kind] \in Nat
      BY <2>2, <2>8, FS_EmptySet DEF Reserved
    <3> QED
      BY <3>1
  <2>9. CASE kind \notin {"imageView", "framebuffer"}
    <3>1. m <= Reserved[kind]
      BY <2>9 DEF Most, Reserved
    <3>2. Cardinality(S) \in Nat /\ Reserved[kind] \in Nat
      <4>1. \A o \in S : o \in {<<kind, i>> : i \in 1..m}
        BY <2>3
      <4>2. Reserved[kind] \in Nat
        BY <2>2 DEF Reserved
      <4> HIDE DEF S, m
      <4> QED
        BY <2>4, <4>1, <4>2, AtMost
    <3> QED
      BY <2>4, <2>5, <3>1, <3>2
  <2> QED
    BY <2>7, <2>8, <2>9
<1> QED
  BY <1>1, AlwaysIInv, PTL
==============================================================================
