----------------------- MODULE FrameLoopImages_proofs -----------------------
(***************************************************************************)
(* What reaches the screen, for any number of images and frames: presented *)
(* images hold one frame whole, the GPU never writes what the display may  *)
(* still read, and heartbeats run ahead of the GPU and of the screen by a  *)
(* bounded number of frames.                                               *)
(*                                                                         *)
(* The invariant follows a frame from the loop to the screen.  OrderInv:   *)
(* the numbers are consecutive over the screen, the presented frames and   *)
(* the queue, up to the frame in the loop's hands.  PlaceInv: an image is  *)
(* the engine's, the loop's or the display's, and never two frames'.       *)
(* ContentInv: vertices, running submission and image are of one frame.    *)
(*                                                                         *)
(* And from it the refinement: FrameLoop implements HorizonDisplay.        *)
(* PresentFrame is Send, Flip is Show, a failed call or the frame limit is *)
(* Judge, DestroyAll and DestroyAllFail are GoDown; every other step       *)
(* stutters, the GPU's write into an image because that image is not on    *)
(* the display.                                                            *)
(***************************************************************************)
EXTENDS FrameLoopRefines, FrameLoop_proofs

\* Frames shown or waiting to be, and frames whose present was issued.
NextShown == Shown + Len(flips)
Unsent ==
  IF queue = <<>> THEN NextShown
  ELSE Newest.frame + (IF Newest.op = "render" THEN 0 ELSE 1)

\* The queue carries consecutive frames, and presents what was submitted.
Numbered(q) ==
  \A k \in 2..Len(q) :
    IF q[k].op = "render" THEN q[k].frame = q[k-1].frame + 1
    ELSE q[k].frame = q[k-1].frame /\ q[k].image = q[k-1].image

\* Frame numbers are consecutive from the screen, over the presented frames and
\* the queue, to the frame in the loop's hands.
NumberInv ==
  /\ Numbered(queue)
  /\ \A k \in DOMAIN flips : flips[k].frame = Shown + k - 1
  /\ queue # <<>> => Head(queue).frame = NextShown
  /\ NextShown <= kicks /\ Unsent <= kicks
  /\ pc \notin {"Destroy", "Exited"} => kicks = Unsent
  /\ pc \in Running => kicks = frameNumber
  /\ pc = "Telemetry" => kicks = IF loopRunning THEN frameNumber + 1 ELSE frameNumber
  /\ pc = "Submit" => cmd = [frame |-> frameNumber, image |-> imageIndex]
  /\ \A k \in Renders : queue[k].image = imageIndex

\* The GPU is behind the loop by the submission it has not completed.
RenderedInv ==
  /\ Renders = {} =>
       /\ pc \in Unfilled => rendered = frameNumber
       /\ pc \in {"Present", "Telemetry"} => rendered = frameNumber + 1
  /\ \A k \in Renders : queue[k].frame = rendered
  /\ kicks <= rendered + 1

\* While the loop runs its frame limit is not reached.
LimitInv == loopRunning /\ MaxFrames > 0 => frameNumber < MaxFrames

\* The loop's invariants so far.
Base == IInv /\ ReportInv /\ Semaphores

\* The shapes a queue with at most one submission can have.
LEMMA QueueShapes ==
  ASSUME TypeOK, QueueInv, Alternates(queue)
  PROVE  /\ DOMAIN queue = 1..Len(queue) /\ Len(queue) \in 0..3
         /\ queue = <<>> <=> Len(queue) = 0
         /\ \A k \in 1..Len(queue) : queue[k] \in Operations
         /\ queue # <<>> => Head(queue) = queue[1] /\ Newest \in Operations
         /\ queue # <<>> /\ Head(queue).op = "render" => Len(queue) <= 2
         /\ \A k \in Renders : k = 1 \/ (k = 2 /\ queue[1].op = "present")
<1>1. /\ DOMAIN queue = 1..Len(queue) /\ Len(queue) \in Nat
      /\ \A k \in 1..Len(queue) : queue[k] \in Operations
      /\ queue = <<>> <=> Len(queue) = 0
  BY LenProperties, ElementOfSeq, EmptySeq DEF TypeOK
<1>2. \A j, k \in 1..Len(queue) : queue[j].op = "render" /\ queue[k].op = "render" => j = k
  BY <1>1 DEF QueueInv, Renders, RendersIn
<1>3. \A k \in 1..Len(queue) : k + 1 \in 1..Len(queue) => queue[k].op # queue[k + 1].op
  BY <1>1 DEF Alternates
<1>4. \A k \in 1..Len(queue) : queue[k].op \in {"render", "present"}
  BY <1>1 DEF Operations
<1>5. ASSUME NEW k \in 1..Len(queue), k + 2 \in 1..Len(queue)
      PROVE  queue[k].op = "present"
  BY <1>1, <1>2, <1>3, <1>4, <1>5
<1>6. Len(queue) <= 3
  <2>1. SUFFICES ASSUME Len(queue) > 3 PROVE FALSE
    BY <1>1
  <2>2. queue[1].op = "present" /\ queue[2].op = "present"
    BY <1>1, <1>5, <2>1
  <2>3. QED
    BY <1>1, <1>3, <2>1, <2>2
<1>7. queue # <<>> => Head(queue) = queue[1] /\ Newest \in Operations
  BY <1>1, TailAt DEF TypeOK, Newest
<1>8. queue # <<>> /\ Head(queue).op = "render" => Len(queue) <= 2
  BY <1>1, <1>5, <1>7
<1>9. ASSUME NEW k \in Renders PROVE k = 1 \/ (k = 2 /\ queue[1].op = "present")
  <2>1. k \in 1..Len(queue) /\ queue[k].op = "render"
    BY <1>1 DEF Renders, RendersIn
  <2>2. k = 3 => queue[1].op = "present" /\ queue[2].op = "present"
    BY <1>1, <1>3, <1>4, <1>5, <2>1
  <2>3. k # 3
    BY <1>1, <1>3, <2>1, <2>2
  <2>4. QED
    BY <1>1, <1>3, <1>4, <1>6, <2>1, <2>3
<1>10. QED
  BY <1>1, <1>6, <1>7, <1>8, <1>9

\* How many frames are between the head of the queue and the loop.
LEMMA UnsentFromHead ==
  ASSUME TypeOK, QueueInv, Alternates(queue), Numbered(queue), queue # <<>>
  PROVE  /\ Head(queue).frame \in Nat /\ Newest.frame \in Nat
         /\ Head(queue).op = "render" =>
              /\ Newest.frame = Head(queue).frame /\ Newest.image = Head(queue).image
              /\ Len(queue) = 1 <=> Newest.op = "render"
         /\ Head(queue).op = "present" =>
              /\ Len(queue) = 1 => Newest = Head(queue)
              /\ Len(queue) > 1 => Newest.frame = Head(queue).frame + 1
<1>1. /\ Len(queue) \in 1..3 /\ \A k \in 1..Len(queue) : queue[k] \in Operations
      /\ Head(queue) = queue[1] /\ Newest = queue[Len(queue)]
      /\ Head(queue).op = "render" => Len(queue) <= 2
  BY QueueShapes DEF Newest
<1>2. /\ Len(queue) > 1 =>
           IF queue[2].op = "render" THEN queue[2].frame = queue[1].frame + 1
           ELSE queue[2].frame = queue[1].frame /\ queue[2].image = queue[1].image
      /\ Len(queue) > 2 =>
           IF queue[3].op = "render" THEN queue[3].frame = queue[2].frame + 1
           ELSE queue[3].frame = queue[2].frame /\ queue[3].image = queue[2].image
  BY <1>1 DEF Numbered
<1>3. /\ Len(queue) > 1 => queue[1].op # queue[2].op
      /\ Len(queue) > 2 => queue[2].op # queue[3].op
  BY <1>1 DEF Alternates
<1>4. \A k \in 1..Len(queue) : queue[k].op \in {"render", "present"} /\ queue[k].frame \in Nat
  BY <1>1 DEF Operations
<1>5. QED
  BY <1>1, <1>2, <1>3, <1>4

\* The counts are counts.
LEMMA CountTypes ==
  ASSUME TypeOK
  PROVE  Shown \in Nat /\ Len(flips) \in Nat /\ NextShown \in Nat /\ DOMAIN flips = 1..Len(flips)
<1>1. Shown \in Nat
  BY DEF TypeOK, Shown
<1>2. Len(flips) \in Nat /\ DOMAIN flips = 1..Len(flips)
  BY LenProperties DEF TypeOK
<1>3. QED
  BY <1>1, <1>2 DEF NextShown

\* Issuing an operation that continues the numbering.
LEMMA NumberedAppend ==
  ASSUME NEW q \in Seq(Operations), Numbered(q), NEW e \in Operations,
         q # <<>> => IF e.op = "render" THEN e.frame = q[Len(q)].frame + 1
                     ELSE e.frame = q[Len(q)].frame /\ e.image = q[Len(q)].image
  PROVE  Numbered(Append(q, e))
<1> SUFFICES ASSUME NEW k \in 2..Len(Append(q, e))
             PROVE  IF Append(q, e)[k].op = "render"
                    THEN Append(q, e)[k].frame = Append(q, e)[k-1].frame + 1
                    ELSE /\ Append(q, e)[k].frame = Append(q, e)[k-1].frame
                         /\ Append(q, e)[k].image = Append(q, e)[k-1].image
  BY DEF Numbered
<1>1. Len(q) \in Nat /\ k \in 2..(Len(q) + 1) /\ (q = <<>> => Len(q) = 0)
  BY AppendAt
<1>2. CASE k = Len(q) + 1
  <2>1. q # <<>> /\ Append(q, e)[k] = e /\ Append(q, e)[k-1] = q[Len(q)]
    BY <1>1, <1>2, AppendAt
  <2>2. QED
    BY <2>1
<1>3. CASE k # Len(q) + 1
  <2>1. Append(q, e)[k] = q[k] /\ Append(q, e)[k-1] = q[k-1] /\ k \in 2..Len(q)
    BY <1>1, <1>3, AppendAt
  <2>2. QED
    BY <2>1 DEF Numbered
<1>4. QED
  BY <1>2, <1>3

\* Executing the oldest operation keeps the numbering.
LEMMA NumberedTail ==
  ASSUME NEW q \in Seq(Operations), q # <<>>, Numbered(q)
  PROVE  Numbered(Tail(q))
<1> SUFFICES ASSUME NEW k \in 2..Len(Tail(q))
             PROVE  IF Tail(q)[k].op = "render"
                    THEN Tail(q)[k].frame = Tail(q)[k-1].frame + 1
                    ELSE Tail(q)[k].frame = Tail(q)[k-1].frame /\ Tail(q)[k].image = Tail(q)[k-1].image
  BY DEF Numbered
<1>1. Len(q) \in Nat /\ k \in 2..(Len(q) - 1)
  BY TailAt
<1>2. Tail(q)[k] = q[k+1] /\ Tail(q)[k-1] = q[k] /\ k + 1 \in 2..Len(q)
  BY <1>1, TailAt
<1>3. QED
  BY <1>1, <1>2 DEF Numbered

\* The one submission queued, found at either end of the queue.
LEMMA RendersOfQueue ==
  ASSUME NEW q \in Seq(Operations), \A j, k \in RendersIn(q) : j = k
  PROVE  /\ RendersIn(q) \subseteq 1..Len(q)
         /\ q # <<>> /\ Head(q).op = "render" => RendersIn(q) = {1}
         /\ q # <<>> /\ q[Len(q)].op = "render" => RendersIn(q) = {Len(q)}
<1>1. DOMAIN q = 1..Len(q) /\ Len(q) \in Nat /\ (q # <<>> => Len(q) > 0 /\ Head(q) = q[1])
  BY LenProperties, EmptySeq
<1>2. QED
  BY <1>1 DEF RendersIn

\* The same of the queue and of the queue to be.
LEMMA RendersOfShape ==
  ASSUME TypeOK, QueueInv
  PROVE  /\ Renders \subseteq 1..Len(queue)
         /\ queue # <<>> /\ Head(queue).op = "render" => Renders = {1}
         /\ queue # <<>> /\ Newest.op = "render" => Renders = {Len(queue)}
         /\ queue = <<>> => Renders = {}
<1>1. queue = <<>> => Renders = {}
  BY EmptyRenders DEF Renders
<1>2. QED
  BY <1>1, RendersOfQueue DEF TypeOK, QueueInv, Renders, Newest

\* What the numbering of one step is argued from.
StepFacts == /\ TypeOK /\ TypeOK' /\ QueueInv /\ QueueInv' /\ LoopInv
             /\ IssueInv /\ IssueInv' /\ ReportInv
             /\ NumberInv /\ RenderedInv

\* A submission carries the loop's frame.
LEMMA NumberSubmit == StepFacts /\ Submit => NumberInv' /\ RenderedInv'
<1> SUFFICES ASSUME StepFacts, Submit PROVE NumberInv' /\ RenderedInv'
  OBVIOUS
<1> DEFINE e == Render(imageIndex, cmd.frame)
<1>1. /\ TypeOK /\ TypeOK' /\ QueueInv /\ QueueInv' /\ IssueInv /\ IssueInv' /\ ReportInv
      /\ NumberInv /\ RenderedInv /\ LoopInv
  BY DEF StepFacts
<1>2. /\ pc = "Submit" /\ pc' = "Present" /\ queue' = Append(queue, e)
      /\ UNCHANGED <<frameNumber, loopRunning, imageIndex, flips, onScreen, kicks, rendered, cmd>>
  BY DEF Submit, Goto, observers, bufferVars
<1>3. /\ e \in Operations /\ e.op = "render" /\ e.frame = frameNumber /\ e.image = imageIndex
      /\ frameNumber \in Nat
  BY <1>1, <1>2 DEF Render, NumberInv, LoopInv, TypeOK, Operations
<1>4. Renders = {} /\ kicks = frameNumber /\ kicks = Unsent /\ rendered = frameNumber
  BY <1>1, <1>2 DEF NumberInv, RenderedInv, QueueInv, Owned, Running, Unfilled
<1>5. queue # <<>> => Newest.op = "present" /\ Newest.frame + 1 = frameNumber
  <2>1. queue # <<>> => Newest.op = "present"
    BY <1>1, <1>2 DEF IssueInv, Unfilled
  <2>2. QED
    BY <1>4, <2>1 DEF Unsent
<1>6. Numbered(queue')
  BY <1>1, <1>2, <1>3, <1>5, NumberedAppend DEF NumberInv, TypeOK, Newest
<1>7. queue' # <<>> /\ Newest' = e
  BY <1>1, <1>2, <1>3, <1>5, AppendEnds DEF IssueInv
<1>8. NextShown' = NextShown /\ Shown' = Shown
  BY <1>2 DEF NextShown, Shown
<1>9. Unsent' = frameNumber
  BY <1>3, <1>7 DEF Unsent
<1>10. Head(queue').frame = NextShown'
  <2>1. CASE queue = <<>>
    <3>1. Head(queue') = e
      BY <1>1, <1>2, <1>3, <1>5, <2>1, AppendEnds DEF IssueInv
    <3>2. QED
      BY <1>3, <1>4, <1>8, <2>1, <3>1 DEF Unsent
  <2>2. CASE queue # <<>>
    BY <1>1, <1>2, <1>3, <1>5, <1>8, <2>2, AppendEnds DEF IssueInv, NumberInv
  <2>3. QED
    BY <2>1, <2>2
<1>11. Renders' = {Len(queue')}
  BY <1>1, <1>3, <1>7, RendersOfQueue DEF TypeOK, QueueInv, Renders, Newest
<1>12. \A k \in Renders' : queue'[k] = e
  BY <1>7, <1>11 DEF Newest
<1>13. NumberInv'
  BY <1>1, <1>2, <1>3, <1>4, <1>6, <1>7, <1>8, <1>9, <1>10, <1>12 DEF NumberInv
<1>14. RenderedInv'
  BY <1>1, <1>2, <1>3, <1>4, <1>11, <1>12 DEF RenderedInv
<1>15. QED
  BY <1>13, <1>14

\* A present carries the frame last submitted; the heartbeat counts it.
LEMMA NumberPresent == StepFacts /\ PresentFrame => NumberInv' /\ RenderedInv'
<1> SUFFICES ASSUME StepFacts, PresentFrame PROVE NumberInv' /\ RenderedInv'
  OBVIOUS
<1> DEFINE e == Present(imageIndex, frameNumber)
<1>1. /\ TypeOK /\ TypeOK' /\ QueueInv /\ QueueInv' /\ IssueInv /\ IssueInv' /\ ReportInv
      /\ NumberInv /\ RenderedInv /\ LoopInv
  BY DEF StepFacts
<1>2. /\ pc = "Present" /\ pc' = "Telemetry" /\ queue' = Append(queue, e) /\ kicks' = kicks + 1
      /\ UNCHANGED <<frameNumber, loopRunning, imageIndex, flips, onScreen, rendered, cmd>>
  BY DEF PresentFrame, Goto, bufferVars
<1>3. /\ e \in Operations /\ e.op = "present" /\ e.frame = frameNumber /\ e.image = imageIndex
      /\ frameNumber \in Nat /\ kicks \in Nat /\ loopRunning /\ rendered \in Nat
  BY <1>1, <1>2 DEF Present, LoopInv, TypeOK, Operations, ReportInv, Running
<1>4. kicks = frameNumber /\ kicks = Unsent
  BY <1>1, <1>2 DEF NumberInv, Running
<1>5. queue # <<>> => Newest.op = "render" /\ Newest.frame = frameNumber /\ Newest.image = imageIndex
  <2> SUFFICES ASSUME queue # <<>>
               PROVE  Newest.op = "render" /\ Newest.frame = frameNumber /\ Newest.image = imageIndex
    OBVIOUS
  <2>1. Newest.op = "render"
    BY <1>1, <1>2 DEF IssueInv
  <2>2. Renders = {Len(queue)}
    BY <1>1, <2>1, RendersOfShape
  <2>3. Newest.image = imageIndex
    BY <1>1, <2>2 DEF NumberInv, Newest
  <2>4. Newest.frame \in Nat
    BY <1>1, UnsentFromHead DEF IssueInv, NumberInv
  <2>5. QED
    BY <1>4, <2>1, <2>3, <2>4 DEF Unsent
<1>6. Numbered(queue')
  BY <1>1, <1>2, <1>3, <1>5, NumberedAppend DEF NumberInv, TypeOK, Newest
<1>7. queue' # <<>> /\ Newest' = e
  BY <1>1, <1>2, <1>3, <1>5, AppendEnds DEF IssueInv
<1>8. NextShown' = NextShown /\ Shown' = Shown /\ NextShown \in Nat
  BY <1>1, <1>2, CountTypes DEF NextShown, Shown
<1>9. Unsent' = frameNumber + 1
  BY <1>3, <1>7 DEF Unsent
<1>10. Head(queue').frame = NextShown'
  <2>1. CASE queue = <<>>
    <3>1. Head(queue') = e
      BY <1>1, <1>2, <1>3, <1>5, <2>1, AppendEnds DEF IssueInv
    <3>2. QED
      BY <1>3, <1>4, <1>8, <2>1, <3>1 DEF Unsent
  <2>2. CASE queue # <<>>
    BY <1>1, <1>2, <1>3, <1>5, <1>8, <2>2, AppendEnds DEF IssueInv, NumberInv
  <2>3. QED
    BY <2>1, <2>2
<1>11. /\ Renders' = Renders
       /\ \A k \in Renders : queue'[k] = queue[k]
  <2>1. Renders' = Renders
    BY <1>1, <1>2, <1>3, AppendRenders DEF TypeOK, Renders
  <2>2. Renders \subseteq 1..Len(queue)
    BY <1>1, RendersOfShape
  <2>3. QED
    BY <1>1, <1>2, <1>3, <2>1, <2>2, AppendAt DEF TypeOK
<1>12. NumberInv'
  <2>1. NextShown' <= kicks' /\ Unsent' <= kicks' /\ kicks' = Unsent'
    <3>1. NextShown <= kicks
      BY <1>1 DEF NumberInv
    <3>2. kicks' = frameNumber + 1 /\ Unsent' = frameNumber + 1 /\ NextShown' = NextShown
      BY <1>2, <1>4, <1>8, <1>9
    <3>3. frameNumber \in Nat /\ kicks = frameNumber /\ NextShown \in Nat
      BY <1>3, <1>4, <1>8
    <3>4. QED
      BY ONLY <3>1, <3>2, <3>3
  <2>2. \A k \in DOMAIN flips' : flips'[k].frame = Shown' + k - 1
    BY <1>1, <1>2, <1>8 DEF NumberInv
  <2>3. \A k \in Renders' : queue'[k].image = imageIndex'
    BY <1>1, <1>2, <1>11 DEF NumberInv
  <2>4. kicks' = frameNumber' + 1 /\ loopRunning' /\ pc' = "Telemetry"
    BY <1>2, <1>3, <1>4
  <2>5. QED
    BY <1>6, <1>10, <2>1, <2>2, <2>3, <2>4 DEF NumberInv, Running
<1>13. kicks <= rendered
  <2>1. CASE Renders = {}
    BY <1>1, <1>2, <1>4, <2>1, <1>3 DEF RenderedInv
  <2>2. CASE Renders # {}
    <3>1. queue # <<>>
      BY <1>1, <2>2, RendersOfShape
    <3>2. Renders = {Len(queue)}
      BY <1>1, <1>5, <3>1, RendersOfShape
    <3>3. Newest.frame = rendered
      BY <1>1, <3>2 DEF RenderedInv, Newest
    <3>4. QED
      BY <1>3, <1>4, <1>5, <3>1, <3>3
  <2>3. QED
    BY <2>1, <2>2
<1>14. RenderedInv'
  <2>1. Renders' = {} => rendered' = frameNumber' + 1
    BY <1>1, <1>2, <1>11 DEF RenderedInv
  <2>2. \A k \in Renders' : queue'[k].frame = rendered'
    BY <1>1, <1>2, <1>11 DEF RenderedInv
  <2>3. kicks' <= rendered' + 1
    BY <1>2, <1>3, <1>13
  <2>4. QED
    BY <1>2, <2>1, <2>2, <2>3 DEF RenderedInv, Unfilled
<1>15. QED
  BY <1>12, <1>14

\* A completed submission was the one frame the GPU was behind.
LEMMA NumberFinish == StepFacts /\ GpuFinish => NumberInv' /\ RenderedInv'
<1> SUFFICES ASSUME StepFacts, GpuFinish PROVE NumberInv' /\ RenderedInv'
  OBVIOUS
<1>1. /\ TypeOK /\ TypeOK' /\ QueueInv /\ QueueInv' /\ IssueInv /\ IssueInv' /\ ReportInv
      /\ NumberInv /\ RenderedInv
  BY DEF StepFacts
<1>2. /\ queue # <<>> /\ Head(queue).op = "render" /\ queue' = Tail(queue)
      /\ rendered' = rendered + 1
      /\ UNCHANGED <<pc, loopRunning, frameNumber, imageIndex, flips, onScreen, kicks, cmd>>
  BY <1>1 DEF GpuFinish, QueueInv, loopVars, bufferVars
<1>3. /\ frameNumber \in Nat /\ kicks \in Nat /\ rendered \in Nat /\ loopRunning \in BOOLEAN
      /\ pc \in Locations /\ NextShown \in Nat
  BY <1>1, CountTypes DEF TypeOK
<1>4. Renders = {1} /\ Renders' = {}
  <2>1. Renders = {1}
    BY <1>1, <1>2, RendersOfShape
  <2>2. Renders' = RendersIn(Tail(queue)) /\ queue \in Seq(Operations)
    BY <1>1, <1>2 DEF TypeOK, Renders
  <2>3. QED
    BY <1>2, <2>1, <2>2, TailRenders DEF Renders
<1>5. /\ Head(queue).frame = NextShown /\ Newest.frame = NextShown
      /\ Newest.image = Head(queue).image
      /\ Len(queue) = 1 <=> Newest.op = "render"
  BY <1>1, <1>2, UnsentFromHead DEF IssueInv, NumberInv
<1>6. Head(queue).frame = rendered
  BY <1>1, <1>2, <1>4, QueueShapes DEF RenderedInv, IssueInv
<1>7. NextShown' = NextShown /\ Shown' = Shown
  BY <1>2 DEF NextShown, Shown
<1>8. /\ queue' = <<>> <=> Newest.op = "render"
      /\ queue' # <<>> => Newest' = Newest /\ Head(queue').frame = NextShown'
  <2>1. queue' = <<>> <=> Len(queue) = 1
    BY <1>1, <1>2, TailAt DEF TypeOK
  <2>2. ASSUME queue' # <<>> PROVE Newest' = Newest /\ Head(queue').frame = NextShown'
    <3>1. Newest' = Newest
      BY <1>1, <1>2, <2>2, TailEnds DEF IssueInv
    <3>2. Len(queue) = 2
      <4>1. Len(queue) \in 0..3 /\ Len(queue) <= 2 /\ Len(queue) # 0
        BY <1>1, <1>2, QueueShapes DEF IssueInv
      <4>2. QED
        BY <2>1, <2>2, <4>1
    <3>3. Head(Tail(queue)) = queue[2]
      <4>1. queue \in Seq(Operations) /\ queue # <<>> /\ Len(queue) > 1
        BY <1>1, <1>2, <3>2 DEF TypeOK
      <4>2. QED
        BY <4>1, TailAt
    <3>4. Head(queue') = Newest
      BY <1>2, <3>2, <3>3 DEF Newest
    <3>5. QED
      BY <1>5, <1>7, <3>1, <3>4
  <2>3. QED
    BY <1>5, <2>1, <2>2
<1>9. Unsent' = Unsent
  BY <1>2, <1>5, <1>7, <1>8, <1>3 DEF Unsent
<1>10. Numbered(queue')
  BY <1>1, <1>2, NumberedTail DEF NumberInv, TypeOK
<1>11. NumberInv'
  <2>1. NextShown' <= kicks' /\ Unsent' <= kicks' /\ (pc' \notin {"Destroy", "Exited"} => kicks' = Unsent')
    BY <1>1, <1>2, <1>7, <1>9 DEF NumberInv
  <2>2. \A k \in DOMAIN flips' : flips'[k].frame = Shown' + k - 1
    BY <1>1, <1>2, <1>7 DEF NumberInv
  <2>3. /\ pc' \in Running => kicks' = frameNumber'
        /\ pc' = "Telemetry" => kicks' = IF loopRunning' THEN frameNumber' + 1 ELSE frameNumber'
        /\ pc' = "Submit" => cmd' = [frame |-> frameNumber', image |-> imageIndex']
    BY <1>1, <1>2 DEF NumberInv
  <2>4. QED
    BY <1>4, <1>8, <1>10, <2>1, <2>2, <2>3 DEF NumberInv
<1>12. RenderedInv'
  <2>1. kicks <= rendered + 1
    BY <1>1 DEF RenderedInv
  <2>2. kicks' <= rendered' + 1
    BY <1>2, <1>3, <2>1
  <2>3. Unsent = IF Newest.op = "render" THEN rendered ELSE rendered + 1
    BY <1>2, <1>3, <1>5, <1>6 DEF Unsent
  <2>4. pc \in Unfilled => rendered + 1 = frameNumber
    <3> SUFFICES ASSUME pc \in Unfilled PROVE rendered + 1 = frameNumber
      OBVIOUS
    <3>1. Newest.op = "present" /\ kicks = Unsent /\ kicks = frameNumber
      BY <1>1, <1>2 DEF IssueInv, NumberInv, Unfilled, Running
    <3>2. QED
      BY <2>3, <3>1
  <2>5. pc = "Present" => rendered = frameNumber
    <3> SUFFICES ASSUME pc = "Present" PROVE rendered = frameNumber
      OBVIOUS
    <3>1. Newest.op = "render" /\ kicks = Unsent /\ kicks = frameNumber
      BY <1>1, <1>2 DEF IssueInv, NumberInv, Running
    <3>2. QED
      BY <2>3, <3>1
  <2>6. pc = "Telemetry" => rendered = frameNumber
    <3> SUFFICES ASSUME pc = "Telemetry" PROVE rendered = frameNumber
      OBVIOUS
    <3>1. /\ Newest.op = "render" <=> ~loopRunning
          /\ kicks = Unsent /\ kicks = IF loopRunning THEN frameNumber + 1 ELSE frameNumber
      BY <1>1, <1>2 DEF IssueInv, NumberInv
    <3>2. QED
      BY <1>3, <2>3, <3>1
  <2>7. QED
    BY <1>2, <1>3, <1>4, <2>2, <2>4, <2>5, <2>6 DEF RenderedInv
<1>13. QED
  BY <1>11, <1>12

\* An executed present is the next frame for the screen.
LEMMA NumberExecute == StepFacts /\ PresentExecute => NumberInv' /\ RenderedInv'
<1> SUFFICES ASSUME StepFacts, PresentExecute PROVE NumberInv' /\ RenderedInv'
  OBVIOUS
<1> DEFINE e == [image |-> Head(queue).image, frame |-> Head(queue).frame]
<1>1. /\ TypeOK /\ TypeOK' /\ QueueInv /\ QueueInv' /\ IssueInv /\ IssueInv' /\ ReportInv
      /\ NumberInv /\ RenderedInv
  BY DEF StepFacts
<1>2. /\ queue # <<>> /\ Head(queue).op = "present" /\ queue' = Tail(queue)
      /\ flips' = Append(flips, e)
      /\ UNCHANGED <<pc, loopRunning, frameNumber, imageIndex, onScreen, kicks, cmd, rendered>>
  BY DEF PresentExecute, loopVars, bufferVars, observers
<1>3. /\ kicks \in Nat /\ NextShown \in Nat /\ Shown \in Nat /\ Len(flips) \in Nat
      /\ queue \in Seq(Operations) /\ Head(queue) \in Operations
      /\ NextShown = Shown + Len(flips)
  BY <1>1, <1>2, CountTypes, TailAt DEF TypeOK, NextShown
<1>4. /\ Len(flips') = Len(flips) + 1 /\ DOMAIN flips' = 1..(Len(flips) + 1)
      /\ \A k \in 1..Len(flips) : flips'[k] = flips[k]
      /\ flips'[Len(flips) + 1] = e
  <2>1. flips \in Seq([image : Images, frame : Nat]) /\ e \in [image : Images, frame : Nat]
    BY <1>1, <1>3 DEF TypeOK, Operations
  <2>2. flips' \in Seq([image : Images, frame : Nat])
    BY <1>1 DEF TypeOK
  <2>3. QED
    BY <1>2, <2>1, <2>2, AppendAt, LenProperties
<1>5. Head(queue).frame = NextShown
  BY <1>1, <1>2 DEF NumberInv
<1>6. Shown' = Shown /\ NextShown' = NextShown + 1
  <2>1. Shown' = Shown
    BY <1>2 DEF Shown
  <2>2. QED
    BY <1>3, <1>4, <2>1 DEF NextShown
<1>7. \A k \in DOMAIN flips' : flips'[k].frame = Shown' + k - 1
  <2> TAKE k \in DOMAIN flips'
  <2>1. CASE k = Len(flips) + 1
    BY <1>3, <1>4, <1>5, <1>6, <2>1
  <2>2. CASE k # Len(flips) + 1
    <3>1. k \in DOMAIN flips
      BY <1>1, <1>4, <2>2, CountTypes
    <3>2. QED
      BY <1>1, <1>4, <1>6, <2>2, <3>1 DEF NumberInv
  <2>3. QED
    BY <2>1, <2>2
<1>8. Numbered(queue')
  BY <1>1, <1>2, NumberedTail DEF NumberInv, TypeOK
<1>9. /\ Len(queue) \in 1..3 /\ (queue' = <<>> <=> Len(queue) = 1)
      /\ queue' # <<>> => /\ Newest' = Newest /\ Head(queue').op = "render"
                          /\ Head(queue').frame = NextShown'
  <2>1. /\ Len(queue) \in 1..3 /\ (queue' = <<>> <=> Len(queue) = 1)
        /\ Head(queue) = queue[1]
    <3>1. Len(queue) \in 0..3 /\ Len(queue) # 0 /\ Head(queue) = queue[1]
      BY <1>1, <1>2, QueueShapes DEF IssueInv
    <3>2. Tail(queue) = <<>> <=> Len(queue) = 1
      BY <1>2, <1>3, TailAt
    <3>3. QED
      BY <1>2, <3>1, <3>2
  <2>2. ASSUME queue' # <<>>
        PROVE  Newest' = Newest /\ Head(queue').op = "render" /\ Head(queue').frame = NextShown'
    <3>1. Newest' = Newest /\ Head(queue').op = "render"
      BY <1>1, <1>2, <2>2, TailEnds DEF IssueInv
    <3>2. Head(Tail(queue)) = queue[2] /\ 2 \in 2..Len(queue)
      BY <1>3, <2>1, <2>2, <1>2, TailAt
    <3>3. queue[2].frame = queue[1].frame + 1
      BY <1>1, <1>2, <3>1, <3>2 DEF NumberInv, Numbered
    <3>4. QED
      BY <1>2, <1>5, <1>6, <2>1, <3>1, <3>2, <3>3
  <2>3. QED
    BY <2>1, <2>2
<1>10. Unsent' = Unsent /\ NextShown + 1 <= Unsent
  <2>1. CASE queue' = <<>>
    <3>1. Newest = Head(queue)
      BY <1>1, <1>2, <1>9, <2>1, UnsentFromHead DEF IssueInv, NumberInv
    <3>2. QED
      BY <1>2, <1>3, <1>5, <1>6, <2>1, <3>1 DEF Unsent
  <2>2. CASE queue' # <<>>
    <3>1. Newest.frame = NextShown + 1
      BY <1>1, <1>2, <1>5, <1>9, <2>2, UnsentFromHead DEF IssueInv, NumberInv
    <3>2. QED
      BY <1>2, <1>3, <1>9, <2>2, <3>1 DEF Unsent
  <2>3. QED
    BY <2>1, <2>2
<1>11. \A k \in Renders' : k + 1 \in Renders /\ queue'[k] = queue[k + 1]
  <2>1. Renders' = RendersIn(Tail(queue)) /\ Renders = RendersIn(queue)
    BY <1>2 DEF Renders
  <2>2. \A k \in RendersIn(Tail(queue)) : k + 1 \in RendersIn(queue) /\ k \in Nat /\ k > 0
    BY <1>2, <1>3, TailRenders
  <2>3. RendersIn(queue) \subseteq 1..Len(queue)
    BY <1>1, <2>1, RendersOfShape
  <2>4. QED
    BY <1>2, <1>3, <2>1, <2>2, <2>3, TailAt
<1>12. Renders' = {} => Renders = {}
  <2>1. Renders' = RendersIn(Tail(queue)) /\ Renders = RendersIn(queue)
    BY <1>2 DEF Renders
  <2>2. 1 \notin RendersIn(queue)
    BY <1>2, <1>3, TailRenders DEF RendersIn
  <2>3. QED
    BY <1>2, <1>3, <2>1, <2>2, TailRenders
<1>13. NumberInv'
  <2>1. Unsent <= kicks /\ (pc \notin {"Destroy", "Exited"} => kicks = Unsent)
    BY <1>1 DEF NumberInv
  <2>2. Unsent \in Int
    <3>1. Newest.frame \in Nat
      BY <1>1, <1>2, UnsentFromHead DEF IssueInv, NumberInv
    <3>2. QED
      BY <1>2, <3>1 DEF Unsent
  <2>3. NextShown' <= kicks'
    BY <1>2, <1>3, <1>6, <1>10, <2>1, <2>2
  <2>4. Unsent' <= kicks' /\ (pc' \notin {"Destroy", "Exited"} => kicks' = Unsent')
    BY <1>2, <1>10, <2>1
  <2>5. \A k \in Renders' : queue'[k].image = imageIndex'
    BY <1>1, <1>2, <1>11 DEF NumberInv
  <2>6. /\ pc' \in Running => kicks' = frameNumber'
        /\ pc' = "Telemetry" => kicks' = IF loopRunning' THEN frameNumber' + 1 ELSE frameNumber'
        /\ pc' = "Submit" => cmd' = [frame |-> frameNumber', image |-> imageIndex']
    BY <1>1, <1>2 DEF NumberInv
  <2>7. QED
    BY <1>7, <1>8, <1>9, <2>3, <2>4, <2>5, <2>6 DEF NumberInv
<1>14. RenderedInv'
  BY <1>1, <1>2, <1>11, <1>12 DEF RenderedInv
<1>15. QED
  BY <1>13, <1>14

\* A flip moves one frame from the presented to the shown.
LEMMA NumberFlip == StepFacts /\ Flip => NumberInv' /\ RenderedInv'
<1> SUFFICES ASSUME StepFacts, Flip PROVE NumberInv' /\ RenderedInv'
  OBVIOUS
<1>1. TypeOK /\ NumberInv /\ RenderedInv
  BY DEF StepFacts
<1>2. /\ flips # <<>> /\ onScreen' = Head(flips) /\ flips' = Tail(flips)
      /\ UNCHANGED <<pc, loopRunning, frameNumber, imageIndex, queue, kicks, cmd, rendered>>
  BY DEF Flip, loopVars, bufferVars, observers
<1>3. /\ Len(flips) \in Nat \ {0} /\ Len(flips') = Len(flips) - 1
      /\ \A k \in 1..(Len(flips) - 1) : flips'[k] = flips[k + 1]
      /\ Head(flips) = flips[1] /\ Head(flips) \in [image : Images, frame : Nat]
      /\ flips' \in Seq([image : Images, frame : Nat])
      /\ DOMAIN flips = 1..Len(flips) /\ DOMAIN flips' = 1..(Len(flips) - 1)
  <2>1. flips \in Seq([image : Images, frame : Nat])
    BY <1>1 DEF TypeOK
  <2>2. Tail(flips) \in Seq([image : Images, frame : Nat])
    BY <1>2, <2>1, TailAt
  <2>3. DOMAIN flips = 1..Len(flips) /\ DOMAIN flips' = 1..Len(flips')
    BY <1>2, <2>1, <2>2, LenProperties
  <2>4. QED
    BY <1>2, <2>1, <2>2, <2>3, TailAt
<1>4. onScreen' # NothingShown /\ onScreen'.frame = flips[1].frame /\ flips[1].frame \in Nat
  BY <1>2, <1>3, LoopAssumption DEF NothingShown
<1>5. Shown \in Nat /\ flips[1].frame = Shown
  BY <1>1, <1>3, CountTypes DEF NumberInv
<1>6. Shown' = Shown + 1
  BY <1>4, <1>5 DEF Shown
<1>7. NextShown' = NextShown
  BY <1>3, <1>5, <1>6 DEF NextShown
<1>8. \A k \in DOMAIN flips' : flips'[k].frame = Shown' + k - 1
  <2> TAKE k \in DOMAIN flips'
  <2>1. k \in 1..(Len(flips) - 1) /\ k + 1 \in DOMAIN flips
    BY <1>3
  <2>2. flips'[k].frame = Shown + (k + 1) - 1
    BY <1>1, <1>3, <2>1 DEF NumberInv
  <2>3. k \in Nat
    BY <1>3, <2>1
  <2>4. QED
    BY ONLY <1>5, <1>6, <2>2, <2>3
<1>9. Unsent' = Unsent /\ Renders' = Renders
  BY <1>2, <1>7 DEF Unsent, Newest, Renders
<1>10. QED
  BY <1>1, <1>2, <1>7, <1>8, <1>9 DEF NumberInv, RenderedInv

\* Calls that leave the queue and the screen alone keep what depends on them.
LEMMA NumberKept ==
  ASSUME UNCHANGED <<queue, flips, onScreen>>
  PROVE  /\ Renders' = Renders /\ Unsent' = Unsent
         /\ Shown' = Shown /\ NextShown' = NextShown
  BY DEF Renders, Unsent, Shown, NextShown, Newest

\* The calls of the loop that queue nothing.
LEMMA NumberLoop ==
  StepFacts /\ UNCHANGED <<queue, flips, onScreen>> /\ [Next]_vars => NumberInv' /\ RenderedInv'
<1> SUFFICES ASSUME StepFacts, UNCHANGED <<queue, flips, onScreen>>, [Next]_vars
             PROVE  NumberInv' /\ RenderedInv'
  OBVIOUS
<1>1. /\ TypeOK /\ QueueInv /\ IssueInv /\ ReportInv /\ NumberInv /\ RenderedInv
      /\ Renders' = Renders /\ Unsent' = Unsent /\ Shown' = Shown /\ NextShown' = NextShown
      /\ queue' = queue /\ flips' = flips
  BY NumberKept DEF StepFacts
<1>2. CASE UNCHANGED <<frameNumber, imageIndex, loopRunning, cmd, pc, kicks, rendered>>
  BY <1>1, <1>2 DEF NumberInv, RenderedInv
<1>3. CASE /\ pc \in Unfilled /\ pc' \in Unfilled \ {"Submit"}
           /\ UNCHANGED <<frameNumber, imageIndex, loopRunning, kicks, rendered>>
  BY <1>1, <1>3 DEF NumberInv, RenderedInv, Running, Unfilled
<1>4. CASE DrainFaults \/ WaitAndReset \/ GetAttitude \/ WriteVertices
  <2>1. /\ pc \in Unfilled /\ pc' \in Unfilled \ {"Submit"}
        /\ UNCHANGED <<frameNumber, imageIndex, loopRunning, kicks, rendered>>
    BY <1>4 DEF DrainFaults, WaitAndReset, GetAttitude, WriteVertices, Goto, Unfilled, observers
  <2>2. QED
    BY <2>1, <1>3
<1>5. CASE Acquire
  <2>1. /\ pc = "Acquire" /\ pc' = "Record" /\ Renders = {}
        /\ UNCHANGED <<frameNumber, loopRunning, kicks, rendered>>
    BY <1>1, <1>5 DEF Acquire, Goto, observers, QueueInv, Owned
  <2>2. QED
    BY <1>1, <2>1 DEF NumberInv, RenderedInv, Running, Unfilled
<1>6. CASE RecordFrame
  <2>1. /\ pc = "Recording" /\ pc' = "Submit" /\ cmd' = [frame |-> frameNumber, image |-> imageIndex]
        /\ UNCHANGED <<frameNumber, imageIndex, loopRunning, kicks, rendered>>
    BY <1>6 DEF RecordFrame, Goto, observers
  <2>2. QED
    BY <1>1, <2>1 DEF NumberInv, RenderedInv, Running, Unfilled
<1>7. CASE PresentFail
  <2>1. /\ pc = "Present" /\ pc' = "Telemetry" /\ loopRunning' = FALSE
        /\ UNCHANGED <<frameNumber, imageIndex, kicks, rendered>>
    BY <1>7 DEF PresentFail, Goto
  <2>2. QED
    BY <1>1, <2>1 DEF NumberInv, RenderedInv, Running, Unfilled
<1>8. CASE Telemetry
  <2>1. /\ pc = "Telemetry" /\ frameNumber' = frameNumber + 1
        /\ (pc' = "Drain" /\ loopRunning) \/ pc' = "Shutdown"
        /\ UNCHANGED <<imageIndex, kicks, rendered>>
    BY <1>8 DEF Telemetry, Goto
  <2>2. QED
    BY <1>1, <2>1 DEF NumberInv, RenderedInv, Running, Unfilled
<1>9. CASE /\ pc' \in {"Shutdown", "Destroy", "Exited"} /\ (pc \in {"Destroy", "Exited"} => pc' # "Shutdown")
           /\ UNCHANGED <<frameNumber, kicks, rendered>>
           /\ imageIndex' = imageIndex \/ Renders = {}
  BY <1>1, <1>9 DEF NumberInv, RenderedInv, Running, Unfilled
<1>10. CASE \/ WaitTimeout \/ WaitFail \/ AcquireSuboptimal \/ AcquireFail \/ RecordFail
            \/ SubmitFail \/ WaitIdle \/ DestroyAll \/ WaitIdleFail \/ DestroyAllFail
  <2>1. /\ pc' \in {"Shutdown", "Destroy", "Exited"}
        /\ pc \in {"Destroy", "Exited"} => pc' # "Shutdown"
        /\ UNCHANGED <<frameNumber, kicks, rendered>>
        /\ imageIndex' = imageIndex \/ Renders = {}
    BY <1>1, <1>10 DEF WaitTimeout, WaitFail, AcquireSuboptimal, AcquireFail, RecordFail,
         SubmitFail, WaitIdle, WaitIdleFail, DestroyAll, DestroyAllFail, Abort, Goto, observers,
         QueueInv, Owned
  <2>2. QED
    BY <2>1, <1>9
<1>11. CASE ImageReady \/ GpuStart \/ ScanoutDone \/ Terminated \/ UNCHANGED vars
  <2>1. UNCHANGED <<frameNumber, imageIndex, loopRunning, cmd, pc, kicks, rendered>>
    BY <1>11 DEF ImageReady, GpuStart, ScanoutDone, Terminated, vars, loopVars, bufferVars, observers
  <2>2. QED
    BY <2>1, <1>2
<1>12. CASE PresentFrame
  BY <1>12, NumberPresent
<1>13. CASE Submit
  BY <1>13, NumberSubmit
<1>14. CASE GpuFinish
  BY <1>14, NumberFinish
<1>15. CASE PresentExecute
  BY <1>15, NumberExecute
<1>16. CASE Flip
  BY <1>16, NumberFlip
<1>17. QED
  BY <1>4, <1>5, <1>6, <1>7, <1>8, <1>10, <1>11, <1>12, <1>13, <1>14, <1>15, <1>16
  DEF Next, LoopStep, CallFails, GpuStep, DisplayStep

\* A wait for an idle device that fails leaves the queue as it is, or, with a
\* lost device, empty.
LEMMA IdleFailLeaves ==
  ASSUME WaitIdleFail \/ DestroyAllFail
  PROVE  /\ pc \in {"Shutdown", "Destroy"} /\ pc' \in {"Destroy", "Exited"}
         /\ UNCHANGED <<frameNumber, loopRunning, imageIndex, content, owner, flips, onScreen,
                        scanout, vbuf, imageAvailable, report, cause, kicks, rendered>>
         /\ (queue' = <<>> /\ fetched' = None) \/ UNCHANGED <<queue, fetched>>
  BY DEF WaitIdleFail, DestroyAllFail, IdleWaitFails, Goto, syncVars, bufferVars, observers

\* A lost device drops what is queued, after the loop.
LEMMA NumberIdleFail == StepFacts /\ (WaitIdleFail \/ DestroyAllFail) => NumberInv' /\ RenderedInv'
<1> SUFFICES ASSUME StepFacts, WaitIdleFail \/ DestroyAllFail PROVE NumberInv' /\ RenderedInv'
  OBVIOUS
<1>1. /\ pc' \in {"Destroy", "Exited"}
      /\ queue' = <<>> \/ UNCHANGED queue
      /\ UNCHANGED <<flips, onScreen, kicks, rendered>>
      /\ NumberInv /\ RenderedInv
  BY IdleFailLeaves DEF StepFacts
<1>2. CASE queue' = <<>>
  <2>1. /\ Renders' = {} /\ NextShown' = NextShown /\ Shown' = Shown /\ Unsent' = NextShown
    BY <1>1, <1>2, EmptyRenders DEF Renders, NextShown, Shown, Unsent
  <2>2. Numbered(<<>>)
    BY DEF Numbered
  <2>3. QED
    BY <1>1, <1>2, <2>1, <2>2 DEF NumberInv, RenderedInv, Running, Unfilled
<1>3. CASE UNCHANGED queue
  <2>1. Next
    BY DEF Next, CallFails
  <2>2. QED
    BY <1>1, <1>3, <2>1, NumberLoop
<1>4. QED
  BY <1>1, <1>2, <1>3

\* Frames stay consecutive, and the loop within its limit, in every step.
LEMMA StepNumber == StepFacts /\ [Next]_vars => NumberInv' /\ RenderedInv'
<1> SUFFICES ASSUME StepFacts, [Next]_vars PROVE NumberInv' /\ RenderedInv'
  OBVIOUS
<1>1. CASE UNCHANGED <<queue, flips, onScreen>>
  BY <1>1, NumberLoop
<1>2. CASE \/ Submit \/ PresentFrame \/ WaitIdleFail \/ DestroyAllFail \/ GpuFinish
           \/ PresentExecute \/ Flip
  BY <1>2, NumberSubmit, NumberPresent, NumberIdleFail, NumberFinish, NumberExecute, NumberFlip
<1>3. CASE \/ DrainFaults \/ WaitAndReset \/ WaitTimeout \/ GetAttitude \/ Acquire \/ WriteVertices
           \/ RecordFrame \/ Telemetry \/ WaitIdle \/ DestroyAll
  <2>1. UNCHANGED <<queue, flips, onScreen>>
    BY <1>3 DEF DrainFaults, WaitAndReset, WaitTimeout, GetAttitude, Acquire, WriteVertices,
                RecordFrame, Telemetry, WaitIdle, DestroyAll, deviceVars
  <2>2. QED
    BY <2>1, <1>1
<1>4. CASE WaitFail \/ AcquireSuboptimal \/ AcquireFail \/ RecordFail \/ SubmitFail \/ PresentFail
  <2>1. UNCHANGED <<queue, flips, onScreen>>
    BY <1>4 DEF WaitFail, AcquireSuboptimal, AcquireFail, RecordFail, SubmitFail, PresentFail,
                deviceVars
  <2>2. QED
    BY <2>1, <1>1
<1>5. CASE GpuStart \/ ImageReady \/ ScanoutDone \/ Terminated \/ UNCHANGED vars
  <2>1. UNCHANGED <<queue, flips, onScreen>>
    BY <1>5 DEF GpuStart, ImageReady, ScanoutDone, Terminated, vars, deviceVars
  <2>2. QED
    BY <2>1, <1>1
<1>6. QED
  BY <1>2, <1>3, <1>4, <1>5 DEF Next, LoopStep, CallFails, GpuStep, DisplayStep

\* The frame limit ends the loop the moment it is reached.
LEMMA StepLimit == TypeOK /\ ReportInv /\ LimitInv /\ [Next]_vars => LimitInv'
<1> SUFFICES ASSUME TypeOK, ReportInv, LimitInv, [Next]_vars PROVE LimitInv'
  OBVIOUS
<1>1. CASE Telemetry
  <2>1. /\ frameNumber' = frameNumber + 1 /\ frameNumber \in Nat
        /\ loopRunning' => loopRunning /\ ~(MaxFrames > 0 /\ frameNumber + 1 >= MaxFrames)
    BY <1>1 DEF Telemetry, TypeOK
  <2>2. QED
    BY <2>1, LoopAssumption DEF LimitInv
<1>2. CASE UNCHANGED frameNumber /\ (loopRunning' => loopRunning)
  BY <1>2 DEF LimitInv
<1>3. CASE \/ DrainFaults \/ WaitAndReset \/ WaitTimeout \/ GetAttitude \/ Acquire \/ WriteVertices
           \/ RecordFrame \/ Submit \/ PresentFrame \/ WaitIdle \/ DestroyAll
  <2>1. UNCHANGED frameNumber /\ (loopRunning' => loopRunning)
    BY <1>3 DEF DrainFaults, WaitAndReset, WaitTimeout, GetAttitude, Acquire, WriteVertices,
                RecordFrame, Submit, PresentFrame, WaitIdle, DestroyAll, Abort
  <2>2. QED
    BY <2>1, <1>2
<1>4. CASE \/ WaitFail \/ AcquireSuboptimal \/ AcquireFail \/ RecordFail \/ SubmitFail
           \/ PresentFail \/ WaitIdleFail \/ DestroyAllFail
  <2>1. UNCHANGED frameNumber /\ (loopRunning' => loopRunning)
    BY <1>4 DEF WaitFail, AcquireSuboptimal, AcquireFail, RecordFail, SubmitFail, PresentFail,
                WaitIdleFail, DestroyAllFail, Abort
  <2>2. QED
    BY <2>1, <1>2
<1>5. CASE GpuStep \/ DisplayStep \/ Terminated \/ UNCHANGED vars
  <2>1. UNCHANGED <<frameNumber, loopRunning>>
    BY <1>5 DEF GpuStep, GpuStart, GpuFinish, DisplayStep, ImageReady, PresentExecute, Flip,
                ScanoutDone, Terminated, vars, loopVars
  <2>2. QED
    BY <2>1, <1>2
<1>6. QED
  BY <1>1, <1>3, <1>4, <1>5 DEF Next, LoopStep, CallFails

\* Numbers, completions and the limit.
OrderInv == NumberInv /\ RenderedInv /\ LimitInv

\* Every reachable state satisfies it.
THEOREM FramesInOrder == Spec => []OrderInv
<1>1. Init => OrderInv
  BY EmptyRenders, EmptySeq, LoopAssumption
  DEF Init, OrderInv, NumberInv, RenderedInv, LimitInv, Numbered, Shown, NextShown,
      Unsent, Renders, Running, Unfilled
<1>2. Base /\ Base' /\ OrderInv /\ [Next]_vars => OrderInv'
  BY StepNumber, StepLimit DEF Base, IInv, Semaphores, OrderInv, StepFacts
<1>3. Spec => []Base
  BY HandOver, Reporting, SemaphoresInStep, PTL DEF Base
<1>4. QED
  BY <1>1, <1>2, <1>3, PTL DEF Spec
-----------------------------------------------------------------------------
(* Where the images are.                                                     *)

\* Images presented and not yet replaced on the screen.
OnDisplay(i) == i = onScreen.image \/ \E k \in DOMAIN flips : flips[k].image = i

\* The display holds the presented images, each once; what is queued belongs
\* to the loop, a frame an image, and is not the image in the loop's hands.
PlaceInv ==
  /\ \A i \in Images : OnDisplay(i) <=> owner[i] = "display"
  /\ \A j, k \in DOMAIN flips : flips[j].image = flips[k].image => j = k
  /\ \A k \in DOMAIN flips : flips[k].image # onScreen.image
  /\ \A k \in DOMAIN queue : owner[queue[k].image] = "app"
  /\ \A j, k \in DOMAIN queue : queue[j].image = queue[k].image => queue[j].frame = queue[k].frame
  /\ pc \in {"Record", "Recording", "Submit", "Present"} => owner[imageIndex] = "app"
  /\ pc \in {"Record", "Recording", "Submit"} =>
       \A k \in DOMAIN queue : queue[k].image # imageIndex
  /\ pc = "Present" =>
       \A k \in DOMAIN queue : queue[k].op = "present" => queue[k].image # imageIndex

\* An acquired image is not presented before its submission has completed, and
\* imageAvailable is signalled only when its scan-out is over.
AvailableInv ==
  /\ imageAvailable # "unsignalled" =>
       /\ imageIndex \in Images /\ owner[imageIndex] = "app"
       /\ queue # <<>> /\ Head(queue).op = "present" => Head(queue).image # imageIndex
  /\ imageAvailable = "signalled" => imageIndex \notin scanout

\* What the places of the images after a step are argued from.
PlaceFacts == /\ TypeOK /\ TypeOK' /\ QueueInv /\ LoopInv /\ IssueInv /\ SemaphoreInv
              /\ NumberInv /\ RenderedInv /\ PlaceInv /\ AvailableInv

\* Calls and device steps that move no image.
LEMMA PlaceKept ==
  ASSUME PlaceInv, AvailableInv,
         UNCHANGED <<queue, flips, onScreen, owner, imageIndex>>,
         pc' \in {"Submit", "Recording"} => pc \in {"Record", "Recording", "Submit"},
         pc' \notin {"Record", "Present"} \/ pc' = pc,
         scanout' \subseteq scanout,
         \/ imageAvailable' = imageAvailable
         \/ imageAvailable = "pending" /\ imageIndex \notin scanout
  PROVE  PlaceInv' /\ AvailableInv'
<1>1. PlaceInv'
  BY DEF PlaceInv, OnDisplay
<1>2. AvailableInv'
  BY DEF AvailableInv
<1>3. QED
  BY <1>1, <1>2

\* Acquire takes an image of the engine's: of nobody's.
LEMMA PlaceAcquire ==
  ASSUME PlaceFacts, NEW i \in Images, owner[i] = "engine", imageIndex' = i,
         owner' = [owner EXCEPT ![i] = "app"], imageAvailable' = "pending",
         pc' \notin {"Present"}, UNCHANGED <<queue, flips, onScreen>>
  PROVE  PlaceInv' /\ AvailableInv'
<1>1. /\ TypeOK /\ PlaceInv
      /\ \A k \in DOMAIN queue : queue[k] \in Operations /\ owner[queue[k].image] = "app"
      /\ queue # <<>> => 1 \in DOMAIN queue /\ Head(queue) = queue[1]
  BY QueueShapes DEF PlaceFacts, PlaceInv, IssueInv
<1>2. \A k \in DOMAIN queue : queue[k].image # i /\ queue[k].image \in Images
  BY <1>1 DEF Operations
<1>3. owner'[i] = "app" /\ \A j \in Images \ {i} : owner'[j] = owner[j]
  BY <1>1 DEF TypeOK
<1>4. PlaceInv'
  BY <1>1, <1>2, <1>3 DEF PlaceInv, OnDisplay
<1>5. AvailableInv'
  BY <1>1, <1>2, <1>3 DEF AvailableInv
<1>6. QED
  BY <1>4, <1>5

\* A submission works on the image in the loop's hands.
LEMMA PlaceSubmit == PlaceFacts /\ Submit => PlaceInv' /\ AvailableInv'
<1> SUFFICES ASSUME PlaceFacts, Submit PROVE PlaceInv' /\ AvailableInv'
  OBVIOUS
<1> DEFINE e == Render(imageIndex, cmd.frame)
<1>1. /\ TypeOK /\ LoopInv /\ IssueInv /\ PlaceInv /\ AvailableInv /\ QueueInv
      /\ queue \in Seq(Operations)
  BY DEF PlaceFacts, TypeOK
<1>2. /\ pc = "Submit" /\ pc' = "Present" /\ queue' = Append(queue, e)
      /\ UNCHANGED <<imageIndex, flips, onScreen, owner, imageAvailable, scanout>>
  BY DEF Submit, Goto, syncVars
<1>3. e \in Operations /\ e.op = "render" /\ e.image = imageIndex
  BY <1>1, <1>2 DEF Render, LoopInv, TypeOK, Operations
<1>4. /\ DOMAIN queue = 1..Len(queue) /\ Len(queue) \in Nat
      /\ DOMAIN queue' = 1..(Len(queue) + 1)
      /\ \A k \in DOMAIN queue : queue'[k] = queue[k]
      /\ queue'[Len(queue) + 1] = e
      /\ Head(queue') = IF queue = <<>> THEN e ELSE Head(queue)
  BY <1>1, <1>2, <1>3, AppendAt, LenProperties
<1>5. PlaceInv'
  BY <1>1, <1>2, <1>3, <1>4 DEF PlaceInv, OnDisplay
<1>6. AvailableInv'
  BY <1>1, <1>2, <1>3, <1>4 DEF AvailableInv
<1>7. QED
  BY <1>5, <1>6

\* A present is of the image submitted.
LEMMA PlacePresent == PlaceFacts /\ PresentFrame => PlaceInv' /\ AvailableInv'
<1> SUFFICES ASSUME PlaceFacts, PresentFrame PROVE PlaceInv' /\ AvailableInv'
  OBVIOUS
<1> DEFINE e == Present(imageIndex, frameNumber)
<1>1. /\ TypeOK /\ LoopInv /\ IssueInv /\ PlaceInv /\ AvailableInv /\ QueueInv
      /\ SemaphoreInv /\ NumberInv /\ queue \in Seq(Operations)
  BY DEF PlaceFacts, TypeOK
<1>2. /\ pc = "Present" /\ pc' = "Telemetry" /\ queue' = Append(queue, e)
      /\ UNCHANGED <<imageIndex, flips, onScreen, owner, imageAvailable, scanout>>
  BY DEF PresentFrame, Goto, syncVars
<1>3. e \in Operations /\ e.op = "present" /\ e.image = imageIndex /\ e.frame = frameNumber
  BY <1>1, <1>2 DEF Present, LoopInv, TypeOK, Operations
<1>4. /\ DOMAIN queue = 1..Len(queue) /\ Len(queue) \in Nat
      /\ DOMAIN queue' = 1..(Len(queue) + 1)
      /\ \A k \in DOMAIN queue : queue'[k] = queue[k] /\ queue[k] \in Operations
      /\ queue'[Len(queue) + 1] = e
      /\ Head(queue') = IF queue = <<>> THEN e ELSE Head(queue)
  BY <1>1, <1>2, <1>3, AppendAt, LenProperties
<1>5. \A k \in DOMAIN queue : queue[k].image = imageIndex => queue[k].frame = frameNumber
  <2> SUFFICES ASSUME NEW k \in DOMAIN queue, queue[k].image = imageIndex
               PROVE  queue[k].frame = frameNumber
    OBVIOUS
  <2>1. queue[k].op = "render"
    BY <1>1, <1>2, <1>4 DEF PlaceInv, Operations
  <2>2. queue # <<>> /\ Newest.op = "render"
    BY <1>1, <1>2 DEF IssueInv
  <2>3. k = Len(queue)
    BY <1>1, <2>1, <2>2, RendersOfShape DEF Renders, RendersIn
  <2>4. Newest.frame \in Nat /\ kicks = Unsent /\ kicks = frameNumber
    BY <1>1, <1>2, <2>2, UnsentFromHead DEF IssueInv, NumberInv, Running
  <2>5. QED
    BY <2>2, <2>3, <2>4 DEF Unsent, Newest
<1>6. PlaceInv'
  BY <1>1, <1>2, <1>3, <1>4, <1>5 DEF PlaceInv, OnDisplay
<1>7. imageAvailable # "unsignalled" => queue # <<>>
  <2>1. queue = <<>> => Renders = {}
    BY EmptyRenders DEF Renders
  <2>2. QED
    BY <1>1, <1>2, <2>1 DEF SemaphoreInv
<1>8. AvailableInv'
  BY <1>1, <1>2, <1>3, <1>4, <1>7 DEF AvailableInv
<1>9. QED
  BY <1>6, <1>8

\* The oldest operation leaves the queue and the others move up.
LEMMA TailDomain ==
  ASSUME TypeOK, queue # <<>>, queue' = Tail(queue)
  PROVE  \A k \in DOMAIN queue' : k + 1 \in DOMAIN queue /\ queue'[k] = queue[k + 1]
<1>1. queue \in Seq(Operations)
  BY DEF TypeOK
<1>2. /\ DOMAIN queue = 1..Len(queue) /\ DOMAIN Tail(queue) = 1..(Len(queue) - 1)
      /\ Len(queue) \in Nat
  <2>1. Tail(queue) \in Seq(Operations) /\ Len(Tail(queue)) = Len(queue) - 1
    BY <1>1, TailAt
  <2>2. QED
    BY <1>1, <2>1, LenProperties
<1>3. QED
  BY <1>1, <1>2, TailAt

\* The end of a submission moves no image.
LEMMA PlaceFinish == PlaceFacts /\ GpuFinish => PlaceInv' /\ AvailableInv'
<1> SUFFICES ASSUME PlaceFacts, GpuFinish PROVE PlaceInv' /\ AvailableInv'
  OBVIOUS
<1>1. TypeOK /\ PlaceInv /\ QueueInv
  BY DEF PlaceFacts
<1>2. /\ queue # <<>> /\ queue' = Tail(queue) /\ imageAvailable' = "unsignalled"
      /\ UNCHANGED <<pc, imageIndex, flips, onScreen, owner, scanout>>
  BY <1>1 DEF GpuFinish, QueueInv, loopVars
<1>3. \A k \in DOMAIN queue' : k + 1 \in DOMAIN queue /\ queue'[k] = queue[k + 1]
  BY <1>1, <1>2, TailDomain
<1>4. PlaceInv'
  BY <1>1, <1>2, <1>3 DEF PlaceInv, OnDisplay
<1>5. QED
  BY <1>2, <1>4 DEF AvailableInv

\* A present moves its image from the loop to the display.
LEMMA PlaceExecute == PlaceFacts /\ PresentExecute => PlaceInv' /\ AvailableInv'
<1> SUFFICES ASSUME PlaceFacts, PresentExecute PROVE PlaceInv' /\ AvailableInv'
  OBVIOUS
<1> DEFINE i == Head(queue).image
           e == [image |-> Head(queue).image, frame |-> Head(queue).frame]
<1>1. /\ TypeOK /\ TypeOK' /\ PlaceInv /\ QueueInv /\ AvailableInv /\ IssueInv /\ NumberInv
  BY DEF PlaceFacts
<1>2. /\ queue # <<>> /\ Head(queue).op = "present" /\ queue' = Tail(queue)
      /\ flips' = Append(flips, e) /\ owner' = [owner EXCEPT ![i] = "display"]
      /\ UNCHANGED <<pc, imageIndex, onScreen, imageAvailable, scanout>>
  BY DEF PresentExecute, loopVars
<1>3. /\ \A k \in DOMAIN queue' : k + 1 \in DOMAIN queue /\ queue'[k] = queue[k + 1]
      /\ DOMAIN queue = 1..Len(queue) /\ Len(queue) \in 0..3
      /\ Head(queue) = queue[1] /\ 1 \in DOMAIN queue /\ Head(queue) \in Operations
      /\ \A k \in DOMAIN queue : queue[k] \in Operations
  <2>1. \A k \in DOMAIN queue' : k + 1 \in DOMAIN queue /\ queue'[k] = queue[k + 1]
    BY <1>1, <1>2, TailDomain
  <2>2. QED
    BY <1>1, <1>2, <2>1, QueueShapes DEF IssueInv
<1>4. i \in Images /\ owner[i] = "app" /\ i # onScreen.image
  BY <1>1, <1>3 DEF PlaceInv, OnDisplay, Operations
<1>5. /\ DOMAIN flips = 1..Len(flips) /\ Len(flips) \in Nat
      /\ DOMAIN flips' = 1..(Len(flips) + 1)
      /\ \A k \in DOMAIN flips : flips'[k] = flips[k] /\ flips[k].image # i
      /\ flips'[Len(flips) + 1] = e /\ e.image = i
  <2>1. flips \in Seq([image : Images, frame : Nat]) /\ e \in [image : Images, frame : Nat]
    BY <1>1, <1>3 DEF TypeOK, Operations
  <2>2. flips' \in Seq([image : Images, frame : Nat])
    BY <1>1 DEF TypeOK
  <2>3. /\ DOMAIN flips = 1..Len(flips) /\ DOMAIN flips' = 1..(Len(flips) + 1)
        /\ Len(flips) \in Nat
        /\ \A k \in 1..Len(flips) : flips'[k] = flips[k]
        /\ flips'[Len(flips) + 1] = e
    BY <1>2, <2>1, <2>2, AppendAt, LenProperties
  <2>4. \A k \in DOMAIN flips : flips[k].image # i
    BY <1>1, <1>4 DEF PlaceInv, OnDisplay
  <2>5. QED
    BY <2>3, <2>4
<1>6. \A k \in DOMAIN queue : k # 1 => queue[k].image # i
  <2> SUFFICES ASSUME NEW k \in DOMAIN queue, k # 1 PROVE queue[k].image # i
    OBVIOUS
  <2>1. k \in {2, 3} /\ k <= Len(queue) /\ queue[1].frame \in Nat
    BY <1>3 DEF Operations
  <2>2. /\ queue[2].op = "render" /\ queue[2].frame = queue[1].frame + 1
        /\ k = 3 => queue[3].op = "present" /\ queue[3].frame = queue[2].frame
    BY <1>1, <1>2, <1>3, <2>1 DEF IssueInv, Alternates, NumberInv, Numbered, Operations
  <2>3. queue[k].frame # queue[1].frame
    BY <2>1, <2>2
  <2>4. QED
    BY <1>1, <1>3, <2>3 DEF PlaceInv
<1>7. /\ owner'[i] = "display" /\ \A j \in Images \ {i} : owner'[j] = owner[j]
      /\ \A k \in DOMAIN queue' : queue'[k].image \in Images \ {i}
  BY <1>1, <1>2, <1>3, <1>6 DEF TypeOK, Operations
<1>8. \A j \in Images : OnDisplay(j)' <=> OnDisplay(j) \/ j = i
  BY <1>2, <1>5 DEF OnDisplay
<1>9. pc \in {"Record", "Recording", "Submit", "Present"} => imageIndex # i
  BY <1>1, <1>2, <1>3 DEF PlaceInv
<1>10. PlaceInv'
  <2>1. \A j \in Images : OnDisplay(j)' <=> owner'[j] = "display"
    BY <1>1, <1>7, <1>8 DEF PlaceInv
  <2>2. \A j, k \in DOMAIN flips' : flips'[j].image = flips'[k].image => j = k
    BY <1>1, <1>5 DEF PlaceInv
  <2>3. \A k \in DOMAIN flips' : flips'[k].image # onScreen'.image
    BY <1>1, <1>2, <1>4, <1>5 DEF PlaceInv
  <2>4. \A k \in DOMAIN queue' : owner'[queue'[k].image] = "app"
    BY <1>1, <1>3, <1>7 DEF PlaceInv
  <2>5. \A j, k \in DOMAIN queue' :
          queue'[j].image = queue'[k].image => queue'[j].frame = queue'[k].frame
    BY <1>1, <1>3 DEF PlaceInv
  <2>6. pc' \in {"Record", "Recording", "Submit", "Present"} => owner'[imageIndex'] = "app"
    BY <1>1, <1>2, <1>7, <1>9 DEF PlaceInv, PlaceFacts, LoopInv
  <2>7. pc' \in {"Record", "Recording", "Submit"} =>
          \A k \in DOMAIN queue' : queue'[k].image # imageIndex'
    BY <1>1, <1>2, <1>3 DEF PlaceInv
  <2>8. pc' = "Present" =>
          \A k \in DOMAIN queue' : queue'[k].op = "present" => queue'[k].image # imageIndex'
    BY <1>1, <1>2, <1>3 DEF PlaceInv
  <2>9. QED
    BY <2>1, <2>2, <2>3, <2>4, <2>5, <2>6, <2>7, <2>8 DEF PlaceInv
<1>11. AvailableInv'
  <2>1. imageAvailable # "unsignalled" => imageIndex \in Images \ {i} /\ owner'[imageIndex] = "app"
    BY <1>1, <1>2, <1>7 DEF AvailableInv
  <2>2. queue' # <<>> => Head(queue').op = "render"
    BY <1>1, <1>2, TailEnds DEF IssueInv
  <2>3. QED
    BY <1>1, <1>2, <2>1, <2>2 DEF AvailableInv
<1>12. QED
  BY <1>10, <1>11

\* A flip returns the image it replaces to the engine.
LEMMA PlaceFlip == PlaceFacts /\ Flip => PlaceInv' /\ AvailableInv'
<1> SUFFICES ASSUME PlaceFacts, Flip PROVE PlaceInv' /\ AvailableInv'
  OBVIOUS
<1> DEFINE i == Head(flips).image
<1>1. TypeOK /\ PlaceInv /\ AvailableInv /\ QueueInv /\ IssueInv /\ LoopInv
  BY DEF PlaceFacts
<1>2. /\ flips # <<>> /\ onScreen' = Head(flips) /\ flips' = Tail(flips)
      /\ scanout' = scanout \cup {i}
      /\ owner' = [j \in Images |-> IF j = onScreen.image THEN "engine" ELSE owner[j]]
      /\ UNCHANGED <<pc, imageIndex, queue, imageAvailable>>
  BY DEF Flip, loopVars, syncVars
<1>3. /\ Len(flips) \in Nat \ {0} /\ DOMAIN flips = 1..Len(flips)
      /\ DOMAIN flips' = 1..(Len(flips) - 1)
      /\ \A k \in DOMAIN flips' : flips'[k] = flips[k + 1]
      /\ Head(flips) = flips[1] /\ i \in Images
  <2>1. flips \in Seq([image : Images, frame : Nat])
    BY <1>1 DEF TypeOK
  <2>2. Tail(flips) \in Seq([image : Images, frame : Nat]) /\ Len(Tail(flips)) = Len(flips) - 1
    BY <1>2, <2>1, TailAt
  <2>3. DOMAIN flips = 1..Len(flips) /\ DOMAIN flips' = 1..(Len(flips) - 1)
    BY <1>2, <2>1, <2>2, LenProperties
  <2>4. /\ Len(flips) \in Nat \ {0} /\ Head(flips) = flips[1]
        /\ \A k \in 1..(Len(flips) - 1) : flips'[k] = flips[k + 1]
        /\ Head(flips) \in [image : Images, frame : Nat]
    BY <1>2, <2>1, TailAt
  <2>5. QED
    BY <2>3, <2>4
<1>4. i # onScreen.image /\ \A k \in DOMAIN flips' : flips'[k].image # i /\ flips'[k].image # onScreen.image
  BY <1>1, <1>3 DEF PlaceInv
<1>5. \A j \in Images : OnDisplay(j)' <=> OnDisplay(j) /\ j # onScreen.image
  <2> TAKE j \in Images
  <2>1. OnDisplay(j)' => OnDisplay(j) /\ j # onScreen.image
    BY <1>2, <1>3, <1>4 DEF OnDisplay
  <2>2. ASSUME OnDisplay(j), j # onScreen.image PROVE OnDisplay(j)'
    <3>1. PICK k \in DOMAIN flips : flips[k].image = j
      BY <2>2 DEF OnDisplay
    <3>2. CASE k = 1
      BY <1>2, <1>3, <3>1, <3>2 DEF OnDisplay
    <3>3. CASE k # 1
      <4>1. k - 1 \in DOMAIN flips' /\ flips'[k - 1] = flips[k]
        BY <1>3, <3>3
      <4>2. QED
        BY <3>1, <4>1 DEF OnDisplay
    <3>4. QED
      BY <3>2, <3>3
  <2>3. QED
    BY <2>1, <2>2
<1>6. owner[i] = "display" /\ \A j \in Images : owner[j] = "app" => owner'[j] = "app"
  <2>1. owner[i] = "display"
    BY <1>1, <1>3 DEF PlaceInv, OnDisplay
  <2>2. \A j \in Images : owner[j] = "app" => j # onScreen.image
    BY <1>1 DEF PlaceInv, OnDisplay
  <2>3. QED
    BY <1>2, <2>1, <2>2
<1>7. \A k \in DOMAIN queue : queue[k].image \in Images
  BY <1>1, QueueShapes DEF IssueInv, Operations
<1>8. PlaceInv'
  <2>1. \A j \in Images : OnDisplay(j)' <=> owner'[j] = "display"
    BY <1>1, <1>2, <1>5 DEF PlaceInv
  <2>2. \A j, k \in DOMAIN flips' : flips'[j].image = flips'[k].image => j = k
    BY <1>1, <1>3 DEF PlaceInv
  <2>3. \A k \in DOMAIN flips' : flips'[k].image # onScreen'.image
    BY <1>2, <1>4
  <2>4. \A k \in DOMAIN queue' : owner'[queue'[k].image] = "app"
    BY <1>1, <1>2, <1>6, <1>7 DEF PlaceInv
  <2>5. pc' \in {"Record", "Recording", "Submit", "Present"} => owner'[imageIndex'] = "app"
    BY <1>1, <1>2, <1>6 DEF PlaceInv, LoopInv
  <2>6. QED
    BY <1>1, <1>2, <2>1, <2>2, <2>3, <2>4, <2>5 DEF PlaceInv
<1>9. AvailableInv'
  BY <1>1, <1>2, <1>6 DEF AvailableInv
<1>10. QED
  BY <1>8, <1>9

\* Images stay where they belong in every step.
LEMMA StepPlace == PlaceFacts /\ [Next]_vars => PlaceInv' /\ AvailableInv'
<1> SUFFICES ASSUME PlaceFacts, [Next]_vars PROVE PlaceInv' /\ AvailableInv'
  OBVIOUS
<1>1. PlaceInv /\ AvailableInv
  BY DEF PlaceFacts
<1>2. CASE Acquire \/ AcquireSuboptimal
  <2>1. PICK i \in Images : /\ owner[i] = "engine" /\ imageIndex' = i
                            /\ owner' = [owner EXCEPT ![i] = "app"]
    BY <1>2 DEF Acquire, AcquireSuboptimal
  <2>2. /\ imageAvailable' = "pending" /\ pc' \notin {"Present"}
        /\ UNCHANGED <<queue, flips, onScreen>>
    BY <1>2 DEF Acquire, AcquireSuboptimal, Abort, Goto
  <2>3. QED
    BY <2>1, <2>2, PlaceAcquire
<1>3. CASE \/ DrainFaults \/ WaitAndReset \/ WaitTimeout \/ GetAttitude \/ WriteVertices
           \/ RecordFrame \/ Telemetry \/ WaitIdle \/ DestroyAll
  <2>1. /\ UNCHANGED <<queue, flips, onScreen, owner, imageIndex, scanout, imageAvailable>>
        /\ pc' \in {"Submit", "Recording"} => pc \in {"Record", "Recording", "Submit"}
        /\ pc' \notin {"Record", "Present"}
    BY <1>3 DEF DrainFaults, WaitAndReset, WaitTimeout, GetAttitude, WriteVertices, RecordFrame,
                Telemetry, WaitIdle, DestroyAll, Abort, Goto, deviceVars, syncVars
  <2>2. QED
    BY <1>1, <2>1, PlaceKept
<1>4. CASE WaitFail \/ AcquireFail \/ RecordFail \/ SubmitFail \/ PresentFail
  <2>1. /\ UNCHANGED <<queue, flips, onScreen, owner, imageIndex, scanout, imageAvailable>>
        /\ pc' \in {"Shutdown", "Telemetry"}
    BY <1>4 DEF WaitFail, AcquireFail, RecordFail, SubmitFail, PresentFail, Abort, Goto,
                deviceVars, syncVars
  <2>2. QED
    BY <1>1, <2>1, PlaceKept
<1>5. CASE WaitIdleFail \/ DestroyAllFail
  <2>1. /\ UNCHANGED <<flips, onScreen, owner, imageIndex, scanout, imageAvailable>>
        /\ pc' \in {"Destroy", "Exited"}
        /\ queue' = <<>> \/ UNCHANGED queue
    BY <1>5, IdleFailLeaves
  <2>2. CASE UNCHANGED queue
    BY <1>1, <2>1, <2>2, PlaceKept
  <2>3. CASE queue' = <<>>
    <3>1. DOMAIN queue' = {}
      BY <2>3
    <3>2. QED
      BY <1>1, <2>1, <2>3, <3>1 DEF PlaceInv, AvailableInv, OnDisplay
  <2>4. QED
    BY <2>1, <2>2, <2>3
<1>6. CASE GpuStart \/ ImageReady \/ ScanoutDone \/ Terminated \/ UNCHANGED vars
  <2>1. /\ UNCHANGED <<pc, queue, flips, onScreen, owner, imageIndex>>
        /\ scanout' \subseteq scanout
        /\ \/ imageAvailable' = imageAvailable
           \/ imageAvailable = "pending" /\ imageIndex \notin scanout
    BY <1>6 DEF GpuStart, ImageReady, ScanoutDone, Terminated, vars, loopVars, deviceVars, syncVars
  <2>2. QED
    BY <1>1, <2>1, PlaceKept
<1>7. QED
  BY <1>2, <1>3, <1>4, <1>5, <1>6, PlaceSubmit, PlacePresent, PlaceFinish, PlaceExecute, PlaceFlip
  DEF Next, LoopStep, CallFails, GpuStep, DisplayStep
-----------------------------------------------------------------------------
(* What the images hold.                                                     *)

\* One frame's picture: its geometry in its colour.
Whole(f) == [geometry |-> f, colour |-> f]

\* Presented and shown images hold their frames whole.
IntactInv ==
  /\ \A k \in DOMAIN flips : content[flips[k].image] = Whole(flips[k].frame)
  /\ onScreen # NothingShown => content[onScreen.image] = Whole(onScreen.frame)

\* The vertices are those of the submission queued; once it has completed its
\* image is whole, in the queue and in the loop's hands.
ContentInv ==
  /\ queue # <<>> /\ Head(queue).op = "present" =>
       content[Head(queue).image] = Whole(Head(queue).frame)
  /\ pc = "Present" /\ Renders = {} => content[imageIndex] = Whole(frameNumber)
  /\ \A k \in Renders : vbuf = queue[k].frame
  /\ pc = "Submit" => vbuf = frameNumber
  /\ fetched # None => fetched = Head(queue).frame

\* What the pictures after a step are argued from.
ContentFacts == /\ TypeOK /\ TypeOK' /\ QueueInv /\ QueueInv' /\ LoopInv /\ IssueInv /\ IssueInv'
                /\ NumberInv /\ NumberInv' /\ RenderedInv /\ RenderedInv'
                /\ PlaceInv /\ IntactInv /\ ContentInv

\* A frame being shown is not nothing.
LEMMA ShownTypes ==
  ASSUME TypeOK
  PROVE  /\ onScreen # NothingShown => onScreen.image \in Images /\ onScreen.frame \in Nat
         /\ onScreen = NothingShown => onScreen.image = None
         /\ \A k \in DOMAIN flips : /\ flips[k] \in [image : Images, frame : Nat]
                                    /\ flips[k].image \in Images /\ flips[k] # NothingShown
<1>1. \A k \in DOMAIN flips : flips[k] \in [image : Images, frame : Nat]
  <2>1. flips \in Seq([image : Images, frame : Nat])
    BY DEF TypeOK
  <2>2. QED
    BY <2>1, LenProperties, ElementOfSeq
<1>2. \A s \in [image : Images, frame : Nat] : s.image \in Images /\ s.frame \in Nat /\ s # NothingShown
  BY LoopAssumption DEF NothingShown
<1>3. onScreen = NothingShown => onScreen.image = None
  BY DEF NothingShown
<1>4. QED
  BY <1>1, <1>2, <1>3 DEF TypeOK

\* Steps that write no image and execute no present.
LEMMA IntactKept ==
  ASSUME IntactInv, UNCHANGED <<flips, onScreen, content>>
  PROVE  IntactInv'
  BY DEF IntactInv

\* A completed submission has written one frame whole, into an image that is
\* not on the display.
LEMMA ContentFinish == ContentFacts /\ GpuFinish => IntactInv' /\ ContentInv'
<1> SUFFICES ASSUME ContentFacts, GpuFinish PROVE IntactInv' /\ ContentInv'
  OBVIOUS
<1> DEFINE i == Head(queue).image
           f == Head(queue).frame
<1>1. /\ TypeOK /\ QueueInv /\ IssueInv /\ NumberInv /\ NumberInv' /\ RenderedInv /\ RenderedInv'
      /\ PlaceInv /\ IntactInv /\ ContentInv
  BY DEF ContentFacts
<1>2. /\ queue # <<>> /\ Head(queue).op = "render" /\ queue' = Tail(queue)
      /\ fetched # None /\ fetched' = None /\ rendered' = rendered + 1
      /\ content' = [content EXCEPT ![i] = [geometry |-> fetched, colour |-> f]]
      /\ UNCHANGED <<pc, frameNumber, imageIndex, flips, onScreen, vbuf>>
  BY <1>1 DEF GpuFinish, QueueInv, loopVars, bufferVars
<1>3. fetched = f
  BY <1>1, <1>2 DEF ContentInv
<1>4. i \in Images /\ owner[i] = "app" /\ Head(queue) = queue[1] /\ Len(queue) \in 1..2
  BY <1>1, <1>2, QueueShapes DEF IssueInv, PlaceInv, Operations
<1>5. content'[i] = Whole(f) /\ \A j \in Images \ {i} : content'[j] = content[j]
  BY <1>1, <1>2, <1>3, <1>4 DEF Whole, TypeOK
<1>6. ~OnDisplay(i)
  BY <1>1, <1>4 DEF PlaceInv
<1>7. IntactInv'
  BY <1>1, <1>2, <1>5, <1>6, ShownTypes DEF IntactInv, OnDisplay
<1>8. Renders = {1} /\ Renders' = {}
  <2>1. Renders = {1}
    BY <1>1, <1>2, RendersOfShape
  <2>2. Renders' = RendersIn(Tail(queue)) /\ queue \in Seq(Operations)
    BY <1>1, <1>2 DEF TypeOK, Renders
  <2>3. QED
    BY <1>2, <2>1, <2>2, TailRenders DEF Renders
<1>9. queue' # <<>> => Head(queue').image = i /\ Head(queue').frame = f
  <2> SUFFICES ASSUME queue' # <<>> PROVE Head(queue').image = i /\ Head(queue').frame = f
    OBVIOUS
  <2>1. queue \in Seq(Operations) /\ Len(queue) = 2
    BY <1>1, <1>2, <1>4, TailAt DEF TypeOK
  <2>2. Head(queue') = Newest
    <3>1. Len(queue) > 1
      BY <2>1
    <3>2. QED
      BY <1>2, <2>1, <3>1, TailAt DEF Newest
  <2>3. QED
    BY <1>1, <1>2, <2>2, UnsentFromHead DEF IssueInv, NumberInv
<1>10. pc = "Present" => imageIndex = i /\ frameNumber = f
  <2>1. imageIndex = i /\ f = rendered
    BY <1>1, <1>4, <1>8 DEF NumberInv, RenderedInv
  <2>2. pc = "Present" => rendered + 1 = frameNumber + 1
    BY <1>1, <1>2, <1>8 DEF RenderedInv
  <2>3. rendered \in Nat /\ frameNumber \in Nat
    BY <1>1 DEF TypeOK
  <2>4. QED
    BY <2>1, <2>2, <2>3
<1>11. ContentInv'
  <2>1. queue' # <<>> => content'[Head(queue').image] = Whole(Head(queue').frame)
    BY <1>5, <1>9
  <2>2. pc' = "Present" => content'[imageIndex'] = Whole(frameNumber')
    BY <1>2, <1>5, <1>10
  <2>3. pc' = "Submit" => vbuf' = frameNumber'
    BY <1>1, <1>2 DEF ContentInv
  <2>4. QED
    BY <1>2, <1>8, <2>1, <2>2, <2>3 DEF ContentInv
<1>12. QED
  BY <1>7, <1>11

\* A present hands a whole image to the display.
LEMMA ContentExecute == ContentFacts /\ PresentExecute => IntactInv' /\ ContentInv'
<1> SUFFICES ASSUME ContentFacts, PresentExecute PROVE IntactInv' /\ ContentInv'
  OBVIOUS
<1> DEFINE e == [image |-> Head(queue).image, frame |-> Head(queue).frame]
<1>1. /\ TypeOK /\ TypeOK' /\ QueueInv /\ IssueInv /\ IntactInv /\ ContentInv
  BY DEF ContentFacts
<1>2. /\ queue # <<>> /\ Head(queue).op = "present" /\ queue' = Tail(queue)
      /\ flips' = Append(flips, e)
      /\ UNCHANGED <<pc, imageIndex, frameNumber, onScreen, content, vbuf, fetched>>
  BY DEF PresentExecute, loopVars, bufferVars
<1>3. Head(queue) \in Operations /\ queue \in Seq(Operations) /\ fetched = None
  BY <1>1, <1>2, TailAt DEF TypeOK, QueueInv
<1>4. content[e.image] = Whole(e.frame)
  BY <1>1, <1>2 DEF ContentInv
<1>5. IntactInv'
  <2>1. flips \in Seq([image : Images, frame : Nat]) /\ e \in [image : Images, frame : Nat]
    BY <1>1, <1>3 DEF TypeOK, Operations
  <2>2. DOMAIN flips = 1..Len(flips) /\ DOMAIN flips' = 1..(Len(flips) + 1)
    BY <1>1, <1>2, <2>1, AppendAt, LenProperties
  <2>3. \A k \in DOMAIN flips' : flips'[k] = e \/ (k \in DOMAIN flips /\ flips'[k] = flips[k])
    BY <1>2, <2>1, <2>2, AppendAt
  <2>4. QED
    BY <1>1, <1>2, <1>4, <2>3 DEF IntactInv
<1>6. queue' # <<>> => Head(queue').op = "render"
  BY <1>1, <1>2, TailEnds DEF IssueInv
<1>7. Renders' = RendersIn(Tail(queue)) /\ Renders = RendersIn(queue)
  BY <1>2 DEF Renders
<1>8. \A k \in Renders' : k + 1 \in Renders /\ queue'[k] = queue[k + 1]
  <2>1. \A k \in Renders' : k \in DOMAIN queue'
    BY DEF Renders, RendersIn
  <2>2. \A k \in DOMAIN queue' : queue'[k] = queue[k + 1]
    BY <1>1, <1>2, TailDomain
  <2>3. QED
    BY <1>2, <1>3, <1>7, <2>1, <2>2, TailRenders
<1>9. Renders' = {} => Renders = {}
  <2>1. 1 \notin RendersIn(queue)
    BY <1>2, <1>3, TailRenders DEF RendersIn
  <2>2. QED
    BY <1>2, <1>3, <1>7, <2>1, TailRenders
<1>10. ContentInv'
  BY <1>1, <1>2, <1>3, <1>6, <1>8, <1>9 DEF ContentInv
<1>11. QED
  BY <1>5, <1>10

\* A flip shows what was presented.
LEMMA IntactFlip == TypeOK /\ IntactInv /\ Flip => IntactInv'
<1> SUFFICES ASSUME TypeOK, IntactInv, Flip PROVE IntactInv'
  OBVIOUS
<1>1. /\ flips # <<>> /\ onScreen' = Head(flips) /\ flips' = Tail(flips)
      /\ content' = content /\ flips \in Seq([image : Images, frame : Nat])
  BY DEF Flip, TypeOK
<1>2. /\ DOMAIN flips = 1..Len(flips) /\ DOMAIN flips' = 1..(Len(flips) - 1)
      /\ Len(flips) \in Nat \ {0} /\ Head(flips) = flips[1]
  <2>1. Tail(flips) \in Seq([image : Images, frame : Nat]) /\ Len(Tail(flips)) = Len(flips) - 1
    BY <1>1, TailAt
  <2>2. QED
    BY <1>1, <2>1, TailAt, LenProperties
<1>3. \A k \in DOMAIN flips' : k + 1 \in DOMAIN flips /\ flips'[k] = flips[k + 1]
  BY <1>1, <1>2, TailAt
<1>4. QED
  BY <1>1, <1>2, <1>3 DEF IntactInv

\* The loop rewrites the vertices only while it owns them.
LEMMA StepContent == ContentFacts /\ [Next]_vars => IntactInv' /\ ContentInv'
<1> SUFFICES ASSUME ContentFacts, [Next]_vars PROVE IntactInv' /\ ContentInv'
  OBVIOUS
<1>1. /\ TypeOK /\ QueueInv /\ QueueInv' /\ LoopInv /\ IssueInv /\ NumberInv /\ IntactInv
      /\ ContentInv /\ PlaceInv
  BY DEF ContentFacts
<1>2. CASE /\ UNCHANGED <<flips, onScreen, content, queue, vbuf, fetched>>
           /\ pc' \notin {"Submit", "Present"}
  <2>1. Renders' = Renders
    BY <1>2 DEF Renders
  <2>2. QED
    BY <1>1, <1>2, <2>1, IntactKept DEF ContentInv
<1>3. CASE /\ UNCHANGED <<flips, onScreen, content, queue, fetched>>
           /\ pc = "Recording" \/ pc = "Record"
           /\ pc' = "Submit" => vbuf' = frameNumber'
           /\ pc' # "Present"
  <2>1. Renders = {} /\ Renders' = {} /\ fetched = None
    <3>1. Renders = {}
      BY <1>1, <1>3 DEF QueueInv, Owned
    <3>2. fetched = None
      BY <1>1, <3>1, HeadWithoutRenders DEF QueueInv
    <3>3. QED
      BY <1>3, <3>1, <3>2 DEF Renders
  <2>2. QED
    BY <1>1, <1>3, <2>1, IntactKept DEF ContentInv
<1>4. CASE WriteVertices \/ RecordFrame \/ RecordFail
  <2>1. /\ UNCHANGED <<flips, onScreen, content, queue, fetched>>
        /\ pc = "Recording" \/ pc = "Record"
        /\ pc' = "Submit" => vbuf' = frameNumber'
        /\ pc' # "Present"
    BY <1>4 DEF WriteVertices, RecordFrame, RecordFail, Abort, Goto, deviceVars
  <2>2. QED
    BY <2>1, <1>3
<1>5. CASE Submit
  <2> DEFINE e == Render(imageIndex, cmd.frame)
  <2>1. /\ pc = "Submit" /\ pc' = "Present" /\ queue' = Append(queue, e)
        /\ UNCHANGED <<flips, onScreen, content, vbuf, fetched>>
    BY <1>5 DEF Submit, Goto, bufferVars
  <2>2. e \in Operations /\ e.op = "render" /\ e.frame = frameNumber
    BY <1>1, <2>1 DEF Render, LoopInv, TypeOK, Operations, NumberInv
  <2>3. Renders = {} /\ fetched = None
    BY <1>1, <2>1, HeadWithoutRenders DEF QueueInv, Owned
  <2>4. queue \in Seq(Operations)
    BY <1>1 DEF TypeOK
  <2>5. Renders' = {Len(queue) + 1} /\ queue'[Len(queue) + 1] = e
    <3>1. RendersIn(Append(queue, e)) = RendersIn(queue) \cup {Len(queue) + 1}
      BY <2>2, <2>4, AppendRenders
    <3>2. Append(queue, e)[Len(queue) + 1] = e
      BY <2>2, <2>4, AppendAt
    <3>3. QED
      BY <2>1, <2>3, <3>1, <3>2 DEF Renders
  <2>6. Head(queue') = IF queue = <<>> THEN e ELSE Head(queue)
    BY <2>1, <2>2, <2>4, AppendAt
  <2>7. vbuf = frameNumber
    BY <1>1, <2>1 DEF ContentInv
  <2>8. ContentInv'
    BY <1>1, <2>1, <2>2, <2>3, <2>5, <2>6, <2>7 DEF ContentInv
  <2>9. QED
    BY <1>1, <2>1, <2>8, IntactKept
<1>6. CASE PresentFrame
  <2> DEFINE e == Present(imageIndex, frameNumber)
  <2>1. /\ pc = "Present" /\ pc' = "Telemetry" /\ queue' = Append(queue, e)
        /\ UNCHANGED <<flips, onScreen, content, vbuf, fetched>>
    BY <1>6 DEF PresentFrame, Goto, bufferVars
  <2>2. /\ e \in Operations /\ e.op = "present" /\ e.image = imageIndex /\ e.frame = frameNumber
    BY <1>1, <2>1 DEF Present, LoopInv, TypeOK, Operations
  <2>3. queue \in Seq(Operations)
    BY <1>1 DEF TypeOK
  <2>4. Renders' = Renders /\ \A k \in Renders : queue'[k] = queue[k]
    <3>1. RendersIn(Append(queue, e)) = RendersIn(queue)
      BY <2>2, <2>3, AppendRenders
    <3>2. Renders \subseteq 1..Len(queue)
      BY <1>1, RendersOfShape
    <3>3. QED
      BY <2>1, <2>2, <2>3, <3>1, <3>2, AppendAt DEF Renders
  <2>5. Head(queue') = IF queue = <<>> THEN e ELSE Head(queue)
    BY <2>1, <2>2, <2>3, AppendAt
  <2>6. queue = <<>> => Renders = {} /\ fetched = None
    BY <1>1, EmptyRenders DEF Renders, QueueInv
  <2>7. ContentInv'
    BY <1>1, <2>1, <2>2, <2>4, <2>5, <2>6 DEF ContentInv
  <2>8. QED
    BY <1>1, <2>1, <2>7, IntactKept
<1>7. CASE GpuStart
  <2>1. /\ UNCHANGED <<flips, onScreen, content, queue, vbuf, pc, frameNumber, imageIndex>>
        /\ queue # <<>> /\ Head(queue).op = "render" /\ fetched' = vbuf
    BY <1>7 DEF GpuStart, loopVars, bufferVars
  <2>2. Renders = {1} /\ Renders' = Renders /\ Head(queue) = queue[1]
    BY <1>1, <2>1, RendersOfShape, QueueShapes DEF IssueInv, Renders
  <2>3. QED
    BY <1>1, <2>1, <2>2, IntactKept DEF ContentInv
<1>8. CASE Flip
  <2>1. /\ UNCHANGED <<content, queue, vbuf, fetched, pc, frameNumber, imageIndex>>
        /\ Renders' = Renders
    BY <1>8 DEF Flip, loopVars, bufferVars, Renders
  <2>2. QED
    BY <1>1, <1>8, <2>1, IntactFlip DEF ContentInv
<1>9. CASE WaitIdleFail \/ DestroyAllFail
  <2>1. /\ UNCHANGED <<flips, onScreen, content, vbuf>> /\ pc' \in {"Destroy", "Exited"}
        /\ (queue' = <<>> /\ fetched' = None) \/ UNCHANGED <<queue, fetched>>
    BY <1>9, IdleFailLeaves
  <2>2. CASE UNCHANGED <<queue, fetched>>
    BY <2>1, <2>2, <1>2
  <2>3. CASE queue' = <<>> /\ fetched' = None
    <3>1. Renders' = {}
      BY <2>3, EmptyRenders DEF Renders
    <3>2. QED
      BY <1>1, <2>1, <2>3, <3>1, IntactKept DEF ContentInv
  <2>4. QED
    BY <2>1, <2>2, <2>3
<1>10. CASE \/ DrainFaults \/ WaitAndReset \/ WaitTimeout \/ GetAttitude \/ Acquire
            \/ Telemetry \/ WaitIdle \/ DestroyAll
  <2>1. /\ UNCHANGED <<flips, onScreen, content, queue, vbuf, fetched>>
        /\ pc' \notin {"Submit", "Present"}
    BY <1>10 DEF DrainFaults, WaitAndReset, WaitTimeout, GetAttitude, Acquire, Telemetry,
                 WaitIdle, DestroyAll, Abort, Goto, deviceVars, bufferVars
  <2>2. QED
    BY <2>1, <1>2
<1>11. CASE WaitFail \/ AcquireSuboptimal \/ AcquireFail \/ SubmitFail \/ PresentFail
  <2>1. /\ UNCHANGED <<flips, onScreen, content, queue, vbuf, fetched>>
        /\ pc' \notin {"Submit", "Present"}
    BY <1>11 DEF WaitFail, AcquireSuboptimal, AcquireFail, SubmitFail, PresentFail, Abort, Goto,
                 deviceVars, bufferVars
  <2>2. QED
    BY <2>1, <1>2
<1>12. CASE ImageReady \/ ScanoutDone \/ Terminated \/ UNCHANGED vars
  <2>1. UNCHANGED <<flips, onScreen, content, queue, vbuf, fetched, pc, frameNumber, imageIndex>>
    BY <1>12 DEF ImageReady, ScanoutDone, Terminated, vars, loopVars, deviceVars, bufferVars
  <2>2. Renders' = Renders
    BY <2>1 DEF Renders
  <2>3. QED
    BY <1>1, <2>1, <2>2, IntactKept DEF ContentInv
<1>13. QED
  BY <1>4, <1>5, <1>6, <1>7, <1>8, <1>9, <1>10, <1>11, <1>12, ContentFinish, ContentExecute
  DEF Next, LoopStep, CallFails, GpuStep, DisplayStep

\* Places and pictures.
ImageInv == PlaceInv /\ AvailableInv /\ IntactInv /\ ContentInv

\* Every reachable state satisfies it.
THEOREM ImagesInPlace == Spec => []ImageInv
<1>1. Init => ImageInv
  <2> SUFFICES ASSUME Init PROVE ImageInv
    OBVIOUS
  <2>1. /\ DOMAIN flips = {} /\ DOMAIN queue = {} /\ Renders = {} /\ queue = <<>>
        /\ pc = "Drain" /\ imageAvailable = "unsignalled" /\ fetched = None
        /\ onScreen = NothingShown
    BY EmptyRenders DEF Init, Renders
  <2>2. \A i \in Images : ~OnDisplay(i) /\ owner[i] = "engine"
    BY <2>1, LoopAssumption DEF Init, OnDisplay, NothingShown
  <2>3. QED
    BY <2>1, <2>2 DEF ImageInv, PlaceInv, AvailableInv, IntactInv, ContentInv
<1>2. /\ Base /\ Base' /\ OrderInv /\ OrderInv' /\ ImageInv /\ [Next]_vars
      => ImageInv'
  BY StepPlace, StepContent
  DEF Base, IInv, Semaphores, OrderInv, ImageInv, PlaceFacts, ContentFacts
<1>3. Spec => []Base
  BY HandOver, Reporting, SemaphoresInStep, PTL DEF Base
<1>4. QED
  BY FramesInOrder, <1>1, <1>2, <1>3, PTL DEF Spec

\* What is on the screen, or waiting to be, is one frame's attitude, geometry
\* and colour alike: no stale, mixed or half-written vertices reach it.
THEOREM PicturesAreWhole == Spec => []ImageIntact
<1>1. ImageInv => ImageIntact
  BY DEF ImageInv, IntactInv, ImageIntact, Whole
<1>2. QED
  BY ImagesInPlace, <1>1, PTL

\* The GPU writes only images the display has stopped reading.
THEOREM NeverTears == Spec => NoTearing
<1>1. TypeOK /\ QueueInv /\ NumberInv /\ AvailableInv /\ [Next]_vars
      => \A i \in Images : content'[i] # content[i] => i \notin scanout
  <2> SUFFICES ASSUME TypeOK, QueueInv, NumberInv, AvailableInv, [Next]_vars, content' # content
               PROVE  \A i \in Images : content'[i] # content[i] => i \notin scanout
    OBVIOUS
  <2>1. GpuFinish
    BY DEF Next, LoopStep, CallFails, GpuStep, DisplayStep, DrainFaults, WaitAndReset, WaitTimeout,
       GetAttitude, Acquire, WriteVertices, RecordFrame, Submit, PresentFrame, Telemetry, WaitIdle,
       DestroyAll, WaitFail, AcquireSuboptimal, AcquireFail, RecordFail, SubmitFail, PresentFail,
       WaitIdleFail, DestroyAllFail, GpuStart, ImageReady, PresentExecute, Flip, ScanoutDone,
       Terminated, vars, deviceVars
  <2>2. /\ queue # <<>> /\ Head(queue).op = "render" /\ imageAvailable = "signalled"
        /\ content' = [content EXCEPT ![Head(queue).image] =
                         [geometry |-> fetched, colour |-> Head(queue).frame]]
    BY <2>1 DEF GpuFinish, SubmitWait, QueueInv
  <2>3. Head(queue).image = imageIndex
    <3>1. Renders = {1} /\ queue[1] = Head(queue)
      BY <2>2, RendersOfShape, TailRenders DEF TypeOK
    <3>2. QED
      BY <3>1 DEF NumberInv
  <2>4. imageIndex \notin scanout
    BY <2>2 DEF AvailableInv
  <2>5. QED
    BY <2>2, <2>3, <2>4 DEF TypeOK
<1>2. Spec => [](TypeOK /\ QueueInv /\ NumberInv /\ AvailableInv)
  BY HandOver, FramesInOrder, ImagesInPlace, PTL DEF IInv, OrderInv, ImageInv
<1>3. QED
  BY <1>1, <1>2, PTL DEF Spec, NoTearing
-----------------------------------------------------------------------------
(* How far ahead the heartbeat is.                                           *)

\* As many presented frames wait as have images of their own.
LEMMA FlipsFit ==
  ASSUME TypeOK, PlaceInv, NEW T \in SUBSET Images, IsFiniteSet(T),
         \A k \in DOMAIN flips : flips[k].image \in T
  PROVE  Len(flips) <= Cardinality(T)
<1> DEFINE f == [k \in 1..Len(flips) |-> flips[k].image]
<1>1. DOMAIN flips = 1..Len(flips) /\ Len(flips) \in Nat
  BY CountTypes
<1>2. f \in Injection(1..Len(flips), T)
  BY <1>1 DEF PlaceInv, Injection, IsInjective
<1>3. Cardinality(1..Len(flips)) <= Cardinality(T)
  BY <1>2, FS_Injection
<1>4. Cardinality(1..Len(flips)) = Len(flips)
  BY <1>1, FS_Interval
<1>5. QED
  BY <1>3, <1>4

\* The frames between the heartbeat and the screen each hold an image, and so
\* do the one on the screen and the one about to be presented.
LEMMA ImagesLeft ==
  ASSUME Base, OrderInv, ImageInv, pc = "Present"
  PROVE  kicks + (IF Shown = 0 THEN 0 ELSE 1) < Shown + Cardinality(Images)
<1>1. /\ TypeOK /\ QueueInv /\ LoopInv /\ IssueInv /\ NumberInv /\ PlaceInv
      /\ imageIndex \in Images /\ owner[imageIndex] = "app"
      /\ IsFiniteSet(Images)
  BY LoopAssumption DEF Base, IInv, Semaphores, OrderInv, ImageInv, LoopInv, PlaceInv
<1> DEFINE A == Images \ {imageIndex}
           B == A \ {onScreen.image}
           C == B \ {Head(queue).image}
           s == IF Shown = 0 THEN 0 ELSE 1
<1>2. /\ Shown \in Nat /\ Len(flips) \in Nat /\ NextShown = Shown + Len(flips)
      /\ DOMAIN flips = 1..Len(flips) /\ Cardinality(Images) \in Nat
  BY <1>1, CountTypes, FS_CardinalityType DEF NextShown
<1>3. IsFiniteSet(A) /\ Cardinality(A) = Cardinality(Images) - 1
  BY <1>1, FS_RemoveElement
<1>4. IsFiniteSet(B) /\ Cardinality(B) = Cardinality(Images) - 1 - s
  <2>1. Shown = 0 <=> onScreen = NothingShown
    BY <1>1, ShownTypes DEF Shown
  <2>2. onScreen.image \in A <=> Shown # 0
    <3>1. onScreen # NothingShown => onScreen.image \in Images /\ OnDisplay(onScreen.image)
      BY <1>1, ShownTypes DEF OnDisplay
    <3>2. onScreen = NothingShown => onScreen.image \notin Images
      BY <1>1, ShownTypes, LoopAssumption
    <3>3. ~OnDisplay(imageIndex)
      BY <1>1 DEF PlaceInv
    <3>4. QED
      BY <2>1, <3>1, <3>2, <3>3
  <2>3. /\ IsFiniteSet(B)
        /\ Cardinality(B) = IF onScreen.image \in A THEN Cardinality(A) - 1 ELSE Cardinality(A)
    BY <1>3, FS_RemoveElement
  <2>4. QED
    BY <1>2, <1>3, <2>2, <2>3
<1>5. \A k \in DOMAIN flips : flips[k].image \in B
  <2> TAKE k \in DOMAIN flips
  <2>1. flips[k].image \in Images /\ OnDisplay(flips[k].image) /\ flips[k].image # onScreen.image
    BY <1>1, ShownTypes DEF OnDisplay, PlaceInv
  <2>2. QED
    BY <1>1, <2>1 DEF PlaceInv
<1>6. kicks = Unsent
  BY <1>1 DEF NumberInv
<1>7. CASE queue # <<>> /\ Head(queue).op = "present"
  <2>1. Newest.op = "render" /\ Head(queue).frame = NextShown /\ Head(queue) = queue[1]
        /\ 1 \in DOMAIN queue /\ Head(queue).image \in Images
    BY <1>1, <1>7, QueueShapes DEF IssueInv, NumberInv, Operations
  <2>2. Head(queue).image # imageIndex /\ owner[Head(queue).image] = "app"
    BY <1>1, <1>7, <2>1 DEF PlaceInv
  <2>3. Head(queue).image \in B
    BY <1>1, <2>1, <2>2 DEF PlaceInv, OnDisplay
  <2>4. IsFiniteSet(C) /\ Cardinality(C) = Cardinality(Images) - 2 - s
    <3>1. IsFiniteSet(C) /\ Cardinality(C) = Cardinality(B) - 1
      BY <1>4, <2>3, FS_RemoveElement
    <3>2. QED
      BY <1>2, <1>4, <3>1
  <2>5. \A k \in DOMAIN flips : flips[k].image \in C
    <3> TAKE k \in DOMAIN flips
    <3>1. flips[k].image \in Images /\ OnDisplay(flips[k].image)
      BY <1>1, ShownTypes DEF OnDisplay
    <3>2. flips[k].image # Head(queue).image
      BY <1>1, <2>2, <3>1 DEF PlaceInv
    <3>3. QED
      BY <1>5, <3>2
  <2>6. Len(flips) <= Cardinality(C)
    BY <1>1, <2>4, <2>5, FlipsFit
  <2>7. Len(queue) > 1
    <3>1. Len(queue) = 1 => Newest = Head(queue)
      BY <1>1, <1>7, UnsentFromHead DEF IssueInv, NumberInv
    <3>2. Len(queue) \in 0..3 /\ Len(queue) # 0
      BY <1>1, <1>7, QueueShapes DEF IssueInv
    <3>3. QED
      BY <1>7, <2>1, <3>1, <3>2
  <2>8. kicks = NextShown + 1
    <3>1. Newest.frame = NextShown + 1
      BY <1>1, <1>7, <2>1, <2>7, UnsentFromHead DEF IssueInv, NumberInv
    <3>2. QED
      BY <1>2, <1>6, <1>7, <2>1, <3>1 DEF Unsent
  <2>9. QED
    BY <1>2, <2>4, <2>6, <2>8
<1>8. CASE ~(queue # <<>> /\ Head(queue).op = "present")
  <2>1. Len(flips) <= Cardinality(B)
    BY <1>1, <1>4, <1>5, FlipsFit
  <2>2. kicks = NextShown
    <3>1. CASE queue = <<>>
      BY <1>6, <3>1 DEF Unsent
    <3>2. CASE queue # <<>>
      <4>1. Head(queue).op = "render" /\ Newest.op = "render" /\ Head(queue).frame = NextShown
        BY <1>1, <1>8, <3>2, QueueShapes DEF IssueInv, NumberInv, Operations
      <4>2. Newest.frame = NextShown
        BY <1>1, <3>2, <4>1, UnsentFromHead DEF IssueInv, NumberInv
      <4>3. QED
        BY <1>2, <1>6, <3>2, <4>1, <4>2 DEF Unsent
    <3>3. QED
      BY <3>1, <3>2
  <2>3. QED
    BY <1>2, <1>4, <2>1, <2>2
<1>9. QED
  BY <1>7, <1>8

\* A hung GPU or display silences the heartbeats.
THEOREM HeartbeatsBounded == Spec => []HeartbeatLead
<1> DEFINE Lead == kicks + (IF Shown = 0 THEN 0 ELSE 1) <= Shown + Cardinality(Images)
<1>1. Init => Lead
  <2>1. Cardinality(Images) \in Nat
    BY LoopAssumption, FS_CardinalityType
  <2>2. QED
    BY <2>1 DEF Init, Shown
<1>2. Base /\ OrderInv /\ ImageInv /\ Lead /\ [Next]_vars => Lead'
  <2> SUFFICES ASSUME Base, OrderInv, ImageInv, Lead, [Next]_vars PROVE Lead'
    OBVIOUS
  <2>1. /\ TypeOK /\ NumberInv /\ kicks \in Nat /\ Shown \in Nat /\ Cardinality(Images) \in Nat
    BY CountTypes, LoopAssumption, FS_CardinalityType DEF Base, IInv, OrderInv, TypeOK
  <2>2. CASE PresentFrame
    <3>1. pc = "Present" /\ kicks' = kicks + 1 /\ Shown' = Shown
      BY <2>2 DEF PresentFrame, Shown
    <3>2. kicks + (IF Shown = 0 THEN 0 ELSE 1) < Shown + Cardinality(Images)
      BY <3>1, ImagesLeft
    <3>3. QED
      BY <2>1, <3>1, <3>2
  <2>3. CASE Flip
    <3>1. kicks' = kicks /\ onScreen' = flips[1] /\ 1 \in DOMAIN flips
      <4>1. flips \in Seq([image : Images, frame : Nat]) /\ flips # <<>>
        BY <2>1, <2>3 DEF Flip, TypeOK
      <4>2. QED
        BY <2>3, <4>1, TailAt, CountTypes, <2>1 DEF Flip, observers
    <3>2. onScreen' # NothingShown /\ flips[1].frame = Shown
      BY <2>1, <3>1, ShownTypes DEF NumberInv
    <3>3. Shown' = Shown + 1
      BY <3>1, <3>2 DEF Shown
    <3>4. QED
      BY <2>1, <3>1, <3>3
  <2>4. CASE UNCHANGED <<kicks, onScreen>>
    BY <2>4 DEF Shown
  <2>5. CASE ~PresentFrame /\ ~Flip
    <3>1. UNCHANGED <<kicks, onScreen>>
      BY <2>5 DEF Next, LoopStep, CallFails, GpuStep, DisplayStep, DrainFaults, WaitAndReset,
         WaitTimeout, GetAttitude, Acquire, WriteVertices, RecordFrame, Submit, Telemetry, WaitIdle,
         DestroyAll, WaitFail, AcquireSuboptimal, AcquireFail, RecordFail, SubmitFail, PresentFail,
         WaitIdleFail, DestroyAllFail, GpuStart, GpuFinish, ImageReady, PresentExecute, ScanoutDone,
         Terminated, vars, deviceVars, observers
    <3>2. QED
      BY <3>1, <2>4
  <2>6. QED
    BY <2>2, <2>3, <2>5
<1>3. Spec => []Base
  BY HandOver, Reporting, SemaphoresInStep, PTL DEF Base
<1>4. Spec => []Lead
  BY FramesInOrder, ImagesInPlace, <1>1, <1>2, <1>3, PTL DEF Spec
<1>5. OrderInv /\ Lead => HeartbeatLead
  BY DEF OrderInv, RenderedInv, HeartbeatLead
<1>6. QED
  BY FramesInOrder, <1>4, <1>5, PTL
-----------------------------------------------------------------------------
\* The verdict read off the loop's state.
VerdictOK ==
  /\ loopRunning => Verdict = "none"
  /\ ~loopRunning =>
       IF cause[1] = "limit" THEN Verdict = "limit"
       ELSE \E k \in DOMAIN report :
              FatalReports = {k} /\ Verdict = report[k] /\ Verdict \in FatalEvents

\* The verdict of a failed call is its one fatal event.
LEMMA VerdictRead == ReportInv => VerdictOK
<1> SUFFICES ASSUME ReportInv PROVE VerdictOK
  OBVIOUS
<1>1. loopRunning => Verdict = "none"
  BY DEF Verdict
<1>2. ~loopRunning /\ cause[1] = "limit" => Verdict = "limit"
  BY DEF Verdict
<1>3. ASSUME ~loopRunning, cause[1] # "limit"
      PROVE  \E k \in DOMAIN report :
               FatalReports = {k} /\ Verdict = report[k] /\ Verdict \in FatalEvents
  <2>1. PICK k \in DOMAIN report : FatalReports = {k}
    BY <1>3 DEF ReportInv, ReportedFor
  <2>2. (CHOOSE j \in FatalReports : TRUE) = k
    BY <2>1
  <2>3. Verdict = report[k]
    BY <1>3, <2>2 DEF Verdict
  <2>4. report[k] \in FatalEvents
    BY <2>1 DEF FatalReports
  <2>5. QED
    BY <2>1, <2>3, <2>4
<1>4. QED
  BY <1>1, <1>2, <1>3 DEF VerdictOK

\* The same of the state after a step.
LEMMA VerdictReadNext == ReportInv' => VerdictOK'
  BY VerdictRead, PTL

\* A step that ends nothing and leaves the fatal event alone keeps the verdict.
LEMMA VerdictKept ==
  ASSUME VerdictOK, VerdictOK', UNCHANGED <<loopRunning, cause>>,
         FatalReports' = FatalReports, \A k \in FatalReports : report'[k] = report[k]
  PROVE  Verdict' = Verdict
<1>1. CASE loopRunning \/ cause[1] = "limit"
  BY <1>1 DEF VerdictOK
<1>2. CASE ~loopRunning /\ cause[1] # "limit"
  <2>1. PICK k : FatalReports = {k} /\ Verdict = report[k]
    BY <1>2 DEF VerdictOK
  <2>2. PICK j : FatalReports' = {j} /\ Verdict' = report'[j]
    BY <1>2 DEF VerdictOK
  <2>3. QED
    BY <2>1, <2>2
<1>3. QED
  BY <1>1, <1>2

\* The loop starts as the display does: nothing sent, shown or judged.
LEMMA InitRefines == Init => Display!Init
<1> SUFFICES ASSUME Init PROVE Display!Init
  OBVIOUS
<1>1. kicks = 0 /\ Shown = 0 /\ onScreen = NothingShown /\ loopRunning /\ pc = "Drain"
  BY DEF Init, Shown
<1>2. QED
  BY <1>1 DEF Display!Init, Verdict

\* What one step is argued from.
RefineFacts == /\ Base /\ Base' /\ OrderInv /\ OrderInv' /\ ImageInv /\ ImageInv'
               /\ VerdictOK /\ VerdictOK'

\* The heartbeat sends a frame while images are left for it.
LEMMA PresentSends == RefineFacts /\ PresentFrame => Display!Send
<1> SUFFICES ASSUME RefineFacts, PresentFrame PROVE Display!Send
  OBVIOUS
<1>1. /\ pc = "Present" /\ pc' = "Telemetry" /\ kicks' = kicks + 1
      /\ UNCHANGED <<onScreen, content, report, cause, loopRunning>>
  BY DEF PresentFrame, Goto
<1>2. loopRunning
  BY <1>1 DEF RefineFacts, Base, ReportInv, Running
<1>3. Verdict = "none" /\ Verdict' = "none"
  BY <1>1, <1>2 DEF RefineFacts, VerdictOK
<1>4. kicks + (IF Shown = 0 THEN 0 ELSE 1) < Shown + Cardinality(Images)
  BY <1>1, ImagesLeft DEF RefineFacts
<1>5. Shown' = Shown
  BY <1>1 DEF Shown
<1>6. QED
  BY <1>1, <1>3, <1>4, <1>5 DEF Display!Send, Display!OnScreen

\* A flip shows the next frame, whole.
LEMMA FlipShows == RefineFacts /\ Flip => Display!Show
<1> SUFFICES ASSUME RefineFacts, Flip PROVE Display!Show
  OBVIOUS
<1>1. /\ TypeOK /\ NumberInv /\ IntactInv /\ VerdictOK /\ VerdictOK'
  BY DEF RefineFacts, Base, IInv, OrderInv, ImageInv
<1>2. /\ pc # "Exited" /\ flips # <<>> /\ onScreen' = Head(flips)
      /\ UNCHANGED <<pc, content, report, cause, kicks, loopRunning>>
  BY DEF Flip, loopVars, observers
<1>3. Head(flips) = flips[1] /\ 1 \in DOMAIN flips /\ Len(flips) \in Nat \ {0}
  <2>1. flips \in Seq([image : Images, frame : Nat])
    BY <1>1 DEF TypeOK
  <2>2. QED
    BY <1>1, <1>2, <2>1, TailAt, CountTypes
<1>4. Shown \in Nat /\ flips[1].frame = Shown /\ kicks \in Nat /\ NextShown <= kicks
  <2>1. Shown \in Nat /\ kicks \in Nat
    BY <1>1, CountTypes DEF TypeOK
  <2>2. flips[1].frame = Shown + 1 - 1 /\ NextShown <= kicks
    BY <1>1, <1>3 DEF NumberInv
  <2>3. QED
    BY <2>1, <2>2
<1>5. Shown < kicks
  BY <1>3, <1>4 DEF NextShown
<1>6. onScreen' # NothingShown
  BY <1>1, <1>2, <1>3, ShownTypes
<1>7. Shown' = Shown + 1
  BY <1>2, <1>3, <1>4, <1>6 DEF Shown
<1>8. content'[onScreen'.image] = [geometry |-> Shown, colour |-> Shown]
  BY <1>1, <1>2, <1>3, <1>4 DEF IntactInv, Whole
<1>9. Verdict' = Verdict
  <2>1. FatalReports' = FatalReports
    BY <1>2 DEF FatalReports
  <2>2. QED
    BY <1>1, <1>2, <2>1, VerdictKept
<1>10. QED
  BY <1>2, <1>5, <1>6, <1>7, <1>8, <1>9 DEF Display!Show

\* A failed call is a verdict.
LEMMA FailureJudges ==
  ASSUME RefineFacts, loopRunning, ~loopRunning', cause'[1] # "limit",
         UNCHANGED <<kicks, onScreen, content>>, pc # "Exited", pc' # "Exited"
  PROVE  Display!Judge
<1>1. Verdict = "none" /\ Verdict' \in FatalEvents
  BY DEF RefineFacts, VerdictOK
<1>2. Shown' = Shown
  BY DEF Shown
<1>3. QED
  BY <1>1, <1>2 DEF Display!Judge

\* The frame limit is a verdict, and that many frames were sent.
LEMMA LimitJudges ==
  RefineFacts /\ Telemetry /\ loopRunning /\ ~loopRunning' => Display!Judge
<1> SUFFICES ASSUME RefineFacts, Telemetry, loopRunning, ~loopRunning' PROVE Display!Judge
  OBVIOUS
<1>1. /\ pc = "Telemetry" /\ pc' # "Exited" /\ cause' = <<"limit", "SUCCESS">>
      /\ MaxFrames > 0 /\ frameNumber + 1 >= MaxFrames
      /\ UNCHANGED <<kicks, onScreen, content>>
  BY DEF Telemetry, Goto, deviceVars
<1>2. kicks = frameNumber + 1 /\ frameNumber < MaxFrames /\ frameNumber \in Nat
  BY <1>1 DEF RefineFacts, OrderInv, NumberInv, LimitInv, Base, IInv, TypeOK
<1>3. kicks = MaxFrames
  BY <1>1, <1>2, LoopAssumption
<1>4. Verdict = "none" /\ Verdict' = "limit"
  BY <1>1 DEF RefineFacts, VerdictOK
<1>5. Shown' = Shown
  BY <1>1 DEF Shown
<1>6. QED
  BY <1>1, <1>3, <1>4, <1>5 DEF Display!Judge

\* Nothing is taken down before the verdict.
LEMMA DestroyGoesDown == RefineFacts /\ (DestroyAll \/ DestroyAllFail) => Display!GoDown
<1> SUFFICES ASSUME RefineFacts, DestroyAll \/ DestroyAllFail PROVE Display!GoDown
  OBVIOUS
<1>1. /\ pc = "Destroy" /\ pc' = "Exited"
      /\ UNCHANGED <<kicks, onScreen, content, report, cause, loopRunning>>
  BY DEF DestroyAll, DestroyAllFail, Goto, deviceVars, observers
<1>2. ~loopRunning /\ VerdictOK /\ VerdictOK'
  BY <1>1 DEF RefineFacts, Base, ReportInv, Stopped
<1>3. Verdict # "none"
  BY <1>2 DEF VerdictOK, FatalEvents
<1>4. Verdict' = Verdict
  <2>1. FatalReports' = FatalReports
    BY <1>1 DEF FatalReports
  <2>2. QED
    BY <1>1, <1>2, <2>1, VerdictKept
<1>5. Shown' = Shown
  BY <1>1 DEF Shown
<1>6. QED
  BY <1>1, <1>3, <1>4, <1>5 DEF Display!GoDown

\* Steps the abstract display does not see.
LEMMA StepStutters ==
  ASSUME RefineFacts, UNCHANGED <<kicks, onScreen, loopRunning, cause>>,
         FatalReports' = FatalReports, \A k \in FatalReports : report'[k] = report[k],
         onScreen # NothingShown => content'[onScreen.image] = content[onScreen.image],
         pc = "Exited" <=> pc' = "Exited"
  PROVE  UNCHANGED Display!vars
<1>1. Verdict' = Verdict
  BY VerdictKept DEF RefineFacts
<1>2. Shown' = Shown
  BY DEF Shown
<1>3. (IF onScreen = NothingShown THEN None ELSE content[onScreen.image])'
        = IF onScreen = NothingShown THEN None ELSE content[onScreen.image]
  OBVIOUS
<1>4. QED
  BY <1>1, <1>2, <1>3 DEF Display!vars

\* Steps that report nothing.
LEMMA SilentStutters ==
  ASSUME RefineFacts, UNCHANGED <<kicks, onScreen, loopRunning, cause, report, content>>,
         pc = "Exited" <=> pc' = "Exited"
  PROVE  UNCHANGED Display!vars
<1>1. FatalReports' = FatalReports
  BY DEF FatalReports
<1>2. QED
  BY <1>1, StepStutters

\* Every step of the loop, the GPU and the display is a step of the abstract
\* display or leaves it alone.
LEMMA StepRefines == RefineFacts /\ [Next]_vars => [Display!Next]_(Display!vars)
<1> SUFFICES ASSUME RefineFacts, [Next]_vars PROVE [Display!Next]_(Display!vars)
  OBVIOUS
<1>1. /\ TypeOK /\ QueueInv /\ ReportInv /\ ReportInv' /\ PlaceInv /\ IssueInv /\ NumberInv
  BY DEF RefineFacts, Base, IInv, Semaphores, ImageInv, OrderInv
<1>2. CASE PresentFrame
  BY <1>2, PresentSends DEF Display!Next
<1>3. CASE Flip
  BY <1>3, FlipShows DEF Display!Next
<1>4. CASE DestroyAll \/ DestroyAllFail
  BY <1>4, DestroyGoesDown DEF Display!Next
<1>5. CASE \/ WaitTimeout \/ WaitFail \/ AcquireSuboptimal \/ AcquireFail \/ RecordFail
           \/ SubmitFail \/ PresentFail
  <2>1. /\ loopRunning /\ ~loopRunning' /\ cause'[1] # "limit"
        /\ UNCHANGED <<kicks, onScreen, content>> /\ pc # "Exited" /\ pc' # "Exited"
    BY <1>1, <1>5 DEF WaitTimeout, WaitFail, AcquireSuboptimal, AcquireFail, RecordFail,
         SubmitFail, PresentFail, Abort, Goto, deviceVars, ReportInv, Running
  <2>2. QED
    BY <2>1, FailureJudges DEF Display!Next
<1>6. CASE Telemetry
  <2>1. CASE loopRunning /\ ~loopRunning'
    BY <1>6, <2>1, LimitJudges DEF Display!Next
  <2>2. CASE ~(loopRunning /\ ~loopRunning')
    <3>1. /\ UNCHANGED <<kicks, onScreen, content, loopRunning, cause>>
          /\ pc # "Exited" /\ pc' # "Exited"
          /\ \/ UNCHANGED report
             \/ report' = Append(report, "eFrameDeadlineMiss")
      BY <1>1, <1>6, <2>2 DEF Telemetry, Goto, deviceVars, TypeOK
    <3>2. FatalReports' = FatalReports /\ \A k \in FatalReports : report'[k] = report[k]
      <4>1. CASE UNCHANGED report
        BY <4>1 DEF FatalReports
      <4>2. CASE report' = Append(report, "eFrameDeadlineMiss")
        <5>1. FatalReports \subseteq DOMAIN report
          BY DEF FatalReports
        <5>2. QED
          BY <1>1, <4>2, <5>1, AppendReport, Events
      <4>3. QED
        BY <3>1, <4>1, <4>2
    <3>3. QED
      BY <3>1, <3>2, StepStutters
  <2>3. QED
    BY <2>1, <2>2
<1>7. CASE DrainFaults
  <2>1. /\ UNCHANGED <<kicks, onScreen, content, loopRunning, cause>>
        /\ pc = "Drain" /\ pc' = "Wait"
    BY <1>7 DEF DrainFaults, Goto, deviceVars
  <2>2. FatalReports = {} /\ FatalReports' = {}
    BY <1>1, <2>1 DEF ReportInv, Running
  <2>3. QED
    BY <2>1, <2>2, StepStutters
<1>8. CASE GetAttitude
  <2>1. /\ UNCHANGED <<kicks, onScreen, content, loopRunning, cause>>
        /\ pc = "Attitude" /\ pc' = "Acquire"
    BY <1>8 DEF GetAttitude, Goto, deviceVars
  <2>2. FatalReports = {} /\ FatalReports' = {}
    BY <1>1, <2>1 DEF ReportInv, Running
  <2>3. QED
    BY <2>1, <2>2, StepStutters
<1>9. CASE WaitAndReset \/ Acquire \/ WriteVertices \/ RecordFrame \/ Submit \/ WaitIdle \/ WaitIdleFail
  <2>1. /\ UNCHANGED <<kicks, onScreen, loopRunning, cause, report, content>>
        /\ pc # "Exited" /\ pc' # "Exited"
    BY <1>9 DEF WaitAndReset, Acquire, WriteVertices, RecordFrame, Submit, WaitIdle, WaitIdleFail,
                Goto, deviceVars, observers
  <2>2. QED
    BY <2>1, SilentStutters
<1>10. CASE GpuFinish
  <2>1. /\ UNCHANGED <<kicks, onScreen, loopRunning, cause, report, pc>>
        /\ queue # <<>>
        /\ content' = [content EXCEPT ![Head(queue).image] =
                         [geometry |-> fetched, colour |-> Head(queue).frame]]
    BY <1>1, <1>10 DEF GpuFinish, QueueInv, loopVars
  <2>2. Head(queue) = queue[1] /\ 1 \in DOMAIN queue /\ Head(queue).image \in Images
    BY <1>1, <2>1, QueueShapes DEF Operations, IssueInv
  <2>3. Head(queue).image # onScreen.image
    BY <1>1, <2>2 DEF PlaceInv, OnDisplay
  <2>4. onScreen # NothingShown => content'[onScreen.image] = content[onScreen.image]
    BY <1>1, <2>1, <2>3, ShownTypes DEF TypeOK
  <2>5. FatalReports' = FatalReports
    BY <2>1 DEF FatalReports
  <2>6. QED
    BY <2>1, <2>4, <2>5, StepStutters
<1>11. CASE GpuStart \/ ImageReady \/ PresentExecute \/ ScanoutDone \/ Terminated \/ UNCHANGED vars
  <2>1. UNCHANGED <<kicks, onScreen, loopRunning, cause, report, content, pc>>
    BY <1>11 DEF GpuStart, ImageReady, PresentExecute, ScanoutDone, Terminated, vars, loopVars,
                 observers, deviceVars
  <2>2. QED
    BY <2>1, SilentStutters
<1>12. QED
  BY <1>2, <1>3, <1>4, <1>5, <1>6, <1>7, <1>8, <1>9, <1>10, <1>11
  DEF Next, LoopStep, CallFails, GpuStep, DisplayStep

\* The frame loop implements the horizon display, for any number of images
\* and frames: frames appear whole, each once and in order, a bounded number
\* is on its way, one verdict ends the loop and only then all is taken down.
THEOREM LoopImplementsDisplay == Spec => ImplementsDisplay
<1>1. Init => Display!Init
  BY InitRefines
<1>2. RefineFacts /\ [Next]_vars => [Display!Next]_(Display!vars)
  BY StepRefines
<1>3. Spec => [](Base /\ OrderInv /\ ImageInv /\ VerdictOK)
  BY HandOver, Reporting, SemaphoresInStep, FramesInOrder, ImagesInPlace, VerdictRead, PTL DEF Base
<1>4. QED
  BY <1>1, <1>2, <1>3, PTL DEF Spec, RefineFacts, ImplementsDisplay, Display!Spec
=============================================================================
