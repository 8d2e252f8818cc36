-------------------------- MODULE FrameLoopRefines --------------------------
(***************************************************************************)
(* FrameLoop implements HorizonDisplay.  What is sent is what was presented *)
(* (and kicked); what is shown is what the image on screen holds, so a GPU *)
(* write into that image, or vertices of another frame in it, is a step    *)
(* the abstract screen cannot take.                                        *)
(***************************************************************************)
EXTENDS FrameLoop

\* The event the stopped loop reported for its failed call.
Verdict ==
  IF loopRunning THEN "none"
  ELSE IF cause[1] = "limit" THEN "limit"
  ELSE report[CHOOSE k \in FatalReports : TRUE]

Display == INSTANCE HorizonDisplay WITH
  Depth    <- Cardinality(Images),
  Failures <- FatalEvents,
  sent     <- kicks,
  shown    <- Shown,
  screen   <- IF onScreen = NothingShown THEN None ELSE content[onScreen.image],
  verdict  <- Verdict,
  down     <- pc = "Exited"

\* Every step of the loop, the GPU and the display is a step of the abstract
\* display or leaves it alone.
ImplementsDisplay == Display!Spec

\* With a live GPU the loop also reaches its verdict and takes everything
\* down.
KeepsPromises == GpuFairness => Display!Fairness
==============================================================================
