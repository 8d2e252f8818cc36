--------------------------- MODULE HorizonDisplay ---------------------------
(***************************************************************************)
(* What the horizon display promises its pilot and its supervisor, with no *)
(* queue, fence, semaphore or swapchain in it: frames appear on the screen *)
(* whole, each once and in order; a bounded number of them is on its way;  *)
(* the loop ends with one verdict, sends nothing after it, and only then   *)
(* is everything taken down.  FrameLoop implements it (FrameLoopRefines).  *)
(***************************************************************************)
EXTENDS Naturals

CONSTANTS
  Depth,      \* images a frame can wait in, the one on screen included
  MaxFrames,  \* frames to show; 0 means no limit
  Failures,   \* the verdicts that say what failed
  None

VARIABLES
  sent,       \* frames handed to the display, the heartbeats
  shown,      \* frames that have been on the screen
  screen,     \* what the screen shows: [geometry, colour] frames
  verdict,    \* "none", "limit" or what failed
  down        \* everything is destroyed

vars == <<sent, shown, screen, verdict, down>>

Init ==
  /\ sent = 0 /\ shown = 0 /\ screen = None
  /\ verdict = "none" /\ down = FALSE

OnScreen == IF shown = 0 THEN 0 ELSE 1

Send ==
  /\ verdict = "none"
  /\ sent + OnScreen < shown + Depth
  /\ sent' = sent + 1
  /\ UNCHANGED <<shown, screen, verdict, down>>

\* Frame number `shown` replaces its predecessor, geometry and colour alike.
Show ==
  /\ ~down
  /\ shown < sent
  /\ shown' = shown + 1
  /\ screen' = [geometry |-> shown, colour |-> shown]
  /\ UNCHANGED <<sent, verdict, down>>

Judge ==
  /\ verdict = "none"
  /\ \/ MaxFrames > 0 /\ sent = MaxFrames /\ verdict' = "limit"
     \/ verdict' \in Failures
  /\ UNCHANGED <<sent, shown, screen, down>>

GoDown ==
  /\ verdict # "none"
  /\ ~down
  /\ down' = TRUE
  /\ UNCHANGED <<sent, shown, screen, verdict>>

Next == Send \/ Show \/ Judge \/ GoDown

Spec == Init /\ [][Next]_vars

\* The display neither runs for good nor stays up after its verdict.
Fairness == WF_vars(Judge) /\ WF_vars(GoDown)

FairSpec == Spec /\ Fairness
==============================================================================
