--------------------------- MODULE HorizonPicture ---------------------------
(***************************************************************************)
(* What one frame draws: the vertices of ComputeHorizonVertices, the push  *)
(* constants of HorizonRenderer::RecordFrame and the verdict of the        *)
(* background shader on a point of the screen.  CPU and GPU compute the    *)
(* horizon twice, each from its own formula.                               *)
(*                                                                         *)
(* An attitude is [cos, sin, pitch]: its roll as a direction with integer  *)
(* coordinates on a circle of radius R, its pitch in degrees.  Lengths are *)
(* integers, Degree of them to a degree of pitch and 30 * Degree to one    *)
(* unit of NDC; a rotation multiplies them by R.  y grows downwards.       *)
(***************************************************************************)
EXTENDS Integers, SequencesExt

CONSTANTS
  R,       \* radius of the roll circle
  Degree   \* lengths to a degree of pitch

ASSUME PictureAssumption == R \in Nat \ {0} /\ Degree \in Nat \ {0}

KHorizonVertexCount == 94

\* n thousandths of NDC.
Ndc(n) == (n * 30 * Degree) \div 1000

\* The attitudes there are: directions on the circle, pitches of any size.
Attitudes ==
  {at \in [cos : Int, sin : Int, pitch : Int] : at.cos * at.cos + at.sin * at.sin = R * R}

LevelAttitude == [cos |-> R, sin |-> 0, pitch |-> 0]

\* Seeded fault: the numbers of an invalid sample are drawn.
DrawnUnchecked(sample) == sample.attitude

\* RecordFrame's level-horizon fallback.
Drawn(sample) == IF sample.valid THEN sample.attitude ELSE LevelAttitude

\* Width over height, as a pair; 1 when the extent has no height.
Aspect(extent) ==
  IF extent.height > 0 THEN <<extent.width, extent.height>> ELSE <<1, 1>>

\* "Guard against invalid aspect ratio": more than a tenth, or 16 : 9.
SafeAspect(extent) ==
  LET a == Aspect(extent) IN IF 10 * a[1] > a[2] THEN a ELSE <<16, 9>>

DividedByAspect(n, extent) == (n * SafeAspect(extent)[2]) \div SafeAspect(extent)[1]
-----------------------------------------------------------------------------
(* The vertices, two to a line. *)

\* Seeded fault: the roll turned the other way than the background's.
AttToNdcMirrored(x, y, at) ==
  LET yScreen == Degree * at.pitch - y
  IN  [x |-> at.cos * x + at.sin * yScreen, y |-> at.cos * yScreen - at.sin * x]

\* From attitude space to NDC: offset by the pitch, then turned by the roll.
AttToNdc(x, y, at) ==
  LET yScreen == Degree * at.pitch - y
  IN  [x |-> at.cos * x - at.sin * yScreen, y |-> at.sin * x + at.cos * yScreen]

HorizonLine(at) ==
  <<AttToNdc(-Ndc(920), 0, at), AttToNdc(Ndc(920), 0, at)>>

PitchAngles == <<5, 10, 15>>
PitchWidths == <<220, 300, 380>>

\* For each angle the line above the horizon, then the one below it.
PitchLadder(at, extent) ==
  FlattenSeq([i \in 1..3 |->
    LET w == DividedByAspect(Ndc(PitchWidths[i]), extent)
        y == Degree * PitchAngles[i]
    IN  <<AttToNdc(-w, y, at), AttToNdc(w, y, at), AttToNdc(-w, -y, at), AttToNdc(w, -y, at)>>])

\* Screen-space vertices on the roll scale are kept as radius (in thousandths)
\* and angle from the vertical; their x is divided by the aspect ratio.
Polar(radius, angle) == [radius |-> radius, angle |-> angle]

ArcRadius == 620
ArcSegments == 24

ArcStep == 120 \div ArcSegments

RollArc ==
  FlattenSeq([s \in 1..ArcSegments |->
    <<Polar(ArcRadius, (s - 1) * ArcStep - 60), Polar(ArcRadius, s * ArcStep - 60)>>])

\* Screen-space vertices in the unit of the rotated ones.
Screen(x, y) == [x |-> R * x, y |-> R * y]

\* The triangle's half-base is divided by 16 : 9 whatever the display.
RollTriangle ==
  LET w     == (Ndc(35) * 9) \div 16
      base  == Ndc(55) - Ndc(620)
      apex  == Screen(0, -Ndc(620))
  IN  <<Screen(-w, base), apex, apex, Screen(w, base), Screen(-w, base), Screen(w, base)>>

TickAngles == <<10, 20, 30, 45, 60>>

RollTicks ==
  FlattenSeq([t \in 1..5 |->
    <<Polar(ArcRadius, TickAngles[t]), Polar(ArcRadius - 50, TickAngles[t]),
      Polar(ArcRadius, -TickAngles[t]), Polar(ArcRadius - 50, -TickAngles[t])>>])

AircraftSymbol(extent) ==
  LET wing == DividedByAspect(Ndc(200), extent)
      gap  == DividedByAspect(Ndc(70), extent)
  IN  <<Screen(-wing, 0), Screen(-gap, 0), Screen(gap, 0), Screen(wing, 0),
        Screen(0, -Ndc(40)), Screen(0, Ndc(40))>>

ComputeHorizonVertices(at, extent) ==
  HorizonLine(at) \o PitchLadder(at, extent) \o RollArc \o RollTriangle \o RollTicks
    \o AircraftSymbol(extent)

\* Every vertex of the array is written, once.
ASSUME LayoutAssumption ==
  Len(ComputeHorizonVertices(LevelAttitude, [width |-> 16, height |-> 9])) = KHorizonVertexCount
-----------------------------------------------------------------------------
(* The background. *)

\* Seeded fault: the pitch moves the background the other way.
DistRaised(point, at) ==
  at.cos * point.y - at.sin * point.x + R * R * Degree * at.pitch

\* distFromHorizon of a point, for the attitude in the push constants: turned
\* back, in units R times those of the point.
DistFromHorizon(point, at) ==
  at.cos * point.y - at.sin * point.x - R * R * Degree * at.pitch

BandHalf == (R * R * Degree) \div 4

\* horizon_bg.frag: sky above the band, earth below it.
Background(point, at) ==
  CASE DistFromHorizon(point, at) < -BandHalf -> "sky"
    [] DistFromHorizon(point, at) > BandHalf  -> "earth"
    [] OTHER                                  -> "band"
-----------------------------------------------------------------------------
\* RecordFrame: the vertices, the colour of the lines, and the attitude in the
\* push constants of the background.
Picture(sample, extent) ==
  [lines |-> ComputeHorizonVertices(Drawn(sample), extent),
   colour |-> IF sample.valid THEN "white" ELSE "red",
   background |-> Drawn(sample)]

\* Seeded fault: the telemetry copies the sample.
MetricsUnchecked(sample) == sample.attitude

\* The attitude that main's frame metrics call displayed.
Metrics(sample) == IF sample.valid THEN sample.attitude ELSE LevelAttitude
==============================================================================
