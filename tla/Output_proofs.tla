---------------------------- MODULE Output_proofs ----------------------------
(***************************************************************************)
(* What is put out, proved for every attitude, display, line, capacity and *)
(* width of the integers.                                                  *)
(*                                                                         *)
(* Frames: the vertices are computed symbolically, rotated back, and       *)
(* compared with the background's formula.  Lines: each append writes a    *)
(* text that does not depend on the buffer, and cutting after every append *)
(* or once at the end is the same (AppendCut); the digits of a text are    *)
(* the quotients by the powers of the base (Wide), and read back as what   *)
(* the last of them leaves (WideValue).                                    *)
(***************************************************************************)
EXTENDS Output, Recursion_proofs, FiniteSetTheorems

\* An answer is what the call makes of an input the assumptions speak of.
AnswerOfCall ==
  /\ call = "line" =>
       /\ input \in Lines
       /\ answer # NoAnswer => answer = Line(input.capacity, input.pieces)
  /\ call = "frame" =>
       /\ input \in Frames
       /\ answer # NoAnswer =>
            answer = [picture |-> Picture(input.sample, input.extent),
                      metrics |-> Metrics(input.sample)]

\* The answer of a call is computed once, from the input it started with.
THEOREM AnswerInvariant == Spec => []AnswerOfCall
<1>1. Init => AnswerOfCall
  BY DEF Init, AnswerOfCall
<1>2. AnswerOfCall /\ [Next]_vars => AnswerOfCall'
  <2> SUFFICES ASSUME AnswerOfCall, [Next]_vars PROVE AnswerOfCall'
    OBVIOUS
  <2>1. CASE LineBuilt
    BY <2>1 DEF AnswerOfCall, LineBuilt, Returns
  <2>2. CASE FrameDrawn
    BY <2>2 DEF AnswerOfCall, FrameDrawn, Returns
  <2>3. CASE UNCHANGED vars
    BY <2>3 DEF AnswerOfCall, vars
  <2> QED
    BY <2>1, <2>2, <2>3 DEF Next
<1> QED
  BY <1>1, <1>2, PTL DEF Spec
-----------------------------------------------------------------------------
\* An invalid sample shows a failure and none of its numbers, a valid one no
\* failure.
THEOREM FailureIsShown == Spec => []FailureShown
<1>1. AnswerOfCall => FailureShown
  <2> SUFFICES ASSUME AnswerOfCall, Answered("frame") PROVE FailureShown
    BY DEF FailureShown
  <2> DEFINE sample == input.sample
             extent == input.extent
             level == Picture([sample EXCEPT !.attitude = LevelAttitude], extent)
  <2>1. /\ sample \in [valid : BOOLEAN, attitude : Attitudes]
        /\ answer = [picture |-> Picture(sample, extent), metrics |-> Metrics(sample)]
    BY OutputAssumption DEF AnswerOfCall, Answered
  <2>2. /\ answer.picture.colour = IF sample.valid THEN "white" ELSE "red"
        /\ answer.picture.background = Drawn(sample)
        /\ answer.metrics = Metrics(sample)
    BY <2>1 DEF Picture
  <2>3. sample.valid <=> answer.picture.colour = "white"
    BY <2>1, <2>2
  <2>4. answer.metrics = answer.picture.background
    BY <2>2 DEF Metrics, Drawn
  <2>5. ASSUME ~sample.valid PROVE answer.picture = level /\ answer.metrics = LevelAttitude
    <3>1. /\ Drawn(sample) = LevelAttitude /\ Metrics(sample) = LevelAttitude
          /\ Drawn([sample EXCEPT !.attitude = LevelAttitude]) = LevelAttitude
          /\ ~[sample EXCEPT !.attitude = LevelAttitude].valid
      BY <2>1, <2>5 DEF Drawn, Metrics
    <3>2. answer.picture = level
      BY <2>1, <2>5, <3>1 DEF Picture
    <3> QED
      BY <2>2, <3>1, <3>2
  <2> QED
    BY <2>3, <2>4, <2>5 DEF FailureShown
<1> QED
  BY <1>1, AnswerInvariant, PTL
-----------------------------------------------------------------------------
Points == [x : Int, y : Int] \cup [radius : Int, angle : Int]

\* The guard against an invalid aspect ratio leaves a positive width, so that
\* every division by the ratio has a result.
LEMMA AspectIsSafe ==
  ASSUME NEW extent \in [width : Nat, height : Nat]
  PROVE  SafeAspect(extent)[1] \in Nat \ {0} /\ SafeAspect(extent)[2] \in Nat
<1>1. Aspect(extent)[1] \in Nat /\ Aspect(extent)[2] \in Nat
  BY DEF Aspect
<1>2. CASE 10 * Aspect(extent)[1] > Aspect(extent)[2]
  BY <1>1, <1>2 DEF SafeAspect
<1>3. CASE ~(10 * Aspect(extent)[1] > Aspect(extent)[2])
  <2>1. SafeAspect(extent) = <<16, 9>>
    BY <1>3 DEF SafeAspect
  <2> QED
    BY <2>1
<1> QED
  BY <1>2, <1>3

\* A length in units of the display is a number.
LEMMA LengthType ==
  ASSUME NEW extent \in [width : Nat, height : Nat], NEW n \in Int
  PROVE  Ndc(n) \in Int /\ DividedByAspect(n, extent) \in Int
<1>1. n * (30 * Degree) \in Int /\ n * 30 * Degree \in Int
  BY PictureAssumption
<1>2. n * SafeAspect(extent)[2] \in Int
  BY AspectIsSafe
<1> QED
  BY <1>1, <1>2, AspectIsSafe DEF Ndc, DividedByAspect

\* The shader turns back what the vertices were turned by: how far a turned
\* point lies from the horizon is its height above it in attitude space.
LEMMA TurnedBack ==
  ASSUME NEW at \in Attitudes, NEW x \in Int, NEW y \in Int
  PROVE  /\ AttToNdc(x, y, at) \in [x : Int, y : Int]
         /\ DistFromHorizon(AttToNdc(x, y, at), at) = -(R * R * y)
<1> DEFINE c == at.cos
           s == at.sin
           p == Degree * at.pitch
           v == p - y
<1>1. c \in Int /\ s \in Int /\ at.pitch \in Int /\ p \in Int /\ v \in Int
      /\ R \in Int /\ c * c + s * s = R * R
  BY PictureAssumption DEF Attitudes
<1>2. /\ AttToNdc(x, y, at).x = c * x - s * v /\ AttToNdc(x, y, at).y = s * x + c * v
      /\ AttToNdc(x, y, at) = [x |-> c * x - s * v, y |-> s * x + c * v]
  BY DEF AttToNdc
<1>3. R * R * Degree * at.pitch = R * R * p
  BY <1>1, PictureAssumption
<1>4. DistFromHorizon(AttToNdc(x, y, at), at) = c * (s * x + c * v) - s * (c * x - s * v) - R * R * p
  BY <1>2, <1>3 DEF DistFromHorizon
<1>5. v = p - y
  OBVIOUS
<1> HIDE DEF c, s, p, v
<1>6. c * (s * x + c * v) - s * (c * x - s * v) = (c * c + s * s) * v
  BY <1>1
<1>7. (R * R) * v - (R * R) * p = -((R * R) * y)
  BY <1>1, <1>5
<1>8. AttToNdc(x, y, at) \in [x : Int, y : Int]
  <2>1. c * x - s * v \in Int /\ s * x + c * v \in Int
    BY <1>1
  <2> QED
    BY <1>2, <2>1
<1> QED
  BY <1>1, <1>4, <1>6, <1>7, <1>8

\* Four points to an angle of the ladder, as they follow each other.
Rung(i, at, extent) ==
  LET w == DividedByAspect(Ndc(PitchWidths[i]), extent)
      y == Degree * PitchAngles[i]
  IN  <<AttToNdc(-w, y, at), AttToNdc(w, y, at), AttToNdc(-w, -y, at), AttToNdc(w, -y, at)>>

\* The four vertices of a rung are points.
LEMMA RungType ==
  ASSUME NEW at \in Attitudes, NEW extent \in [width : Nat, height : Nat], NEW i \in 1..3
  PROVE  Rung(i, at, extent) \in Seq(Points) /\ Len(Rung(i, at, extent)) = 4
<1> DEFINE w == DividedByAspect(Ndc(PitchWidths[i]), extent)
           y == Degree * PitchAngles[i]
<1>1. w \in Int /\ -w \in Int /\ y \in Int /\ -y \in Int
  <2>1. PitchWidths[i] \in Int /\ PitchAngles[i] \in Int
    BY DEF PitchWidths, PitchAngles
  <2>2. Ndc(PitchWidths[i]) \in Int
    BY <2>1, LengthType
  <2>3. w \in Int /\ y \in Int
    BY <2>1, <2>2, LengthType, PictureAssumption
  <2> HIDE DEF w, y
  <2> QED
    BY <2>3
<1> HIDE DEF w, y
<1>2. /\ AttToNdc(-w, y, at) \in Points /\ AttToNdc(w, y, at) \in Points
      /\ AttToNdc(-w, -y, at) \in Points /\ AttToNdc(w, -y, at) \in Points
  BY <1>1, TurnedBack DEF Points
<1>3. Rung(i, at, extent) =
        <<AttToNdc(-w, y, at), AttToNdc(w, y, at), AttToNdc(-w, -y, at), AttToNdc(w, -y, at)>>
  BY DEF Rung, w, y
<1> QED
  BY <1>2, <1>3

\* The ladder is its three rungs, one after the other.
LEMMA LadderVertices ==
  ASSUME NEW at \in Attitudes, NEW extent \in [width : Nat, height : Nat]
  PROVE  /\ PitchLadder(at, extent) \in Seq(Points) /\ Len(PitchLadder(at, extent)) = 12
         /\ \A i \in 1..3, j \in 1..4 :
              PitchLadder(at, extent)[4 * (i - 1) + j] = Rung(i, at, extent)[j]
<1> DEFINE rungs == [i \in 1..3 |-> Rung(i, at, extent)]
           all == PitchLadder(at, extent)
<1>1. rungs \in Seq(Seq(Points)) /\ Len(rungs) = 3
  <2>1. rungs \in [1..3 -> Seq(Points)]
    BY RungType
  <2> QED
    BY <2>1, ListIsSeq
<1>2. all = FlattenSeq(rungs)
  BY DEF PitchLadder, Rung
<1>3. /\ rungs[1] \in Seq(Points) /\ Len(rungs[1]) = 4
      /\ rungs[2] \in Seq(Points) /\ Len(rungs[2]) = 4
      /\ rungs[3] \in Seq(Points) /\ Len(rungs[3]) = 4
  BY RungType
<1>4. \A i \in 1..3 : rungs[i] = Rung(i, at, extent)
  OBVIOUS
<1> HIDE DEF rungs, all
<1>5. PICK flat : Flattens(flat, rungs, Len(rungs), Points)
  BY <1>1, Flattened
<1>a. /\ flat \in [0..3 -> Seq(Points)] /\ FlattenSeq(rungs) = flat[3] /\ flat[0] = <<>>
      /\ \A k \in 0..(3 - 1) : flat[k + 1] = flat[k] \o rungs[k + 1]
  BY <1>1, <1>5 DEF Flattens
<1>6. flat[1] = rungs[1]
  <2>1. flat[1] = flat[0] \o rungs[1]
    <3>1. 0 \in 0..(3 - 1) /\ 0 + 1 = 1
      OBVIOUS
    <3> QED
      BY <1>a, <3>1
  <2> QED
    BY <1>3, <1>a, <2>1, ConcatEmptySeq
<1>7. flat[2] = rungs[1] \o rungs[2] /\ flat[3] = flat[2] \o rungs[3]
  <2>1. 1 \in 0..(3 - 1) /\ 1 + 1 = 2 /\ 2 \in 0..(3 - 1) /\ 2 + 1 = 3
    OBVIOUS
  <2> QED
    BY <1>a, <1>6, <2>1
<1>8. /\ flat[2] \in Seq(Points) /\ Len(flat[2]) = 4 + 4
      /\ \A k \in 1..4 : flat[2][k] = rungs[1][k]
      /\ \A k \in 1..4 : flat[2][4 + k] = rungs[2][k]
  <2> DEFINE s == rungs[1]
             t == rungs[2]
             u == flat[2]
  <2>1. s \in Seq(Points) /\ t \in Seq(Points) /\ u = s \o t
    BY <1>3, <1>7
  <2>2. Len(s) = 4 /\ Len(t) = 4
    BY <1>3, <1>7
  <2> HIDE DEF s, t, u
  <2>3. /\ u \in Seq(Points) /\ Len(u) = Len(s) + Len(t)
        /\ \A k \in 1..Len(s) : u[k] = s[k]
        /\ \A k \in 1..Len(t) : u[Len(s) + k] = t[k]
    BY <2>1, Joined
  <2>4. /\ u \in Seq(Points) /\ Len(u) = 4 + 4
        /\ \A k \in 1..4 : u[k] = s[k]
        /\ \A k \in 1..4 : u[4 + k] = t[k]
    BY <2>2, <2>3
  <2> QED
    BY <2>4 DEF s, t, u
<1>9. /\ flat[3] \in Seq(Points) /\ Len(flat[3]) = 8 + 4
      /\ \A k \in 1..8 : flat[3][k] = flat[2][k]
      /\ \A k \in 1..4 : flat[3][8 + k] = rungs[3][k]
  <2> DEFINE s == flat[2]
             t == rungs[3]
             u == flat[3]
  <2>1. s \in Seq(Points) /\ t \in Seq(Points) /\ u = s \o t
    BY <1>3, <1>7, <1>8
  <2>2. Len(s) = 8 /\ Len(t) = 4
    BY <1>3, <1>7, <1>8
  <2> HIDE DEF s, t, u
  <2>3. /\ u \in Seq(Points) /\ Len(u) = Len(s) + Len(t)
        /\ \A k \in 1..Len(s) : u[k] = s[k]
        /\ \A k \in 1..Len(t) : u[Len(s) + k] = t[k]
    BY <2>1, Joined
  <2>4. /\ u \in Seq(Points) /\ Len(u) = 8 + 4
        /\ \A k \in 1..8 : u[k] = s[k]
        /\ \A k \in 1..4 : u[8 + k] = t[k]
    BY <2>2, <2>3
  <2> QED
    BY <2>4 DEF s, t, u
<1>10. ASSUME NEW i \in 1..3, NEW j \in 1..4 PROVE all[4 * (i - 1) + j] = rungs[i][j]
  <2>1. CASE i = 1
    <3>1. 4 * (i - 1) + j = j /\ j \in 1..8
      BY <2>1
    <3> QED
      BY <1>2, <1>a, <1>8, <1>9, <2>1, <3>1
  <2>2. CASE i = 2
    <3>1. 4 * (i - 1) + j = 4 + j /\ 4 + j \in 1..8
      BY <2>2
    <3> QED
      BY <1>2, <1>a, <1>8, <1>9, <2>2, <3>1
  <2>3. CASE i = 3
    <3>1. 4 * (i - 1) + j = 8 + j
      BY <2>3
    <3> QED
      BY <1>2, <1>a, <1>9, <2>3, <3>1
  <2> QED
    BY <2>1, <2>2, <2>3
<1>11. all \in Seq(Points) /\ Len(all) = 12
  BY <1>2, <1>a, <1>9
<1>12. \A i \in 1..3, j \in 1..4 : all[4 * (i - 1) + j] = Rung(i, at, extent)[j]
  BY <1>4, <1>10
<1> QED
  BY <1>11, <1>12 DEF all

\* What is drawn after the ladder is points too.
LEMMA RestOfPicture ==
  ASSUME NEW extent \in [width : Nat, height : Nat]
  PROVE  /\ RollArc \in Seq(Points) /\ RollTriangle \in Seq(Points)
         /\ RollTicks \in Seq(Points) /\ AircraftSymbol(extent) \in Seq(Points)
<1>1. ASSUME NEW r \in Int, NEW a \in Int
      PROVE  Polar(r, a) \in Points /\ Screen(r, a) \in Points
  <2>1. R * r \in Int /\ R * a \in Int
    BY PictureAssumption
  <2> QED
    BY <2>1 DEF Polar, Screen, Points
<1>2. ASSUME NEW s, NEW n \in Nat, s \in [1..n -> Seq(Points)]
      PROVE  FlattenSeq(s) \in Seq(Points)
  <2>1. s \in Seq(Seq(Points)) /\ Len(s) = n
    BY <1>2, ListIsSeq
  <2>2. PICK flat : Flattens(flat, s, Len(s), Points)
    BY <2>1, Flattened
  <2> QED
    BY <2>1, <2>2 DEF Flattens
<1>3. RollArc \in Seq(Points)
  <2> DEFINE pairs == [s \in 1..ArcSegments |->
               <<Polar(ArcRadius, (s - 1) * ArcStep - 60), Polar(ArcRadius, s * ArcStep - 60)>>]
  <2>1. ArcSegments \in Nat /\ ArcStep \in Int /\ ArcRadius \in Int
    BY DEF ArcSegments, ArcStep, ArcRadius
  <2>2. ASSUME NEW s \in 1..ArcSegments PROVE pairs[s] \in Seq(Points)
    <3>1. (s - 1) * ArcStep - 60 \in Int /\ s * ArcStep - 60 \in Int
      BY <2>1
    <3>2. /\ Polar(ArcRadius, (s - 1) * ArcStep - 60) \in Points
          /\ Polar(ArcRadius, s * ArcStep - 60) \in Points
      BY <1>1, <2>1, <3>1
    <3> QED
      BY <3>2
  <2>3. pairs \in [1..ArcSegments -> Seq(Points)]
    BY <2>2
  <2> QED
    BY <1>2, <2>1, <2>3 DEF RollArc
<1>4. RollTicks \in Seq(Points)
  <2> DEFINE ticks == [t \in 1..5 |->
               <<Polar(ArcRadius, TickAngles[t]), Polar(ArcRadius - 50, TickAngles[t]),
                 Polar(ArcRadius, -TickAngles[t]), Polar(ArcRadius - 50, -TickAngles[t])>>]
  <2>1. ASSUME NEW t \in 1..5 PROVE ticks[t] \in Seq(Points)
    <3>1. /\ TickAngles[t] \in Int /\ -TickAngles[t] \in Int
          /\ ArcRadius \in Int /\ ArcRadius - 50 \in Int
      <4>1. TickAngles[t] \in Int
        BY DEF TickAngles
      <4> QED
        BY <4>1 DEF ArcRadius
    <3>2. /\ Polar(ArcRadius, TickAngles[t]) \in Points
          /\ Polar(ArcRadius - 50, TickAngles[t]) \in Points
          /\ Polar(ArcRadius, -TickAngles[t]) \in Points
          /\ Polar(ArcRadius - 50, -TickAngles[t]) \in Points
      BY <1>1, <3>1
    <3> QED
      BY <3>2
  <2>2. ticks \in [1..5 -> Seq(Points)]
    BY <2>1
  <2> QED
    BY <1>2, <2>2 DEF RollTicks
<1>5. RollTriangle \in Seq(Points)
  <2> DEFINE w    == (Ndc(35) * 9) \div 16
             base == Ndc(55) - Ndc(620)
             top  == -Ndc(620)
  <2>1. w \in Int /\ -w \in Int /\ base \in Int /\ top \in Int
    <3>1. Ndc(35) \in Int /\ Ndc(55) \in Int /\ Ndc(620) \in Int
      BY LengthType
    <3> QED
      BY <3>1
  <2>2. RollTriangle = <<Screen(-w, base), Screen(0, top), Screen(0, top), Screen(w, base),
                         Screen(-w, base), Screen(w, base)>>
    BY DEF RollTriangle
  <2> HIDE DEF w, base, top
  <2>3. Screen(-w, base) \in Points /\ Screen(0, top) \in Points /\ Screen(w, base) \in Points
    BY <1>1, <2>1
  <2> QED
    BY <2>2, <2>3
<1>6. AircraftSymbol(extent) \in Seq(Points)
  <2> DEFINE wing == DividedByAspect(Ndc(200), extent)
             gap  == DividedByAspect(Ndc(70), extent)
             tail == Ndc(40)
  <2>1. wing \in Int /\ gap \in Int /\ tail \in Int
    BY LengthType
  <2>2. AircraftSymbol(extent) =
          <<Screen(-wing, 0), Screen(-gap, 0), Screen(gap, 0), Screen(wing, 0),
            Screen(0, -tail), Screen(0, tail)>>
    BY DEF AircraftSymbol
  <2> HIDE DEF wing, gap, tail
  <2>3. /\ Screen(-wing, 0) \in Points /\ Screen(-gap, 0) \in Points
        /\ Screen(gap, 0) \in Points /\ Screen(wing, 0) \in Points
        /\ Screen(0, -tail) \in Points /\ Screen(0, tail) \in Points
    BY <1>1, <2>1
  <2> QED
    BY <2>2, <2>3
<1> QED
  BY <1>3, <1>4, <1>5, <1>6
\* The picture starts with the horizon line and the ladder.
LEMMA FirstVertices ==
  ASSUME NEW at \in Attitudes, NEW extent \in [width : Nat, height : Nat]
  PROVE  LET lines == ComputeHorizonVertices(at, extent)
         IN  /\ lines[1] = AttToNdc(-Ndc(920), 0, at) /\ lines[2] = AttToNdc(Ndc(920), 0, at)
             /\ \A i \in 1..3, j \in 1..4 : lines[2 + (4 * (i - 1) + j)] = Rung(i, at, extent)[j]
<1> DEFINE horizon == HorizonLine(at)
           ladder  == PitchLadder(at, extent)
           first   == horizon \o ladder
           second  == first \o RollArc
           third   == second \o RollTriangle
           fourth  == third \o RollTicks
           lines   == fourth \o AircraftSymbol(extent)
<1>1. /\ horizon \in Seq(Points) /\ Len(horizon) = 2
      /\ horizon[1] = AttToNdc(-Ndc(920), 0, at) /\ horizon[2] = AttToNdc(Ndc(920), 0, at)
  <2>1. Ndc(920) \in Int /\ -Ndc(920) \in Int
    <3>1. Ndc(920) \in Int
      BY LengthType
    <3> QED
      BY <3>1
  <2>2. AttToNdc(-Ndc(920), 0, at) \in Points /\ AttToNdc(Ndc(920), 0, at) \in Points
    BY <2>1, TurnedBack DEF Points
  <2> QED
    BY <2>2 DEF HorizonLine
<1>2. /\ ladder \in Seq(Points) /\ Len(ladder) = 12
      /\ \A i \in 1..3, j \in 1..4 : ladder[4 * (i - 1) + j] = Rung(i, at, extent)[j]
  BY LadderVertices
<1>3. lines = ComputeHorizonVertices(at, extent)
  BY DEF ComputeHorizonVertices
<1> HIDE DEF horizon, ladder
<1>4. /\ first \in Seq(Points) /\ Len(first) = Len(horizon) + Len(ladder)
      /\ \A k \in 1..Len(horizon) : first[k] = horizon[k]
      /\ \A k \in 1..Len(ladder) : first[Len(horizon) + k] = ladder[k]
  <2>1. horizon \in Seq(Points) /\ ladder \in Seq(Points)
    BY <1>1, <1>2
  <2> QED
    BY <2>1, Joined
<1> HIDE DEF first
<1>5. /\ second \in Seq(Points) /\ Len(second) = Len(first) + Len(RollArc)
      /\ \A k \in 1..Len(first) : second[k] = first[k]
  <2>1. first \in Seq(Points)
    BY <1>4
  <2> QED
    BY <2>1, RestOfPicture, Joined
<1> HIDE DEF second
<1>6. /\ third \in Seq(Points) /\ Len(third) = Len(second) + Len(RollTriangle)
      /\ \A k \in 1..Len(second) : third[k] = second[k]
  <2>1. second \in Seq(Points)
    BY <1>5
  <2> QED
    BY <2>1, RestOfPicture, Joined
<1> HIDE DEF third
<1>7. /\ fourth \in Seq(Points) /\ Len(fourth) = Len(third) + Len(RollTicks)
      /\ \A k \in 1..Len(third) : fourth[k] = third[k]
  <2>1. third \in Seq(Points)
    BY <1>6
  <2> QED
    BY <2>1, RestOfPicture, Joined
<1> HIDE DEF fourth
<1>8. \A k \in 1..Len(fourth) : lines[k] = fourth[k]
  <2>1. fourth \in Seq(Points)
    BY <1>7
  <2> QED
    BY <2>1, RestOfPicture, Joined
<1> HIDE DEF lines
<1>9. /\ Len(RollArc) \in Nat /\ Len(RollTriangle) \in Nat /\ Len(RollTicks) \in Nat
  BY RestOfPicture, LenProperties
<1>10. Len(first) = 14
  BY <1>1, <1>2, <1>4
<1>11. ASSUME NEW k \in 1..14 PROVE lines[k] = first[k]
  <2>1. k \in 1..Len(first)
    BY <1>10
  <2>2. k \in 1..Len(second) /\ k \in 1..Len(third) /\ k \in 1..Len(fourth)
    BY <1>4, <1>5, <1>6, <1>7, <1>9, <2>1
  <2> QED
    BY <1>5, <1>6, <1>7, <1>8, <2>1, <2>2
<1>12. lines[1] = AttToNdc(-Ndc(920), 0, at) /\ lines[2] = AttToNdc(Ndc(920), 0, at)
  <2>1. 1 \in 1..Len(horizon) /\ 2 \in 1..Len(horizon) /\ 1 \in 1..14 /\ 2 \in 1..14
    BY <1>1
  <2> QED
    BY <1>1, <1>4, <1>11, <2>1
<1>13. ASSUME NEW i \in 1..3, NEW j \in 1..4
       PROVE  lines[2 + (4 * (i - 1) + j)] = Rung(i, at, extent)[j]
  <2> DEFINE k == 4 * (i - 1) + j
  <2>1. k \in 1..12 /\ 2 + k \in 1..14
    OBVIOUS
  <2>2. ladder[k] = Rung(i, at, extent)[j]
    BY <1>2
  <2> HIDE DEF k
  <2>3. k \in 1..Len(ladder) /\ Len(horizon) + k = 2 + k
    BY <1>1, <1>2, <2>1
  <2>4. first[Len(horizon) + k] = ladder[k]
    BY <1>4, <2>3
  <2>5. lines[2 + k] = first[2 + k]
    BY <1>11, <2>1
  <2>6. lines[2 + k] = Rung(i, at, extent)[j]
    BY <2>2, <2>3, <2>4, <2>5
  <2> QED
    BY <2>6 DEF k
<1> QED
  BY <1>3, <1>12, <1>13 DEF lines

\* How far the ends of the horizon and of the ladder lie from the horizon.
LEMMA VertexHeights ==
  ASSUME NEW at \in Attitudes, NEW extent \in [width : Nat, height : Nat]
  PROVE  LET dist(k) == DistFromHorizon(ComputeHorizonVertices(at, extent)[k], at)
             up(i)   == R * R * (Degree * PitchAngles[i])
         IN  /\ dist(1) = 0 /\ dist(2) = 0
             /\ \A i \in 1..3, end \in 0..1 :
                  dist(4 * i - 1 + end) = -up(i) /\ dist(4 * i + 1 + end) = up(i)
<1> DEFINE lines == ComputeHorizonVertices(at, extent)
           dist(k) == DistFromHorizon(lines[k], at)
           up(i)   == R * R * (Degree * PitchAngles[i])
<1>1. /\ lines[1] = AttToNdc(-Ndc(920), 0, at) /\ lines[2] = AttToNdc(Ndc(920), 0, at)
      /\ \A i \in 1..3, j \in 1..4 : lines[2 + (4 * (i - 1) + j)] = Rung(i, at, extent)[j]
  BY FirstVertices
<1> HIDE DEF lines
<1>2. dist(1) = 0 /\ dist(2) = 0
  <2>1. Ndc(920) \in Int /\ -Ndc(920) \in Int
    <3>1. Ndc(920) \in Int
      BY LengthType
    <3> QED
      BY <3>1
  <2>2. /\ DistFromHorizon(AttToNdc(-Ndc(920), 0, at), at) = -(R * R * 0)
        /\ DistFromHorizon(AttToNdc(Ndc(920), 0, at), at) = -(R * R * 0)
    BY <2>1, TurnedBack
  <2>3. -(R * R * 0) = 0
    BY PictureAssumption
  <2> QED
    BY <1>1, <2>2, <2>3
<1>3. ASSUME NEW i \in 1..3, NEW end \in 0..1
      PROVE  dist(4 * i - 1 + end) = -up(i) /\ dist(4 * i + 1 + end) = up(i)
  <2> DEFINE w == DividedByAspect(Ndc(PitchWidths[i]), extent)
             y == Degree * PitchAngles[i]
  <2>1. w \in Int /\ -w \in Int /\ y \in Int /\ -y \in Int
    <3>1. PitchWidths[i] \in Int /\ PitchAngles[i] \in Int
      BY DEF PitchWidths, PitchAngles
    <3>2. Ndc(PitchWidths[i]) \in Int
      BY <3>1, LengthType
    <3>3. w \in Int /\ y \in Int
      BY <3>1, <3>2, LengthType, PictureAssumption
    <3> HIDE DEF w, y
    <3> QED
      BY <3>3
  <2>2. /\ Rung(i, at, extent)[1] = AttToNdc(-w, y, at)
        /\ Rung(i, at, extent)[2] = AttToNdc(w, y, at)
        /\ Rung(i, at, extent)[3] = AttToNdc(-w, -y, at)
        /\ Rung(i, at, extent)[4] = AttToNdc(w, -y, at)
    BY DEF Rung
  <2>3. up(i) = R * R * y
    OBVIOUS
  <2> HIDE DEF w, y, up
  <2>4. /\ DistFromHorizon(AttToNdc(-w, y, at), at) = -(R * R * y)
        /\ DistFromHorizon(AttToNdc(w, y, at), at) = -(R * R * y)
        /\ DistFromHorizon(AttToNdc(-w, -y, at), at) = -(R * R * (-y))
        /\ DistFromHorizon(AttToNdc(w, -y, at), at) = -(R * R * (-y))
    BY <2>1, TurnedBack
  <2>5. -(R * R * (-y)) = R * R * y
    BY <2>1, PictureAssumption
  <2>6. /\ 4 * i - 1 + end = 2 + (4 * (i - 1) + (1 + end)) /\ 1 + end \in 1..4
        /\ 4 * i + 1 + end = 2 + (4 * (i - 1) + (3 + end)) /\ 3 + end \in 1..4
        /\ end = 0 \/ end = 1
    OBVIOUS
  <2>7. /\ lines[4 * i - 1 + end] = Rung(i, at, extent)[1 + end]
        /\ lines[4 * i + 1 + end] = Rung(i, at, extent)[3 + end]
    BY <1>1, <2>6
  <2>8. CASE end = 0
    BY <2>2, <2>3, <2>4, <2>5, <2>7, <2>8
  <2>9. CASE end = 1
    BY <2>2, <2>3, <2>4, <2>5, <2>7, <2>9
  <2> QED
    BY <2>6, <2>8, <2>9
<1> QED
  BY <1>2, <1>3 DEF lines

\* What a frame's answer is made of.
LEMMA FrameAnswer ==
  ASSUME AnswerOfCall, Answered("frame")
  PROVE  LET at == answer.picture.background
         IN  /\ at \in Attitudes /\ at = Metrics(input.sample)
             /\ input.extent \in [width : Nat, height : Nat]
             /\ answer.picture.lines = ComputeHorizonVertices(at, input.extent)
<1>1. /\ input.sample \in [valid : BOOLEAN, attitude : Attitudes]
      /\ input.extent \in [width : Nat, height : Nat]
      /\ answer = [picture |-> Picture(input.sample, input.extent),
                   metrics |-> Metrics(input.sample)]
  BY OutputAssumption DEF AnswerOfCall, Answered
<1>2. /\ answer.picture.background = Drawn(input.sample)
      /\ answer.picture.lines = ComputeHorizonVertices(Drawn(input.sample), input.extent)
  BY <1>1 DEF Picture
<1>3. LevelAttitude \in Attitudes
  BY PictureAssumption DEF LevelAttitude, Attitudes
<1>4. Drawn(input.sample) \in Attitudes /\ Drawn(input.sample) = Metrics(input.sample)
  BY <1>1, <1>3 DEF Drawn, Metrics
<1> QED
  BY <1>1, <1>2, <1>4

\* A line of the ladder lies outside the band.
LEMMA BeyondBand ==
  ASSUME NEW i \in 1..3
  PROVE  LET up == R * R * (Degree * PitchAngles[i])
         IN  up \in Int /\ BandHalf \in Nat /\ BandHalf < up /\ -up < -BandHalf
<1> DEFINE unit == R * R * Degree
           angle == PitchAngles[i]
<1>1. unit \in Nat /\ unit > 0
  <2>1. R * R \in Nat /\ R * R > 0
    BY PictureAssumption
  <2> QED
    BY <2>1, PictureAssumption
<1>2. angle \in Nat /\ angle >= 5
  BY DEF PitchAngles
<1>3. R * R * (Degree * angle) = unit * angle
  BY <1>2, PictureAssumption
<1>4. BandHalf = unit \div 4
  BY DEF BandHalf
<1> HIDE DEF unit, angle
<1>5. unit * angle >= unit * 5 /\ unit * angle \in Nat
  BY <1>1, <1>2
<1>6. unit \div 4 \in Nat /\ unit \div 4 < unit * 5
  BY <1>1
<1>7. /\ unit * angle \in Int /\ BandHalf \in Nat
      /\ BandHalf < unit * angle /\ -(unit * angle) < -BandHalf
  BY <1>1, <1>2, <1>4, <1>5, <1>6
<1> QED
  BY <1>3, <1>7 DEF angle

\* The vertices of the CPU and the background of the GPU show one horizon,
\* whatever the attitude and the display.
THEOREM OneHorizon == Spec => []HorizonAgrees
<1>1. AnswerOfCall => HorizonAgrees
  <2> SUFFICES ASSUME AnswerOfCall, Answered("frame") PROVE HorizonAgrees
    BY DEF HorizonAgrees
  <2> DEFINE at == answer.picture.background
             lines == answer.picture.lines
             dist(k) == DistFromHorizon(lines[k], at)
             up(i) == R * R * (Degree * PitchAngles[i])
  <2>1. /\ at \in Attitudes /\ input.extent \in [width : Nat, height : Nat]
        /\ lines = ComputeHorizonVertices(at, input.extent)
    BY FrameAnswer
  <2>2. /\ dist(1) = 0 /\ dist(2) = 0
        /\ \A i \in 1..3, end \in 0..1 :
             dist(4 * i - 1 + end) = -up(i) /\ dist(4 * i + 1 + end) = up(i)
    BY <2>1, VertexHeights
  <2>3. \A k \in Int : BackgroundOf(Vertex(k)) = Background(lines[k + 1], at)
    BY DEF BackgroundOf, Vertex
  <2> HIDE DEF at, lines
  <2>4. ASSUME NEW k \in 0..1 PROVE BackgroundOf(Vertex(k)) = "band"
    <3>1. DistFromHorizon(lines[k + 1], at) = 0
      <4>1. k + 1 = 1 \/ k + 1 = 2
        OBVIOUS
      <4> QED
        BY <2>2, <4>1
    <3>2. BandHalf \in Nat
      BY BeyondBand
    <3> QED
      BY <2>3, <3>1, <3>2 DEF Background
  <2>5. ASSUME NEW i \in 1..3, NEW end \in 0..1
        PROVE  /\ BackgroundOf(Vertex(4 * i - 2 + end)) = "sky"
               /\ BackgroundOf(Vertex(4 * i + end)) = "earth"
    <3>1. dist(4 * i - 1 + end) = -up(i) /\ dist(4 * i + 1 + end) = up(i)
      BY <2>2
    <3>2. up(i) \in Int /\ BandHalf \in Nat /\ BandHalf < up(i) /\ -up(i) < -BandHalf
      BY BeyondBand
    <3>3. /\ (4 * i - 2 + end) + 1 = 4 * i - 1 + end /\ 4 * i - 2 + end \in Int
          /\ (4 * i + end) + 1 = 4 * i + 1 + end /\ 4 * i + end \in Int
      OBVIOUS
    <3> HIDE DEF up
    <3>4. Background(lines[4 * i - 1 + end], at) = "sky"
      BY <3>1, <3>2 DEF Background
    <3>5. Background(lines[4 * i + 1 + end], at) = "earth"
      BY <3>1, <3>2 DEF Background
    <3> QED
      BY <2>3, <3>3, <3>4, <3>5
  <2>6. ASSUME NEW k \in 2..13
        PROVE  BackgroundOf(Vertex(k)) = IF k % 4 \in {2, 3} THEN "sky" ELSE "earth"
    <3>1. CASE k % 4 \in {2, 3}
      <4>1. /\ (k + 2) \div 4 \in 1..3 /\ (k + 2) % 4 \in 0..1
            /\ k = 4 * ((k + 2) \div 4) - 2 + ((k + 2) % 4)
        BY <3>1
      <4> QED
        BY <2>5, <3>1, <4>1
    <3>2. CASE k % 4 \notin {2, 3}
      <4>1. /\ k \div 4 \in 1..3 /\ k % 4 \in 0..1
            /\ k = 4 * (k \div 4) + (k % 4)
        BY <3>2
      <4> QED
        BY <2>5, <3>2, <4>1
    <3> QED
      BY <3>1, <3>2
  <2> QED
    BY <2>4, <2>6 DEF HorizonAgrees
<1> QED
  BY <1>1, AnswerInvariant, PTL

\* The pitch is read at the aircraft symbol's centre: sky or earth by its
\* sign, on a line of the ladder exactly when it is that line's angle.
THEOREM PitchIsRead == Spec => []PitchReads
<1>1. AnswerOfCall => PitchReads
  <2> SUFFICES ASSUME AnswerOfCall, Answered("frame") PROVE PitchReads
    BY DEF PitchReads
  <2> DEFINE at == answer.picture.background
             lines == answer.picture.lines
             dist(p) == DistFromHorizon(p, at)
             up(i) == R * R * (Degree * PitchAngles[i])
             centre == [x |-> 0, y |-> 0]
             unit == R * R * Degree
             pitch == at.pitch
  <2>1. /\ at \in Attitudes /\ at = Metrics(input.sample)
        /\ input.extent \in [width : Nat, height : Nat]
        /\ lines = ComputeHorizonVertices(at, input.extent)
    BY FrameAnswer
  <2>2. \A i \in 1..3, end \in 0..1 :
          dist(lines[4 * i - 1 + end]) = -up(i) /\ dist(lines[4 * i + 1 + end]) = up(i)
    BY <2>1, VertexHeights
  <2>3. /\ BackgroundOf(centre) = Background(centre, at)
        /\ \A k \in Int : Vertex(k) = lines[k + 1]
    BY DEF BackgroundOf, Vertex
  <2>4. pitch \in Int /\ at.cos \in Int /\ at.sin \in Int
    BY <2>1 DEF Attitudes
  <2>5. unit \in Nat /\ unit > 0
    <3>1. R * R \in Nat /\ R * R > 0
      BY PictureAssumption
    <3> QED
      BY <3>1, PictureAssumption
  <2>6. dist(centre) = -(unit * pitch)
    <3>1. dist(centre) = at.cos * 0 - at.sin * 0 - unit * pitch
      BY DEF DistFromHorizon
    <3> HIDE DEF unit, pitch, at
    <3> QED
      BY <2>4, <2>5, <3>1
  <2>7. BandHalf \in Nat /\ BandHalf = unit \div 4
    <3>1. BandHalf \in Nat
      BY BeyondBand
    <3> QED
      BY <3>1 DEF BandHalf
  <2>8. \A i \in 1..3 : PitchAngles[i] \in Nat /\ up(i) = unit * PitchAngles[i]
    <3> TAKE i \in 1..3
    <3>1. PitchAngles[i] \in Nat
      BY DEF PitchAngles
    <3> QED
      BY <3>1, PictureAssumption
  <2> HIDE DEF at, lines, up, centre, unit, pitch, dist
  <2>9. ASSUME pitch > 0 PROVE BackgroundOf(centre) = "sky"
    <3>1. unit * pitch >= unit /\ unit * pitch \in Int
      BY <2>4, <2>5, <2>9
    <3>2. BandHalf < unit
      BY <2>5, <2>7
    <3>3. dist(centre) < -BandHalf
      BY <2>5, <2>6, <2>7, <3>1, <3>2
    <3>4. DistFromHorizon(centre, at) < -BandHalf /\ ~(DistFromHorizon(centre, at) > BandHalf)
      <4>1. ~(dist(centre) > BandHalf)
        BY <2>4, <2>5, <2>6, <2>7, <3>3
      <4> QED
        BY <3>3, <4>1 DEF dist
    <3>5. Background(centre, at) = "sky"
      BY <3>4 DEF Background
    <3> QED
      BY <2>3, <3>5
  <2>10. ASSUME pitch < 0 PROVE BackgroundOf(centre) = "earth"
    <3>1. -(unit * pitch) >= unit /\ -(unit * pitch) \in Int
      BY <2>4, <2>5, <2>10
    <3>2. BandHalf < unit
      BY <2>5, <2>7
    <3>3. dist(centre) > BandHalf /\ ~(dist(centre) < -BandHalf)
      BY <2>5, <2>6, <2>7, <3>1, <3>2
    <3> QED
      BY <2>3, <3>3 DEF Background, dist
  <2>11. ASSUME NEW m \in Int PROVE unit * pitch = unit * m <=> pitch = m
    BY <2>4, <2>5
  <2>12. ASSUME NEW i \in 1..3, NEW end \in 0..1
         PROVE  /\ dist(Vertex(4 * i - 2 + end)) = dist(centre) <=> pitch = PitchAngles[i]
                /\ dist(Vertex(4 * i + end)) = dist(centre) <=> pitch = -PitchAngles[i]
    <3> DEFINE angle == PitchAngles[i]
    <3>1. angle \in Nat /\ up(i) = unit * angle
      BY <2>8
    <3>2. /\ (4 * i - 2 + end) + 1 = 4 * i - 1 + end /\ 4 * i - 2 + end \in Int
          /\ (4 * i + end) + 1 = 4 * i + 1 + end /\ 4 * i + end \in Int
      OBVIOUS
    <3>3. /\ dist(Vertex(4 * i - 2 + end)) = -up(i)
          /\ dist(Vertex(4 * i + end)) = up(i)
      BY <2>2, <2>3, <3>2
    <3> HIDE DEF angle
    <3>4. -(unit * angle) = -(unit * pitch) <=> pitch = angle
      BY <2>4, <2>5, <2>11, <3>1
    <3>5. unit * angle = -(unit * pitch) <=> pitch = -angle
      <4>1. -angle \in Int /\ unit * (-angle) = -(unit * angle)
        BY <2>5, <3>1
      <4> QED
        BY <2>4, <2>5, <2>11, <3>1, <4>1
    <3> QED
      BY <2>6, <3>1, <3>3, <3>4, <3>5 DEF angle
  <2> QED
    BY <2>1, <2>9, <2>10, <2>12 DEF PitchReads, at, dist, pitch, centre
<1> QED
  BY <1>1, AnswerInvariant, PTL
-----------------------------------------------------------------------------
\* A power is the product of its factors.
LEMMA PowerSteps ==
  ASSUME NEW base \in Nat \ {0}
  PROVE  /\ Power(base, 0) = 1
         /\ \A n \in Nat : /\ Power(base, n) \in Nat \ {0}
                           /\ Power(base, n + 1) = Power(base, n) * base
<1> DEFINE V == Nat \ {0}
           step == [p \in V \X Nat |-> p[1] * base]
           next(f, k) == IF k = 0 THEN 1 ELSE f[k - 1] * base
           power == CHOOSE f : f = [k \in Nat |-> next(f, k)]
<1>1. step \in [V \X Nat -> V] /\ 1 \in V
  <2>1. ASSUME NEW p \in V \X Nat PROVE p[1] * base \in V
    <3>1. p[1] \in Nat /\ p[1] # 0 /\ base \in Nat /\ base # 0
      OBVIOUS
    <3>2. p[1] * base \in Nat /\ p[1] * base # 0
      BY <3>1
    <3> QED
      BY <3>2
  <2> QED
    BY <2>1
<1>2. PICK g : Recurs(g, V, 1, step)
  BY <1>1, RecursionExists
<1>3. /\ g \in [Nat -> V] /\ g[0] = 1
      /\ \A k \in Nat : g[k + 1] = g[k] * base
  <2>1. g \in [Nat -> V] /\ g[0] = 1
    BY <1>2 DEF Recurs
  <2>2. ASSUME NEW k \in Nat PROVE g[k + 1] = g[k] * base
    <3>1. g[k] \in V /\ k + 1 \in Nat
      BY <2>1
    <3>2. g[k + 1] = step[<<g[k], k + 1>>]
      BY <1>2 DEF Recurs
    <3> HIDE DEF V
    <3> QED
      BY <3>1, <3>2
  <2> QED
    BY <2>1, <2>2
<1>4. g = [k \in Nat |-> next(g, k)]
  <2>1. ASSUME NEW k \in Nat PROVE g[k] = next(g, k)
    <3>1. CASE k = 0
      BY <1>3, <3>1
    <3>2. CASE k # 0
      <4>1. k - 1 \in Nat /\ (k - 1) + 1 = k
        BY <3>2
      <4>2. g[k] = g[k - 1] * base
        BY <1>3, <4>1
      <4> QED
        BY <3>2, <4>2
    <3> QED
      BY <3>1, <3>2
  <2> HIDE DEF next
  <2> QED
    BY <1>3, <2>1
<1>5. power = [k \in Nat |-> next(power, k)]
  <2> HIDE DEF next
  <2> QED
    BY <1>4
<1>6. \A n : Power(base, n) = power[n]
  BY DEF Power
<1> HIDE DEF power
<1>7. power[0] = 1
  BY <1>5
<1>8. ASSUME NEW k \in Nat PROVE power[k + 1] = power[k] * base
  <2>1. k + 1 \in Nat /\ k + 1 # 0 /\ (k + 1) - 1 = k
    OBVIOUS
  <2>2. power[k + 1] = next(power, k + 1)
    <3> HIDE DEF next
    <3> QED
      BY <1>5, <2>1
  <2> QED
    BY <2>1, <2>2
<1>9. \A k \in Nat : power[k] \in Nat \ {0}
  <2> DEFINE S == {k \in Nat : power[k] \in Nat \ {0}}
  <2>1. 0 \in S
    BY <1>7
  <2>2. ASSUME NEW k \in Nat, k \in S PROVE k + 1 \in S
    <3>1. power[k] \in Nat /\ power[k] # 0 /\ base \in Nat /\ base # 0
      BY <2>2
    <3>2. power[k] * base \in Nat /\ power[k] * base # 0
      BY <3>1
    <3> QED
      BY <1>8, <3>2
  <2>3. Nat \subseteq S
    <3> HIDE DEF S
    <3> QED
      BY <2>1, <2>2, AllNumbers
  <2> QED
    BY <2>3
<1> QED
  BY <1>6, <1>7, <1>8, <1>9
-----------------------------------------------------------------------------
\* STRING; the provers have to be told that a literal is one.
Characters ==
  STRING \cup {"0", "1", "2", "3", "4", "5", "6", "7", "8", "9", "A", "B", "C", "D", "E", "F",
               "-", "+", ".", "?"}

\* The digits' characters: as many as there are digits, each another one, the
\* decimal ones first.
LEMMA DigitChars ==
  /\ DecChars \in Seq(Characters) /\ Len(DecChars) = 10
  /\ HexChars \in Seq(Characters) /\ Len(HexChars) = 16
  /\ \A i \in 1..10 : HexChars[i] = DecChars[i]
  /\ HexChars[1] = "0"
  /\ \A d, e \in 0..15 : HexChars[d + 1] = HexChars[e + 1] => d = e
<1> DEFINE late == <<"A", "B", "C", "D", "E", "F">>
<1>1. DecChars \in Seq(Characters) /\ late \in Seq(Characters)
  BY DEF DecChars, Characters
<1>2. Len(DecChars) = 10 /\ Len(late) = 6
  BY DEF DecChars
<1>3. HexChars = DecChars \o late
  BY DEF HexChars
<1> HIDE DEF late
<1>4. /\ HexChars \in Seq(Characters) /\ Len(HexChars) = Len(DecChars) + Len(late)
      /\ \A k \in 1..Len(DecChars) : HexChars[k] = DecChars[k]
      /\ \A k \in 1..Len(late) : HexChars[Len(DecChars) + k] = late[k]
  BY <1>1, <1>3, Joined
<1>5. /\ HexChars \in Seq(Characters) /\ Len(HexChars) = 16
      /\ \A k \in 1..10 : HexChars[k] = DecChars[k]
      /\ \A k \in 1..6 : HexChars[10 + k] = late[k]
  BY <1>2, <1>4
<1>6. /\ HexChars[1] = "0" /\ HexChars[2] = "1" /\ HexChars[3] = "2" /\ HexChars[4] = "3"
      /\ HexChars[5] = "4" /\ HexChars[6] = "5" /\ HexChars[7] = "6" /\ HexChars[8] = "7"
      /\ HexChars[9] = "8" /\ HexChars[10] = "9"
  BY <1>5 DEF DecChars
<1>7. /\ HexChars[11] = "A" /\ HexChars[12] = "B" /\ HexChars[13] = "C"
      /\ HexChars[14] = "D" /\ HexChars[15] = "E" /\ HexChars[16] = "F"
  <2>1. /\ HexChars[10 + 1] = late[1] /\ HexChars[10 + 2] = late[2]
        /\ HexChars[10 + 3] = late[3] /\ HexChars[10 + 4] = late[4]
        /\ HexChars[10 + 5] = late[5] /\ HexChars[10 + 6] = late[6]
    BY <1>5
  <2> QED
    BY <2>1 DEF late
<1>8. \A d, e \in 0..15 : HexChars[d + 1] = HexChars[e + 1] => d = e
  <2>1. \A i \in 0..15 : \/ i = 0 \/ i = 1 \/ i = 2 \/ i = 3 \/ i = 4 \/ i = 5 \/ i = 6 \/ i = 7
                         \/ i = 8 \/ i = 9 \/ i = 10 \/ i = 11 \/ i = 12 \/ i = 13 \/ i = 14
                         \/ i = 15
    OBVIOUS
  <2> QED
    BY <1>6, <1>7, <2>1
<1> QED
  BY <1>1, <1>2, <1>5, <1>6, <1>8

\* The digits of a number, c of them, in a base up to 16.
Wide(base, n, c) == [k \in 1..c |-> HexChars[1 + ((n \div Power(base, c - k)) % base)]]

\* They are characters, each the digit of its place.
LEMMA WideType ==
  ASSUME NEW base \in {10, 16}, NEW n \in Nat, NEW c \in Nat
  PROVE  /\ Wide(base, n, c) \in Seq(Characters) /\ Len(Wide(base, n, c)) = c
         /\ \A k \in 1..c : /\ (n \div Power(base, c - k)) % base \in 0..(base - 1)
                            /\ Wide(base, n, c)[k] =
                                 HexChars[1 + ((n \div Power(base, c - k)) % base)]
<1>1. ASSUME NEW k \in 1..c PROVE (n \div Power(base, c - k)) % base \in 0..(base - 1)
  <2>1. c - k \in Nat /\ base \in Nat \ {0}
    OBVIOUS
  <2>2. Power(base, c - k) \in Nat \ {0}
    BY <2>1, PowerSteps
  <2>3. n \div Power(base, c - k) \in Nat
    BY <2>2
  <2> QED
    BY <2>3
<1>2. ASSUME NEW k \in 1..c
      PROVE  HexChars[1 + ((n \div Power(base, c - k)) % base)] \in Characters
  <2>1. 1 + ((n \div Power(base, c - k)) % base) \in 1..16
    BY <1>1
  <2>2. \A i \in 1..16 : HexChars[i] \in Characters
    <3>1. HexChars \in Seq(Characters) /\ Len(HexChars) = 16
      BY DigitChars
    <3>2. \A i \in 1..Len(HexChars) : HexChars[i] \in Characters
      BY <3>1, ElementOfSeq
    <3> QED
      BY <3>1, <3>2
  <2> QED
    BY <2>1, <2>2
<1>3. Wide(base, n, c) \in [1..c -> Characters]
  BY <1>2 DEF Wide
<1>4. Wide(base, n, c) \in Seq(Characters) /\ Len(Wide(base, n, c)) = c
  BY <1>3, ListIsSeq
<1> QED
  BY <1>1, <1>4 DEF Wide

\* Powers of ten.
LEMMA TenPowers ==
  /\ Power(10, 0) = 1
  /\ \A n \in Nat : Power(10, n) \in Nat \ {0} /\ Power(10, n + 1) = Power(10, n) * 10
<1>1. 10 \in Nat \ {0}
  OBVIOUS
<1> QED
  BY <1>1, PowerSteps

\* A quotient is zero when the divisor is the greater.
LEMMA ZeroQuotient ==
  ASSUME NEW n \in Nat, NEW p \in Nat \ {0}
  PROVE  n \div p \in Nat /\ (n \div p = 0 <=> n < p)
OBVIOUS

\* The division loop stops at the first power above the number.
LEMMA DigitCountIs ==
  ASSUME NEW val \in Nat, NEW size \in Nat \ {0}, val < Power(10, size)
  PROVE  LET c == DigitCount(val, size)
         IN  /\ c \in 1..size /\ val < Power(10, c)
             /\ \A k \in 1..(c - 1) : Power(10, k) <= val
<1> DEFINE S == {size} \cup {k \in 1..size : val \div Power(10, k) = 0}
           c == DigitCount(val, size)
<1>1. S \in SUBSET Nat /\ S # {} /\ S \subseteq 1..size
  OBVIOUS
<1>2. c = Min(S)
  BY DEF DigitCount
<1> HIDE DEF c
<1>3. \A k \in 1..size : Power(10, k) \in Nat \ {0}
  BY TenPowers
<1>4. \A k \in 1..size : k \in S <=> val < Power(10, k)
  <2> TAKE k \in 1..size
  <2>1. val \div Power(10, k) = 0 <=> val < Power(10, k)
    BY <1>3, ZeroQuotient
  <2> QED
    BY <2>1
<1> HIDE DEF S
<1>5. c \in S /\ \A k \in S : c <= k
  BY <1>1, <1>2, LeastElement
<1>6. c \in 1..size /\ val < Power(10, c)
  BY <1>1, <1>4, <1>5
<1>7. ASSUME NEW k \in 1..(c - 1) PROVE Power(10, k) <= val
  <2>1. k \in 1..size /\ ~(c <= k)
    BY <1>6
  <2>2. k \notin S
    BY <1>5, <2>1
  <2>3. ~(val < Power(10, k)) /\ Power(10, k) \in Nat
    BY <1>3, <1>4, <2>1, <2>2
  <2> QED
    BY <2>3
<1> QED
  BY <1>6, <1>7 DEF c

\* What AppendUDec writes: the digits of the number, as many as it has.
LEMMA DigitsAre ==
  ASSUME NEW val \in Nat, NEW size \in Nat \ {0}, val < Power(10, size)
  PROVE  /\ Digits(val, size) = Wide(10, val, DigitCount(val, size))
         /\ Digits(val, size) \in Seq(Characters)
<1> DEFINE c == DigitCount(val, size)
<1>1. c \in Nat
  BY DigitCountIs
<1>2. Digits(val, size) = [k \in 1..c |-> DecChars[1 + ((val \div Power(10, c - k)) % 10)]]
  BY DEF Digits
<1> HIDE DEF c
<1>3. ASSUME NEW k \in 1..c
      PROVE  DecChars[1 + ((val \div Power(10, c - k)) % 10)] =
               HexChars[1 + ((val \div Power(10, c - k)) % 10)]
  <2> DEFINE d == (val \div Power(10, c - k)) % 10
  <2>1. d \in 0..9
    <3>1. c - k \in Nat
      BY <1>1
    <3>2. val \div Power(10, c - k) \in Nat
      BY <3>1, TenPowers, ZeroQuotient
    <3> QED
      BY <3>2
  <2> HIDE DEF d
  <2>2. HexChars[1 + d] = DecChars[1 + d]
    BY <2>1, DigitChars
  <2> QED
    BY <2>2 DEF d
<1>4. Digits(val, size) = Wide(10, val, c)
  BY <1>2, <1>3 DEF Wide
<1>5. Wide(10, val, c) \in Seq(Characters)
  BY <1>1, WideType
<1> QED
  BY <1>4, <1>5 DEF c
-----------------------------------------------------------------------------
\* The beginning of a text, n characters at most.
Cut(s, n) == SubSeq(s, 1, Least(Len(s), n))

\* A cut keeps the characters that fit.
LEMMA CutType ==
  ASSUME NEW S, NEW s \in Seq(S), NEW n \in Int
  PROVE  /\ Cut(s, n) \in Seq(S)
         /\ Len(Cut(s, n)) = IF n < 0 THEN 0 ELSE Least(Len(s), n)
         /\ \A k \in 1..Len(Cut(s, n)) : Cut(s, n)[k] = s[k]
<1> DEFINE m == Least(Len(s), n)
<1>1. m \in Int /\ m <= Len(s) /\ Len(s) \in Nat /\ (n < 0 => m < 0) /\ (n >= 0 => m >= 0)
  BY LenProperties DEF Least
<1>2. \A i \in 1..m : s[i] \in S
  BY <1>1, ElementOfSeq
<1> HIDE DEF m
<1>3. /\ SubSeq(s, 1, m) \in Seq(S)
      /\ Len(SubSeq(s, 1, m)) = IF 1 <= m THEN m - 1 + 1 ELSE 0
      /\ \A i \in 1..(m - 1 + 1) : SubSeq(s, 1, m)[i] = s[1 + i - 1]
  BY <1>1, <1>2, SubSeqProperties
<1>4. Cut(s, n) = SubSeq(s, 1, m)
  BY DEF Cut, m
<1>5. Len(Cut(s, n)) = IF n < 0 THEN 0 ELSE m
  BY <1>1, <1>3, <1>4
<1>6. \A k \in 1..Len(Cut(s, n)) : Cut(s, n)[k] = s[k]
  BY <1>1, <1>3, <1>4, <1>5
<1> QED
  BY <1>3, <1>4, <1>5, <1>6 DEF m

\* An append writes what still fits.
LEMMA AppendIs ==
  ASSUME NEW b \in Seq(Characters), NEW t \in Seq(Characters), NEW cap \in Nat \ {0}
  PROVE  /\ AppendText(b, cap, t) = b \o Cut(t, cap - 1 - Len(b))
         /\ AppendText(b, cap, t) \in Seq(Characters)
<1>1. AppendText(b, cap, t) = b \o Cut(t, cap - 1 - Len(b))
  BY DEF AppendText, Cut
<1>2. cap - 1 - Len(b) \in Int
  BY LenProperties
<1>3. Cut(t, cap - 1 - Len(b)) \in Seq(Characters)
  BY <1>2, CutType
<1> QED
  BY <1>1, <1>3

\* What fits of two lengths, one after the other or as one.
LEMMA LeastSum ==
  ASSUME NEW l \in Nat, NEW m \in Nat, NEW n \in Nat
  PROVE  Least(l, n) + Least(m, n - Least(l, n)) = Least(l + m, n)
BY DEF Least

\* Cut at each append or once at the end: the same text.
LEMMA AppendCut ==
  ASSUME NEW x \in Seq(Characters), NEW t \in Seq(Characters), NEW cap \in Nat \ {0}
  PROVE  AppendText(Cut(x, cap - 1), cap, t) = Cut(x \o t, cap - 1)
<1> DEFINE n == cap - 1
           b == Cut(x, n)
           rest == Cut(t, n - Len(b))
           both == x \o t
           all == Cut(both, n)
<1>1. n \in Nat /\ Len(x) \in Nat /\ Len(t) \in Nat
  BY LenProperties
<1>2. AppendText(b, cap, t) = b \o rest
  BY DEF AppendText, Cut
<1>3. /\ both \in Seq(Characters) /\ Len(both) = Len(x) + Len(t)
      /\ \A k \in 1..Len(x) : both[k] = x[k]
      /\ \A k \in 1..Len(t) : both[Len(x) + k] = t[k]
  BY Joined
<1> HIDE DEF n, both
<1>4. /\ b \in Seq(Characters) /\ Len(b) = Least(Len(x), n)
      /\ \A k \in 1..Len(b) : b[k] = x[k]
  BY <1>1, CutType
<1>5. n - Len(b) \in Nat
  BY <1>1, <1>4 DEF Least
<1> HIDE DEF b
<1>6. /\ rest \in Seq(Characters) /\ Len(rest) = Least(Len(t), n - Len(b))
      /\ \A k \in 1..Len(rest) : rest[k] = t[k]
  BY <1>5, CutType
<1>7. /\ all \in Seq(Characters) /\ Len(all) = Least(Len(x) + Len(t), n)
      /\ \A k \in 1..Len(all) : all[k] = both[k]
  <2>1. both \in Seq(Characters)
    BY <1>3
  <2>2. /\ all \in Seq(Characters) /\ Len(all) = Least(Len(both), n)
        /\ \A k \in 1..Len(all) : all[k] = both[k]
    BY <1>1, <2>1, CutType
  <2> QED
    BY <1>3, <2>2
<1> HIDE DEF rest, all
<1>8. /\ b \o rest \in Seq(Characters) /\ Len(b \o rest) = Len(b) + Len(rest)
      /\ \A k \in 1..Len(b) : (b \o rest)[k] = b[k]
      /\ \A k \in 1..Len(rest) : (b \o rest)[Len(b) + k] = rest[k]
  <2>1. b \in Seq(Characters) /\ rest \in Seq(Characters)
    BY <1>4, <1>6
  <2> QED
    BY <2>1, Joined
<1> DEFINE one == b \o rest
<1> HIDE DEF one
<1>9. Len(one) = Len(all)
  <2>1. Len(one) = Len(b) + Len(rest)
    BY <1>8 DEF one
  <2>2. Len(b) + Len(rest) = Least(Len(x), n) + Least(Len(t), n - Least(Len(x), n))
    BY <1>4, <1>6
  <2>3. Len(all) = Least(Len(x) + Len(t), n)
    BY <1>7
  <2> QED
    BY <1>1, <2>1, <2>2, <2>3, LeastSum
<1>10. ASSUME NEW k \in 1..Len(one) PROVE one[k] = all[k]
  <2>1. Len(one) = Len(b) + Len(rest) /\ Len(b) \in Nat /\ Len(rest) \in Nat
    BY <1>4, <1>6, <1>8, LenProperties DEF one
  <2>2. CASE k \in 1..Len(b)
    <3>1. k \in 1..Len(x) /\ k \in 1..Len(all)
      BY <1>1, <1>4, <1>9, <2>2 DEF Least
    <3> QED
      BY <1>3, <1>4, <1>7, <1>8, <2>2, <3>1 DEF one
  <2>3. CASE k \notin 1..Len(b)
    <3>1. k - Len(b) \in 1..Len(rest) /\ Len(b) + (k - Len(b)) = k
      BY <2>1, <2>3
    <3>2. Len(b) = Len(x)
      BY <1>1, <1>4, <1>6, <3>1 DEF Least
    <3>3. k - Len(b) \in 1..Len(t)
      BY <1>1, <1>5, <1>6, <3>1 DEF Least
    <3>4. one[k] = t[k - Len(b)]
      BY <1>6, <1>8, <3>1 DEF one
    <3>5. all[k] = both[k]
      BY <1>7, <1>9
    <3>6. both[k] = t[k - Len(b)]
      BY <1>3, <3>1, <3>2, <3>3
    <3> QED
      BY <3>4, <3>5, <3>6
  <2> QED
    BY <2>2, <2>3
<1>11. one = all
  <2>1. one \in Seq(Characters) /\ all \in Seq(Characters)
    BY <1>7, <1>8 DEF one
  <2> QED
    BY <1>9, <1>10, <2>1, SeqEqual
<1> QED
  BY <1>2, <1>11 DEF one, all, b, n, both
-----------------------------------------------------------------------------
\* More digits, a greater power.
LEMMA PowersGrow ==
  \A m, n \in Nat : m <= n => Power(10, m) <= Power(10, n)
<1> SUFFICES ASSUME NEW m \in Nat PROVE \A n \in Nat : m <= n => Power(10, m) <= Power(10, n)
  OBVIOUS
<1> DEFINE S == {n \in Nat : m <= n => Power(10, m) <= Power(10, n)}
<1>1. 0 \in S
  BY TenPowers
<1>2. ASSUME NEW n \in Nat, n \in S PROVE n + 1 \in S
  <2>1. /\ Power(10, m) \in Nat /\ Power(10, n) \in Nat
        /\ Power(10, n + 1) \in Nat /\ Power(10, n + 1) = Power(10, n) * 10
    BY TenPowers
  <2>2. CASE m <= n
    <3>1. Power(10, m) <= Power(10, n)
      BY <1>2, <2>2
    <3>2. Power(10, m) <= Power(10, n + 1)
      BY <2>1, <3>1
    <3> QED
      BY <3>2
  <2>3. CASE ~(m <= n)
    <3>1. m <= n + 1 => m = n + 1
      BY <2>3
    <3> QED
      BY <2>1, <3>1
  <2> QED
    BY <2>2, <2>3
<1>3. Nat \subseteq S
  <2> HIDE DEF S
  <2> QED
    BY <1>1, <1>2, AllNumbers
<1> QED
  BY <1>3

\* A fraction below the scale has at most its digits, and its padding fills
\* them up.
LEMMA PaddingIs ==
  ASSUME NEW frac \in Nat, NEW dec \in Nat \ {0}, frac < Power(10, dec),
         frac < Power(10, DecDigits)
  PROVE  LET c == DigitCount(frac, DecDigits)
         IN  /\ c \in 1..dec
             /\ Padding(frac, dec) = [k \in 1..(dec - c) |-> "0"]
             /\ Padding(frac, dec) \in Seq(Characters) /\ Len(Padding(frac, dec)) = dec - c
<1> DEFINE c == DigitCount(frac, DecDigits)
           S == {j \in 1..(dec - 1) : frac < Power(10, j)}
<1>1. /\ c \in 1..DecDigits /\ frac < Power(10, c)
      /\ \A k \in 1..(c - 1) : Power(10, k) <= frac
  <2>1. DecDigits \in Nat \ {0}
    BY TextAssumption
  <2> QED
    BY <2>1, DigitCountIs
<1> HIDE DEF c
<1>2. c \in Nat /\ c >= 1
  BY <1>1, TextAssumption
<1>3. c <= dec
  <2> SUFFICES ASSUME dec <= c - 1 PROVE FALSE
    BY <1>2
  <2>1. dec \in 1..(c - 1) /\ Power(10, dec) \in Nat
    BY <1>2, TenPowers
  <2>2. Power(10, dec) <= frac
    BY <1>1, <2>1
  <2> QED
    BY <2>1, <2>2
<1>4. S = c..(dec - 1)
  <2>1. ASSUME NEW j \in 1..(dec - 1) PROVE frac < Power(10, j) <=> c <= j
    <3>1. j \in Nat /\ Power(10, j) \in Nat /\ Power(10, c) \in Nat
      BY <1>2, TenPowers
    <3>2. ASSUME c <= j PROVE frac < Power(10, j)
      <4>1. Power(10, c) <= Power(10, j)
        BY <1>2, <3>1, <3>2, PowersGrow
      <4> QED
        BY <1>1, <3>1, <4>1
    <3>3. ASSUME ~(c <= j) PROVE ~(frac < Power(10, j))
      <4>1. j \in 1..(c - 1)
        BY <1>2, <3>3
      <4>2. Power(10, j) <= frac
        BY <1>1, <4>1
      <4> QED
        BY <3>1, <4>2
    <3> QED
      BY <3>2, <3>3
  <2>2. \A j : j \in c..(dec - 1) <=> j \in 1..(dec - 1) /\ c <= j
    BY <1>2
  <2> QED
    BY <2>1, <2>2
<1>5. Cardinality(S) = dec - c
  <2>1. c \in Int /\ dec - 1 \in Int
    BY <1>2
  <2>2. Cardinality(c..(dec - 1)) = IF c > dec - 1 THEN 0 ELSE (dec - 1) - c + 1
    BY <2>1, FS_Interval
  <2>3. (IF c > dec - 1 THEN 0 ELSE (dec - 1) - c + 1) = dec - c
    BY <1>2, <1>3
  <2> HIDE DEF S
  <2> QED
    BY <1>4, <2>2, <2>3
<1>6. Padding(frac, dec) = [k \in 1..(dec - c) |-> "0"]
  BY <1>5 DEF Padding
<1>7. Padding(frac, dec) \in Seq(Characters) /\ Len(Padding(frac, dec)) = dec - c
  <2>1. "0" \in Characters /\ dec - c \in Nat
    BY <1>2, <1>3 DEF Characters
  <2>2. Padding(frac, dec) \in [1..(dec - c) -> Characters]
    BY <1>6, <2>1
  <2> QED
    BY <2>1, <2>2, ListIsSeq
<1> QED
  BY <1>2, <1>3, <1>6, <1>7 DEF c

\* A float's parts: the rounded fraction is at most the scale, and the carry
\* of one that reaches it does not overflow the word.
LEMMA FloatParts ==
  ASSUME NEW size \in 0..((Word - 1) * FloatUnit), NEW val, val.size = size,
         NEW dec \in 0..MaxDecimals
  PROVE  LET scale == Power(10, dec)
             frac  == FracPart(val, scale)
             carry == IF frac >= scale THEN 1 ELSE 0
             rest  == frac - carry * scale
         IN  /\ frac \in Nat /\ rest \in Nat /\ rest < scale /\ scale \in Nat
             /\ -FloatUnit < 2 * (frac * FloatUnit - (size % FloatUnit) * scale)
             /\ 2 * (frac * FloatUnit - (size % FloatUnit) * scale) <= FloatUnit
             /\ (size \div FloatUnit + carry) % Word = size \div FloatUnit + carry
             /\ size \div FloatUnit + carry \in Nat
             /\ size \div FloatUnit + carry < Power(10, DecDigits)
             /\ rest < Power(10, DecDigits)
<1> DEFINE F == FloatUnit
           scale == Power(10, dec)
           r == size % F
           w == size \div F
           frac  == FracPart(val, scale)
           carry == IF frac >= scale THEN 1 ELSE 0
           rest  == frac - carry * scale
<1>1. F \in Nat \ {0} /\ Word \in Nat \ {0} /\ dec \in Nat /\ MaxDecimals \in Nat /\ size \in Nat
      /\ DecDigits \in Nat
  BY TextAssumption
<1>2. scale \in Nat \ {0} /\ scale <= Word /\ Word <= Power(10, DecDigits)
      /\ Power(10, DecDigits) \in Nat
  <2>1. scale \in Nat \ {0} /\ Power(10, MaxDecimals) \in Nat /\ Power(10, DecDigits) \in Nat
    BY <1>1, TenPowers
  <2>2. scale <= Power(10, MaxDecimals)
    BY <1>1, PowersGrow
  <2> HIDE DEF scale
  <2> QED
    BY <1>1, <2>1, <2>2, TextAssumption
<1>3. frac = (2 * r * scale + F) \div (2 * F)
  BY DEF FracPart
<1>4. r \in 0..(F - 1) /\ w \in Nat /\ size = F * w + r
  BY <1>1
<1>5. size <= (Word - 1) * F
  BY <1>1
<1> HIDE DEF F, scale, r, w, frac
<1>6. w <= Word - 1 /\ (w = Word - 1 => r = 0)
  <2>1. F * w + r <= F * (Word - 1)
    <3>1. (Word - 1) * F = F * (Word - 1)
      BY <1>1
    <3> QED
      BY <1>4, <1>5, <3>1
  <2>2. ASSUME w >= Word PROVE FALSE
    <3>1. F * w >= F * Word
      BY <1>1, <1>4, <2>2
    <3>2. F * (Word - 1) = F * Word - F
      BY <1>1
    <3>3. F * w \in Nat /\ F * Word \in Nat
      BY <1>1, <1>4
    <3> QED
      BY <1>1, <1>4, <2>1, <3>1, <3>2, <3>3
  <2>3. w = Word - 1 => r = 0
    <3> SUFFICES ASSUME w = Word - 1 PROVE r = 0
      OBVIOUS
    <3>1. F * w = F * (Word - 1) /\ F * w \in Nat
      BY <1>1, <1>4
    <3> QED
      BY <1>4, <2>1, <3>1
  <2> QED
    BY <1>1, <1>4, <2>2, <2>3
<1> DEFINE a == 2 * r * scale
<1>7. a \in Nat /\ a = 2 * (r * scale) /\ r * scale \in Nat
  BY <1>2, <1>4, <1>1
<1> HIDE DEF a
<1>8. frac \in Nat /\ (2 * F) * frac <= a + F /\ a + F < (2 * F) * frac + 2 * F
  <2> DEFINE b == 2 * F
             n == a + F
  <2>1. b \in Nat \ {0} /\ n \in Nat /\ frac = n \div b
    BY <1>1, <1>3, <1>7 DEF a
  <2> HIDE DEF b, n
  <2>2. frac \in Nat /\ b * frac <= n /\ n < b * frac + b
    BY <2>1
  <2> QED
    BY <2>2 DEF b, n
<1>9. -F < 2 * (frac * F - r * scale) /\ 2 * (frac * F - r * scale) <= F
  <2>1. (2 * F) * frac = 2 * (frac * F) /\ frac * F \in Nat
    BY <1>1, <1>8
  <2> QED
    BY <1>1, <1>7, <1>8, <2>1
<1>10. frac <= scale
  <2> SUFFICES ASSUME frac >= scale + 1 PROVE FALSE
    BY <1>2, <1>8
  <2>1. frac * F >= (scale + 1) * F
    BY <1>1, <1>2, <1>8
  <2>2. r * scale <= (F - 1) * scale
    BY <1>1, <1>2, <1>4
  <2>3. (scale + 1) * F = scale * F + F /\ (F - 1) * scale = scale * F - scale /\ scale * F \in Nat
    BY <1>1, <1>2
  <2>4. frac * F \in Nat
    BY <1>1, <1>8
  <2> QED
    BY <1>1, <1>2, <1>7, <1>9, <2>1, <2>2, <2>3, <2>4
<1>11. carry \in {0, 1} /\ rest \in Nat /\ rest < scale
  <2>1. CASE frac >= scale
    <3>1. carry = 1 /\ 1 * scale = scale /\ frac = scale
      BY <1>2, <1>8, <1>10, <2>1
    <3>2. rest = 0
      BY <1>2, <3>1
    <3> QED
      BY <1>2, <3>1, <3>2
  <2>2. CASE ~(frac >= scale)
    <3>1. carry = 0 /\ 0 * scale = 0
      BY <1>2, <2>2
    <3>2. rest = frac
      BY <1>8, <3>1
    <3> QED
      BY <1>2, <1>8, <2>2, <3>1, <3>2
  <2> QED
    BY <2>1, <2>2
<1>12. w + carry \in Nat /\ w + carry < Word
  <2>1. CASE w < Word - 1
    BY <1>1, <1>4, <1>11, <2>1
  <2>2. CASE w = Word - 1
    <3>1. r * scale = 0
      BY <1>2, <1>6, <2>2
    <3>2. a = 0
      BY <1>7, <3>1
    <3>3. frac = 0
      <4>1. CASE frac >= 1
        <5>1. (2 * F) * frac >= 2 * F
          BY <1>1, <1>8, <4>1
        <5>2. (2 * F) * frac \in Nat
          BY <1>1, <1>8
        <5> QED
          BY <1>1, <1>8, <3>2, <5>1, <5>2
      <4> QED
        BY <1>8, <4>1
    <3>4. carry = 0
      BY <1>2, <3>3
    <3> QED
      BY <1>1, <1>4, <2>2, <3>4
  <2> QED
    BY <1>1, <1>4, <1>6, <2>1, <2>2
<1> HIDE DEF carry, rest
<1>13. (w + carry) % Word = w + carry
  BY <1>1, <1>12
<1>14. w + carry < Power(10, DecDigits) /\ rest < Power(10, DecDigits)
  BY <1>1, <1>2, <1>11, <1>12
<1> QED
  BY <1>2, <1>8, <1>9, <1>11, <1>12, <1>13, <1>14 DEF F, scale, r, w, frac, carry, rest

\* A word has no more decimal digits than there is room for.
LEMMA WordDigits ==
  ASSUME NEW val \in Nat, val < Word
  PROVE  /\ DecDigits \in Nat \ {0} /\ val < Power(10, DecDigits)
         /\ Digits(val, DecDigits) \in Seq(Characters)
<1>1. DecDigits \in Nat \ {0} /\ Word \in Nat /\ Word <= Power(10, DecDigits)
  BY TextAssumption
<1>2. Power(10, DecDigits) \in Nat
  BY <1>1, TenPowers
<1>3. val < Power(10, DecDigits)
  BY <1>1, <1>2
<1> QED
  BY <1>1, <1>3, DigitsAre

\* The negation of every negative number is its absolute value, the most
\* negative one's included.
LEMMA NegatedIs ==
  ASSUME NEW val \in (-(Word \div 2))..((Word \div 2) - 1), val < 0
  PROVE  Negated(val) = -val /\ -val \in Nat /\ -val < Word
<1>1. Word \in Nat \ {0} /\ Word % 2 = 0
  BY TextAssumption
<1>2. -val \in Nat /\ -val <= Word \div 2 /\ -val > 0
  BY <1>1
<1>3. Word \div 2 < Word
  BY <1>1
<1>4. -val < Word
  BY <1>1, <1>2, <1>3
<1>5. (-(val + 1)) + 1 = -val
  OBVIOUS
<1>6. (-val) % Word = -val
  BY <1>1, <1>2, <1>4
<1> QED
  BY <1>2, <1>4, <1>5, <1>6 DEF Negated

\* What each call writes when there is room.
FloatText(val, decimals, showSign) ==
  LET dec   == Least(decimals, MaxDecimals)
      scale == Power(10, dec)
      frac  == FracPart(val, scale)
      carry == IF frac >= scale THEN 1 ELSE 0
      rest  == frac - carry * scale
      whole == Sign(val, showSign)
                 \o Digits((val.size \div FloatUnit + carry) % Word, DecDigits)
  IN  CASE ~val.finite -> <<"?">>
        [] val.finite /\ dec = 0 -> whole
        [] OTHER -> (whole \o (<<".">> \o Padding(rest, dec))) \o Digits(rest, DecDigits)

TextOf(piece) ==
  CASE piece.op = "text"  -> piece.chars
    [] piece.op = "udec"  -> Digits(piece.val, DecDigits)
    [] piece.op = "u64"   -> Digits(piece.val, Dec64Digits)
    [] piece.op = "idec"  -> IF piece.val < 0 THEN <<"-">> \o Digits(Negated(piece.val), DecDigits)
                             ELSE Digits(piece.val, DecDigits)
    [] piece.op = "hex"   -> Wide(16, piece.val, HexCount(piece.digits))
    [] piece.op = "float" -> FloatText(piece.val, piece.decimals, piece.showSign)

\* The call writes a text, and cutting at each of its appends cuts that text.
Writes(piece, text) ==
  /\ text \in Seq(Characters)
  /\ \A x \in Seq(Characters), cap \in Nat \ {0} :
       Put(Cut(x, cap - 1), cap, piece) = Cut(x \o text, cap - 1)

\* A text is appended as it is.
LEMMA WritesText ==
  ASSUME NEW piece \in [op : {"text"}, chars : Seq(STRING)]
  PROVE  Writes(piece, TextOf(piece))
<1>1. STRING \subseteq Characters
  BY DEF Characters
<1>2. piece.op = "text" /\ piece.chars \in Seq(Characters)
  <2>1. piece.op = "text" /\ piece.chars \in Seq(STRING)
    OBVIOUS
  <2>2. piece.chars \in Seq(Characters)
    BY <1>1, <2>1, SeqMonotonic
  <2> QED
    BY <2>1, <2>2
<1>3. TextOf(piece) = piece.chars
  BY <1>2 DEF TextOf
<1>4. ASSUME NEW x \in Seq(Characters), NEW cap \in Nat \ {0}
      PROVE  Put(Cut(x, cap - 1), cap, piece) = Cut(x \o piece.chars, cap - 1)
  <2>1. Put(Cut(x, cap - 1), cap, piece) = AppendText(Cut(x, cap - 1), cap, piece.chars)
    BY <1>2 DEF Put
  <2> QED
    BY <1>2, <2>1, AppendCut
<1> QED
  BY <1>2, <1>3, <1>4 DEF Writes

\* An unsigned number is appended in one piece.
LEMMA WritesDecimal ==
  ASSUME NEW piece, \/ piece \in [op : {"udec"}, val : 0..(Word - 1)]
                    \/ piece \in [op : {"u64"}, val : 0..(Power(10, Dec64Digits) - 1)]
  PROVE  Writes(piece, TextOf(piece))
<1>1. CASE piece \in [op : {"udec"}, val : 0..(Word - 1)]
  <2>1. piece.op = "udec" /\ piece.val \in Nat /\ piece.val < Word
    BY <1>1, TextAssumption
  <2>2. TextOf(piece) = Digits(piece.val, DecDigits) /\ Digits(piece.val, DecDigits) \in Seq(Characters)
    BY <2>1, WordDigits DEF TextOf
  <2>3. ASSUME NEW b, NEW cap
        PROVE  Put(b, cap, piece) = AppendText(b, cap, Digits(piece.val, DecDigits))
    BY <2>1 DEF Put, AppendUDec
  <2> QED
    BY <2>2, <2>3, AppendCut DEF Writes
<1>2. CASE piece \in [op : {"u64"}, val : 0..(Power(10, Dec64Digits) - 1)]
  <2>1. Dec64Digits \in Nat \ {0} /\ Power(10, Dec64Digits) \in Nat
    <3>1. Dec64Digits \in Nat \ {0}
      BY TextAssumption
    <3> QED
      BY <3>1, TenPowers
  <2>2. piece.op = "u64" /\ piece.val \in Nat /\ piece.val < Power(10, Dec64Digits)
    BY <1>2, <2>1
  <2>3. TextOf(piece) = Digits(piece.val, Dec64Digits) /\ Digits(piece.val, Dec64Digits) \in Seq(Characters)
    BY <2>1, <2>2, DigitsAre DEF TextOf
  <2>4. ASSUME NEW b, NEW cap
        PROVE  Put(b, cap, piece) = AppendText(b, cap, Digits(piece.val, Dec64Digits))
    BY <2>2 DEF Put, AppendU64Dec
  <2> QED
    BY <2>3, <2>4, AppendCut DEF Writes
<1> QED
  BY <1>1, <1>2

\* Concatenation is associative.
LEMMA Regroup ==
  ASSUME NEW s \in Seq(Characters), NEW t \in Seq(Characters), NEW u \in Seq(Characters)
  PROVE  (s \o t) \o u = s \o (t \o u) /\ s \o t \in Seq(Characters)
BY ConcatAssociative, ConcatProperties

\* Two appends, cut each, are one of both texts.
LEMMA AppendTwice ==
  ASSUME NEW x \in Seq(Characters), NEW s \in Seq(Characters), NEW t \in Seq(Characters),
         NEW cap \in Nat \ {0}
  PROVE  AppendText(AppendText(Cut(x, cap - 1), cap, s), cap, t) = Cut(x \o (s \o t), cap - 1)
<1>1. x \o s \in Seq(Characters) /\ (x \o s) \o t = x \o (s \o t)
  BY Regroup
<1>2. AppendText(Cut(x, cap - 1), cap, s) = Cut(x \o s, cap - 1)
  BY AppendCut
<1> DEFINE xs == x \o s
<1> HIDE DEF xs
<1>3. xs \in Seq(Characters)
  BY <1>1 DEF xs
<1>4. AppendText(Cut(xs, cap - 1), cap, t) = Cut(xs \o t, cap - 1)
  BY <1>3, AppendCut
<1> QED
  BY <1>1, <1>2, <1>4 DEF xs

\* And four of all four.
LEMMA AppendFour ==
  ASSUME NEW s \in Seq(Characters), NEW t \in Seq(Characters), NEW u \in Seq(Characters),
         NEW v \in Seq(Characters)
  PROVE  /\ ((s \o t) \o u) \o v \in Seq(Characters)
         /\ \A x \in Seq(Characters), cap \in Nat \ {0} :
              AppendText(AppendText(AppendText(AppendText(Cut(x, cap - 1), cap, s), cap, t),
                                    cap, u), cap, v) = Cut(x \o (((s \o t) \o u) \o v), cap - 1)
<1> DEFINE st == s \o t
           uv == u \o v
<1>1. st \in Seq(Characters) /\ uv \in Seq(Characters)
  BY Regroup
<1>2. \A w \in Seq(Characters) : (w \o u) \o v = w \o uv /\ w \o uv \in Seq(Characters)
  <2> TAKE w \in Seq(Characters)
  <2>1. (w \o u) \o v = w \o (u \o v)
    BY Regroup
  <2>2. w \o uv \in Seq(Characters)
    BY <1>1, Regroup
  <2> QED
    BY <2>1, <2>2
<1>3. \A y \in Seq(Characters), cap \in Nat \ {0} :
        AppendText(AppendText(Cut(y, cap - 1), cap, u), cap, v) = Cut(y \o uv, cap - 1)
  BY AppendTwice
<1>4. ASSUME NEW x \in Seq(Characters), NEW cap \in Nat \ {0}
      PROVE  AppendText(AppendText(AppendText(AppendText(Cut(x, cap - 1), cap, s), cap, t),
                                   cap, u), cap, v) = Cut(x \o (st \o uv), cap - 1)
  <2>1. AppendText(AppendText(Cut(x, cap - 1), cap, s), cap, t) = Cut(x \o st, cap - 1)
    BY AppendTwice
  <2> HIDE DEF st, uv
  <2>2. x \o st \in Seq(Characters) /\ (x \o st) \o uv = x \o (st \o uv)
    BY <1>1, Regroup
  <2>3. AppendText(AppendText(Cut(x \o st, cap - 1), cap, u), cap, v) =
          Cut((x \o st) \o uv, cap - 1)
    BY <1>3, <2>2, Zenon
  <2> QED
    BY <2>1, <2>2, <2>3
<1>5. (st \o u) \o v = st \o uv /\ st \o uv \in Seq(Characters)
  <2> HIDE DEF st, uv
  <2> QED
    BY <1>1, <1>2
<1> QED
  BY <1>4, <1>5

\* The minus and the digits of a signed number are one text.
LEMMA WritesSigned ==
  ASSUME NEW piece \in [op : {"idec"}, val : (-(Word \div 2))..((Word \div 2) - 1)]
  PROVE  Writes(piece, TextOf(piece))
<1>1. /\ piece.op = "idec" /\ piece.val \in (-(Word \div 2))..((Word \div 2) - 1)
      /\ piece.val \in Int /\ Word \in Nat /\ Word \div 2 <= Word
  BY TextAssumption
<1>2. CASE piece.val < 0
  <2> DEFINE digits == Digits(Negated(piece.val), DecDigits)
  <2>1. digits \in Seq(Characters)
    <3>1. Negated(piece.val) \in Nat /\ Negated(piece.val) < Word
      BY <1>1, <1>2, NegatedIs
    <3> QED
      BY <3>1, WordDigits
  <2>2. <<"-">> \in Seq(Characters)
    BY DEF Characters
  <2>3. TextOf(piece) = <<"-">> \o digits
    BY <1>1, <1>2 DEF TextOf
  <2>4. ASSUME NEW b, NEW cap
        PROVE  Put(b, cap, piece) = AppendText(AppendText(b, cap, <<"-">>), cap, digits)
    BY <1>1, <1>2 DEF Put, AppendIDec, AppendUDec
  <2> DEFINE minus == <<"-">>
  <2> HIDE DEF digits, minus
  <2>5. minus \in Seq(Characters) /\ TextOf(piece) = minus \o digits
        /\ \A b, cap : Put(b, cap, piece) = AppendText(AppendText(b, cap, minus), cap, digits)
    BY <2>2, <2>3, <2>4 DEF minus
  <2>6. minus \o digits \in Seq(Characters)
    BY <2>1, <2>5, Regroup
  <2> QED
    BY <2>1, <2>5, <2>6, AppendTwice DEF Writes
<1>3. CASE ~(piece.val < 0)
  <2>1. Digits(piece.val, DecDigits) \in Seq(Characters)
    <3>1. piece.val \in Nat /\ piece.val < Word
      BY <1>1, <1>3
    <3> QED
      BY <3>1, WordDigits
  <2>2. TextOf(piece) = Digits(piece.val, DecDigits)
    BY <1>1, <1>3 DEF TextOf
  <2>3. ASSUME NEW b, NEW cap
        PROVE  Put(b, cap, piece) = AppendText(b, cap, Digits(piece.val, DecDigits))
    BY <1>1, <1>3 DEF Put, AppendIDec, AppendUDec
  <2> QED
    BY <2>1, <2>2, <2>3, AppendCut DEF Writes
<1> QED
  BY <1>2, <1>3

\* The nibbles are appended in one piece.
LEMMA WritesHex ==
  ASSUME NEW piece \in [op : {"hex"}, val : 0..(Word - 1), digits : Nat]
  PROVE  Writes(piece, TextOf(piece)) /\ HexCount(piece.digits) \in Nat
<1> DEFINE c == HexCount(piece.digits)
           text == Wide(16, piece.val, c)
<1>1. piece.op = "hex" /\ piece.val \in Nat /\ piece.digits \in Nat
  BY TextAssumption
<1>2. c \in Nat
  BY <1>1, TextAssumption DEF HexCount
<1>3. \A b, cap : Put(b, cap, piece) = AppendText(b, cap, text)
  BY <1>1 DEF Put, AppendHex, Wide
<1>4. TextOf(piece) = text
  BY <1>1 DEF TextOf
<1> HIDE DEF c
<1>5. text \in Seq(Characters)
  BY <1>1, <1>2, WideType
<1> HIDE DEF text
<1> QED
  BY <1>2, <1>3, <1>4, <1>5, AppendCut DEF Writes, c

\* The parts of a float's text.
LEMMA FloatTexts ==
  ASSUME NEW val \in [finite : BOOLEAN, negative : BOOLEAN, size : 0..((Word - 1) * FloatUnit)],
         NEW decimals \in Nat, NEW showSign \in BOOLEAN
  PROVE  LET dec   == Least(decimals, MaxDecimals)
             frac  == FracPart(val, Power(10, dec))
             carry == IF frac >= Power(10, dec) THEN 1 ELSE 0
             rest  == frac - carry * Power(10, dec)
             int   == (val.size \div FloatUnit + carry) % Word
         IN  /\ dec \in 0..MaxDecimals /\ <<"?">> \in Seq(Characters) /\ <<".">> \in Seq(Characters)
             /\ Sign(val, showSign) \in Seq(Characters)
             /\ int = val.size \div FloatUnit + carry /\ int \in Nat /\ int < Power(10, DecDigits)
             /\ Digits(int, DecDigits) \in Seq(Characters)
             /\ rest \in Nat /\ rest < Power(10, dec) /\ rest < Power(10, DecDigits)
             /\ Digits(rest, DecDigits) \in Seq(Characters)
             /\ dec # 0 => /\ dec \in Nat \ {0} /\ Padding(rest, dec) \in Seq(Characters)
                           /\ <<".">> \o Padding(rest, dec) \in Seq(Characters)
<1> DEFINE dec   == Least(decimals, MaxDecimals)
           scale == Power(10, dec)
           frac  == FracPart(val, scale)
           carry == IF frac >= scale THEN 1 ELSE 0
           rest  == frac - carry * scale
           int   == (val.size \div FloatUnit + carry) % Word
<1>1. dec \in 0..MaxDecimals /\ dec \in Nat /\ MaxDecimals \in Nat /\ DecDigits \in Nat \ {0}
  BY TextAssumption DEF Least
<1>2. <<"?">> \in Seq(Characters) /\ <<".">> \in Seq(Characters)
  BY DEF Characters
<1>3. Sign(val, showSign) \in Seq(Characters)
  <2>1. <<"-">> \in Seq(Characters) /\ <<"+">> \in Seq(Characters)
    BY DEF Characters
  <2>2. <<>> \in Seq(Characters)
    BY EmptySeq
  <2>3. Sign(val, showSign) \in {<<"-">>, <<"+">>, <<>>}
    BY DEF Sign
  <2> QED
    BY <2>1, <2>2, <2>3
<1>4. val.size \in 0..((Word - 1) * FloatUnit)
  OBVIOUS
<1> HIDE DEF dec
<1>5. /\ rest \in Nat /\ rest < scale
      /\ int = val.size \div FloatUnit + carry /\ int \in Nat /\ int < Power(10, DecDigits)
      /\ rest < Power(10, DecDigits)
  BY <1>1, <1>4, FloatParts
<1> HIDE DEF rest, int
<1>6. Digits(int, DecDigits) \in Seq(Characters) /\ Digits(rest, DecDigits) \in Seq(Characters)
  BY <1>1, <1>5, DigitsAre
<1>7. ASSUME dec # 0
      PROVE  /\ dec \in Nat \ {0} /\ Padding(rest, dec) \in Seq(Characters)
             /\ <<".">> \o Padding(rest, dec) \in Seq(Characters)
  <2>1. dec \in Nat \ {0}
    BY <1>1, <1>7
  <2>2. Padding(rest, dec) \in Seq(Characters)
    BY <1>5, <2>1, PaddingIs
  <2> DEFINE s == <<".">>
             t == Padding(rest, dec)
  <2>3. s \in Seq(Characters) /\ t \in Seq(Characters)
    BY <1>2, <2>2
  <2> HIDE DEF s, t
  <2>4. s \o t \in Seq(Characters)
    BY <2>3, Regroup
  <2> QED
    BY <2>1, <2>2, <2>4 DEF s, t
<1> QED
  BY <1>1, <1>2, <1>3, <1>5, <1>6, <1>7 DEF dec, rest, int

\* Sign, integer part, point with its padding, and fraction are one text.
LEMMA WritesFloat ==
  ASSUME NEW piece \in [op : {"float"}, decimals : Nat, showSign : BOOLEAN,
                        val : [finite : BOOLEAN, negative : BOOLEAN,
                               size : 0..((Word - 1) * FloatUnit)]]
  PROVE  Writes(piece, TextOf(piece))
<1> DEFINE val   == piece.val
           dec   == Least(piece.decimals, MaxDecimals)
           scale == Power(10, dec)
           frac  == FracPart(val, scale)
           carry == IF frac >= scale THEN 1 ELSE 0
           rest  == frac - carry * scale
           int   == (val.size \div FloatUnit + carry) % Word
           sign  == Sign(val, piece.showSign)
           ints  == Digits(int, DecDigits)
           point == <<".">> \o Padding(rest, dec)
           fracs == Digits(rest, DecDigits)
           none  == <<"?">>
<1>1. /\ piece.op = "float" /\ piece.decimals \in Nat /\ piece.showSign \in BOOLEAN
      /\ val \in [finite : BOOLEAN, negative : BOOLEAN, size : 0..((Word - 1) * FloatUnit)]
      /\ val.finite \in BOOLEAN
  OBVIOUS
<1>2. /\ none \in Seq(Characters) /\ sign \in Seq(Characters) /\ ints \in Seq(Characters)
      /\ fracs \in Seq(Characters) /\ (dec # 0 => point \in Seq(Characters))
  <2> HIDE DEF val
  <2> QED
    BY <1>1, FloatTexts
<1>3. TextOf(piece) = CASE ~val.finite -> none
                        [] val.finite /\ dec = 0 -> sign \o ints
                        [] OTHER -> ((sign \o ints) \o point) \o fracs
  BY <1>1 DEF TextOf, FloatText
<1> DEFINE whole(b, cap) == AppendText(AppendText(b, cap, sign), cap, ints)
<1>4. ASSUME NEW b, NEW cap
      PROVE  Put(b, cap, piece) =
               CASE ~val.finite -> AppendText(b, cap, none)
                 [] val.finite /\ dec = 0 -> whole(b, cap)
                 [] OTHER -> AppendText(AppendText(whole(b, cap), cap, point), cap, fracs)
  BY <1>1 DEF Put, AppendFloat, AppendUDec
<1> HIDE DEF val, dec, sign, ints, point, fracs, none
<1>5. sign \o ints \in Seq(Characters)
  BY <1>2, Regroup
<1>6. ASSUME NEW x \in Seq(Characters), NEW cap \in Nat \ {0}
      PROVE  whole(Cut(x, cap - 1), cap) = Cut(x \o (sign \o ints), cap - 1)
  BY <1>2, AppendTwice
<1>7. CASE ~val.finite
  BY <1>2, <1>3, <1>4, <1>7, AppendCut DEF Writes
<1>8. CASE val.finite /\ dec = 0
  BY <1>3, <1>4, <1>5, <1>6, <1>8 DEF Writes
<1>9. CASE val.finite /\ dec # 0
  <2>1. point \in Seq(Characters) /\ fracs \in Seq(Characters)
        /\ sign \in Seq(Characters) /\ ints \in Seq(Characters)
    BY <1>2, <1>9
  <2>2. TextOf(piece) = ((sign \o ints) \o point) \o fracs
    BY <1>3, <1>9
  <2>3. \A b, cap : Put(b, cap, piece) =
                      AppendText(AppendText(whole(b, cap), cap, point), cap, fracs)
    BY <1>4, <1>9
  <2> HIDE DEF Cut
  <2> QED
    BY <2>1, <2>2, <2>3, AppendFour DEF Writes
<1> QED
  BY <1>1, <1>7, <1>8, <1>9

\* Every call does.
LEMMA PieceWrites ==
  ASSUME NEW piece \in Pieces
  PROVE  Writes(piece, TextOf(piece))
BY WritesText, WritesDecimal, WritesSigned, WritesHex, WritesFloat DEF Pieces

\* A chain's buffer after each of its calls.
LEMMA LineSteps ==
  ASSUME NEW cap \in Nat \ {0}, NEW pieces \in Seq(Pieces)
  PROVE  \E buffer :
           /\ buffer[0] = <<>> /\ Line(cap, pieces) = buffer[Len(pieces)]
           /\ \A k \in 0..(Len(pieces) - 1) : buffer[k + 1] = Put(buffer[k], cap, pieces[k + 1])
<1> DEFINE n == Len(pieces)
           V == {Cut(x, cap - 1) : x \in Seq(Characters)}
           base == <<>>
           next(iter, s) == IF s = {} THEN base ELSE Put(iter[s \ {Max(s)}], cap, pieces[Max(s)])
           it == CHOOSE iter : iter = [s \in SUBSET (DOMAIN pieces) |-> next(iter, s)]
           step == [p \in V \X Nat |->
                      IF p[2] \in 1..n THEN Put(p[1], cap, pieces[p[2]]) ELSE p[1]]
           buffer == [k \in 0..n |-> it[1..k]]
<1>1. Line(cap, pieces) = it[DOMAIN pieces]
  BY DEF Line, FoldLeft, MapThenFoldSet
<1>2. n \in Nat /\ DOMAIN pieces = 1..n /\ \A k \in 1..n : pieces[k] \in Pieces
  BY LenProperties, ElementOfSeq
<1> HIDE DEF n
<1>3. base \in V
  <2>1. <<>> \in Seq(Characters)
    BY EmptySeq
  <2>2. Cut(<<>>, cap - 1) \in Seq(Characters) /\ Len(Cut(<<>>, cap - 1)) = 0
    <3>1. cap - 1 \in Int /\ cap - 1 >= 0 /\ Len(<<>>) = 0
      OBVIOUS
    <3>2. Least(0, cap - 1) = 0
      BY <3>1 DEF Least
    <3> QED
      BY <2>1, <3>1, <3>2, CutType
  <2>3. Cut(<<>>, cap - 1) = <<>>
    BY <2>2, EmptySeq
  <2> QED
    BY <2>1, <2>3
<1>4. ASSUME NEW b \in V, NEW k \in 1..n PROVE Put(b, cap, pieces[k]) \in V
  <2>1. PICK x \in Seq(Characters) : b = Cut(x, cap - 1)
    OBVIOUS
  <2> DEFINE text == TextOf(pieces[k])
  <2>2. text \in Seq(Characters) /\ Put(b, cap, pieces[k]) = Cut(x \o text, cap - 1)
    BY <1>2, <2>1, PieceWrites DEF Writes
  <2> HIDE DEF text
  <2>3. x \o text \in Seq(Characters)
    BY <2>2, Regroup
  <2> QED
    BY <2>2, <2>3
<1> HIDE DEF V, base
<1>5. step \in [V \X Nat -> V]
  BY <1>4
<1>6. PICK h : Folds(h, n, V, base, step)
  BY <1>2, <1>3, <1>5, FoldExists
<1>7. ASSUME NEW f, NEW s \in SUBSET (1..n), s # {}, f[s \ {Max(s)}] \in V
      PROVE  step[<<f[s \ {Max(s)}], Max(s)>>] = Put(f[s \ {Max(s)}], cap, pieces[Max(s)])
  <2>1. Max(s) \in 1..n /\ Max(s) \in Nat
    <3>1. Max(s) \in s
      BY <1>2, <1>7, GreatestElement
    <3>2. Max(s) \in 1..n
      BY <3>1
    <3>3. \A m \in 1..n : m \in Nat
      OBVIOUS
    <3> QED
      BY <3>2, <3>3
  <2> QED
    BY <1>7, <2>1
<1>8. ASSUME NEW s \in SUBSET (1..n) PROVE h[s] = next(h, s)
  <2> HIDE DEF step
  <2>1. CASE s = {}
    BY <1>6, <2>1 DEF Folds
  <2>2. CASE s # {}
    <3>1. s \ {Max(s)} \in SUBSET (1..n)
      OBVIOUS
    <3>2. h[s \ {Max(s)}] \in V
      BY <1>6, <3>1 DEF Folds
    <3>3. h[s] = step[<<h[s \ {Max(s)}], Max(s)>>]
      BY <1>6, <2>2 DEF Folds
    <3> QED
      BY <1>7, <2>2, <3>2, <3>3
  <2> QED
    BY <2>1, <2>2
<1>9. h \in [SUBSET (1..n) -> V]
  BY <1>6 DEF Folds
<1>10. h = [s \in SUBSET (DOMAIN pieces) |-> next(h, s)]
  <2> HIDE DEF next
  <2> QED
    BY <1>2, <1>8, <1>9
<1>11. it = [s \in SUBSET (DOMAIN pieces) |-> next(it, s)]
  <2> HIDE DEF next
  <2> QED
    BY <1>10
<1> HIDE DEF it
<1>12. \A s \in SUBSET (1..n) : it[s] = next(it, s)
  <2> HIDE DEF next
  <2> QED
    BY <1>2, <1>11
<1>13. it[{}] = base
  <2>1. {} \in SUBSET (1..n)
    OBVIOUS
  <2> QED
    BY <1>12, <2>1
<1>14. \A s \in SUBSET (1..n) :
         s # {} /\ it[s \ {Max(s)}] \in V => it[s] = step[<<it[s \ {Max(s)}], Max(s)>>]
  <2> TAKE s \in SUBSET (1..n)
  <2> HAVE s # {} /\ it[s \ {Max(s)}] \in V
  <2>1. it[s] = Put(it[s \ {Max(s)}], cap, pieces[Max(s)])
    BY <1>12
  <2> QED
    BY <1>7, <2>1
<1> HIDE DEF step
<1>15. Along(buffer, n, V, base, step)
  <2>1. buffer = [k \in 0..n |-> it[1..k]]
    OBVIOUS
  <2> HIDE DEF buffer
  <2> QED
    BY <1>2, <1>3, <1>5, <1>13, <1>14, <2>1, FoldSteps
<1> HIDE DEF buffer
<1>16. \A k \in 0..(n - 1) : buffer[k + 1] = Put(buffer[k], cap, pieces[k + 1])
  <2> TAKE k \in 0..(n - 1)
  <2>1. buffer[k] \in V /\ buffer[k + 1] = step[<<buffer[k], k + 1>>]
    <3>1. k \in 0..n
      BY <1>2
    <3> QED
      BY <1>15, <3>1 DEF Along
  <2>2. k + 1 \in 1..n /\ k + 1 \in Nat
    BY <1>2
  <2> QED
    BY <2>1, <2>2 DEF step
<1>17. buffer[n] = it[DOMAIN pieces] /\ buffer[0] = base
  BY <1>2, <1>15 DEF buffer, Along
<1> QED
  BY <1>1, <1>16, <1>17 DEF n, base

\* The texts of a chain's calls.
Texts(pieces) == [k \in DOMAIN pieces |-> TextOf(pieces[k])]

\* They are sequences of characters.
LEMMA TextsType ==
  ASSUME NEW pieces \in Seq(Pieces)
  PROVE  Texts(pieces) \in Seq(Seq(Characters)) /\ Len(Texts(pieces)) = Len(pieces)
<1>1. Len(pieces) \in Nat /\ DOMAIN pieces = 1..Len(pieces)
      /\ \A k \in 1..Len(pieces) : pieces[k] \in Pieces
  BY LenProperties, ElementOfSeq
<1>2. Texts(pieces) \in [1..Len(pieces) -> Seq(Characters)]
  BY <1>1, PieceWrites DEF Texts, Writes
<1> QED
  BY <1>1, <1>2, ListIsSeq

\* A line is the text of its calls, cut where the buffer is full.
LEMMA LineIs ==
  ASSUME NEW cap \in Nat \ {0}, NEW pieces \in Seq(Pieces)
  PROVE  /\ FlattenSeq(Texts(pieces)) \in Seq(Characters)
         /\ Line(cap, pieces) = Cut(FlattenSeq(Texts(pieces)), cap - 1)
<1> DEFINE n == Len(pieces)
           texts == Texts(pieces)
<1>1. n \in Nat /\ \A k \in 1..n : pieces[k] \in Pieces /\ texts[k] = TextOf(pieces[k])
  BY LenProperties, ElementOfSeq DEF Texts
<1>2. texts \in Seq(Seq(Characters)) /\ Len(texts) = n
  BY TextsType
<1> HIDE DEF n, texts
<1>3. PICK flat : Flattens(flat, texts, n, Characters)
  <2>1. \E flat : Flattens(flat, texts, Len(texts), Characters)
    BY <1>2, Flattened
  <2> QED
    BY <1>2, <2>1
<1>4. PICK buffer :
        /\ buffer[0] = <<>> /\ Line(cap, pieces) = buffer[n]
        /\ \A k \in 0..(n - 1) : buffer[k + 1] = Put(buffer[k], cap, pieces[k + 1])
  BY LineSteps DEF n
<1> DEFINE S == {k \in Nat : k <= n => buffer[k] = Cut(flat[k], cap - 1)}
<1>5. 0 \in S
  <2>1. flat[0] = <<>> /\ <<>> \in Seq(Characters) /\ Len(<<>>) = 0
    BY <1>3, EmptySeq DEF Flattens
  <2>2. Cut(<<>>, cap - 1) \in Seq(Characters) /\ Len(Cut(<<>>, cap - 1)) = 0
    <3>1. cap - 1 \in Int /\ cap - 1 >= 0
      OBVIOUS
    <3>2. Least(0, cap - 1) = 0
      BY <3>1 DEF Least
    <3> QED
      BY <2>1, <3>1, <3>2, CutType
  <2>3. Cut(<<>>, cap - 1) = <<>>
    BY <2>2, EmptySeq
  <2> QED
    BY <1>4, <2>1, <2>3
<1>6. ASSUME NEW k \in Nat, k \in S PROVE k + 1 \in S
  <2> SUFFICES ASSUME k + 1 <= n PROVE buffer[k + 1] = Cut(flat[k + 1], cap - 1)
    OBVIOUS
  <2>1. k \in 0..(n - 1) /\ k + 1 \in 1..n /\ k \in 0..n /\ buffer[k] = Cut(flat[k], cap - 1)
    BY <1>1, <1>6
  <2>2. flat[k] \in Seq(Characters) /\ flat[k + 1] = flat[k] \o TextOf(pieces[k + 1])
    BY <1>1, <1>3, <2>1 DEF Flattens
  <2>3. buffer[k + 1] = Put(Cut(flat[k], cap - 1), cap, pieces[k + 1])
    BY <1>4, <2>1
  <2>4. Writes(pieces[k + 1], TextOf(pieces[k + 1]))
    BY <1>1, <2>1, PieceWrites
  <2> QED
    BY <2>2, <2>3, <2>4 DEF Writes
<1>7. Nat \subseteq S
  <2> HIDE DEF S
  <2> QED
    BY <1>5, <1>6, AllNumbers
<1>8. buffer[n] = Cut(flat[n], cap - 1)
  BY <1>1, <1>7
<1>9. FlattenSeq(texts) = flat[n] /\ flat[n] \in Seq(Characters)
  BY <1>1, <1>3 DEF Flattens
<1> QED
  BY <1>4, <1>8, <1>9 DEF texts

\* A text alone is what its concatenation with nothing is.
LEMMA OneText ==
  ASSUME NEW piece \in Pieces
  PROVE  <<piece>> \in Seq(Pieces) /\ FlattenSeq(Texts(<<piece>>)) = TextOf(piece)
<1> DEFINE pieces == <<piece>>
           texts == Texts(pieces)
<1>1. pieces \in Seq(Pieces) /\ Len(pieces) = 1 /\ pieces[1] = piece /\ DOMAIN pieces = {1}
  OBVIOUS
<1>2. texts[1] = TextOf(piece)
  BY <1>1 DEF Texts
<1> HIDE DEF pieces
<1>3. texts \in Seq(Seq(Characters)) /\ Len(texts) = 1
  BY <1>1, TextsType
<1> HIDE DEF texts
<1>4. PICK flat : Flattens(flat, texts, 1, Characters)
  <2>1. \E flat : Flattens(flat, texts, Len(texts), Characters)
    BY <1>3, Flattened
  <2> QED
    BY <1>3, <2>1
<1>5. flat[0] = <<>> /\ FlattenSeq(texts) = flat[1] /\ flat[0 + 1] = flat[0] \o texts[0 + 1]
  <2>1. 0 \in 0..(1 - 1)
    OBVIOUS
  <2> QED
    BY <1>4, <2>1 DEF Flattens
<1>6. FlattenSeq(texts) = <<>> \o TextOf(piece)
  BY <1>2, <1>5
<1>7. TextOf(piece) \in Seq(Characters)
  BY PieceWrites DEF Writes
<1>8. <<>> \o TextOf(piece) = TextOf(piece)
  BY <1>7, ConcatEmptySeq
<1> QED
  BY <1>1, <1>6, <1>8 DEF texts, pieces

\* A cut that nothing reaches.
LEMMA Uncut ==
  ASSUME NEW s \in Seq(Characters), NEW cap \in Nat \ {0}, Len(Cut(s, cap - 1)) < cap - 1
  PROVE  Cut(s, cap - 1) = s
<1> DEFINE t == Cut(s, cap - 1)
<1>1. cap - 1 \in Int /\ ~(cap - 1 < 0)
  OBVIOUS
<1>2. t \in Seq(Characters) /\ Len(t) = Least(Len(s), cap - 1) /\ Len(t) < cap - 1
      /\ \A k \in 1..Len(t) : t[k] = s[k]
  BY <1>1, CutType
<1> HIDE DEF t
<1>3. Len(t) = Len(s)
  BY <1>2, LenProperties DEF Least
<1> QED
  BY <1>2, <1>3, SeqEqual DEF t

\* Alone, each call of a line writes its text.
LEMMA Alone ==
  ASSUME NEW line \in Lines, NEW k \in DOMAIN line.pieces
  PROVE  Line(Ample, <<line.pieces[k]>>) = TextOf(line.pieces[k])
<1> DEFINE piece == line.pieces[k]
<1>1. Ample \in Nat \ {0} /\ line.pieces \in Seq(Pieces) /\ Len(Line(Ample, <<piece>>)) < Ample - 1
  BY OutputAssumption
<1>2. piece \in Pieces
  BY <1>1, LenProperties, ElementOfSeq
<1> HIDE DEF piece
<1>3. TextOf(piece) \in Seq(Characters)
  BY <1>2, PieceWrites DEF Writes
<1>4. Line(Ample, <<piece>>) = Cut(TextOf(piece), Ample - 1)
  <2>1. <<piece>> \in Seq(Pieces) /\ FlattenSeq(Texts(<<piece>>)) = TextOf(piece)
    BY <1>2, OneText
  <2> DEFINE one == <<piece>>
  <2> HIDE DEF one
  <2>2. Line(Ample, one) = Cut(FlattenSeq(Texts(one)), Ample - 1)
    BY <1>1, <2>1, LineIs DEF one
  <2> QED
    BY <2>1, <2>2 DEF one
<1> QED
  BY <1>1, <1>3, <1>4, Uncut DEF piece

\* What is answered of a line.
LEMMA LineAnswer ==
  Answered("line") /\ AnswerOfCall =>
    /\ input \in Lines /\ input.capacity \in Nat \ {0} /\ input.pieces \in Seq(Pieces)
    /\ FlattenSeq(Texts(input.pieces)) \in Seq(Characters)
    /\ answer = Cut(FlattenSeq(Texts(input.pieces)), input.capacity - 1)
<1> SUFFICES ASSUME Answered("line"), AnswerOfCall
             PROVE  /\ input \in Lines /\ input.capacity \in Nat \ {0}
                    /\ input.pieces \in Seq(Pieces)
                    /\ FlattenSeq(Texts(input.pieces)) \in Seq(Characters)
                    /\ answer = Cut(FlattenSeq(Texts(input.pieces)), input.capacity - 1)
  OBVIOUS
<1>1. input \in Lines /\ answer = Line(input.capacity, input.pieces)
  BY DEF Answered, AnswerOfCall
<1>2. input.capacity \in Nat \ {0} /\ input.pieces \in Seq(Pieces)
  BY <1>1, OutputAssumption
<1> QED
  BY <1>1, <1>2, LineIs

\* A line is the beginning of what an unbounded buffer would hold.
THEOREM LinesAreCut == Spec => []LineIsPrefix
<1>1. AnswerOfCall => LineIsPrefix
  <2> SUFFICES ASSUME AnswerOfCall, Answered("line") PROVE LineIsPrefix
    BY DEF LineIsPrefix
  <2>1. /\ input \in Lines /\ input.capacity \in Nat \ {0} /\ input.pieces \in Seq(Pieces)
        /\ answer = Cut(FlattenSeq(Texts(input.pieces)), input.capacity - 1)
    BY LineAnswer
  <2>2. [k \in DOMAIN input.pieces |-> Line(Ample, <<input.pieces[k]>>)] = Texts(input.pieces)
    BY <2>1, Alone DEF Texts
  <2> QED
    BY <2>1, <2>2 DEF LineIsPrefix, Cut
<1>2. Spec => []AnswerOfCall
  BY AnswerInvariant
<1> QED
  BY <1>1, <1>2, PTL
-----------------------------------------------------------------------------
\* The digit a character stands for.
DigitOf(c) == CHOOSE d \in 0..15 : HexChars[d + 1] = c

\* A digit's character stands for that digit.
LEMMA DigitRead ==
  ASSUME NEW d \in 0..15
  PROVE  DigitOf(HexChars[d + 1]) = d
<1>1. \A e \in 0..15 : HexChars[e + 1] = HexChars[d + 1] => e = d
  BY DigitChars
<1> QED
  BY <1>1 DEF DigitOf

\* The value of a text of digits after each of them.
ReadsTo(value, base, n, digit, text) ==
  /\ value[0] = 0 /\ Value(text, base) = value[n]
  /\ \A k \in 0..(n - 1) : value[k + 1] = base * value[k] + digit[k + 1]

\* A text of digits has such values.
LEMMA ValueSteps ==
  ASSUME NEW base \in Nat, NEW n \in Nat, NEW digit \in [1..n -> 0..15], NEW text,
         text = [k \in 1..n |-> HexChars[1 + digit[k]]]
  PROVE  \E value : ReadsTo(value, base, n, digit, text)
<1> DEFINE zero == 0
           read(c) == CHOOSE d \in 0..15 : HexChars[d + 1] = c
           next(iter, s) == IF s = {} THEN zero
                            ELSE base * iter[s \ {Max(s)}] + read(text[Max(s)])
           it == CHOOSE iter : iter = [s \in SUBSET (DOMAIN text) |-> next(iter, s)]
           step == [p \in Nat \X Nat |-> IF p[2] \in 1..n THEN base * p[1] + digit[p[2]] ELSE p[1]]
           value == [k \in 0..n |-> it[1..k]]
<1>1. Value(text, base) = it[DOMAIN text]
  BY DEF Value, FoldLeft, MapThenFoldSet
<1>2. DOMAIN text = 1..n
  OBVIOUS
<1>3. zero \in Nat
  OBVIOUS
<1>4. ASSUME NEW k \in 1..n PROVE read(text[k]) = digit[k] /\ digit[k] \in Nat
  <2>1. digit[k] \in 0..15 /\ text[k] = HexChars[digit[k] + 1]
    <3>1. digit[k] \in 0..15
      OBVIOUS
    <3>2. 1 + digit[k] = digit[k] + 1
      BY <3>1
    <3> QED
      BY <3>1, <3>2
  <2>2. DigitOf(HexChars[digit[k] + 1]) = digit[k]
    BY <2>1, DigitRead
  <2> QED
    BY <2>1, <2>2 DEF DigitOf
<1> HIDE DEF zero, read
<1>5. step \in [Nat \X Nat -> Nat]
  <2>1. ASSUME NEW p \in Nat \X Nat PROVE step[p] \in Nat
    <3>1. CASE p[2] \in 1..n
      <4>1. digit[p[2]] \in Nat /\ p[1] \in Nat
        BY <1>4, <3>1
      <4>2. ASSUME NEW a \in Nat, NEW d \in Nat PROVE base * a + d \in Nat
        <5> DEFINE product == base * a
        <5>1. product \in Nat
          OBVIOUS
        <5> HIDE DEF product
        <5>2. product + d \in Nat
          BY <5>1
        <5> QED
          BY <5>2 DEF product
      <4>3. base * p[1] + digit[p[2]] \in Nat
        BY <4>1, <4>2
      <4> QED
        BY <3>1, <4>3
    <3>2. CASE p[2] \notin 1..n
      BY <3>2
    <3> QED
      BY <3>1, <3>2
  <2> QED
    BY <2>1
<1>6. PICK h : Folds(h, n, Nat, zero, step)
  BY <1>3, <1>5, FoldExists
<1>7. ASSUME NEW f, NEW s \in SUBSET (1..n), s # {}, f[s \ {Max(s)}] \in Nat
      PROVE  step[<<f[s \ {Max(s)}], Max(s)>>] = base * f[s \ {Max(s)}] + read(text[Max(s)])
  <2>1. Max(s) \in 1..n /\ Max(s) \in Nat
    <3>1. Max(s) \in s
      BY <1>7, GreatestElement
    <3>2. Max(s) \in 1..n
      BY <3>1
    <3>3. \A m \in 1..n : m \in Nat
      OBVIOUS
    <3> QED
      BY <3>2, <3>3
  <2>2. step[<<f[s \ {Max(s)}], Max(s)>>] = base * f[s \ {Max(s)}] + digit[Max(s)]
    BY <1>7, <2>1
  <2> QED
    BY <1>4, <2>1, <2>2
<1>8. ASSUME NEW s \in SUBSET (1..n) PROVE h[s] = next(h, s)
  <2> HIDE DEF step
  <2>1. CASE s = {}
    BY <1>6, <2>1 DEF Folds
  <2>2. CASE s # {}
    <3>1. s \ {Max(s)} \in SUBSET (1..n)
      OBVIOUS
    <3>2. h[s \ {Max(s)}] \in Nat
      BY <1>6, <3>1 DEF Folds
    <3>3. h[s] = step[<<h[s \ {Max(s)}], Max(s)>>]
      BY <1>6, <2>2 DEF Folds
    <3> QED
      BY <1>7, <2>2, <3>2, <3>3
  <2> QED
    BY <2>1, <2>2
<1>9. h \in [SUBSET (1..n) -> Nat]
  BY <1>6 DEF Folds
<1>10. h = [s \in SUBSET (DOMAIN text) |-> next(h, s)]
  <2> HIDE DEF next
  <2> QED
    BY <1>2, <1>8, <1>9
<1>11. it = [s \in SUBSET (DOMAIN text) |-> next(it, s)]
  <2> HIDE DEF next
  <2> QED
    BY <1>10
<1> HIDE DEF it
<1>12. \A s \in SUBSET (1..n) : it[s] = next(it, s)
  <2> HIDE DEF next
  <2> QED
    BY <1>2, <1>11
<1>13. it[{}] = zero
  <2>1. {} \in SUBSET (1..n)
    OBVIOUS
  <2> QED
    BY <1>12, <2>1
<1>14. \A s \in SUBSET (1..n) :
         s # {} /\ it[s \ {Max(s)}] \in Nat => it[s] = step[<<it[s \ {Max(s)}], Max(s)>>]
  <2> TAKE s \in SUBSET (1..n)
  <2> HAVE s # {} /\ it[s \ {Max(s)}] \in Nat
  <2>1. it[s] = base * it[s \ {Max(s)}] + read(text[Max(s)])
    BY <1>12
  <2> QED
    BY <1>7, <2>1
<1> HIDE DEF step
<1>15. Along(value, n, Nat, zero, step)
  <2>1. value = [k \in 0..n |-> it[1..k]]
    OBVIOUS
  <2> HIDE DEF value
  <2> QED
    BY <1>3, <1>5, <1>13, <1>14, <2>1, FoldSteps
<1> HIDE DEF value
<1>16. \A k \in 0..(n - 1) : value[k + 1] = base * value[k] + digit[k + 1]
  <2> TAKE k \in 0..(n - 1)
  <2>1. value[k] \in Nat /\ value[k + 1] = step[<<value[k], k + 1>>]
    <3>1. k \in 0..n
      OBVIOUS
    <3> QED
      BY <1>15, <3>1 DEF Along
  <2>2. k + 1 \in 1..n /\ k + 1 \in Nat
    OBVIOUS
  <2> QED
    BY <2>1, <2>2 DEF step
<1>17. value[n] = it[DOMAIN text] /\ value[0] = zero
  BY <1>2, <1>15 DEF value, Along
<1> QED
  BY <1>1, <1>16, <1>17 DEF zero, ReadsTo

\* Dividing twice is dividing by the product.
LEMMA QuotientTwice ==
  ASSUME NEW m \in Nat, NEW p \in Nat \ {0}, NEW b \in Nat \ {0}
  PROVE  m \div (p * b) = (m \div p) \div b
<1> DEFINE q == m \div p
           e == q \div b
<1>1. q \in Nat /\ p * q <= m /\ m < p * q + p
  OBVIOUS
<1> HIDE DEF q
<1>2. e \in Nat /\ b * e <= q /\ q < b * e + b
  BY <1>1
<1> HIDE DEF e
<1>3. p * b \in Nat /\ p * b > 0 /\ p * b # 0
  OBVIOUS
<1>4. p * (b * e) <= p * q /\ p * q <= p * (b * e + b - 1)
  BY <1>1, <1>2
<1>5. p * (b * e) = (p * b) * e /\ p * (b * e + b - 1) = (p * b) * e + p * b - p
  BY <1>2
<1>6. (p * b) * e \in Nat /\ p * q \in Nat
  BY <1>1, <1>2, <1>3
<1>7. (p * b) * e <= m /\ m < (p * b) * e + p * b
  BY <1>1, <1>3, <1>4, <1>5, <1>6
<1> DEFINE pb == p * b
<1>8. m \div pb = e
  <2>1. pb \in Nat \ {0} /\ pb * e <= m /\ m < pb * e + pb
    BY <1>3, <1>7
  <2> HIDE DEF pb
  <2> QED
    BY <1>2, <2>1
<1> QED
  BY <1>8 DEF e, q

\* The digits of a number read back as the number, or as what is left of it
\* when there are not enough.
LEMMA WideValue ==
  ASSUME NEW base \in {10, 16}, NEW m \in Nat, NEW c \in Nat
  PROVE  Value(Wide(base, m, c), base) = m % Power(base, c)
<1> DEFINE text == Wide(base, m, c)
           digit == [k \in 1..c |-> (m \div Power(base, c - k)) % base]
           power == [k \in 0..c |-> Power(base, k)]
           Q == m \div power[c]
<1>1. base \in Nat \ {0} /\ base <= 16
  OBVIOUS
<1>2. /\ power[0] = 1 /\ \A k \in 0..c : power[k] \in Nat \ {0}
      /\ \A k \in 0..(c - 1) : power[k + 1] = power[k] * base
  <2>1. /\ Power(base, 0) = 1
        /\ \A k \in Nat : Power(base, k) \in Nat \ {0} /\ Power(base, k + 1) = Power(base, k) * base
    BY <1>1, PowerSteps
  <2>2. \A k \in 0..c : k \in Nat
    OBVIOUS
  <2>3. \A k \in 0..(c - 1) : k \in 0..c /\ k + 1 \in 0..c
    OBVIOUS
  <2>4. \A k \in 0..c : power[k] = Power(base, k)
    OBVIOUS
  <2>5. 0 \in 0..c
    OBVIOUS
  <2> HIDE DEF power
  <2> QED
    BY <2>1, <2>2, <2>3, <2>4, <2>5
<1>3. \A k \in 1..c : /\ digit[k] = (m \div power[c - k]) % base
                      /\ digit[k] \in 0..(base - 1) /\ digit[k] \in 0..15
  <2> TAKE k \in 1..c
  <2>1. c - k \in 0..c
    OBVIOUS
  <2>2. digit[k] = (m \div power[c - k]) % base
    BY <2>1
  <2>3. digit[k] \in 0..(base - 1)
    BY WideType
  <2> QED
    BY <1>1, <2>2, <2>3
<1>4. text = [k \in 1..c |-> HexChars[1 + digit[k]]]
  BY DEF Wide
<1>5. digit \in [1..c -> 0..15]
  BY <1>3
<1> HIDE DEF digit, text, power
<1>6. PICK value : /\ value[0] = 0 /\ Value(text, base) = value[c]
                   /\ \A k \in 0..(c - 1) : value[k + 1] = base * value[k] + digit[k + 1]
  <2>1. base \in Nat
    BY <1>1
  <2>2. PICK value : ReadsTo(value, base, c, digit, text)
    BY <1>4, <1>5, <2>1, ValueSteps
  <2> QED
    BY <2>2 DEF ReadsTo
<1>7. Q \in Nat
  BY <1>2
<1> HIDE DEF Q
<1> DEFINE S == {k \in Nat : k <= c => value[k] = (m \div power[c - k]) - power[k] * Q}
<1>8. 0 \in S
  <2>1. c - 0 = c /\ power[0] * Q = Q
    BY <1>2, <1>7
  <2>2. (m \div power[c - 0]) - power[0] * Q = 0
    BY <1>7, <2>1 DEF Q
  <2> QED
    BY <1>6, <2>2
<1>9. ASSUME NEW k \in Nat, k \in S PROVE k + 1 \in S
  <2> SUFFICES ASSUME k + 1 <= c
               PROVE  value[k + 1] = (m \div power[c - (k + 1)]) - power[k + 1] * Q
    OBVIOUS
  <2> DEFINE p == power[c - (k + 1)]
             q == m \div p
             w == power[k] * Q
  <2>1. k \in 0..(c - 1) /\ k \in 0..c /\ k + 1 \in 1..c
        /\ c - (k + 1) \in 0..(c - 1) /\ c - (k + 1) \in 0..c /\ c - k = (c - (k + 1)) + 1
    OBVIOUS
  <2>2. value[k] = (m \div power[c - k]) - w
    BY <1>9, <2>1
  <2>3. p \in Nat \ {0} /\ power[c - k] = p * base
    BY <1>2, <2>1
  <2>4. digit[k + 1] = q % base
    BY <1>3, <2>1
  <2>5. value[k + 1] = base * value[k] + digit[k + 1]
    BY <1>6, <2>1
  <2>6. power[k] \in Nat /\ power[k + 1] = power[k] * base
    BY <1>2, <2>1
  <2>7. w \in Nat /\ power[k + 1] * Q = base * w
    <3>1. \A a \in Nat : (a * base) * Q = base * (a * Q) /\ a * Q \in Nat
      BY <1>1, <1>7
    <3> QED
      BY <2>6, <3>1
  <2> HIDE DEF p
  <2>8. m \div power[c - k] = q \div base
    <3>1. m \div (p * base) = (m \div p) \div base
      BY <1>1, <2>3, QuotientTwice
    <3> QED
      BY <2>3, <3>1
  <2>9. q \in Nat
    BY <2>3
  <2> HIDE DEF q, w
  <2>10. base * ((q \div base) - w) + (q % base) = q - base * w
    <3>1. base * (q \div base) + (q % base) = q /\ q \div base \in Nat
      BY <1>1, <2>9
    <3>2. base * ((q \div base) - w) = base * (q \div base) - base * w
      BY <1>1, <2>7, <3>1
    <3>3. base * w \in Nat /\ base * (q \div base) \in Nat /\ q % base \in Nat
      BY <1>1, <2>7, <2>9, <3>1
    <3> QED
      BY <2>9, <3>1, <3>2, <3>3
  <2> QED
    BY <2>2, <2>4, <2>5, <2>7, <2>8, <2>10 DEF p, q
<1>10. Nat \subseteq S
  <2> HIDE DEF S
  <2> QED
    BY <1>8, <1>9, AllNumbers
<1>11. value[c] = (m \div power[0]) - power[c] * Q
  <2>1. c \in S /\ c - c = 0
    BY <1>10
  <2> QED
    BY <2>1
<1>12. m \div power[0] = m
  BY <1>2
<1>13. power[c] \in Nat \ {0}
  BY <1>2
<1>14. m - power[c] * Q = m % power[c]
  <2> DEFINE P == power[c]
  <2>1. P \in Nat \ {0} /\ Q = m \div P
    BY <1>13 DEF Q
  <2> HIDE DEF P
  <2>2. m - P * (m \div P) = m % P
    BY <2>1
  <2> QED
    BY <2>1, <2>2 DEF P
<1>15. power[c] = Power(base, c)
  BY DEF power
<1> QED
  BY <1>6, <1>11, <1>12, <1>14, <1>15 DEF text

\* The digits of a decimal number are decimal.
LEMMA WideDigits ==
  ASSUME NEW n \in Nat, NEW c \in Nat
  PROVE  /\ Wide(10, n, c) \in Seq(Characters) /\ Len(Wide(10, n, c)) = c
         /\ \A k \in 1..c : Wide(10, n, c)[k] = HexChars[1 + ((n \div Power(10, c - k)) % 10)]
<1>1. 10 \in {10, 16}
  OBVIOUS
<1>2. Wide(10, n, c) \in Seq(Characters) /\ Len(Wide(10, n, c)) = c
  BY <1>1, WideType
<1> QED
  BY <1>2 DEF Wide

\* No letter is among the digits of a decimal number.
LEMMA DecimalDigits ==
  ASSUME NEW n \in Nat, NEW c \in Nat
  PROVE  Range(Wide(10, n, c)) \subseteq Range(DecChars)
<1> DEFINE text == Wide(10, n, c)
           digit(k) == (n \div Power(10, c - k)) % 10
<1>1. text \in Seq(Characters) /\ Len(text) = c /\ \A k \in 1..c : text[k] = HexChars[1 + digit(k)]
  BY WideDigits
<1> HIDE DEF text
<1>2. \A k \in 1..c : text[k] = DecChars[1 + digit(k)] /\ 1 + digit(k) \in 1..10
  <2> TAKE k \in 1..c
  <2>1. digit(k) \in 0..9
    <3>1. c - k \in Nat
      OBVIOUS
    <3>2. n \div Power(10, c - k) \in Nat
      BY <3>1, TenPowers, ZeroQuotient
    <3> QED
      BY <3>2
  <2>2. 1 + digit(k) \in 1..10
    BY <2>1
  <2> QED
    BY <1>1, <2>2, DigitChars
<1>3. DOMAIN text = 1..c
  BY <1>1, LenProperties
<1>4. DOMAIN DecChars = 1..10
  BY DigitChars, LenProperties
<1> HIDE DEF digit
<1> QED
  BY <1>2, <1>3, <1>4 DEF Range, text

\* A decimal number reads back, without a zero in front.
LEMMA DecimalReads ==
  ASSUME NEW m \in Nat, NEW size \in Nat \ {0}, m < Power(10, size)
  PROVE  DenotesDecimal(Digits(m, size), m) /\ Value(Digits(m, size), 10) = m
<1> DEFINE c == DigitCount(m, size)
           text == Digits(m, size)
           digit(k) == (m \div Power(10, c - k)) % 10
<1>1. c \in Nat /\ c >= 1 /\ m < Power(10, c) /\ \A k \in 1..(c - 1) : Power(10, k) <= m
  BY DigitCountIs
<1>2. text = Wide(10, m, c) /\ text \in Seq(Characters)
  BY DigitsAre
<1> HIDE DEF c, text
<1>3. Len(text) = c /\ \A k \in 1..c : digit(k) \in 0..9 /\ text[k] = HexChars[1 + digit(k)]
  <2>1. 10 \in {10, 16} /\ 10 - 1 = 9
    OBVIOUS
  <2> QED
    BY <1>1, <1>2, <2>1, WideType
<1>4. text # <<>>
  BY <1>1, <1>3
<1>5. Range(text) \subseteq Range(DecChars)
  BY <1>1, <1>2, DecimalDigits
<1>6. ASSUME Len(text) > 1 PROVE Head(text) # "0"
  <2> DEFINE p == Power(10, c - 1)
  <2>1. c > 1 /\ c - 1 \in Nat /\ c - 1 \in 1..(c - 1) /\ (c - 1) + 1 = c
    BY <1>1, <1>3, <1>6
  <2>2. p \in Nat \ {0} /\ Power(10, c) = p * 10 /\ p <= m
    <3>1. p \in Nat \ {0} /\ Power(10, (c - 1) + 1) = p * 10
      BY <2>1, TenPowers
    <3> QED
      BY <1>1, <2>1, <3>1
  <2>3. m < p * 10
    BY <1>1, <2>2
  <2> HIDE DEF p
  <2>4. m \div p \in 1..9
    BY <2>2, <2>3
  <2>5. (m \div p) % 10 # 0 /\ (m \div p) % 10 \in 0..15
    BY <2>4
  <2>6. 1 \in 1..c
    BY <1>1
  <2>7. text[1] = HexChars[1 + ((m \div p) % 10)]
    BY <1>3, <2>6 DEF p
  <2>8. Head(text) = text[1]
    BY <1>2, <1>4, HeadTailProperties
  <2> DEFINE d == (m \div p) % 10
  <2>9. d \in 0..15 /\ d # 0 /\ text[1] = HexChars[d + 1]
    BY <2>5, <2>7
  <2> HIDE DEF d
  <2>10. HexChars[d + 1] # HexChars[0 + 1] /\ HexChars[0 + 1] = "0"
    BY <2>9, DigitChars
  <2> QED
    BY <2>8, <2>9, <2>10
<1>7. Value(text, 10) = m
  <2>1. Value(text, 10) = m % Power(10, c)
    BY <1>1, <1>2, WideValue
  <2>2. Power(10, c) \in Nat
    BY <1>1, TenPowers
  <2> QED
    BY <1>1, <2>1, <2>2
<1> QED
  BY <1>4, <1>5, <1>6, <1>7 DEF DenotesDecimal, text

\* The two parts of a text put together.
LEMMA TakenApart ==
  ASSUME NEW s \in Seq(Characters), NEW t \in Seq(Characters)
  PROVE  /\ SubSeq(s \o t, 1, Len(s)) = s
         /\ SubSeq(s \o t, Len(s) + 1, Len(s \o t)) = t
<1> DEFINE st == s \o t
           first == SubSeq(st, 1, Len(s))
           last == SubSeq(st, Len(s) + 1, Len(st))
<1>1. /\ st \in Seq(Characters) /\ Len(st) = Len(s) + Len(t)
      /\ \A k \in 1..Len(s) : st[k] = s[k]
      /\ \A k \in 1..Len(t) : st[Len(s) + k] = t[k]
  BY Joined
<1>2. Len(s) \in Nat /\ Len(t) \in Nat
  BY LenProperties
<1>3. \A i \in 1..Len(st) : st[i] \in Characters
  BY <1>1, ElementOfSeq
<1> HIDE DEF st
<1>4. first \in Seq(Characters) /\ Len(first) = Len(s) /\ \A i \in 1..Len(s) : first[i] = st[i]
  <2>1. \A i \in 1..Len(s) : st[i] \in Characters
    BY <1>1, <1>2, <1>3
  <2>2. /\ first \in Seq(Characters)
        /\ Len(first) = IF 1 <= Len(s) THEN Len(s) - 1 + 1 ELSE 0
        /\ \A i \in 1..(Len(s) - 1 + 1) : first[i] = st[1 + i - 1]
    BY <1>2, <2>1, SubSeqProperties
  <2>3. \A i \in 1..Len(s) : 1 + i - 1 = i
    BY <1>2
  <2> HIDE DEF first
  <2> QED
    BY <1>2, <2>2, <2>3
<1>5. last \in Seq(Characters) /\ Len(last) = Len(t)
      /\ \A i \in 1..Len(t) : last[i] = st[Len(s) + i]
  <2> DEFINE m == Len(s) + 1
             n == Len(st)
  <2>1. m \in Int /\ n \in Int /\ \A i \in m..n : st[i] \in Characters
    BY <1>1, <1>2, <1>3
  <2>2. /\ SubSeq(st, m, n) \in Seq(Characters)
        /\ Len(SubSeq(st, m, n)) = IF m <= n THEN n - m + 1 ELSE 0
        /\ \A i \in 1..(n - m + 1) : SubSeq(st, m, n)[i] = st[m + i - 1]
    <3> HIDE DEF m, n
    <3> QED
      BY <2>1, SubSeqProperties
  <2>3. n - m + 1 = Len(t) /\ (m <= n <=> Len(t) # 0)
    BY <1>1, <1>2
  <2>4. \A i \in 1..Len(t) : m + i - 1 = Len(s) + i
    BY <1>2
  <2>5. last = SubSeq(st, m, n)
    OBVIOUS
  <2> HIDE DEF last, m, n
  <2> QED
    BY <1>2, <2>2, <2>3, <2>4, <2>5
<1> HIDE DEF first, last
<1>6. first = s
  BY <1>1, <1>4, SeqEqual
<1>7. last = t
  BY <1>1, <1>5, SeqEqual
<1> QED
  BY <1>6, <1>7 DEF first, last, st

\* The zeros and the digits of a fraction are its digits, as many as decimals.
LEMMA PaddedIs ==
  ASSUME NEW frac \in Nat, NEW dec \in Nat \ {0}, frac < Power(10, dec),
         frac < Power(10, DecDigits)
  PROVE  Padding(frac, dec) \o Digits(frac, DecDigits) = Wide(10, frac, dec)
<1> DEFINE c == DigitCount(frac, DecDigits)
           pad == Padding(frac, dec)
           digits == Digits(frac, DecDigits)
           wide == Wide(10, frac, dec)
           joined == pad \o digits
<1>0. DecDigits \in Nat \ {0} /\ 10 \in {10, 16}
  BY TextAssumption
<1>1. /\ c \in 1..dec /\ pad = [k \in 1..(dec - c) |-> "0"] /\ pad \in Seq(Characters)
      /\ Len(pad) = dec - c
  BY PaddingIs
<1>2. digits = Wide(10, frac, c) /\ digits \in Seq(Characters) /\ frac < Power(10, c)
  BY <1>0, DigitsAre, DigitCountIs
<1> HIDE DEF c, pad, digits
<1>3. c \in Nat /\ c <= dec /\ c >= 1
  BY <1>1
<1>4. Len(digits) = c /\ \A k \in 1..c : digits[k] = HexChars[1 + ((frac \div Power(10, c - k)) % 10)]
  BY <1>2, <1>3, WideDigits
<1>5. /\ wide \in Seq(Characters) /\ Len(wide) = dec
      /\ \A k \in 1..dec : wide[k] = HexChars[1 + ((frac \div Power(10, dec - k)) % 10)]
  BY WideDigits
<1>6. /\ joined \in Seq(Characters) /\ Len(joined) = Len(pad) + Len(digits)
      /\ \A k \in 1..Len(pad) : joined[k] = pad[k]
      /\ \A k \in 1..Len(digits) : joined[Len(pad) + k] = digits[k]
  BY <1>1, <1>2, Joined
<1> HIDE DEF wide, joined
<1>7. Len(joined) = dec
  BY <1>1, <1>3, <1>4, <1>6
<1>8. ASSUME NEW k \in 1..dec PROVE joined[k] = wide[k]
  <2>1. CASE k <= dec - c
    <3>1. joined[k] = "0"
      <4>1. k \in 1..(dec - c)
        BY <1>3, <2>1
      <4> QED
        BY <1>1, <1>6, <4>1
    <3>2. frac \div Power(10, dec - k) = 0
      <4>1. dec - k \in Nat /\ c <= dec - k
        BY <1>3, <2>1
      <4>2. Power(10, c) <= Power(10, dec - k) /\ Power(10, c) \in Nat
            /\ Power(10, dec - k) \in Nat \ {0}
        BY <1>3, <4>1, PowersGrow, TenPowers
      <4>3. frac < Power(10, dec - k)
        BY <1>2, <4>2
      <4> QED
        BY <4>2, <4>3, ZeroQuotient
    <3>3. wide[k] = HexChars[1 + (0 % 10)]
      BY <1>5, <3>2
    <3>4. 1 + (0 % 10) = 1
      OBVIOUS
    <3> QED
      BY <3>1, <3>3, <3>4, DigitChars
  <2>2. CASE ~(k <= dec - c)
    <3>1. k - (dec - c) \in 1..c /\ (dec - c) + (k - (dec - c)) = k
          /\ c - (k - (dec - c)) = dec - k
      BY <1>3, <2>2
    <3>2. joined[k] = digits[k - (dec - c)]
      BY <1>1, <1>4, <1>6, <3>1
    <3>3. digits[k - (dec - c)] = HexChars[1 + ((frac \div Power(10, dec - k)) % 10)]
      BY <1>4, <3>1
    <3> QED
      BY <1>5, <3>2, <3>3
  <2> QED
    BY <2>1, <2>2
<1>9. joined = wide
  BY <1>5, <1>6, <1>7, <1>8, SeqEqual
<1> QED
  BY <1>9 DEF joined, wide, pad, digits

\* Numbers that are not floats read back.
LEMMA WordReads ==
  ASSUME NEW val \in Nat, val < Word
  PROVE  DenotesDecimal(Digits(val, DecDigits), val)
BY WordDigits, DecimalReads

\* A signed number reads back, the most negative one included.
LEMMA SignedReads ==
  ASSUME NEW piece \in [op : {"idec"}, val : (-(Word \div 2))..((Word \div 2) - 1)]
  PROVE  Denotes(TextOf(piece), piece)
<1>1. /\ piece.op = "idec" /\ piece.val \in (-(Word \div 2))..((Word \div 2) - 1)
      /\ piece.val \in Int /\ Word \in Nat /\ Word \div 2 <= Word
  BY TextAssumption
<1>2. CASE piece.val < 0
  <2> DEFINE digits == Digits(Negated(piece.val), DecDigits)
             minus == <<"-">>
             text == minus \o digits
  <2>1. Negated(piece.val) = -piece.val /\ -piece.val \in Nat /\ -piece.val < Word
    BY <1>1, <1>2, NegatedIs
  <2>2. DenotesDecimal(digits, -piece.val)
    BY <2>1, WordReads
  <2>3. digits \in Seq(Characters)
    BY <2>1, WordDigits
  <2>4. minus \in Seq(Characters) /\ Len(minus) = 1 /\ minus[1] = "-"
    BY DEF Characters
  <2>5. TextOf(piece) = text
    BY <1>1, <1>2 DEF TextOf
  <2> HIDE DEF digits, minus
  <2>6. /\ text \in Seq(Characters) /\ Len(text) = Len(minus) + Len(digits)
        /\ \A k \in 1..Len(minus) : text[k] = minus[k]
        /\ SubSeq(text, Len(minus) + 1, Len(text)) = digits
    BY <2>3, <2>4, Joined, TakenApart
  <2>7. Len(digits) \in Nat
    BY <2>3, LenProperties
  <2> HIDE DEF text
  <2>8. text # <<>>
    BY <2>4, <2>6, <2>7
  <2>9. Head(text) = "-"
    BY <2>4, <2>6, <2>8, HeadTailProperties
  <2>10. Tail(text) = digits
    <3>1. Tail(text) = SubSeq(text, 2, Len(text))
      BY <2>6, <2>8, HeadTailProperties
    <3> QED
      BY <2>4, <2>6, <3>1
  <2> QED
    BY <1>1, <1>2, <2>2, <2>5, <2>9, <2>10 DEF Denotes
<1>3. CASE ~(piece.val < 0)
  <2>1. piece.val \in Nat /\ piece.val < Word
    BY <1>1, <1>3
  <2>2. TextOf(piece) = Digits(piece.val, DecDigits)
    BY <1>1, <1>3 DEF TextOf
  <2> QED
    BY <1>1, <1>3, <2>1, <2>2, WordReads DEF Denotes
<1> QED
  BY <1>2, <1>3

\* A hexadecimal number reads back, cut to the digits asked for.
LEMMA HexReads ==
  ASSUME NEW piece \in [op : {"hex"}, val : 0..(Word - 1), digits : Nat]
  PROVE  Denotes(TextOf(piece), piece)
<1> DEFINE d == IF piece.digits \in 1..HexDigits THEN piece.digits
                ELSE IF piece.digits = 0 THEN 1 ELSE HexDigits
           text == TextOf(piece)
<1>1. piece.op = "hex" /\ piece.val \in Nat /\ piece.digits \in Nat
  BY TextAssumption
<1>2. HexCount(piece.digits) = d /\ d \in Nat
  BY <1>1, TextAssumption DEF HexCount
<1>3. text = Wide(16, piece.val, HexCount(piece.digits))
  BY <1>1 DEF TextOf
<1> HIDE DEF d, text
<1>4. Len(text) = d /\ Value(text, 16) = piece.val % Power(16, d)
  <2>1. 16 \in {10, 16}
    OBVIOUS
  <2> QED
    BY <1>1, <1>2, <1>3, <2>1, WideType, WideValue
<1> QED
  BY <1>1, <1>4 DEF Denotes, d, text

\* A text reads back as itself, an unsigned number as its digits.
LEMMA OtherReads ==
  ASSUME NEW piece,
         \/ piece \in [op : {"text"}, chars : Seq(STRING)]
         \/ piece \in [op : {"udec"}, val : 0..(Word - 1)]
         \/ piece \in [op : {"u64"}, val : 0..(Power(10, Dec64Digits) - 1)]
  PROVE  Denotes(TextOf(piece), piece)
<1>1. CASE piece \in [op : {"text"}, chars : Seq(STRING)]
  BY <1>1 DEF TextOf, Denotes
<1>2. CASE piece \in [op : {"udec"}, val : 0..(Word - 1)]
  <2>1. piece.op = "udec" /\ piece.val \in Nat /\ piece.val < Word
    BY <1>2, TextAssumption
  <2>2. DenotesDecimal(Digits(piece.val, DecDigits), piece.val)
    BY <2>1, WordReads
  <2>3. TextOf(piece) = Digits(piece.val, DecDigits)
    BY <2>1 DEF TextOf
  <2> QED
    BY <2>1, <2>2, <2>3 DEF Denotes
<1>3. CASE piece \in [op : {"u64"}, val : 0..(Power(10, Dec64Digits) - 1)]
  <2>1. Dec64Digits \in Nat \ {0} /\ Power(10, Dec64Digits) \in Nat
    <3>1. Dec64Digits \in Nat \ {0}
      BY TextAssumption
    <3> QED
      BY <3>1, TenPowers
  <2>2. piece.op = "u64" /\ piece.val \in Nat /\ piece.val < Power(10, Dec64Digits)
    BY <1>3, <2>1
  <2>3. DenotesDecimal(Digits(piece.val, Dec64Digits), piece.val)
    BY <2>1, <2>2, DecimalReads
  <2>4. TextOf(piece) = Digits(piece.val, Dec64Digits)
    BY <2>2 DEF TextOf
  <2> QED
    BY <2>2, <2>3, <2>4 DEF Denotes
<1> QED
  BY <1>1, <1>2, <1>3

\* Of the two facts of Regroup the one that is an equation, alone.
LEMMA Associates ==
  ASSUME NEW s \in Seq(Characters), NEW t \in Seq(Characters), NEW u \in Seq(Characters)
  PROVE  (s \o t) \o u = s \o (t \o u)
BY ConcatAssociative

\* Sign, integer part, point and places, found again in the text.
PartsAre(text, sign, whole, places) ==
  LET number == SubSeq(text, Len(sign) + 1, Len(text))
      point  == Len(number) - Len(places)
  IN  /\ SubSeq(text, 1, Len(sign)) = sign /\ Len(sign) < Len(text)
      /\ point = Len(whole) + 1 /\ number[point] = "."
      /\ SubSeq(number, 1, point - 1) = whole
      /\ SubSeq(number, point + 1, Len(number)) = places

\* In the text of a float they are where the number of places says.
LEMMA PointFound ==
  ASSUME NEW s \in Seq(Characters), NEW t \in Seq(Characters), NEW u \in Seq(Characters),
         NEW v \in Seq(Characters)
  PROVE  PartsAre(((s \o t) \o (<<".">> \o u)) \o v, s, t, u \o v)
<1> DEFINE dot  == <<".">>
           text == ((s \o t) \o (dot \o u)) \o v
           uv   == u \o v
           rest == dot \o uv
           num  == t \o rest
<1>1. dot \in Seq(Characters) /\ Len(dot) = 1 /\ dot[1] = "."
  BY DEF Characters
<1> HIDE DEF dot
<1>2. uv \in Seq(Characters)
  BY Regroup
<1>3. dot \o u \in Seq(Characters) /\ (dot \o u) \o v = dot \o uv
  <2>1. dot \o u \in Seq(Characters)
    BY <1>1, Regroup
  <2>2. (dot \o u) \o v = dot \o (u \o v)
    BY <1>1, Associates
  <2> QED
    BY <2>1, <2>2
<1>4. text = (s \o t) \o rest
  <2> DEFINE st == s \o t
             du == dot \o u
  <2>1. st \in Seq(Characters) /\ du \in Seq(Characters) /\ v \in Seq(Characters)
    BY <1>3, Regroup
  <2> HIDE DEF st, du
  <2>2. (st \o du) \o v = st \o (du \o v)
    BY <2>1, Associates
  <2>3. du \o v = rest
    BY <1>3 DEF du
  <2> QED
    BY <2>2, <2>3 DEF st, du
<1> HIDE DEF uv
<1>5. rest \in Seq(Characters)
  BY <1>1, <1>2, Regroup
<1>6. /\ Len(rest) = Len(dot) + Len(uv) /\ \A k \in 1..Len(dot) : rest[k] = dot[k]
      /\ SubSeq(rest, Len(dot) + 1, Len(rest)) = uv
  BY <1>1, <1>2, Joined, TakenApart
<1> HIDE DEF rest, text
<1>7. num \in Seq(Characters) /\ (s \o t) \o rest = s \o num
  <2>1. num \in Seq(Characters)
    BY <1>5, Regroup
  <2>2. (s \o t) \o rest = s \o (t \o rest)
    BY <1>5, Associates
  <2> QED
    BY <2>1, <2>2
<1>8. /\ Len(num) = Len(t) + Len(rest)
      /\ \A k \in 1..Len(rest) : num[Len(t) + k] = rest[k]
      /\ SubSeq(num, 1, Len(t)) = t
  BY <1>5, Joined, TakenApart
<1>9. SubSeq(num, Len(t) + 2, Len(num)) = uv
  <2> DEFINE front == t \o dot
  <2>1. front \in Seq(Characters) /\ Len(front) = Len(t) + Len(dot)
    BY <1>1, Joined
  <2>2. num = front \o uv
    <3>1. (t \o dot) \o uv = t \o (dot \o uv)
      BY <1>1, <1>2, Associates
    <3> QED
      BY <3>1 DEF rest
  <2> HIDE DEF front, num
  <2>3. SubSeq(front \o uv, Len(front) + 1, Len(front \o uv)) = uv
    BY <1>2, <2>1, TakenApart
  <2>4. Len(front) + 1 = Len(t) + 2
    BY <1>1, <2>1, LenProperties
  <2> QED
    BY <2>2, <2>3, <2>4
<1> HIDE DEF num
<1>10. /\ SubSeq(s \o num, 1, Len(s)) = s
       /\ SubSeq(s \o num, Len(s) + 1, Len(s \o num)) = num
       /\ Len(s \o num) = Len(s) + Len(num)
  BY <1>7, Joined, TakenApart
<1>11. Len(s) \in Nat /\ Len(t) \in Nat /\ Len(uv) \in Nat
  BY <1>2, LenProperties
<1>12. Len(rest) = 1 + Len(uv) /\ rest[1] = "." /\ 1 \in 1..Len(rest)
  BY <1>1, <1>6, <1>11
<1>13. Len(num) - Len(uv) = Len(t) + 1 /\ Len(s) < Len(s \o num)
  BY <1>8, <1>10, <1>11, <1>12
<1>14. num[Len(t) + 1] = "."
  BY <1>8, <1>12
<1>15. text = s \o num
  BY <1>4, <1>7
<1>16. (Len(t) + 1) - 1 = Len(t) /\ (Len(t) + 1) + 1 = Len(t) + 2
  BY <1>11
<1>17. /\ SubSeq(text, 1, Len(s)) = s /\ Len(s) < Len(text)
       /\ SubSeq(text, Len(s) + 1, Len(text)) = num
  BY <1>10, <1>13, <1>15
<1> QED
  BY <1>8, <1>9, <1>13, <1>14, <1>16, <1>17 DEF PartsAre, text, uv, dot

\* The printed number is the nearest one.
LEMMA ErrorIsSmall ==
  ASSUME NEW size \in 0..((Word - 1) * FloatUnit), NEW val, val.size = size,
         NEW dec \in 0..MaxDecimals
  PROVE  LET scale == Power(10, dec)
             frac  == FracPart(val, scale)
             carry == IF frac >= scale THEN 1 ELSE 0
             rest  == frac - carry * scale
             int   == (size \div FloatUnit + carry) % Word
             error == 2 * ((int - size \div FloatUnit) * scale * FloatUnit + rest * FloatUnit
                           - (size % FloatUnit) * scale)
         IN  -FloatUnit < error /\ error <= FloatUnit
<1> DEFINE F     == FloatUnit
           scale == Power(10, dec)
           frac  == FracPart(val, scale)
           carry == IF frac >= scale THEN 1 ELSE 0
           rest  == frac - carry * scale
           w     == size \div F
           r     == size % F
           int   == (w + carry) % Word
           error == 2 * ((int - w) * scale * F + rest * F - r * scale)
<1>1. F \in Nat \ {0} /\ size \in Nat
  BY TextAssumption
<1>2. /\ frac \in Nat /\ scale \in Nat /\ rest \in Nat /\ int = w + carry
      /\ -F < 2 * (frac * F - r * scale) /\ 2 * (frac * F - r * scale) <= F
  BY FloatParts
<1>3. w \in Nat /\ r \in Nat
  BY <1>1
<1> HIDE DEF F, scale, frac, w, r, int
<1>4. (int - w) * scale * F + rest * F = frac * F
  <2>1. CASE frac >= scale
    <3>1. carry = 1 /\ int - w = 1 /\ rest = frac - scale
      BY <1>2, <1>3, <2>1
    <3> HIDE DEF carry, rest
    <3>2. (int - w) * scale * F = scale * F /\ rest * F = frac * F - scale * F
      BY <1>1, <1>2, <3>1
    <3>3. scale * F \in Nat /\ frac * F \in Nat
      BY <1>1, <1>2
    <3> QED
      BY <3>2, <3>3
  <2>2. CASE ~(frac >= scale)
    <3>1. carry = 0 /\ int - w = 0 /\ rest = frac
      BY <1>2, <1>3, <2>2
    <3> HIDE DEF carry, rest
    <3>2. (int - w) * scale * F = 0 /\ rest * F = frac * F
      BY <1>1, <1>2, <3>1
    <3>3. frac * F \in Nat
      BY <1>1, <1>2
    <3> QED
      BY <3>2, <3>3
  <2> QED
    BY <2>1, <2>2
<1>5. error = 2 * (frac * F - r * scale)
  <2> DEFINE x == (int - w) * scale * F
             y == rest * F
             z == r * scale
  <2>1. x \in Int /\ y \in Int /\ z \in Int
    <3> HIDE DEF rest
    <3>1. \A p, q \in Int : p * q \in Int
      OBVIOUS
    <3>2. int - w \in Int
      BY <1>2, <1>3
    <3> QED
      BY <1>1, <1>2, <1>3, <3>1, <3>2
  <2>2. error = 2 * (x + (y - z)) /\ x + y = frac * F
    BY <1>4
  <2> HIDE DEF x, y, error
  <2>3. x + (y - z) = (x + y) - z
    BY <2>1
  <2> QED
    BY <2>2, <2>3
<1> QED
  BY <1>2, <1>5 DEF F, scale, frac, w, r, int

\* A float reads back.
LEMMA FloatReads ==
  ASSUME NEW piece \in [op : {"float"}, decimals : Nat, showSign : BOOLEAN,
                        val : [finite : BOOLEAN, negative : BOOLEAN,
                               size : 0..((Word - 1) * FloatUnit)]]
  PROVE  Denotes(TextOf(piece), piece)
<1> DEFINE val   == piece.val
           dec   == Least(piece.decimals, MaxDecimals)
           scale == Power(10, dec)
           frac  == FracPart(val, scale)
           carry == IF frac >= scale THEN 1 ELSE 0
           rest  == frac - carry * scale
           int   == (val.size \div FloatUnit + carry) % Word
           sign  == Sign(val, piece.showSign)
           ints  == Digits(int, DecDigits)
           pad   == Padding(rest, dec)
           fracs == Digits(rest, DecDigits)
           wide  == Wide(10, rest, dec)
           text  == TextOf(piece)
           error == 2 * ((int - val.size \div FloatUnit) * scale * FloatUnit + rest * FloatUnit
                         - (val.size % FloatUnit) * scale)
<1>1. /\ piece.op = "float" /\ piece.decimals \in Nat /\ piece.showSign \in BOOLEAN
      /\ val \in [finite : BOOLEAN, negative : BOOLEAN, size : 0..((Word - 1) * FloatUnit)]
      /\ val.finite \in BOOLEAN /\ val.size \in 0..((Word - 1) * FloatUnit)
  OBVIOUS
<1>2. text = CASE ~val.finite -> <<"?">>
               [] val.finite /\ dec = 0 -> sign \o ints
               [] OTHER -> ((sign \o ints) \o (<<".">> \o pad)) \o fracs
  BY <1>1 DEF TextOf, FloatText
<1>3. CASE ~val.finite
  <2>1. text = <<"?">>
    BY <1>2, <1>3
  <2> HIDE DEF text
  <2> QED
    BY <1>1, <1>3, <2>1 DEF Denotes, text
<1>4. CASE val.finite
  <2>1. /\ dec \in 0..MaxDecimals /\ dec \in Nat
        /\ sign \in Seq(Characters) /\ ints \in Seq(Characters) /\ fracs \in Seq(Characters)
        /\ int \in Nat /\ int < Power(10, DecDigits)
        /\ rest \in Nat /\ rest < scale /\ rest < Power(10, DecDigits)
        /\ (dec # 0 => dec \in Nat \ {0} /\ pad \in Seq(Characters))
    <3>1. MaxDecimals \in Nat
      BY TextAssumption
    <3>2. \A k \in 0..MaxDecimals : k \in Nat
      BY <3>1
    <3> HIDE DEF val
    <3> QED
      BY <1>1, <3>2, FloatTexts
  <2>2. -FloatUnit < error /\ error <= FloatUnit
    <3> HIDE DEF dec
    <3> QED
      BY <1>1, <2>1, ErrorIsSmall
  <2>3. DecDigits \in Nat \ {0}
    BY TextAssumption
  <2> HIDE DEF val, dec, scale, rest, int, sign, error, text
  <2>4. DenotesDecimal(ints, int) /\ Value(ints, 10) = int
    BY <2>1, <2>3, DecimalReads
  <2>5. Value(wide, 10) = rest
    <3>1. 10 \in {10, 16}
      OBVIOUS
    <3>2. Value(wide, 10) = rest % Power(10, dec)
      BY <2>1, <3>1, WideValue
    <3>3. scale = Power(10, dec) /\ scale \in Nat
      BY <2>1, TenPowers DEF scale
    <3>4. rest % scale = rest
      <4>1. rest \in Nat /\ rest < scale /\ scale \in Nat
        BY <2>1, <3>3
      <4> QED
        BY <4>1
    <3> HIDE DEF wide
    <3> QED
      BY <3>2, <3>3, <3>4
  <2>6. ints # <<>> /\ Range(wide) \subseteq Range(DecChars)
    <3>1. ints # <<>>
      BY <2>4 DEF DenotesDecimal
    <3>2. Range(wide) \subseteq Range(DecChars)
      BY <2>1, DecimalDigits
    <3> QED
      BY <3>1, <3>2
  <2> DEFINE number == SubSeq(text, Len(sign) + 1, Len(text))
             point  == Len(number) - dec
             whole  == IF dec = 0 THEN number ELSE SubSeq(number, 1, point - 1)
             places == IF dec = 0 THEN <<>> ELSE SubSeq(number, point + 1, Len(number))
  <2>7. /\ Len(sign) < Len(text) /\ SubSeq(text, 1, Len(sign)) = sign
        /\ whole = ints /\ places = wide
        /\ dec > 0 => point > 1 /\ number[point] = "."
    <3>1. CASE dec = 0
      <4>1. text = sign \o ints
        BY <1>2, <1>4, <3>1
      <4>2. SubSeq(text, 1, Len(sign)) = sign /\ number = ints /\ Len(text) = Len(sign) + Len(ints)
        BY <2>1, <4>1, Joined, TakenApart
      <4>3. Len(ints) > 0 /\ Len(sign) \in Nat
        <5>1. Len(sign) \in Nat /\ Len(ints) \in Nat
          BY <2>1, LenProperties
        <5>2. Len(ints) # 0
          BY <2>1, <2>6, EmptySeq
        <5> QED
          BY <5>1, <5>2
      <4>4. wide = <<>>
        <5>1. wide \in Seq(Characters) /\ Len(wide) = dec
          BY <2>1, WideDigits
        <5> HIDE DEF wide
        <5> QED
          BY <3>1, <5>1, EmptySeq
      <4> HIDE DEF wide, number, ints
      <4>5. Len(sign) < Len(text)
        BY <4>2, <4>3
      <4> QED
        BY <3>1, <4>2, <4>4, <4>5
    <3>2. CASE dec # 0
      <4>1. text = ((sign \o ints) \o (<<".">> \o pad)) \o fracs
        BY <1>2, <1>4, <3>2
      <4>2. dec \in Nat \ {0} /\ pad \in Seq(Characters)
        BY <2>1, <3>2
      <4>3. pad \o fracs = wide /\ Len(wide) = dec
        <5>1. pad \o fracs = wide
          BY <2>1, <4>2, PaddedIs DEF scale
        <5>2. Len(wide) = dec
          BY <2>1, WideDigits
        <5> QED
          BY <5>1, <5>2
      <4> HIDE DEF wide, ints, pad, fracs
      <4>4. point = Len(number) - Len(wide)
        BY <4>3
      <4>5. sign \in Seq(Characters) /\ ints \in Seq(Characters) /\ fracs \in Seq(Characters)
        BY <2>1
      <4>6. /\ SubSeq(text, 1, Len(sign)) = sign /\ Len(sign) < Len(text)
            /\ point = Len(ints) + 1 /\ number[point] = "."
            /\ SubSeq(number, 1, point - 1) = ints /\ SubSeq(number, point + 1, Len(number)) = wide
        <5>1. PartsAre(text, sign, ints, wide)
          BY <4>1, <4>2, <4>3, <4>5, PointFound
        <5> QED
          BY <4>4, <5>1 DEF PartsAre
      <4>7. Len(ints) \in Nat /\ Len(ints) # 0
        BY <2>1, <2>6, LenProperties, EmptySeq
      <4> HIDE DEF number, point
      <4>8. point > 1
        BY <4>6, <4>7
      <4> QED
        BY <3>2, <4>6, <4>8 DEF number, point
    <3> QED
      BY <3>1, <3>2
  <2> HIDE DEF whole, places, ints, wide
  <2>8. Value(whole, 10) = int /\ Value(places, 10) = rest /\ DenotesDecimal(whole, int)
        /\ Range(places) \subseteq Range(DecChars)
    BY <2>4, <2>5, <2>6, <2>7
  <2>9. DenotesFloat(text, piece)
    <3> DEFINE miss == 2 * ((Value(whole, 10) - piece.val.size \div FloatUnit) * scale * FloatUnit
                              + Value(places, 10) * FloatUnit
                              - (piece.val.size % FloatUnit) * scale)
    <3>1. miss = error
      BY <2>8 DEF error, val
    <3>2. DenotesDecimal(whole, Value(whole, 10))
      BY <2>8
    <3> QED
      BY <2>2, <2>7, <2>8, <3>1, <3>2 DEF DenotesFloat, whole, places, dec, scale, sign, val
  <2>10. piece.op = "float" /\ piece.val.finite
    BY <1>1, <1>4 DEF val
  <2> QED
    BY <2>9, <2>10 DEF Denotes, text
<1> QED
  BY <1>1, <1>3, <1>4

\* Every call's text denotes what the call was given.
LEMMA PieceReads ==
  ASSUME NEW piece \in Pieces
  PROVE  Denotes(TextOf(piece), piece)
BY OtherReads, SignedReads, HexReads, FloatReads DEF Pieces

\* A number on its own line that is not cut reads back as the value appended.
THEOREM NumbersAreRead == Spec => []NumbersReadBack
<1>1. AnswerOfCall => NumbersReadBack
  <2> SUFFICES ASSUME AnswerOfCall, Answered("line"), Len(input.pieces) = 1,
                      Len(answer) < input.capacity - 1
               PROVE  Denotes(answer, input.pieces[1])
    BY DEF NumbersReadBack
  <2> DEFINE piece == input.pieces[1]
             cap == input.capacity
  <2>1. /\ cap \in Nat \ {0} /\ input.pieces \in Seq(Pieces)
        /\ FlattenSeq(Texts(input.pieces)) \in Seq(Characters)
        /\ answer = Cut(FlattenSeq(Texts(input.pieces)), cap - 1)
    BY LineAnswer
  <2>2. piece \in Pieces /\ input.pieces = <<piece>>
    <3>1. piece \in Pieces
      BY <2>1, LenProperties, ElementOfSeq
    <3>2. <<piece>> \in Seq(Pieces) /\ Len(<<piece>>) = 1 /\ <<piece>>[1] = piece
      BY <3>1
    <3>3. \A k \in 1..1 : k = 1
      OBVIOUS
    <3> HIDE DEF piece
    <3>4. \A k \in 1..Len(input.pieces) : input.pieces[k] = <<piece>>[k]
      BY <3>2, <3>3 DEF piece
    <3> QED
      BY <2>1, <3>1, <3>2, <3>4, SeqEqual
  <2> HIDE DEF piece, cap
  <2>3. FlattenSeq(Texts(input.pieces)) = TextOf(piece)
    BY <2>2, OneText
  <2>4. answer = TextOf(piece)
    <3>1. TextOf(piece) \in Seq(Characters) /\ answer = Cut(TextOf(piece), cap - 1)
      BY <2>1, <2>3
    <3>2. Len(Cut(TextOf(piece), cap - 1)) < cap - 1
      BY <3>1 DEF cap
    <3> QED
      BY <2>1, <3>1, <3>2, Uncut
  <2>5. Denotes(TextOf(piece), piece)
    BY <2>2, PieceReads
  <2> QED
    BY <2>4, <2>5 DEF piece
<1>2. Spec => []AnswerOfCall
  BY AnswerInvariant
<1> QED
  BY <1>1, <1>2, PTL
=============================================================================
