-------------------------------- MODULE Output --------------------------------
(***************************************************************************)
(* What the program puts out: lines of text, and frames.  A behaviour is   *)
(* one of them: `input` is drawn from the sets of the constants, `answer`  *)
(* is what the code makes of it.                                           *)
(***************************************************************************)
EXTENDS FixedText, HorizonPicture

CONSTANTS
  Lines,      \* [capacity, pieces]: append chains to a FixedString
  Frames,     \* [sample, extent]: an attitude sample and the display's extent
  Ample,      \* a capacity no piece reaches
  NoAnswer    \* nothing put out yet

ASSUME OutputAssumption ==
  /\ Ample \in Nat \ {0}
  /\ \A line \in Lines :
       /\ line.capacity \in Nat \ {0} /\ line.pieces \in Seq(Pieces)
       /\ \A k \in DOMAIN line.pieces : Len(Line(Ample, <<line.pieces[k]>>)) < Ample - 1
  /\ \A frame \in Frames :
       /\ frame.sample \in [valid : BOOLEAN, attitude : Attitudes]
       /\ frame.extent \in [width : Nat, height : Nat]

VARIABLES
  call,       \* "line" or "frame"
  input,
  answer

vars == <<call, input, answer>>

Init ==
  /\ \/ call = "line" /\ input \in Lines
     \/ call = "frame" /\ input \in Frames
  /\ answer = NoAnswer

Returns(name, result) ==
  /\ call = name /\ answer = NoAnswer
  /\ answer' = result
  /\ UNCHANGED <<call, input>>

LineBuilt == Returns("line", Line(input.capacity, input.pieces))

\* 8.4 and 8.7 of a frame: what is drawn, and what is said of it.
FrameDrawn ==
  Returns("frame", [picture |-> Picture(input.sample, input.extent),
                    metrics |-> Metrics(input.sample)])

Next == LineBuilt \/ FrameDrawn

Spec == Init /\ [][Next]_vars

Answered(name) == call = name /\ answer # NoAnswer
-----------------------------------------------------------------------------
\* "Truncates at capacity": a line is the beginning of what an unbounded
\* buffer would hold, as long as the buffer allows, whichever of its pieces
\* it runs out of room in; nothing follows a piece that was cut.
LineIsPrefix ==
  Answered("line") =>
    LET alone(k) == Line(Ample, <<input.pieces[k]>>)
        whole    == FlattenSeq([k \in DOMAIN input.pieces |-> alone(k)])
    IN  answer = SubSeq(whole, 1, Least(Len(whole), input.capacity - 1))

\* The number a text of digits denotes, most significant first.
Value(text, base) ==
  FoldLeft(LAMBDA n, c : base * n + (CHOOSE d \in 0..15 : HexChars[d + 1] = c), 0, text)

DenotesDecimal(text, n) ==
  /\ text # <<>> /\ Range(text) \subseteq Range(DecChars)
  /\ Len(text) > 1 => Head(text) # "0"
  /\ Value(text, 10) = n

\* Sign, integer part, and exactly the decimals asked for; the number is the
\* multiple of the last decimal's unit nearest to the value, the larger one
\* of two.
DenotesFloat(text, piece) ==
  LET dec    == Least(piece.decimals, MaxDecimals)
      sign   == Sign(piece.val, piece.showSign)
      number == SubSeq(text, Len(sign) + 1, Len(text))
      point  == Len(number) - dec
      whole  == IF dec = 0 THEN number ELSE SubSeq(number, 1, point - 1)
      places == IF dec = 0 THEN <<>> ELSE SubSeq(number, point + 1, Len(number))
      scale  == Power(10, dec)
      error  == 2 * ((Value(whole, 10) - piece.val.size \div FloatUnit) * scale * FloatUnit
                     + Value(places, 10) * FloatUnit
                     - (piece.val.size % FloatUnit) * scale)
  IN  /\ Len(sign) < Len(text) /\ SubSeq(text, 1, Len(sign)) = sign
      /\ DenotesDecimal(whole, Value(whole, 10))
      /\ dec > 0 => /\ point > 1 /\ number[point] = "."
                    /\ Range(places) \subseteq Range(DecChars)
      /\ -FloatUnit < error /\ error <= FloatUnit

Denotes(text, piece) ==
  CASE piece.op = "text" -> text = piece.chars
    [] piece.op \in {"udec", "u64"} -> DenotesDecimal(text, piece.val)
    [] piece.op = "idec" ->
         IF piece.val < 0 THEN Head(text) = "-" /\ DenotesDecimal(Tail(text), -piece.val)
         ELSE DenotesDecimal(text, piece.val)
    [] piece.op = "hex" ->
         LET d == IF piece.digits \in 1..HexDigits THEN piece.digits
                  ELSE IF piece.digits = 0 THEN 1 ELSE HexDigits
         IN  Len(text) = d /\ Value(text, 16) = piece.val % Power(16, d)
    [] piece.op = "float" ->
         IF piece.val.finite THEN DenotesFloat(text, piece) ELSE text = <<"?">>

\* A number on its own line that is not cut reads back as the value appended:
\* the most negative integer, the carry of a rounding and the zeros after the
\* point included.
NumbersReadBack ==
  Answered("line") /\ Len(input.pieces) = 1 /\ Len(answer) < input.capacity - 1 =>
    Denotes(answer, input.pieces[1])
-----------------------------------------------------------------------------
Vertex(k) == answer.picture.lines[k + 1]   \* numbered from 0, as in the code

BackgroundOf(point) == Background(point, answer.picture.background)

\* The lines of the CPU and the background of the GPU show one horizon: the
\* horizon line lies in the band from end to end, every ladder line above the
\* horizon in the sky and every line below it on the earth.
HorizonAgrees ==
  Answered("frame") =>
    /\ \A k \in 0..1 : BackgroundOf(Vertex(k)) = "band"
    /\ \A k \in 2..13 : BackgroundOf(Vertex(k)) = IF k % 4 \in {2, 3} THEN "sky" ELSE "earth"

\* "positive = nose up": the pilot reads the pitch where the aircraft symbol's
\* centre stands.  It is in the sky when the nose is up and on the earth when
\* it is down, and on the ladder line of an angle, both of whose ends are as
\* far from the horizon, exactly when that is the pitch.
PitchReads ==
  Answered("frame") =>
    LET at     == Metrics(input.sample)
        dist(p) == DistFromHorizon(p, answer.picture.background)
        centre == [x |-> 0, y |-> 0]
    IN  /\ at.pitch > 0 => BackgroundOf(centre) = "sky"
        /\ at.pitch < 0 => BackgroundOf(centre) = "earth"
        /\ \A i \in 1..3, end \in 0..1 :
             /\ dist(Vertex(4 * i - 2 + end)) = dist(centre) <=> at.pitch = PitchAngles[i]
             /\ dist(Vertex(4 * i + end)) = dist(centre) <=> at.pitch = -PitchAngles[i]

\* i_attitude_source.hpp: an invalid sample shows a failure indication and
\* none of its numbers are used - not in the lines, not in the background,
\* not in what the telemetry calls displayed - and a valid one shows none.
FailureShown ==
  Answered("frame") =>
    LET level == Picture([input.sample EXCEPT !.attitude = LevelAttitude], input.extent)
    IN  /\ input.sample.valid <=> answer.picture.colour = "white"
        /\ ~input.sample.valid => answer.picture = level /\ answer.metrics = LevelAttitude
        /\ answer.metrics = answer.picture.background
-----------------------------------------------------------------------------
(* A statement of the documentation that the code does not keep.            *)

\* i_attitude_source.hpp: "positive = right bank (right wing down)": in a
\* right bank the right wing tip of the aircraft symbol points at the earth.
RightWingDown ==
  /\ Answered("frame") /\ input.sample.valid
  /\ input.sample.attitude.pitch = 0
  /\ input.sample.attitude.sin > 0 /\ input.sample.attitude.cos > 0
  => BackgroundOf(Vertex(91)) = "earth"
==============================================================================
