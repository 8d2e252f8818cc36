------------------------------ MODULE FixedText ------------------------------
(***************************************************************************)
(* FixedString (engine/core/fixed_string.hpp), the bounded builder of every *)
(* log line.  An append is an operator from the buffer's text to the new   *)
(* text; cap is the template parameter kCapacity, the terminator included, *)
(* which is not part of the text.  A character is a string of length one.  *)
(*                                                                         *)
(* A float is [finite, negative, size]: |val| is size / FloatUnit, so that *)
(* the arithmetic on it is exact.  Not exact in the code, and left out: a  *)
(* product with the scale that falls between two floats.                   *)
(***************************************************************************)
EXTENDS Integers, SequencesExt

CONSTANTS
  Word,         \* 2^32
  DecDigits,    \* digits AppendUDec has room for
  Dec64Digits,  \* digits AppendU64Dec has room for
  HexDigits,    \* hex digits of a word
  MaxDecimals,  \* decimals AppendFloat clamps to
  FloatUnit     \* a power of two

\* Powers as the code multiplies them up, one factor at a time.
Power(base, n) ==
  LET power[k \in Nat] == IF k = 0 THEN 1 ELSE power[k - 1] * base IN power[n]

ASSUME TextAssumption ==
  /\ Word \in Nat \ {0} /\ Word % 2 = 0
  /\ {DecDigits, Dec64Digits, HexDigits} \subseteq Nat \ {0}
  /\ Word <= Power(10, DecDigits)
  /\ MaxDecimals \in Nat /\ Power(10, MaxDecimals) <= Word
  /\ FloatUnit \in Nat \ {0}

DecChars == <<"0", "1", "2", "3", "4", "5", "6", "7", "8", "9">>
HexChars == DecChars \o <<"A", "B", "C", "D", "E", "F">>

Least(a, b) == IF a <= b THEN a ELSE b

\* Seeded fault: a text that does not fit is left out as a whole.
AppendWhole(buf, cap, text) == IF Len(buf) + Len(text) < cap THEN buf \o text ELSE buf

\* Append: characters are copied while one less than the capacity is in use.
AppendText(buf, cap, text) ==
  buf \o SubSeq(text, 1, Least(Len(text), cap - 1 - Len(buf)))

\* How many digits the division loop leaves in tmp: at least one, at most size.
DigitCount(val, size) == Min({size} \cup {k \in 1..size : val \div Power(10, k) = 0})

\* tmp, copied in reverse.
Digits(val, size) ==
  [k \in 1..DigitCount(val, size) |->
     DecChars[1 + ((val \div Power(10, DigitCount(val, size) - k)) % 10)]]

AppendUDec(buf, cap, val) == AppendText(buf, cap, Digits(val, DecDigits))
AppendU64Dec(buf, cap, val) == AppendText(buf, cap, Digits(val, Dec64Digits))

\* Seeded fault: the second step of the negation is forgotten.
NegatedOnce(val) == (-(val + 1)) % Word

\* -(val + 1) cannot overflow a signed word; the 1 is added back unsigned.
Negated(val) == ((-(val + 1)) + 1) % Word

AppendIDec(buf, cap, val) ==
  IF val < 0 THEN AppendUDec(AppendText(buf, cap, <<"-">>), cap, Negated(val))
  ELSE AppendUDec(buf, cap, val)

HexCount(digits) == IF digits > HexDigits THEN HexDigits ELSE IF digits = 0 THEN 1 ELSE digits

\* One nibble per digit, the most significant first.
AppendHex(buf, cap, val, digits) ==
  AppendText(buf, cap, [k \in 1..HexCount(digits) |->
                          HexChars[1 + ((val \div Power(16, HexCount(digits) - k)) % 16)]])

Sign(val, showSign) ==
  IF val.negative /\ val.size > 0 THEN <<"-">> ELSE IF showSign THEN <<"+">> ELSE <<>>

\* fracPart before the carry: the fraction in units of the last decimal, half up.
FracPart(val, scale) ==
  (2 * (val.size % FloatUnit) * scale + FloatUnit) \div (2 * FloatUnit)

\* Seeded fault: padded for a digit that AppendUDec writes anyway.
PaddedOnceMore(frac, decimals) ==
  [k \in 1..Cardinality({j \in 1..decimals : frac < Power(10, j)}) |-> "0"]

\* The zeros before the fraction's own digits.
Padding(frac, decimals) ==
  [k \in 1..Cardinality({j \in 1..(decimals - 1) : frac < Power(10, j)}) |-> "0"]

AppendFloat(buf, cap, val, decimals, showSign) ==
  LET dec   == Least(decimals, MaxDecimals)
      scale == Power(10, dec)
      frac  == FracPart(val, scale)
      carry == IF frac >= scale THEN 1 ELSE 0
      rest  == frac - carry * scale
      whole == AppendUDec(AppendText(buf, cap, Sign(val, showSign)), cap,
                          (val.size \div FloatUnit + carry) % Word)
  IN  CASE ~val.finite -> AppendText(buf, cap, <<"?">>)
        [] val.finite /\ dec = 0 -> whole
        [] OTHER -> AppendUDec(AppendText(whole, cap, <<".">> \o Padding(rest, dec)),
                               cap, rest)

\* What a call of an append chain may be given: numbers of their type's width,
\* and floats whose integer part fits a word; the largest word has no fraction.
Pieces ==
  [op : {"text"}, chars : Seq(STRING)]
  \cup [op : {"udec"}, val : 0..(Word - 1)]
  \cup [op : {"u64"}, val : 0..(Power(10, Dec64Digits) - 1)]
  \cup [op : {"idec"}, val : (-(Word \div 2))..((Word \div 2) - 1)]
  \cup [op : {"hex"}, val : 0..(Word - 1), digits : Nat]
  \cup [op : {"float"}, decimals : Nat, showSign : BOOLEAN,
        val : [finite : BOOLEAN, negative : BOOLEAN, size : 0..((Word - 1) * FloatUnit)]]

\* One call of an append chain.
Put(buf, cap, piece) ==
  CASE piece.op = "text"  -> AppendText(buf, cap, piece.chars)
    [] piece.op = "udec"  -> AppendUDec(buf, cap, piece.val)
    [] piece.op = "u64"   -> AppendU64Dec(buf, cap, piece.val)
    [] piece.op = "idec"  -> AppendIDec(buf, cap, piece.val)
    [] piece.op = "hex"   -> AppendHex(buf, cap, piece.val, piece.digits)
    [] piece.op = "float" -> AppendFloat(buf, cap, piece.val, piece.decimals, piece.showSign)

\* A chain of appends to an empty buffer.
Line(cap, pieces) == FoldLeft(LAMBDA buf, piece : Put(buf, cap, piece), <<>>, pieces)
==============================================================================
