------------------------------ MODULE MCOutput ------------------------------
(* Lines of up to three pieces in small buffers, 16-bit words; attitudes    *)
(* all around a roll circle of radius 5 and at every line of the ladder.    *)
EXTENDS Output

\* Everything below 10.5, in eighths, and both sides of a carry and of the
\* largest word.
Floats == [finite : {TRUE}, negative : BOOLEAN,
           size : 0..84 \cup {100 * FloatUnit - 1, (Word - 1) * FloatUnit}]
          \cup [finite : {FALSE}, negative : BOOLEAN, size : {0}]

\* Both sides of every power of ten, and the ends of a word.
Edges == UNION {{10^k - 1, 10^k, 10^k + 1} : k \in 0..4}

Numbers == [op : {"udec"}, val : Edges \cup {Word \div 2, Word - 1}]
           \cup [op : {"u64"}, val : Edges \cup {10^7, 10^8 - 1}]
           \cup [op : {"idec"}, val : {-e : e \in Edges} \cup Edges
                                      \cup {-(Word \div 2), (Word \div 2) - 1}]

Hexes == [op : {"hex"}, val : {0, 1, 15, 16, 171, 2748, 40975, Word - 1}, digits : 0..5]

FloatPieces == [op : {"float"}, val : Floats, decimals : 0..5, showSign : BOOLEAN]

Texts == [op : {"text"}, chars : {<<>>, <<"=">>, <<"a", "b", "c">>}]

\* A piece of each kind, whose texts have 0 to 5 characters.
Samples ==
  Texts \cup [op : {"udec"}, val : {7, 65535}] \cup [op : {"u64"}, val : {65535}]
  \cup [op : {"idec"}, val : {-128, -1}] \cup [op : {"hex"}, val : {171}, digits : {2}]
  \cup [op : {"float"}, decimals : {1}, showSign : {TRUE},
        val : {[finite |-> TRUE, negative |-> n, size |-> s] : n \in BOOLEAN, s \in {3, 80}}
              \cup {[finite |-> FALSE, negative |-> FALSE, size |-> 0]}]

MCLines ==
  [capacity : {20}, pieces : {<<p>> : p \in Numbers \cup Hexes \cup FloatPieces}]
  \cup [capacity : 2..9, pieces : Samples \X Samples]
  \cup [capacity : {7}, pieces : Samples \X Samples \X Samples]

MCAttitudes ==
  [cos : {0, 3, 4, 5, -3, -4, -5}, sin : {0, 3, 4, 5, -3, -4, -5},
   pitch : {-20, -15, -10, -5, -1, 0, 1, 5, 10, 15, 20}]

\* Wide, square, tall beyond a tenth, and not there at all.
MCExtents == {[width |-> e[1], height |-> e[2]] :
                e \in {<<1920, 1080>>, <<4, 3>>, <<8, 8>>, <<1, 10>>, <<8, 0>>}}

MCFrames ==
  [sample : [valid : BOOLEAN, attitude : {a \in MCAttitudes : a.cos^2 + a.sin^2 = R^2}],
   extent : MCExtents]
==============================================================================
