------------------------------- MODULE Matrix -------------------------------
(***************************************************************************)
(* What the time printer shows (timeprint/timeprint.ino, timeprint/font.h):*)
(* the minutes and seconds of its counter in a font of its own, through a  *)
(* window of twenty columns that moves over the text.                      *)
(*                                                                         *)
(* A glyph is a sequence of columns, a column the set of its lit bits, a   *)
(* row of the matrix the set of its lit columns: bit 0 of a row is the     *)
(* column on the left.                                                     *)
(***************************************************************************)
EXTENDS Integers, SequencesExt

Rows == 10
Columns == 20

-----------------------------------------------------------------------------
(* THE FONT, of which only these characters are used                       *)

Digits == <<
  <<2..6, {1, 7}, {1, 7}, 2..6>>,
  <<{}, {2, 7}, 1..7, {7}>>,
  <<{2, 6, 7}, {1, 5, 7}, {1, 4, 7}, {2, 3, 7}>>,
  <<{2, 6}, {1, 4, 7}, {1, 4, 7}, {2, 3, 5, 6}>>,
  <<1..5, {5}, 3..7, {5}>>,
  <<{1, 2, 3, 6}, {1, 3, 7}, {1, 3, 7}, {1, 4, 5, 6}>>,
  <<2..6, {1, 4, 7}, {1, 4, 7}, {2, 5, 6}>>,
  <<{1}, {1, 4}, 1..7, {4}>>,
  <<{2, 3, 5, 6}, {1, 4, 7}, {1, 4, 7}, {2, 3, 5, 6}>>,
  <<{2, 3}, {1, 4}, {1, 4}, 1..7>> >>

Space == <<{}, {}, {}>>
Colon == <<{2, 3, 5, 6}>>

Font == Digits \o <<Space, Colon>>
FontKey == <<"0", "1", "2", "3", "4", "5", "6", "7", "8", "9", " ", ":">>

(* font[findchar(c)]                                                       *)
Glyph(c) == Font[SelectInSeq(FontKey, LAMBDA key : key = c)]

(* clearbuffer: every other column, 0x00055555                             *)
ClearBuffer == [i \in 0..Rows - 1 |-> {j \in 0..Columns - 1 : j % 2 = 0}]

-----------------------------------------------------------------------------
(* updatebuffer                                                            *)

MapDigit(d) == ToString(d)

(* map_digit: a digit prints as the character the font has for it.         *)
ASSUME DigitsAssumption == \A d \in 0..9 : MapDigit(d) = FontKey[d + 1]

(* The hours are computed and not shown.                                   *)
Text(seconds) ==
  LET s == seconds % 60
      m == (seconds % 3600) \div 60
  IN <<MapDigit(m \div 10), MapDigit(m % 10), ":",
       MapDigit(s \div 10), MapDigit(s % 10), " ">>

(* A cursor is a character and a column of it; the column after the last   *)
(* one is the gap before the next character.                               *)
AdvanceSkipsGap(text, cursor) ==
  IF cursor.column + 1 < Len(Glyph(text[cursor.char]))
  THEN [cursor EXCEPT !.column = @ + 1]
  ELSE [char |-> (cursor.char % Len(text)) + 1, column |-> 0]

Advance(text, cursor) ==
  IF cursor.column + 1 > Len(Glyph(text[cursor.char]))
  THEN [char |-> (cursor.char % Len(text)) + 1, column |-> 0]
  ELSE [cursor EXCEPT !.column = @ + 1]

Cursors(text, n) ==
  FoldLeft(LAMBDA cursors, i : Append(cursors, Advance(text, Last(cursors))),
           <<[char |-> 1, column |-> 0]>>, [i \in 1..n - 1 |-> i])

(* nextbit, for all rows of a column: the first and the last row are never *)
(* lit.                                                                    *)
NextBits(text, cursor) ==
  LET glyph == Glyph(text[cursor.char])
  IN IF cursor.column = Len(glyph) THEN {}
     ELSE {bit + 1 : bit \in glyph[cursor.column + 1]}

(* data2 at the end of updatebuffer.                                       *)
Draw(seconds, offset) ==
  LET text   == Text(seconds)
      passed == Cursors(text, offset + Columns)
      window == FoldLeft(LAMBDA columns, cursor : Append(columns, NextBits(text, cursor)),
                         <<>>, SubSeq(passed, offset + 1, offset + Columns))
  IN [i \in 0..Rows - 1 |-> {j \in 0..Columns - 1 : i \in window[j + 1]}]

(* The widths of four digits, the space and the colon, and six gaps.       *)
ScrollPeriodWithoutGaps == 4 + 4 + 4 + 4 + 3 + 1

ScrollPeriod == 4 + 4 + 4 + 4 + 3 + 1 + 6

-----------------------------------------------------------------------------
(* What it stands for: the text written on a ring, each glyph followed by  *)
(* a dark column, seen from a point of the ring.                           *)
Ring(text) ==
  FlattenSeq([k \in DOMAIN text |-> Append(Glyph(text[k]), {})])

View(seconds, offset) ==
  LET ring == Ring(Text(seconds))
  IN [i \in 0..Rows - 1 |->
        {j \in 0..Columns - 1 : i - 1 \in ring[((offset + j) % Len(ring)) + 1]}]
=============================================================================
