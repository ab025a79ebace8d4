----------------------------- MODULE ChatProofs -----------------------------
(***************************************************************************)
(* Proofs about the chat client of lab2, for every size of the message     *)
(* area, of the screen, of the chunks and of the connection: what the      *)
(* network thread draws, and where, whatever the main thread does and      *)
(* whenever it ends the program.                                           *)
(***************************************************************************)
EXTENDS ChatClient, FiniteSetTheorems, TLAPS

(* From the place of the next character on, the area is blank.             *)
BlankAhead ==
  \A r \in Row, c \in Col :
    r > current_msg_row \/ (r = current_msg_row /\ c >= current_msg_col)
      => screen[<<r, c>>] = Blank

IInv == TypeOK /\ BlankAhead

(* The parts of Offset and Turns, for any chunk m: the characters of the   *)
(* line before i, the newlines before i, and the characters up to i that   *)
(* begin a folded row.                                                     *)
LineBefore(m, i) == {j \in 1 .. i - 1 : \A k \in j .. i - 1 : m[k] # NL}
NewlinesBefore(m, i) == {j \in 1 .. i - 1 : m[j] = NL}
Column(m, i) == Cardinality(LineBefore(m, i))
Folded(m, i) == m[i] # NL /\ Column(m, i) > 0 /\ Column(m, i) % MSG_AREA_COLS = 0
FoldedUpTo(m, i) == {j \in 1 .. i : Folded(m, j)}

(* The rows that the characters before i have taken the chunk down.        *)
Breaks(m, i) == Cardinality(NewlinesBefore(m, i)) + Cardinality(FoldedUpTo(m, i - 1))

(* The place of character i of a chunk m that begins on row f.             *)
PlaceOf(m, f, i) ==
  <<f + (Cardinality(NewlinesBefore(m, i)) + Cardinality(FoldedUpTo(m, i))),
    Column(m, i) % MSG_AREA_COLS>>

(* The current place is the one after the characters before p, and these   *)
(* are on the screen; between two chunks a row begins.                     *)
Layout ==
  /\ thread = "reading" => current_msg_col = 0
  /\ thread = "drawing" =>
       /\ current_msg_row = from + Breaks(msg, p)
       /\ current_msg_col = 0 <=> Column(msg, p) = 0
       /\ current_msg_col % MSG_AREA_COLS = Column(msg, p) % MSG_AREA_COLS
  /\ \A i \in 1 .. p - 1 : msg[i] # NL =>
       /\ PlaceOf(msg, from, i) \in Row \X Col
       /\ screen[PlaceOf(msg, from, i)] = msg[i]

-----------------------------------------------------------------------------
(* Multiplication distributes over addition.                               *)
LEMMA Distributes == \A a, b, c \in Int : (a + b) * c = a * c + b * c
  OBVIOUS

(* A product grows by at least the other factor.                           *)
LEMMA ProductGrows ==
  ASSUME NEW a \in Nat, NEW b \in Nat, NEW c \in Nat, a < b
  PROVE  a * c + c <= b * c
<1>1. PICK d \in Nat : b = a + 1 + d
  <2>1. b - a - 1 \in Nat /\ b = a + 1 + (b - a - 1)
    OBVIOUS
  <2> QED
    BY <2>1
<1>2. b * c = a * c + c + d * c /\ d * c \in Nat
  BY <1>1
<1>3. a * c \in Int /\ b * c \in Int
  OBVIOUS
<1> QED
  BY <1>2, <1>3

(* Quotient and remainder.                                                 *)
LEMMA Divides ==
  ASSUME NEW a \in Nat, NEW c \in Nat \ {0}
  PROVE  a \div c \in Nat /\ a % c \in 0 .. c - 1 /\ a = (a \div c) * c + (a % c)
<1> DEFINE q == a \div c
           r == a % c
<1>1. q \in Nat /\ r \in 0 .. c - 1 /\ r = a - c * q
  OBVIOUS
<1> HIDE DEF q, r
<1>2. q * c = c * q /\ c * q \in Int
  BY <1>1
<1>3. a = q * c + r
  BY <1>1, <1>2
<1> QED
  BY <1>1, <1>3 DEF q, r

(* They are determined by the number.                                      *)
LEMMA Unique ==
  ASSUME NEW c \in Nat \ {0}, NEW a \in Nat, NEW b \in Nat,
         NEW r \in 0 .. c - 1, NEW s \in 0 .. c - 1, a * c + r = b * c + s
  PROVE  a = b /\ r = s
<1>1. a * c \in Int /\ b * c \in Int
  OBVIOUS
<1>2. CASE a < b
  BY <1>1, <1>2, ProductGrows
<1>3. CASE b < a
  BY <1>1, <1>3, ProductGrows
<1>4. CASE a = b
  BY <1>1, <1>4
<1> QED
  BY <1>2, <1>3, <1>4

(* The remainder of the next number.                                       *)
LEMMA ModNext ==
  ASSUME NEW a \in Nat, NEW c \in Nat \ {0}
  PROVE  (a + 1) % c = IF a % c = c - 1 THEN 0 ELSE (a % c) + 1
<1> DEFINE q == a \div c
           r == a % c
           t == (a + 1) \div c
           u == (a + 1) % c
<1>1. q \in Nat /\ r \in 0 .. c - 1 /\ a = q * c + r
  BY Divides
<1>2. t \in Nat /\ u \in 0 .. c - 1 /\ a + 1 = t * c + u
  <2>1. a + 1 \in Nat
    OBVIOUS
  <2> QED
    BY <2>1, Divides, Zenon
<1> HIDE DEF q, r, t, u
<1>3. q * c \in Int /\ t * c \in Int /\ (q + 1) * c = q * c + c
  BY <1>1, <1>2, Distributes
<1>4. CASE r = c - 1
  <2>1. (q + 1) * c + 0 = t * c + u /\ q + 1 \in Nat /\ 0 \in 0 .. c - 1
    BY <1>1, <1>2, <1>3, <1>4
  <2>2. u = 0
    BY <1>2, <2>1, Unique
  <2> QED
    BY <1>4, <2>2 DEF r, u
<1>5. CASE r # c - 1
  <2>1. q * c + (r + 1) = t * c + u /\ r + 1 \in 0 .. c - 1
    BY <1>1, <1>2, <1>3, <1>5
  <2>2. u = r + 1
    BY <1>1, <1>2, <2>1, Unique
  <2> QED
    BY <1>5, <2>2 DEF r, u
<1> QED
  BY <1>4, <1>5

-----------------------------------------------------------------------------
(* The numbers of the screen.                                              *)
LEMMA ScreenSizes ==
  /\ line_length \in Nat /\ smem_len \in Nat /\ xres \in Nat /\ yres \in Nat
  /\ xoffset \in Nat /\ yoffset \in Nat /\ Rows \in Nat /\ Cols \in Nat
  /\ 4 * xoffset + 4 * xres <= line_length
  /\ (yoffset + yres) * line_length <= smem_len
  BY ScreenAssumption

(* The pixel that fbputchar draws dot (x, y) of a character on, counted    *)
(* from the top left of the screen as fbclear does.                        *)
LEMMA DrawnPixel ==
  ASSUME NEW r \in Nat, NEW c \in Nat, NEW x \in Nat, NEW y \in Nat
  PROVE  Left(r, c) + y * line_length + 4 * x = Pixel(16 * c + x, 32 * r + y)
<1> DEFINE a == r * 32 + yoffset
<1>1. a \in Int /\ y \in Int /\ line_length \in Int
  BY ScreenSizes
<1>2. /\ Left(r, c) = a * line_length + (c * 16 + xoffset) * 4
      /\ Pixel(16 * c + x, 32 * r + y)
           = (a + y) * line_length + xoffset * 4 + (16 * c + x) * 4
  <2>1. r * FONT_HEIGHT * 2 + yoffset = a /\ c * FONT_WIDTH * 2 = c * 16
    BY ScreenSizes DEF FONT_HEIGHT, FONT_WIDTH
  <2>2. 32 * r + y + yoffset = a + y
    BY ScreenSizes
  <2> QED
    BY <2>1, <2>2 DEF Left, Pixel
<1> HIDE DEF a
<1>3. /\ (a + y) * line_length = a * line_length + y * line_length
      /\ a * line_length \in Int /\ y * line_length \in Int
  BY <1>1, Distributes
<1> QED
  BY <1>2, <1>3, ScreenSizes

(* No two pixels of the screen have the same address.                      *)
LEMMA PixelsApart ==
  ASSUME NEW x1 \in 0 .. xres - 1, NEW y1 \in 0 .. yres - 1,
         NEW x2 \in 0 .. xres - 1, NEW y2 \in 0 .. yres - 1,
         Pixel(x1, y1) = Pixel(x2, y2)
  PROVE  x1 = x2 /\ y1 = y2
<1> DEFINE a1 == y1 + yoffset
           a2 == y2 + yoffset
           b1 == 4 * xoffset + 4 * x1
           b2 == 4 * xoffset + 4 * x2
<1>1. /\ a1 \in Nat /\ a2 \in Nat /\ line_length \in Nat \ {0}
      /\ b1 \in 0 .. line_length - 1 /\ b2 \in 0 .. line_length - 1
  BY ScreenSizes
<1>2. a1 * line_length \in Int /\ a2 * line_length \in Int
  BY <1>1
<1>3. a1 * line_length + b1 = a2 * line_length + b2
  BY <1>2, ScreenSizes DEF Pixel
<1> HIDE DEF a1, a2, b1, b2
<1>4. a1 = a2 /\ b1 = b2
  BY <1>1, <1>3, Unique
<1> QED
  BY <1>4, ScreenSizes DEF a1, a2, b1, b2

(* All of a pixel is in the mapped memory.                                 *)
LEMMA PixelMapped ==
  ASSUME NEW x \in 0 .. xres - 1, NEW y \in 0 .. yres - 1
  PROVE  Pixel(x, y) \in 0 .. smem_len - 4
<1>1. /\ y + yoffset \in Nat /\ yoffset + yres \in Nat
      /\ y + yoffset < yoffset + yres /\ line_length \in Nat
  BY ScreenSizes
<1>2. (y + yoffset) * line_length + line_length <= (yoffset + yres) * line_length
  BY <1>1, ProductGrows
<1>3. (y + yoffset) * line_length \in Nat /\ (yoffset + yres) * line_length \in Nat
  BY <1>1
<1> QED
  BY <1>2, <1>3, ScreenSizes DEF Pixel

(* A place that the resolution has room for lies in the cleared and mapped *)
(* memory, and has no byte in common with another such place.              *)
LEMMA VisibleApart ==
  ASSUME NEW a \in Visible
  PROVE  a \in Inside /\ \A b \in Visible \ {a} : Apart[a][b]
<1>1. ASSUME NEW e \in Visible
      PROVE  \E i \in 0 .. Rows - 1, j \in 0 .. Cols - 1 :
               e = <<i, j>> /\ 32 * (i + 1) <= yres /\ 16 * (j + 1) <= xres
  BY DEF Visible, Places
<1>2. ASSUME NEW i \in 0 .. Rows - 1, NEW j \in 0 .. Cols - 1, NEW q \in Drawn(i, j),
             32 * (i + 1) <= yres, 16 * (j + 1) <= xres
      PROVE  \E x \in 0 .. 15, y \in 0 .. 31 :
               /\ q = Pixel(16 * j + x, 32 * i + y)
               /\ 16 * j + x \in 0 .. xres - 1 /\ 32 * i + y \in 0 .. yres - 1
  <2>1. PICK y \in 0 .. 31, x \in 0 .. 15 : q = Left(i, j) + y * line_length + 4 * x
    <3>1. FONT_HEIGHT * 2 - 1 = 31 /\ FONT_WIDTH * 2 - 1 = 15
      BY DEF FONT_HEIGHT, FONT_WIDTH
    <3> QED
      BY <1>2, <3>1 DEF Drawn
  <2>2. i \in Nat /\ j \in Nat /\ x \in Nat /\ y \in Nat
    BY ScreenSizes
  <2>3. q = Pixel(16 * j + x, 32 * i + y)
    BY <2>1, <2>2, DrawnPixel
  <2>4. 16 * j + x \in 0 .. xres - 1 /\ 32 * i + y \in 0 .. yres - 1
    BY <1>2, ScreenSizes
  <2> QED
    BY <2>3, <2>4
<1>3. PICK r \in 0 .. Rows - 1, c \in 0 .. Cols - 1 :
        a = <<r, c>> /\ 32 * (r + 1) <= yres /\ 16 * (c + 1) <= xres
  BY <1>1
<1>4. ASSUME NEW q \in Drawn(r, c) PROVE q \in Cleared /\ q \in 0 .. smem_len - 4
  <2>1. PICK x \in 0 .. 15, y \in 0 .. 31 :
               /\ q = Pixel(16 * c + x, 32 * r + y)
               /\ 16 * c + x \in 0 .. xres - 1 /\ 32 * r + y \in 0 .. yres - 1
    BY <1>2, <1>3
  <2>2. Pixel(16 * c + x, 32 * r + y) \in 0 .. smem_len - 4
    BY <2>1, PixelMapped, Zenon
  <2>3. Pixel(16 * c + x, 32 * r + y) \in Cleared
    BY <2>1 DEF Cleared
  <2> QED
    BY <2>1, <2>2, <2>3
<1>5. ASSUME NEW i \in 0 .. Rows - 1, NEW j \in 0 .. Cols - 1,
             32 * (i + 1) <= yres, 16 * (j + 1) <= xres,
             NEW q \in Drawn(r, c), q \in Drawn(i, j)
      PROVE  i = r /\ j = c
  <2>1. PICK x \in 0 .. 15, y \in 0 .. 31 :
               /\ q = Pixel(16 * c + x, 32 * r + y)
               /\ 16 * c + x \in 0 .. xres - 1 /\ 32 * r + y \in 0 .. yres - 1
    BY <1>2, <1>3
  <2>2. PICK u \in 0 .. 15, v \in 0 .. 31 :
               /\ q = Pixel(16 * j + u, 32 * i + v)
               /\ 16 * j + u \in 0 .. xres - 1 /\ 32 * i + v \in 0 .. yres - 1
    BY <1>2, <1>5
  <2>3. 16 * c + x = 16 * j + u /\ 32 * r + y = 32 * i + v
    BY <2>1, <2>2, PixelsApart
  <2> QED
    BY <2>3, ScreenSizes
<1>6. a \in Places /\ Visible \subseteq Places
  BY DEF Visible
<1>7. a \in Inside
  BY <1>3, <1>4, <1>6 DEF Inside
<1>8. ASSUME NEW b \in Visible \ {a} PROVE Apart[a][b]
  <2>1. PICK i \in 0 .. Rows - 1, j \in 0 .. Cols - 1 :
          b = <<i, j>> /\ 32 * (i + 1) <= yres /\ 16 * (j + 1) <= xres
    BY <1>1
  <2>2. Drawn(r, c) \cap Drawn(i, j) = {}
    BY <1>3, <1>5, <2>1
  <2>3. Apart[a][b] = (Drawn(a[1], a[2]) \cap Drawn(b[1], b[2]) = {})
    BY <1>6 DEF Apart
  <2>4. a[1] = r /\ a[2] = c /\ b[1] = i /\ b[2] = j
    BY <1>3, <2>1
  <2> QED
    BY <2>2, <2>3, <2>4
<1> QED
  BY <1>7, <1>8

-----------------------------------------------------------------------------
(* Cardinality of a set with one more member.                              *)
LEMMA OneMore ==
  ASSUME NEW S, NEW x, IsFiniteSet(S), x \notin S
  PROVE  Cardinality(S \cup {x}) = Cardinality(S) + 1 /\ Cardinality(S) \in Nat
  BY FS_AddElement, FS_CardinalityType

(* A set of positions is finite.                                           *)
LEMMA PositionsFinite ==
  ASSUME NEW n \in Int, NEW S \in SUBSET (1 .. n)
  PROVE  IsFiniteSet(S) /\ Cardinality(S) \in Nat
<1>1. IsFiniteSet(1 .. n)
  BY FS_Interval
<1>2. IsFiniteSet(S)
  BY <1>1, FS_Subset
<1> QED
  BY <1>2, FS_CardinalityType

(* The parts of a layout are finite, and their sizes numbers.              *)
LEMMA PartsFinite ==
  ASSUME NEW m, NEW i \in Nat
  PROVE  /\ IsFiniteSet(LineBefore(m, i)) /\ IsFiniteSet(NewlinesBefore(m, i))
         /\ IsFiniteSet(FoldedUpTo(m, i))
         /\ Column(m, i) \in Nat /\ Cardinality(NewlinesBefore(m, i)) \in Nat
         /\ Cardinality(FoldedUpTo(m, i)) \in Nat
<1>1. /\ LineBefore(m, i) \in SUBSET (1 .. i - 1)
      /\ NewlinesBefore(m, i) \in SUBSET (1 .. i - 1)
      /\ FoldedUpTo(m, i) \in SUBSET (1 .. i) /\ i - 1 \in Int /\ i \in Int
  BY DEF LineBefore, NewlinesBefore, FoldedUpTo
<1>2. IsFiniteSet(LineBefore(m, i)) /\ Cardinality(LineBefore(m, i)) \in Nat
  BY <1>1, PositionsFinite
<1>3. IsFiniteSet(NewlinesBefore(m, i)) /\ Cardinality(NewlinesBefore(m, i)) \in Nat
  BY <1>1, PositionsFinite
<1>4. IsFiniteSet(FoldedUpTo(m, i)) /\ Cardinality(FoldedUpTo(m, i)) \in Nat
  BY <1>1, PositionsFinite
<1> QED
  BY <1>2, <1>3, <1>4 DEF Column

(* The first character begins a line, on the row the chunk begins on.      *)
LEMMA AtStart == \A m : Column(m, 1) = 0 /\ Breaks(m, 1) = 0
<1> SUFFICES ASSUME NEW m PROVE Column(m, 1) = 0 /\ Breaks(m, 1) = 0
  OBVIOUS
<1>1. LineBefore(m, 1) = {} /\ NewlinesBefore(m, 1) = {} /\ FoldedUpTo(m, 1 - 1) = {}
  BY DEF LineBefore, NewlinesBefore, FoldedUpTo
<1>2. Cardinality({}) = 0
  BY FS_EmptySet
<1> QED
  BY <1>1, <1>2 DEF Column, Breaks

(* What a character adds to the column: a newline begins a new line.       *)
LEMMA ColumnNext ==
  ASSUME NEW m, NEW i \in Nat \ {0}
  PROVE  Column(m, i + 1) = IF m[i] = NL THEN 0 ELSE Column(m, i) + 1
<1>1. CASE m[i] = NL
  <2>1. LineBefore(m, i + 1) = {}
    BY <1>1 DEF LineBefore
  <2> QED
    BY <1>1, <2>1, FS_EmptySet DEF Column
<1>2. CASE m[i] # NL
  <2>1. ASSUME NEW j PROVE j \in LineBefore(m, i + 1) <=> j \in LineBefore(m, i) \cup {i}
    <3>1. CASE j = i
      BY <1>2, <3>1 DEF LineBefore
    <3>2. CASE j # i /\ j \in Int
      <4>1. j \in 1 .. (i + 1) - 1 <=> j \in 1 .. i - 1
        BY <3>2
      <4>2. ASSUME j \in 1 .. i - 1
            PROVE  (\A k \in j .. (i + 1) - 1 : m[k] # NL) <=> (\A k \in j .. i - 1 : m[k] # NL)
        <5>1. \A k : k \in j .. (i + 1) - 1 <=> k \in j .. i - 1 \/ k = i
          BY <4>2
        <5> QED
          BY <1>2, <5>1
      <4> QED
        BY <3>2, <4>1, <4>2 DEF LineBefore
    <3>3. CASE j \notin Int
      BY <3>3 DEF LineBefore
    <3> QED
      BY <3>1, <3>2, <3>3
  <2>2. LineBefore(m, i + 1) = LineBefore(m, i) \cup {i} /\ i \notin LineBefore(m, i)
    BY <2>1 DEF LineBefore
  <2>3. Cardinality(LineBefore(m, i) \cup {i}) = Cardinality(LineBefore(m, i)) + 1
    BY <2>2, OneMore, PartsFinite
  <2> QED
    BY <1>2, <2>2, <2>3 DEF Column
<1> QED
  BY <1>1, <1>2

(* What a character adds to the newlines.                                  *)
LEMMA NewlinesNext ==
  ASSUME NEW m, NEW i \in Nat \ {0}
  PROVE  Cardinality(NewlinesBefore(m, i + 1)) =
           Cardinality(NewlinesBefore(m, i)) + (IF m[i] = NL THEN 1 ELSE 0)
<1>0. Cardinality(NewlinesBefore(m, i)) \in Nat
  BY PartsFinite
<1>1. CASE m[i] = NL
  <2>1. NewlinesBefore(m, i + 1) = NewlinesBefore(m, i) \cup {i} /\ i \notin NewlinesBefore(m, i)
    BY <1>1 DEF NewlinesBefore
  <2> QED
    BY <1>1, <2>1, OneMore, PartsFinite
<1>2. CASE m[i] # NL
  <2>1. NewlinesBefore(m, i + 1) = NewlinesBefore(m, i)
    BY <1>2 DEF NewlinesBefore
  <2> QED
    BY <1>0, <1>2, <2>1
<1> QED
  BY <1>1, <1>2

(* What a character adds to the folds.                                     *)
LEMMA FoldsNext ==
  ASSUME NEW m, NEW i \in Nat \ {0}
  PROVE  Cardinality(FoldedUpTo(m, i)) =
           Cardinality(FoldedUpTo(m, i - 1)) + (IF Folded(m, i) THEN 1 ELSE 0)
<1>0. i - 1 \in Nat /\ Cardinality(FoldedUpTo(m, i - 1)) \in Nat
  BY PartsFinite
<1>1. CASE Folded(m, i)
  <2>1. FoldedUpTo(m, i) = FoldedUpTo(m, i - 1) \cup {i} /\ i \notin FoldedUpTo(m, i - 1)
    BY <1>1 DEF FoldedUpTo
  <2> QED
    BY <1>0, <1>1, <2>1, OneMore, PartsFinite
<1>2. CASE ~Folded(m, i)
  <2>1. FoldedUpTo(m, i) = FoldedUpTo(m, i - 1)
    BY <1>2 DEF FoldedUpTo
  <2> QED
    BY <1>0, <1>2, <2>1
<1> QED
  BY <1>1, <1>2

(* A newline takes the chunk down a row, and so does a folded character.   *)
LEMMA BreaksNext ==
  ASSUME NEW m, NEW i \in Nat \ {0}
  PROVE  /\ Breaks(m, i) \in Nat
         /\ m[i] = NL => Breaks(m, i + 1) = Breaks(m, i) + 1
         /\ Folded(m, i) => Breaks(m, i + 1) = Breaks(m, i) + 1
         /\ m[i] # NL /\ ~Folded(m, i) => Breaks(m, i + 1) = Breaks(m, i)
<1>1. (i + 1) - 1 = i /\ i - 1 \in Nat
  OBVIOUS
<1>2. /\ Cardinality(NewlinesBefore(m, i)) \in Nat
      /\ Cardinality(FoldedUpTo(m, i - 1)) \in Nat
  BY <1>1, PartsFinite
<1>3. Folded(m, i) => m[i] # NL
  BY DEF Folded
<1> QED
  BY <1>1, <1>2, <1>3, NewlinesNext, FoldsNext DEF Breaks

-----------------------------------------------------------------------------
(* Any place of the area can be drawn on, and only that place changes.     *)
LEMMA PutType ==
  ASSUME NEW s \in [Row \X Col -> Glyphs \cup {Blank}],
         NEW r \in Row, NEW c \in Col, NEW g \in Glyphs
  PROVE  /\ [s EXCEPT ![<<r, c>>] = g] \in [Row \X Col -> Glyphs \cup {Blank}]
         /\ \A a \in Row, b \in Col : <<a, b>> # <<r, c>> =>
               [s EXCEPT ![<<r, c>>] = g][<<a, b>>] = s[<<a, b>>]
         /\ \A q \in Row \X Col : q # <<r, c>> => [s EXCEPT ![<<r, c>>] = g][q] = s[q]
  OBVIOUS

(* The emptied area is blank everywhere.                                   *)
LEMMA EmptyBlank ==
  /\ Empty \in [Row \X Col -> Glyphs \cup {Blank}]
  /\ \A r \in Row, c \in Col : Empty[<<r, c>>] = Blank
  BY DEF Empty

(* A character of a chunk is a glyph or a newline.                         *)
LEMMA ChunkChar ==
  ASSUME NEW m \in Chunks, NEW i \in 1 .. Len(m)
  PROVE  m[i] \in Glyphs \cup {NL}
  <1>1. PICK k \in 0 .. ChunkSize : m \in [1 .. k -> Glyphs \cup {NL}]
    BY DEF Chunks
  <1>2. Len(m) = k
    BY <1>1
  <1> QED
    BY <1>1, <1>2

(* No character is no chunk at all, and a chunk's length is a number.      *)
LEMMA ChunkLen ==
  /\ <<>> \in Chunks /\ Len(<<>>) = 0
  /\ \A m \in Chunks : Len(m) \in Nat
  <1>1. <<>> \in [1 .. 0 -> Glyphs \cup {NL}]
    OBVIOUS
  <1>2. <<>> \in Chunks
    BY <1>1, DisplayAssumption DEF Chunks
  <1>3. ASSUME NEW m \in Chunks PROVE Len(m) \in Nat
    <2>1. PICK k \in 0 .. ChunkSize : m \in [1 .. k -> Glyphs \cup {NL}]
      BY DEF Chunks
    <2> QED
      BY <2>1, DisplayAssumption
  <1> QED
    BY <1>2, <1>3

-----------------------------------------------------------------------------
(* The start and every emptied area satisfy the invariant's part about the *)
(* screen.                                                                 *)
LEMMA ClearGood ==
  ASSUME Clear
  PROVE  /\ current_msg_row' \in Row
         /\ current_msg_col' \in Col \cup {MSG_AREA_COLS}
         /\ (screen \in [Row \X Col -> Glyphs \cup {Blank}])'
         /\ BlankAhead'
  BY EmptyBlank, DisplayAssumption DEF Clear, BlankAhead, Row, Col

(* The place that comes next is a blank one of the area.                   *)
LEMMA SpotBlank ==
  ASSUME IInv, Puts
  PROVE  Spot \in Row \X Col /\ screen[Spot] = Blank
  <1>1. CASE FullLine
    <2>1. current_msg_row + 1 \in Row /\ 0 \in Col
      BY <1>1, DisplayAssumption DEF Puts, LastRow, IInv, TypeOK, Row, Col
    <2>2. screen[<<current_msg_row + 1, 0>>] = Blank
      BY <2>1 DEF IInv, TypeOK, BlankAhead, Row
    <2> QED
      BY <1>1, <2>1, <2>2 DEF Spot
  <1>2. CASE ~FullLine
    <2>1. current_msg_row \in Row /\ current_msg_col \in Col
      BY <1>2, DisplayAssumption DEF FullLine, IInv, TypeOK, Row, Col
    <2>2. screen[<<current_msg_row, current_msg_col>>] = Blank
      BY <2>1 DEF IInv, BlankAhead, Row, Col
    <2> QED
      BY <1>2, <2>1, <2>2 DEF Spot
  <1> QED
    BY <1>1, <1>2

(* Put draws on a blank place of the area.                                 *)
LEMMA PutBlank ==
  ASSUME IInv, Put
  PROVE  \E r \in Row, c \in Col :
           /\ screen[<<r, c>>] = Blank
           /\ screen' = [screen EXCEPT ![<<r, c>>] = msg[p]]
           /\ current_msg_row' = r /\ current_msg_col' = c + 1
           /\ \A a \in Row, b \in Col :
                a > r \/ (a = r /\ b >= c) => screen[<<a, b>>] = Blank
  <1>1. CASE FullLine
    <2>1. current_msg_row + 1 \in Row /\ 0 \in Col
      BY <1>1, DisplayAssumption DEF Put, Puts, FullLine, LastRow, IInv, TypeOK, Row, Col
    <2>2. /\ screen' = [screen EXCEPT ![<<current_msg_row + 1, 0>>] = msg[p]]
          /\ current_msg_row' = current_msg_row + 1 /\ current_msg_col' = 0 + 1
      BY <1>1 DEF Put, Puts, Spot
    <2>3. \A a \in Row, b \in Col :
             a > current_msg_row + 1 \/ (a = current_msg_row + 1 /\ b >= 0)
               => screen[<<a, b>>] = Blank
      BY DEF IInv, TypeOK, BlankAhead, Row
    <2>4. screen[<<current_msg_row + 1, 0>>] = Blank
      BY <2>1, <2>3 DEF Row
    <2> QED
      BY <2>1, <2>2, <2>3, <2>4
  <1>2. CASE ~FullLine
    <2>1. current_msg_row \in Row /\ current_msg_col \in Col
      BY <1>2, DisplayAssumption DEF FullLine, IInv, TypeOK, Row, Col
    <2>2. /\ screen' = [screen EXCEPT ![<<current_msg_row, current_msg_col>>] = msg[p]]
          /\ current_msg_row' = current_msg_row /\ current_msg_col' = current_msg_col + 1
      BY <1>2 DEF Put, Puts, Spot
    <2>3. \A a \in Row, b \in Col :
             a > current_msg_row \/ (a = current_msg_row /\ b >= current_msg_col)
               => screen[<<a, b>>] = Blank
      BY DEF IInv, BlankAhead
    <2>4. screen[<<current_msg_row, current_msg_col>>] = Blank
      BY <2>1, <2>3 DEF Row, Col
    <2> QED
      BY <2>1, <2>2, <2>3, <2>4
  <1> QED
    BY <1>1, <1>2

(* The program starts with an empty area.                                  *)
LEMMA InvInit == Init => IInv
  <1> SUFFICES ASSUME Init PROVE IInv
    OBVIOUS
  <1>1. BlankAhead
    BY EmptyBlank DEF Init, BlankAhead
  <1>2. TypeOK
    BY EmptyBlank, ChunkLen, DisplayAssumption DEF Init, TypeOK, Row, Col
  <1> QED
    BY <1>1, <1>2 DEF IInv

(* The invariant is kept by every step.                                    *)
LEMMA InvNext == IInv /\ [Next]_vars => IInv'
  <1> SUFFICES ASSUME IInv, [Next]_vars PROVE IInv'
    OBVIOUS
  <1> USE DEF IInv
  <1>1. ASSUME NEW m \in Chunks, Receive(m) PROVE IInv'
    <2>1. p' \in 1 .. Len(msg') + 1
      BY <1>1, ChunkLen DEF Receive
    <2>2. BlankAhead'
      BY <1>1 DEF Receive, area, BlankAhead
    <2> QED
      BY <1>1, <2>1, <2>2 DEF Receive, area, TypeOK
  <1>2. CASE Disconnect
    BY <1>2 DEF Disconnect, area, TypeOK, BlankAhead
  <1>3. ASSUME Drawing, Restart PROVE IInv'
    <2>1. p' \in 1 .. Len(msg') + 1
      BY <1>3, ChunkLen DEF Drawing, Restart, TypeOK
    <2>2. from' \in Row
      BY <1>3, DisplayAssumption DEF Restart, Row
    <2>3. Clear /\ UNCHANGED <<thread, msg>>
      BY <1>3 DEF Drawing, Restart
    <2> QED
      BY <2>1, <2>2, <2>3, ClearGood DEF TypeOK
  <1>4. CASE Newline
    <2>1. CASE LastRow /\ Restart
      BY <1>3, <1>4, <2>1 DEF Newline
    <2>2. CASE ~LastRow /\ current_msg_row' = current_msg_row + 1
               /\ current_msg_col' = 0 /\ p' = p + 1 /\ UNCHANGED <<screen, from>>
      <3>1. p' \in 1 .. Len(msg') + 1
        BY <1>4, <2>2, ChunkLen DEF Newline, Drawing, TypeOK
      <3>2. current_msg_row' \in Row /\ current_msg_col' \in Col
        BY <2>2, DisplayAssumption DEF LastRow, TypeOK, Row, Col
      <3>3. BlankAhead'
        BY <2>2 DEF BlankAhead, TypeOK, Row, Col
      <3> QED
        BY <1>4, <2>2, <3>1, <3>2, <3>3 DEF Newline, Drawing, TypeOK
    <2> QED
      BY <1>4, <2>1, <2>2 DEF Newline
  <1>5. CASE WrapToTop
    BY <1>3, <1>5 DEF WrapToTop
  <1>6. CASE Put
    <2>1. PICK r \in Row, c \in Col :
            /\ screen' = [screen EXCEPT ![<<r, c>>] = msg[p]]
            /\ current_msg_row' = r /\ current_msg_col' = c + 1
            /\ \A a \in Row, b \in Col :
                 a > r \/ (a = r /\ b >= c) => screen[<<a, b>>] = Blank
      BY <1>6, PutBlank
    <2>2. p \in 1 .. Len(msg) /\ p' = p + 1 /\ msg[p] # NL
          /\ UNCHANGED <<thread, msg, from>>
      BY <1>6, ChunkLen DEF Put, Puts, Drawing, TypeOK
    <2>3. msg[p] \in Glyphs
      BY <2>2, ChunkChar DEF TypeOK
    <2>4. screen' \in [Row \X Col -> Glyphs \cup {Blank}]
      BY <2>1, <2>3, PutType DEF TypeOK
    <2>5. ASSUME NEW a \in Row, NEW b \in Col,
                 a > current_msg_row' \/ (a = current_msg_row' /\ b >= current_msg_col')
          PROVE  screen'[<<a, b>>] = Blank
      <3>1. <<a, b>> # <<r, c>> /\ (a > r \/ (a = r /\ b >= c))
        BY <2>1, <2>5 DEF Row, Col
      <3> QED
        BY <2>1, <2>3, <3>1, PutType DEF TypeOK
    <2>6. current_msg_col' \in Col \cup {MSG_AREA_COLS}
      BY <2>1, DisplayAssumption DEF Col
    <2>7. p' \in 1 .. Len(msg') + 1
      BY <2>2, ChunkLen DEF TypeOK
    <2> QED
      BY <2>1, <2>2, <2>4, <2>5, <2>6, <2>7 DEF TypeOK, BlankAhead
  <1>7. CASE Return
    <2>1. p' \in 1 .. Len(msg') + 1 /\ msg' \in Chunks /\ from' \in Row
      BY <1>7, ChunkLen, DisplayAssumption DEF Return, Row
    <2>2. CASE Clear
      BY <1>7, <2>1, <2>2, ClearGood DEF Return, TypeOK
    <2>3. CASE ~LastRow /\ current_msg_row' = current_msg_row + 1
               /\ current_msg_col' = 0 /\ UNCHANGED screen
      <3>1. current_msg_row' \in Row /\ current_msg_col' \in Col
        BY <2>3, DisplayAssumption DEF LastRow, TypeOK, Row, Col
      <3>2. BlankAhead'
        BY <2>3 DEF BlankAhead, TypeOK, Row, Col
      <3> QED
        BY <1>7, <2>1, <2>3, <3>1, <3>2 DEF Return, TypeOK
    <2>4. CASE UNCHANGED area
      BY <1>7, <2>1, <2>4 DEF Return, area, TypeOK, BlankAhead
    <2> QED
      BY <1>7, <2>2, <2>3, <2>4 DEF Return
  <1>8. CASE UNCHANGED vars
    BY <1>8 DEF vars, area, TypeOK, BlankAhead
  <1> QED
    BY <1>1, <1>2, <1>4, <1>5, <1>6, <1>7, <1>8 DEF Next, Draw


-----------------------------------------------------------------------------
(* The layout in the terms of Display.                                     *)
LEMMA TermsOf ==
  /\ \A i : Offset(i) = Column(msg, i)
  /\ \A i : Turns(i) =
       Cardinality(NewlinesBefore(msg, i)) + Cardinality(FoldedUpTo(msg, i))
  /\ \A i : Place(i) = PlaceOf(msg, from, i)
<1>1. \A i : Offset(i) = Column(msg, i)
  BY Zenon DEF Offset, Column, LineBefore
<1>2. \A i : {j \in 1 .. i : /\ msg[j] # NL /\ Offset(j) > 0
                             /\ Offset(j) % MSG_AREA_COLS = 0} = FoldedUpTo(msg, i)
  BY <1>1 DEF FoldedUpTo, Folded
<1>3. \A i : Turns(i) =
       Cardinality(NewlinesBefore(msg, i)) + Cardinality(FoldedUpTo(msg, i))
  BY <1>2, Zenon DEF Turns, NewlinesBefore
<1>4. \A i : Place(i) = PlaceOf(msg, from, i)
  BY <1>1, <1>3, Zenon DEF Place, PlaceOf
<1> QED
  BY <1>1, <1>3, <1>4

(* The row of a character is the current row, or the next one if it has to *)
(* be folded.                                                              *)
LEMMA RowOf ==
  ASSUME NEW m, NEW i \in Nat \ {0}
  PROVE  Cardinality(NewlinesBefore(m, i)) + Cardinality(FoldedUpTo(m, i))
           = Breaks(m, i) + (IF Folded(m, i) THEN 1 ELSE 0)
<1>1. i - 1 \in Nat
  OBVIOUS
<1>2. /\ Cardinality(NewlinesBefore(m, i)) \in Nat
      /\ Cardinality(FoldedUpTo(m, i - 1)) \in Nat
  BY <1>1, PartsFinite
<1> QED
  BY <1>2, FoldsNext DEF Breaks

(* The further a chunk is drawn, the more rows it takes.                   *)
LEMMA BreaksMonotone ==
  ASSUME NEW m, NEW i \in Nat \ {0}, NEW j \in Nat \ {0}, i <= j
  PROVE  Breaks(m, i) <= Breaks(m, j)
<1>1. /\ NewlinesBefore(m, i) \in SUBSET NewlinesBefore(m, j)
      /\ FoldedUpTo(m, i - 1) \in SUBSET FoldedUpTo(m, j - 1)
  BY DEF NewlinesBefore, FoldedUpTo
<1>2. i - 1 \in Nat /\ j - 1 \in Nat
  OBVIOUS
<1>3. /\ IsFiniteSet(NewlinesBefore(m, j)) /\ IsFiniteSet(FoldedUpTo(m, j - 1))
      /\ Cardinality(NewlinesBefore(m, j)) \in Nat
      /\ Cardinality(FoldedUpTo(m, j - 1)) \in Nat
      /\ Cardinality(NewlinesBefore(m, i)) \in Nat
      /\ Cardinality(FoldedUpTo(m, i - 1)) \in Nat
  BY <1>2, PartsFinite
<1>4. /\ Cardinality(NewlinesBefore(m, i)) <= Cardinality(NewlinesBefore(m, j))
      /\ Cardinality(FoldedUpTo(m, i - 1)) <= Cardinality(FoldedUpTo(m, j - 1))
  BY <1>1, <1>3, FS_Subset
<1> QED
  BY <1>3, <1>4 DEF Breaks

(* The rows of the whole chunk.                                            *)
LEMMA AllTurnsIs == msg \in Chunks => AllTurns = Breaks(msg, Len(msg) + 1)
<1> SUFFICES ASSUME msg \in Chunks PROVE AllTurns = Breaks(msg, Len(msg) + 1)
  OBVIOUS
<1>1. Len(msg) \in Nat
  BY ChunkLen
<1>2. CASE msg = <<>>
  <2>1. Len(msg) = 0
    BY <1>2, ChunkLen
  <2>2. NewlinesBefore(msg, 0) = {} /\ FoldedUpTo(msg, 0) = {}
    BY DEF NewlinesBefore, FoldedUpTo
  <2>3. Turns(0) = 0
    BY <2>2, TermsOf, FS_EmptySet
  <2>4. Breaks(msg, 0 + 1) = 0
    BY AtStart
  <2> QED
    BY <1>2, <2>1, <2>3, <2>4 DEF AllTurns
<1>3. CASE msg # <<>>
  <2> DEFINE n == Len(msg)
  <2>1. n \in Nat \ {0}
    <3>1. PICK k \in 0 .. ChunkSize : msg \in [1 .. k -> Glyphs \cup {NL}]
      BY DEF Chunks
    <3>2. k # 0
      BY <1>3, <3>1
    <3> QED
      BY <1>1, <3>1, <3>2
  <2>2. AllTurns = Turns(n) + (IF msg[n] = NL THEN 1 ELSE 0)
    BY <1>3 DEF AllTurns
  <2> HIDE DEF n
  <2>3. Turns(n) = Cardinality(NewlinesBefore(msg, n)) + Cardinality(FoldedUpTo(msg, n))
    BY TermsOf
  <2>4. /\ Cardinality(NewlinesBefore(msg, n)) \in Nat
        /\ Cardinality(FoldedUpTo(msg, n)) \in Nat
    BY <2>1, PartsFinite
  <2>5. Breaks(msg, n + 1)
          = Cardinality(NewlinesBefore(msg, n + 1)) + Cardinality(FoldedUpTo(msg, n))
    <3>1. (n + 1) - 1 = n
      BY <2>1
    <3> QED
      BY <3>1 DEF Breaks
  <2>6. AllTurns = Breaks(msg, n + 1)
    BY <2>1, <2>2, <2>3, <2>4, <2>5, NewlinesNext
  <2> QED
    BY <2>6 DEF n
<1> QED
  BY <1>2, <1>3

(* How the column follows from the number of characters of the line.       *)
LEMMA ColumnState ==
  ASSUME NEW C \in Nat \ {0}, NEW c \in 0 .. C, NEW o \in Nat,
         c = 0 <=> o = 0, c % C = o % C
  PROVE  /\ c >= C <=> (o > 0 /\ o % C = 0)
         /\ c < C => o % C = c
         /\ c < C => (c + 1) % C = (o + 1) % C
         /\ c >= C => (0 + 1) % C = (o + 1) % C
<1>1. \A a \in 0 .. C - 1 : a % C = a
  OBVIOUS
<1>2. C % C = 0
  <2>1. C - 1 \in Nat /\ (C - 1) % C = C - 1 /\ (C - 1) + 1 = C
    BY <1>1
  <2> QED
    BY <2>1, ModNext
<1>3. /\ (o + 1) % C = IF o % C = C - 1 THEN 0 ELSE (o % C) + 1
      /\ (c + 1) % C = IF c % C = C - 1 THEN 0 ELSE (c % C) + 1
      /\ (0 + 1) % C = IF 0 % C = C - 1 THEN 0 ELSE (0 % C) + 1
  <2>1. c \in Nat /\ 0 \in Nat
    OBVIOUS
  <2> QED
    BY <2>1, ModNext, Zenon
<1>4. c < C => c % C = c
  BY <1>1
<1>5. c >= C => c = C
  OBVIOUS
<1>6. 0 % C = 0
  BY <1>1
<1> QED
  BY <1>2, <1>3, <1>4, <1>5, <1>6

-----------------------------------------------------------------------------
(* exit() may end the thread wherever it is.                               *)
Ended == thread' = "ended" /\ UNCHANGED <<msg, p, area, from>>

(* Where the next character of the chunk is put is its place.              *)
LEMMA PutPlace ==
  ASSUME IInv, Layout, Put
  PROVE  /\ PlaceOf(msg, from, p) \in Row \X Col
         /\ screen[PlaceOf(msg, from, p)] = Blank
         /\ screen' = [screen EXCEPT ![PlaceOf(msg, from, p)] = msg[p]]
         /\ current_msg_row' = from + Breaks(msg, p + 1)
         /\ current_msg_col' \in Nat \ {0} /\ Column(msg, p + 1) \in Nat \ {0}
         /\ current_msg_col' % MSG_AREA_COLS = Column(msg, p + 1) % MSG_AREA_COLS
<1> DEFINE C == MSG_AREA_COLS
           c == current_msg_col
           o == Column(msg, p)
           d == IF FullLine THEN 0 ELSE c
           e == IF FullLine THEN current_msg_row + 1 ELSE current_msg_row
<1>1. /\ p \in Nat \ {0} /\ msg[p] # NL /\ thread = "drawing"
      /\ screen' = [screen EXCEPT ![<<e, d>>] = msg[p]]
      /\ current_msg_row' = e /\ current_msg_col' = d + 1
  <2>1. Spot = <<e, d>> /\ Spot[1] = e /\ Spot[2] = d
    BY DEF Spot
  <2>2. p \in Nat \ {0}
    BY ChunkLen DEF IInv, TypeOK
  <2> QED
    BY <2>1, <2>2 DEF Put, Puts
<1>2. /\ C \in Nat \ {0} /\ c \in 0 .. C /\ o \in Nat
      /\ (c = 0 <=> o = 0) /\ c % C = o % C
      /\ current_msg_row = from + Breaks(msg, p)
  <2>1. C \in Nat \ {0} /\ c \in 0 .. C
    BY DisplayAssumption DEF IInv, TypeOK, Col
  <2>2. o \in Nat
    BY <1>1, PartsFinite
  <2> QED
    BY <1>1, <2>1, <2>2 DEF Layout
<1>3. /\ c >= C <=> (o > 0 /\ o % C = 0)
      /\ c < C => o % C = c
      /\ c < C => (c + 1) % C = (o + 1) % C
      /\ c >= C => (0 + 1) % C = (o + 1) % C
  BY <1>2, ColumnState, Zenon
<1>4. Column(msg, p + 1) = o + 1
  BY <1>1, ColumnNext
<1>5. FullLine <=> c >= C
  BY DEF FullLine
<1>6. Folded(msg, p) <=> FullLine
  BY <1>1, <1>3, <1>5 DEF Folded
<1>7. d = o % C /\ (d + 1) % C = (o + 1) % C /\ d \in Nat
  <2>1. CASE FullLine
    BY <1>3, <1>5, <2>1
  <2>2. CASE ~FullLine
    BY <1>2, <1>3, <1>5, <2>2
  <2> QED
    BY <2>1, <2>2
<1>8. /\ Breaks(msg, p) \in Nat
      /\ FullLine => Breaks(msg, p + 1) = Breaks(msg, p) + 1
      /\ ~FullLine => Breaks(msg, p + 1) = Breaks(msg, p)
  BY <1>1, <1>6, BreaksNext
<1>9. Cardinality(NewlinesBefore(msg, p)) + Cardinality(FoldedUpTo(msg, p))
        = Breaks(msg, p) + (IF FullLine THEN 1 ELSE 0)
  BY <1>1, <1>6, RowOf
<1>10. from \in Nat
  BY DisplayAssumption DEF IInv, TypeOK, Row
<1>11. e = from + Breaks(msg, p + 1)
       /\ e = from + (Cardinality(NewlinesBefore(msg, p)) + Cardinality(FoldedUpTo(msg, p)))
  BY <1>2, <1>8, <1>9, <1>10
<1> HIDE DEF C, c, o, d, e
<1>12. PlaceOf(msg, from, p) = <<e, d>>
  BY <1>7, <1>11 DEF PlaceOf, C, o
<1>13. <<e, d>> \in Row \X Col /\ screen[<<e, d>>] = Blank
  <2>1. PICK r \in Row, k \in Col :
           /\ screen[<<r, k>>] = Blank
           /\ current_msg_row' = r /\ current_msg_col' = k + 1
    BY PutBlank
  <2>2. r = e /\ k = d
    BY <1>1, <1>7, <2>1, DisplayAssumption DEF Col
  <2> QED
    BY <2>1, <2>2
<1>14. current_msg_col' % C = Column(msg, p + 1) % C
  BY <1>1, <1>4, <1>7
<1>15. current_msg_col' \in Nat \ {0} /\ Column(msg, p + 1) \in Nat \ {0}
  BY <1>1, <1>2, <1>4, <1>7
<1> QED
  BY <1>1, <1>11, <1>12, <1>13, <1>14, <1>15 DEF C

(* Drawing a character keeps the ones before it where they belong.         *)
LEMMA LayoutPut == IInv /\ Layout /\ Put => Layout'
<1> SUFFICES ASSUME IInv, Layout, Put PROVE Layout'
  OBVIOUS
<1>1. p \in Nat \ {0} /\ msg[p] # NL /\ p \in 1 .. Len(msg) /\ p' = p + 1
      /\ UNCHANGED <<thread, msg, from>> /\ thread = "drawing"
  BY ChunkLen DEF Put, Puts, Drawing, IInv, TypeOK
<1>2. /\ PlaceOf(msg, from, p) \in Row \X Col
      /\ screen[PlaceOf(msg, from, p)] = Blank
      /\ screen' = [screen EXCEPT ![PlaceOf(msg, from, p)] = msg[p]]
      /\ current_msg_row' = from + Breaks(msg, p + 1)
      /\ current_msg_col' \in Nat \ {0} /\ Column(msg, p + 1) \in Nat \ {0}
      /\ current_msg_col' % MSG_AREA_COLS = Column(msg, p + 1) % MSG_AREA_COLS
  BY PutPlace
<1>3. screen \in [Row \X Col -> Glyphs \cup {Blank}] /\ msg \in Chunks
  BY DEF IInv, TypeOK
<1>4. ASSUME NEW i \in 1 .. p, msg[i] # NL
      PROVE  /\ PlaceOf(msg, from, i) \in Row \X Col
             /\ screen'[PlaceOf(msg, from, i)] = msg[i]
  <2>1. CASE i = p
    BY <1>2, <1>3, <2>1
  <2>2. CASE i # p
    <3>1. i \in 1 .. p - 1 /\ i \in 1 .. Len(msg)
      BY <1>1, <1>3, <2>2, ChunkLen
    <3>2. PlaceOf(msg, from, i) \in Row \X Col /\ screen[PlaceOf(msg, from, i)] = msg[i]
      BY <1>4, <3>1 DEF Layout
    <3>3. msg[i] # Blank
      BY <1>3, <1>4, <3>1, ChunkChar, DisplayAssumption
    <3>4. PlaceOf(msg, from, i) # PlaceOf(msg, from, p)
      BY <1>2, <3>2, <3>3
    <3> QED
      BY <1>2, <1>3, <3>2, <3>4
  <2> QED
    BY <2>1, <2>2
<1>5. p' - 1 = p
  BY <1>1
<1> QED
  BY <1>1, <1>2, <1>4, <1>5 DEF Layout

(* A chunk that is begun again has drawn nothing yet.                      *)
LEMMA LayoutRestart ==
  ASSUME Restart, UNCHANGED <<thread, msg>>, thread = "drawing"
  PROVE  Layout'
<1>1. /\ p' = 1 /\ from' = 0 /\ current_msg_row' = 0 /\ current_msg_col' = 0
      /\ thread' = "drawing"
  BY DEF Restart, Clear
<1>2. Column(msg', 1) = 0 /\ Breaks(msg', 1) = 0
  BY AtStart
<1>3. 1 .. 1 - 1 = {}
  OBVIOUS
<1> QED
  BY <1>1, <1>2, <1>3 DEF Layout

(* A newline goes on with the next row, or begins the chunk again.         *)
LEMMA LayoutNewline == IInv /\ Layout /\ Newline => Layout'
<1> SUFFICES ASSUME IInv, Layout, Newline PROVE Layout'
  OBVIOUS
<1>1. /\ p \in Nat \ {0} /\ msg[p] = NL /\ thread = "drawing"
      /\ UNCHANGED <<thread, msg>>
  BY DEF Newline, Drawing, IInv, TypeOK
<1>2. CASE Restart
  BY <1>1, <1>2, LayoutRestart
<1>3. CASE /\ current_msg_row' = current_msg_row + 1 /\ current_msg_col' = 0
           /\ p' = p + 1 /\ UNCHANGED <<screen, from>>
  <2>1. Column(msg, p + 1) = 0
    BY <1>1, ColumnNext
  <2>2. Breaks(msg, p) \in Nat /\ Breaks(msg, p + 1) = Breaks(msg, p) + 1
    BY <1>1, BreaksNext
  <2>3. from \in Nat
    BY DisplayAssumption DEF IInv, TypeOK, Row
  <2>4. current_msg_row' = from' + Breaks(msg', p')
    BY <1>1, <1>3, <2>2, <2>3 DEF Layout
  <2>5. ASSUME NEW i \in 1 .. p' - 1, msg[i] # NL PROVE i \in 1 .. p - 1
    BY <1>1, <1>3, <2>5
  <2> QED
    BY <1>1, <1>3, <2>1, <2>4, <2>5 DEF Layout
<1> QED
  BY <1>2, <1>3 DEF Newline

(* The layout is kept by every step of the thread, and by its end.         *)
LEMMA LayoutStep == IInv /\ Layout /\ [Next \/ Ended]_vars => Layout'
<1> SUFFICES ASSUME IInv, Layout, [Next \/ Ended]_vars PROVE Layout'
  OBVIOUS
<1>1. ASSUME NEW m \in Chunks, Receive(m) PROVE Layout'
  <2>1. /\ thread' = "drawing" /\ p' = 1 /\ from' = current_msg_row
        /\ current_msg_row' = current_msg_row /\ current_msg_col' = 0
    BY <1>1 DEF Receive, area, Layout
  <2>2. Column(msg', 1) = 0 /\ Breaks(msg', 1) = 0
    BY AtStart
  <2>3. 1 .. 1 - 1 = {} /\ current_msg_row + 0 = current_msg_row
    BY DisplayAssumption DEF IInv, TypeOK, Row
  <2> QED
    BY <2>1, <2>2, <2>3 DEF Layout
<1>2. CASE Disconnect \/ Ended \/ UNCHANGED vars
  <2>1. /\ UNCHANGED <<msg, p, current_msg_row, current_msg_col, screen, from>>
        /\ thread' = "ended" \/ thread' = thread
    BY <1>2 DEF Disconnect, Ended, vars, area
  <2> QED
    BY <2>1 DEF Layout
<1>3. CASE Newline
  BY <1>3, LayoutNewline
<1>4. CASE WrapToTop
  BY <1>4, LayoutRestart DEF WrapToTop, Drawing
<1>5. CASE Put
  BY <1>5, LayoutPut
<1>6. CASE Return
  <2>1. thread' = "reading" /\ p' = 1 /\ current_msg_col' = 0
    BY <1>6, DisplayAssumption DEF Return, Clear, area, IInv, TypeOK, Col
  <2>2. 1 .. 1 - 1 = {}
    OBVIOUS
  <2> QED
    BY <2>1, <2>2 DEF Layout
<1> QED
  BY <1>1, <1>2, <1>3, <1>4, <1>5, <1>6 DEF Next, Draw

(* A type-correct state stays one when the thread ends.                    *)
LEMMA InvStep == IInv /\ [Next \/ Ended]_vars => IInv'
<1> SUFFICES ASSUME IInv, Ended PROVE IInv'
  BY InvNext
<1> QED
  BY DEF Ended, area, IInv, TypeOK, BlankAhead

(* Nothing is drawn yet.                                                   *)
LEMMA LayoutInit == Init => Layout
<1> SUFFICES ASSUME Init PROVE Layout
  OBVIOUS
<1>1. thread = "reading" /\ current_msg_col = 0 /\ p = 1
  BY DEF Init
<1>2. 1 .. 1 - 1 = {}
  OBVIOUS
<1> QED
  BY <1>1, <1>2 DEF Layout

(* What the invariant says of the places is LaidOut.                       *)
LEMMA LayoutGivesLaidOut == Layout => LaidOut
  BY TermsOf DEF Layout, LaidOut

-----------------------------------------------------------------------------
(* What a step does to the screen: a glyph on a blank place, everything    *)
(* erased, or nothing.                                                     *)
Keeps == \A q \in Row \X Col : screen[q] # Blank => screen'[q] = screen[q]

(* A put character changes the screen in one blank place.                  *)
LEMMA PutKeeps ==
  ASSUME IInv, Put
  PROVE  screen' # screen /\ screen' # Empty /\ Keeps
<1>1. PICK r \in Row, c \in Col :
        screen[<<r, c>>] = Blank /\ screen' = [screen EXCEPT ![<<r, c>>] = msg[p]]
  BY PutBlank
<1>2. screen \in [Row \X Col -> Glyphs \cup {Blank}]
  BY DEF IInv, TypeOK
<1>3. msg[p] \in Glyphs
  BY ChunkLen, ChunkChar DEF IInv, TypeOK, Put, Puts, Drawing
<1>4. screen'[<<r, c>>] = msg[p] /\ Keeps
  BY <1>1, <1>2 DEF Keeps
<1> QED
  BY <1>1, <1>3, <1>4, EmptyBlank, DisplayAssumption

(* Every step keeps what is shown or erases all of it.                     *)
LEMMA StepKeeps ==
  IInv /\ [Next \/ Ended]_vars => (Put => screen' # screen) /\ (screen' = Empty \/ Keeps)
<1> SUFFICES ASSUME IInv, [Next \/ Ended]_vars
             PROVE  (Put => screen' # screen) /\ (screen' = Empty \/ Keeps)
  OBVIOUS
<1>1. Put \/ UNCHANGED screen \/ Clear
  BY DEF Next, Ended, Receive, Disconnect, Draw, Newline, WrapToTop, Return, Restart,
         vars, area
<1>2. UNCHANGED screen => Keeps
  BY DEF Keeps
<1>3. Clear => screen' = Empty
  BY DEF Clear
<1> QED
  BY <1>1, <1>2, <1>3, PutKeeps

(* What is on the screen is erased for want of room only.                  *)
Full == \/ from + AllTurns > MSG_AREA_BOTTOM
        \/ p > Len(msg) /\ from + AllTurns = MSG_AREA_BOTTOM

(* The rows of a chunk, and of what comes before one of its characters.    *)
LEMMA RowsOf ==
  IInv => /\ AllTurns = Breaks(msg, Len(msg) + 1)
          /\ AllTurns \in Nat /\ Breaks(msg, p) \in Nat /\ Breaks(msg, p + 1) \in Nat
          /\ p <= Len(msg) => Breaks(msg, p + 1) <= AllTurns
<1> SUFFICES ASSUME IInv
             PROVE  /\ AllTurns = Breaks(msg, Len(msg) + 1)
                    /\ AllTurns \in Nat /\ Breaks(msg, p) \in Nat
                    /\ Breaks(msg, p + 1) \in Nat
                    /\ p <= Len(msg) => Breaks(msg, p + 1) <= AllTurns
  OBVIOUS
<1>1. Len(msg) \in Nat /\ p \in Nat \ {0} /\ p <= Len(msg) + 1 /\ msg \in Chunks
  BY ChunkLen DEF IInv, TypeOK
<1>2. AllTurns = Breaks(msg, Len(msg) + 1)
  BY <1>1, AllTurnsIs
<1>3. Len(msg) + 1 \in Nat \ {0} /\ p + 1 \in Nat \ {0}
  BY <1>1
<1>4. AllTurns \in Nat /\ Breaks(msg, p) \in Nat /\ Breaks(msg, p + 1) \in Nat
  BY <1>1, <1>2, <1>3, BreaksNext
<1>5. p <= Len(msg) => Breaks(msg, p + 1) <= AllTurns
  BY <1>1, <1>2, <1>3, BreaksMonotone
<1> QED
  BY <1>2, <1>4, <1>5

(* A chunk that is begun again does not fit below the row it began on.     *)
LEMMA Overflows ==
  ASSUME IInv, Layout, (Newline /\ LastRow) \/ WrapToTop
  PROVE  from + AllTurns > MSG_AREA_BOTTOM
<1>1. p \in Nat \ {0} /\ from \in Nat /\ MSG_AREA_BOTTOM \in Nat
  BY DisplayAssumption DEF IInv, TypeOK, Row
<1>2. LastRow /\ p <= Len(msg) /\ thread = "drawing"
  BY DEF Newline, WrapToTop, Drawing
<1>3. from + Breaks(msg, p) = MSG_AREA_BOTTOM
  BY <1>2 DEF LastRow, Layout
<1>4. Breaks(msg, p + 1) = Breaks(msg, p) + 1
  <2>1. CASE Newline
    BY <1>1, <2>1, BreaksNext DEF Newline
  <2>2. CASE WrapToTop
    <3>1. FullLine /\ msg[p] # NL
      BY <2>2 DEF WrapToTop
    <3>2. /\ MSG_AREA_COLS \in Nat \ {0} /\ current_msg_col \in 0 .. MSG_AREA_COLS
          /\ current_msg_col >= MSG_AREA_COLS
      BY <3>1, DisplayAssumption DEF IInv, TypeOK, Col, FullLine
    <3>3. Column(msg, p) \in Nat
      BY <1>1, PartsFinite
    <3>4. /\ current_msg_col = 0 <=> Column(msg, p) = 0
          /\ current_msg_col % MSG_AREA_COLS = Column(msg, p) % MSG_AREA_COLS
      BY <1>2 DEF Layout
    <3>5. Column(msg, p) > 0 /\ Column(msg, p) % MSG_AREA_COLS = 0
      BY <3>2, <3>3, <3>4, ColumnState, Zenon
    <3> QED
      BY <1>1, <3>1, <3>5, BreaksNext DEF Folded
  <2> QED
    BY <2>1, <2>2
<1> QED
  BY <1>1, <1>2, <1>3, <1>4, RowsOf

(* A chunk that is returned from has been drawn down to its last row.      *)
LEMMA ReturnRow ==
  ASSUME IInv, Layout, Return
  PROVE  current_msg_row = from + AllTurns
<1>1. p > Len(msg) /\ thread = "drawing"
  BY DEF Return
<1>2. p = Len(msg) + 1
  BY <1>1, ChunkLen DEF IInv, TypeOK
<1> QED
  BY <1>1, <1>2, RowsOf DEF Layout

(* A step that erases has no room.                                         *)
LEMMA StepClears ==
  IInv /\ Layout /\ [Next \/ Ended]_vars => (screen # Empty /\ screen' = Empty => Full)
<1> SUFFICES ASSUME IInv, Layout, [Next \/ Ended]_vars, screen # Empty, screen' = Empty
             PROVE  Full
  OBVIOUS
<1>1. CASE Newline
  <2>1. LastRow
    BY <1>1 DEF Newline
  <2> QED
    BY <1>1, <2>1, Overflows DEF Full
<1>2. CASE WrapToTop
  BY <1>2, Overflows DEF Full
<1>3. CASE Return
  <2>1. LastRow /\ p > Len(msg)
    BY <1>3 DEF Return, area
  <2> QED
    BY <1>3, <2>1, ReturnRow DEF Full, LastRow
<1>4. ~Put
  BY PutKeeps
<1>5. ~((\E m \in Chunks : Receive(m)) \/ Disconnect \/ Ended \/ UNCHANGED vars)
  BY DEF Receive, Disconnect, Ended, vars, area
<1> QED
  BY <1>1, <1>2, <1>3, <1>4, <1>5 DEF Next, Draw

(* A chunk that is too long for the area is never returned from.           *)
LEMMA ReturnFits == IInv /\ Layout /\ Return => AllTurns <= MSG_AREA_BOTTOM
<1> SUFFICES ASSUME IInv, Layout, Return PROVE AllTurns <= MSG_AREA_BOTTOM
  OBVIOUS
<1>1. current_msg_row = from + AllTurns
  BY ReturnRow
<1>2. from \in Nat /\ current_msg_row \in 0 .. MSG_AREA_BOTTOM
  BY DEF IInv, TypeOK, Row
<1> QED
  BY <1>1, <1>2, RowsOf, DisplayAssumption

(* What a turn of the loop of display_message does with a chunk that fits: *)
(* it returns, goes on to the next character, or begins the chunk again,   *)
(* the last on the top row and only when it began on another one.          *)
Onward ==
  \/ thread' = "reading"
  \/ UNCHANGED <<thread, msg, from>> /\ p <= Len(msg) /\ p' = p + 1
  \/ UNCHANGED <<thread, msg>> /\ from > 0 /\ from' = 0 /\ p' = 1

(* Every turn of the loop does one of these with a chunk that fits.        *)
LEMMA DrawOnward ==
  IInv /\ Layout /\ Draw => (AllTurns <= MSG_AREA_BOTTOM => Onward)
<1> SUFFICES ASSUME IInv, Layout, Draw, AllTurns <= MSG_AREA_BOTTOM PROVE Onward
  OBVIOUS
<1>1. from \in Nat /\ MSG_AREA_BOTTOM \in Nat
  BY DisplayAssumption DEF IInv, TypeOK, Row
<1>2. CASE (Newline /\ LastRow) \/ WrapToTop
  <2>1. UNCHANGED <<thread, msg>> /\ from' = 0 /\ p' = 1
    BY <1>2 DEF Newline, WrapToTop, Drawing, Restart
  <2>2. from > 0
    BY <1>1, <1>2, Overflows, RowsOf
  <2> QED
    BY <2>1, <2>2 DEF Onward
<1>3. CASE (Newline /\ ~LastRow) \/ Put
  BY <1>3 DEF Newline, Put, Puts, Drawing, Onward
<1>4. CASE Return
  BY <1>4 DEF Return, Onward
<1> QED
  BY <1>2, <1>3, <1>4 DEF Draw

-----------------------------------------------------------------------------
(* Until the program has started up, the thread has not read anything.     *)
Starting == main \in DOMAIN After \cup {"pthread_create"} => thread = "reading"

ChatInv == IInv /\ Layout /\ Starting

(* A step of the chat client is a step of display_message and of its       *)
(* thread, ends the thread, or does not concern it.                        *)
LEMMA ChatIsDisplay == Starting /\ [ChatNext]_cvars => [Next \/ Ended]_vars
<1> SUFFICES ASSUME Starting, [ChatNext]_cvars PROVE [Next \/ Ended]_vars
  OBVIOUS
<1>1. Exit => Ended
  BY DEF Exit, Ended
<1>2. CASE StartUp \/ WriteGone
  BY <1>1, <1>2 DEF StartUp, WriteGone
<1>3. CASE CreateThread
  <2>1. /\ thread = "reading" /\ UNCHANGED <<msg, p, area, from>>
        /\ thread' = "reading" \/ thread' = "ended"
    BY <1>3 DEF CreateThread, Starting
  <2> QED
    BY <2>1 DEF Ended, vars
<1>4. CASE ReadChunk \/ ReadEnd \/ DrawStep
  BY <1>4 DEF ReadChunk, ReadEnd, DrawStep, Next
<1>5. CASE Enter \/ Write \/ Sent \/ Relay \/ Post \/ CloseConnection \/ UNCHANGED cvars
  BY <1>5 DEF Enter, Write, Sent, Relay, Post, CloseConnection, cvars
<1> QED
  BY <1>2, <1>3, <1>4, <1>5 DEF ChatNext, MainThread, NetworkThread

(* A thread that has not been created does not move.                       *)
LEMMA StartingStep == Starting /\ [ChatNext]_cvars => Starting'
<1> SUFFICES ASSUME Starting, [ChatNext]_cvars PROVE Starting'
  OBVIOUS
<1>1. /\ DOMAIN After = {"fbopen", "openkeyboard", "socket", "connect"}
      /\ \A x \in DOMAIN After : After[x] \in DOMAIN After \cup {"pthread_create"}
  BY DEF After
<1>2. CASE StartUp
  BY <1>1, <1>2 DEF StartUp, Exit, Starting, vars
<1>3. CASE CreateThread \/ Enter \/ Write \/ WriteGone \/ Sent
  <2>1. main' \in {"loop", "writing", "exited"}
    BY <1>3 DEF CreateThread, Enter, Write, WriteGone, Sent, Exit
  <2> QED
    BY <1>1, <2>1 DEF Starting
<1>4. CASE ReadChunk \/ ReadEnd
  <2>1. main' \in {"loop", "writing"}
    BY <1>4 DEF ReadChunk, ReadEnd, Running
  <2> QED
    BY <1>1, <2>1 DEF Starting
<1>5. CASE DrawStep
  <2>1. thread = "drawing" /\ main' = main
    BY <1>5 DEF DrawStep, Draw, Newline, WrapToTop, Put, Puts, Return, Drawing
  <2> QED
    BY <1>1, <2>1 DEF Starting
<1>6. CASE Relay \/ Post \/ CloseConnection \/ UNCHANGED cvars
  BY <1>6 DEF Relay, Post, CloseConnection, cvars, vars, Starting
<1> QED
  BY <1>2, <1>3, <1>4, <1>5, <1>6 DEF ChatNext, MainThread, NetworkThread

-----------------------------------------------------------------------------
(* The message thread alone: for every sequence of chunks, nothing outside *)
(* the area is drawn on, the chunk is laid out in lines, and nothing is    *)
(* drawn over or erased while there is room.                               *)
THEOREM DisplayCorrect ==
  Spec => [](TypeOK /\ LaidOut) /\ NeverDrawsOver /\ ClearsOnlyWhenFull
<1>1. Init => IInv /\ Layout
  BY InvInit, LayoutInit
<1>2. [Next]_vars => [Next \/ Ended]_vars
  OBVIOUS
<1>3. IInv /\ Layout /\ [Next]_vars => IInv' /\ Layout'
  BY <1>2, InvStep, LayoutStep
<1>4. IInv /\ Layout => TypeOK /\ LaidOut
  BY LayoutGivesLaidOut DEF IInv
<1>5. IInv /\ [Next]_vars =>
        [(Put => screen' # screen) /\ (screen' = Empty \/ Keeps)]_vars
  BY <1>2, StepKeeps
<1>6. IInv /\ Layout /\ [Next]_vars => [screen # Empty /\ screen' = Empty => Full]_vars
  BY <1>2, StepClears
<1> QED
  BY <1>1, <1>3, <1>4, <1>5, <1>6, PTL
     DEF Spec, NeverDrawsOver, ClearsOnlyWhenFull, Keeps, Full

(* The inductive invariant of the chat client.                             *)
THEOREM ChatInvariant == ChatSpec => []ChatInv
<1>1. ChatInit => ChatInv
  BY InvInit, LayoutInit DEF ChatInit, ChatInv, Starting, Init
<1>2. ChatInv /\ [ChatNext]_cvars => ChatInv'
  BY ChatIsDisplay, StartingStep, InvStep, LayoutStep DEF ChatInv
<1> QED
  BY <1>1, <1>2, PTL DEF ChatSpec

(* Under the whole client, start-up failures and exits included, nothing   *)
(* outside the message area is drawn on.                                   *)
THEOREM TypeCorrect == ChatSpec => []TypeOK
<1>1. ChatInv => TypeOK
  BY DEF ChatInv, IInv
<1> QED
  BY <1>1, ChatInvariant, PTL

(* What display_message has drawn of a chunk is where it belongs, for      *)
(* every size of the area, after a restart as well.                        *)
THEOREM LaidOutCorrect == ChatSpec => []LaidOut
<1>1. ChatInv => LaidOut
  BY LayoutGivesLaidOut DEF ChatInv
<1> QED
  BY <1>1, ChatInvariant, PTL

(* display_message never draws over a character: what is shown stays until *)
(* clear_message_area empties the area.                                    *)
THEOREM NeverDrawsOverCorrect == ChatSpec => NeverDrawsOver
<1>1. ChatInv /\ [ChatNext]_cvars =>
        [(Put => screen' # screen) /\ (screen' = Empty \/ Keeps)]_vars
  BY ChatIsDisplay, StepKeeps DEF ChatInv
<1> QED
  BY <1>1, ChatInvariant, PTL DEF ChatSpec, NeverDrawsOver, Keeps

(* What is shown is erased for want of room only.                          *)
THEOREM ClearsCorrect == ChatSpec => ClearsOnlyWhenFull
<1>1. ChatInv /\ [ChatNext]_cvars => [screen # Empty /\ screen' = Empty => Full]_vars
  BY ChatIsDisplay, StepClears DEF ChatInv
<1> QED
  BY <1>1, ChatInvariant, PTL DEF ChatSpec, ClearsOnlyWhenFull, Full

(* The next character spoils no pixel of what is shown or of the rows of   *)
(* the main thread, on every screen of which the kernel says the truth,    *)
(* large enough for the text or not: as far as there is room for a place   *)
(* (fbputchar.c:116-121).  The invariant is needed: the place that comes   *)
(* next is a blank one of the message area.                                *)
THEOREM PixelsCorrect == ChatSpec => []OwnPixels
<1>1. IInv => OwnPixels
  <2> SUFFICES ASSUME IInv, Puts, Spot \in Visible
               PROVE  /\ Spot \in Inside
                      /\ \A q \in Taken \cap Visible : Apart[Spot][q]
    BY DEF OwnPixels
  <2>1. Spot \notin Taken
    <3>1. Spot \in Row \X Col /\ screen[Spot] = Blank
      BY SpotBlank
    <3>2. Spot[1] \in Row
      BY <3>1
    <3>3. ~(Spot[1] > MSG_AREA_BOTTOM)
      BY <3>2, DisplayAssumption DEF Row
    <3> QED
      BY <3>1, <3>3 DEF Taken
  <2> QED
    BY <2>1, VisibleApart
<1> QED
  BY <1>1, ChatInvariant, PTL DEF ChatInv

-----------------------------------------------------------------------------
(* The network thread of the client is the one of Display, except that     *)
(* exit() may end it: neither the main thread nor the connection gives it  *)
(* a step that Display does not have.                                      *)
THEOREM ClientRunsDisplay == ChatSpec => Init /\ [][Next \/ Ended]_vars
<1>1. ChatInit => Init
  BY DEF ChatInit
<1>2. ChatInv /\ [ChatNext]_cvars => [Next \/ Ended]_vars
  BY ChatIsDisplay DEF ChatInv
<1> QED
  BY <1>1, <1>2, ChatInvariant, PTL DEF ChatSpec

(* Why display_message returns from a chunk that fits: each turn of its    *)
(* loop goes on by one character, except that the chunk is begun again     *)
(* once, on the top row.  So it takes at most 2 * (Len(msg) + 1) turns.    *)
AtMostOneRestart == [][Draw /\ AllTurns <= MSG_AREA_BOTTOM => Onward]_vars

(* A chunk that fits is begun again at most once, for every size of the    *)
(* area (display.c:37-66).                                                 *)
THEOREM RestartsOnce == ChatSpec => AtMostOneRestart
<1>1. ChatInv /\ [ChatNext]_cvars => [Draw /\ AllTurns <= MSG_AREA_BOTTOM => Onward]_vars
  BY DrawOnward DEF ChatInv
<1> QED
  BY <1>1, ChatInvariant, PTL DEF ChatSpec, AtMostOneRestart

(* A chunk of more rows than the area has is drawn until the program ends. *)
OverlongStays ==
  [][thread = "drawing" /\ AllTurns > MSG_AREA_BOTTOM =>
       thread' = "ended" \/ UNCHANGED <<thread, msg>>]_vars

(* display_message does not return from an overlong chunk, for every size  *)
(* of the area and of the chunks (display.c:44 and 57): only exit() or     *)
(* SIGPIPE ends the loop.  EveryReturns fails whenever such a chunk comes. *)
THEOREM OverlongNeverReturns == ChatSpec => OverlongStays
<1> DEFINE Stays == thread = "drawing" /\ AllTurns > MSG_AREA_BOTTOM =>
                      thread' = "ended" \/ UNCHANGED <<thread, msg>>
<1>1. IInv /\ Layout /\ [Next \/ Ended]_vars => Stays
  <2> SUFFICES ASSUME IInv, Layout, [Next \/ Ended]_vars,
                      thread = "drawing", AllTurns > MSG_AREA_BOTTOM
               PROVE  thread' = "ended" \/ UNCHANGED <<thread, msg>>
    OBVIOUS
  <2>1. ~Return
    BY ReturnFits, RowsOf, DisplayAssumption
  <2> QED
    BY <2>1 DEF Next, Draw, Newline, WrapToTop, Put, Puts, Drawing, Receive, Disconnect,
                Ended, vars
<1>2. ChatInv /\ [ChatNext]_cvars => [Stays]_vars
  BY <1>1, ChatIsDisplay DEF ChatInv
<1> QED
  BY <1>2, ChatInvariant, PTL DEF ChatSpec, OverlongStays

-----------------------------------------------------------------------------
(* The connection holds no more than it can, and a network thread that has *)
(* been created reads or draws as long as the server is there.             *)
Connection ==
  /\ up \in 0 .. UpSize /\ down \in 0 .. DownSize /\ unsent \in Nat
  /\ main \in {"loop", "writing", "exited"} \/ ~created
  /\ thread \in {"reading", "drawing", "ended"}
  /\ peer \in {"open", "closed"}
  /\ created /\ Running /\ peer = "open" => thread # "ended"

(* write() waits for room.                                                 *)
Blocked == main = "writing" /\ unsent > 0 /\ up = UpSize /\ peer = "open"

(* While write() waits, somebody else does not: the server can relay a     *)
(* byte, or the network thread is drawing, or it has bytes to read.        *)
SomebodyMoves ==
  Blocked /\ created =>
    \/ up > 0 /\ down < DownSize
    \/ thread = "drawing"
    \/ thread = "reading" /\ down > 0

(* Nobody is connected yet.                                                *)
LEMMA ConnectionInit == ChatInit => Connection
<1> SUFFICES ASSUME ChatInit PROVE Connection
  OBVIOUS
<1>1. 0 \in 0 .. UpSize /\ 0 \in 0 .. DownSize
  BY ChatAssumption
<1> QED
  BY <1>1 DEF ChatInit, Init, Connection

(* Every step of the client and of the server keeps this.                  *)
LEMMA ConnectionStep == Connection /\ [ChatNext]_cvars => Connection'
<1> SUFFICES ASSUME Connection, [ChatNext]_cvars PROVE Connection'
  OBVIOUS
<1>1. CASE StartUp
  <2>1. ~created /\ ~created'
    BY <1>1 DEF StartUp, Connection, After
  <2> QED
    BY <1>1, <2>1 DEF StartUp, Exit, Connection, link, vars
<1>2. CASE CreateThread
  BY <1>2 DEF CreateThread, Connection, Running, link
<1>3. CASE Enter \/ Sent
  BY <1>3, ChatAssumption DEF Enter, Sent, Connection, Running, link, vars
<1>4. CASE Write
  <2>1. up' \in 0 .. UpSize /\ unsent' \in Nat
    BY <1>4, ChatAssumption DEF Write, Connection
  <2> QED
    BY <1>4, <2>1 DEF Write, Connection, Running, vars
<1>5. CASE WriteGone
  BY <1>5 DEF WriteGone, Exit, Connection, Running, link, vars
<1>6. CASE Relay \/ Post
  <2>1. up' \in 0 .. UpSize /\ down' \in 0 .. DownSize
    BY <1>6, ChatAssumption DEF Relay, Post, Connection
  <2> QED
    BY <1>6, <2>1 DEF Relay, Post, Connection, Running, vars
<1>7. CASE CloseConnection
  BY <1>7 DEF CloseConnection, Connection, Running, vars
<1>8. CASE ReadChunk
  <2>1. PICK n \in 1 .. ChunkSize, m \in Chunks :
          n <= down /\ Receive(m) /\ down' = down - n
    BY <1>8 DEF ReadChunk
  <2>2. down' \in 0 .. DownSize
    BY <2>1, ChatAssumption, DisplayAssumption DEF Connection
  <2>3. thread' = "drawing"
    BY <2>1 DEF Receive
  <2> QED
    BY <1>8, <2>2, <2>3 DEF ReadChunk, Connection, Running
<1>9. CASE ReadEnd
  BY <1>9 DEF ReadEnd, Disconnect, Connection, Running, link
<1>10. CASE DrawStep
  <2>1. thread' \in {"reading", "drawing"}
    BY <1>10 DEF DrawStep, Draw, Newline, WrapToTop, Put, Puts, Return, Drawing
  <2> QED
    BY <1>10, <2>1 DEF DrawStep, Connection, Running, link
<1>11. CASE UNCHANGED cvars
  BY <1>11 DEF cvars, vars, link, Connection, Running
<1> QED
  BY <1>1, <1>2, <1>3, <1>4, <1>5, <1>6, <1>7, <1>8, <1>9, <1>10, <1>11
     DEF ChatNext, MainThread, NetworkThread

(* The two threads and the server never wait for each other in a circle,   *)
(* for every size of the two directions of the connection, while there is  *)
(* a network thread (lab2.c:119): reading does not depend on writing.      *)
THEOREM NoCircularWait ==
  UpSize > 0 /\ DownSize > 0 => (ChatSpec => []SomebodyMoves)
<1> SUFFICES ASSUME UpSize > 0, DownSize > 0 PROVE ChatSpec => []SomebodyMoves
  OBVIOUS
<1>1. Connection => SomebodyMoves
  <2> SUFFICES ASSUME Connection, Blocked, created, thread # "drawing"
               PROVE  (up > 0 /\ down < DownSize) \/ (thread = "reading" /\ down > 0)
    BY DEF SomebodyMoves
  <2>1. thread = "reading" /\ up = UpSize
    BY DEF Connection, Blocked, Running
  <2>2. down < DownSize \/ down > 0
    BY ChatAssumption DEF Connection
  <2> QED
    BY <2>1, <2>2
<1> QED
  BY <1>1, ConnectionInit, ConnectionStep, PTL DEF ChatSpec
=============================================================================
