---------------------------- MODULE Sending_proofs ----------------------------
(***************************************************************************)
(* Theorems about Sending.                                                 *)
(***************************************************************************)
EXTENDS Sending, Framing_proofs

\* A call that has come past a check has passed it.
Checked ==
  /\ requested \in 0..4
  /\ phase \in {"found", "read", "resolved"} => requested \in 1..3
  /\ phase = "resolved" => requested = 1 \/ serial # NoSerial

CInv == Checked /\ FitsTable

\* Every step of connecting keeps to the checks and to the table.
LEMMA ConnectStep ==
  ASSUME CInv, ConnectNext
  PROVE  CInv'
<1>0. CASE OpenFirst
  BY <1>0 DEF OpenFirst, CInv, Checked, FitsTable
<1>1. CASE RejectVersion
  BY <1>1 DEF RejectVersion, CInv, Checked, FitsTable
<1>2. CASE QueryDevice
  BY <1>2 DEF QueryDevice, CInv, Checked, FitsTable
<1>3. CASE ReadFirmware
  BY <1>3 DEF ReadFirmware, CInv, Checked, FitsTable
<1>4. CASE ResolveSerial
  BY <1>4 DEF ResolveSerial, CInv, Checked, FitsTable
<1>5. CASE MakeHandle
  <2>1. Checked'
    BY <1>5 DEF MakeHandle, CInv, Checked
  <2>2. CASE phase' = "failed"
    BY <2>1, <2>2 DEF CInv, FitsTable
  <2>3. CASE phase' = "connected"
    <3>1. /\ requested \in 1..3
          /\ requested = 1 \/ serial # NoSerial
          /\ serial' = serial
          /\ handle' = [version     |-> override_protocol_version,
                        serial      |-> IF requested = 1 THEN HardcodedSerial ELSE serial,
                        both        |-> override_protocol_version > 2,
                        packet_size |-> IF requested >= 2 THEN 1024 ELSE 512]
      BY <1>5, <2>3 DEF MakeHandle, CInv, Checked
    <3>2. CASE serial = NoSerial
      BY <2>1, <3>1, <3>2 DEF CInv, FitsTable, override_protocol_version
    <3>3. CASE serial # NoSerial
      BY <2>1, <3>1, <3>3 DEF CInv, FitsTable, override_protocol_version
    <3> QED
      BY <3>2, <3>3
  <2> QED
    BY <1>5, <2>2, <2>3 DEF MakeHandle
<1> QED
  BY <1>0, <1>1, <1>2, <1>3, <1>4, <1>5 DEF ConnectNext

\* Whatever version is asked for and whatever the device reports, a handle that
\* is returned has the parameters of its version, and keeps them.
THEOREM HandleFitsTable == SendingSpec => []FitsTable
<1>1. SendingInit => CInv
  BY DEF SendingInit, ConnectInit, CInv, Checked, FitsTable
<1>2. CInv /\ [SendingNext]_<<connection, vars, image>> => CInv'
  <2> SUFFICES ASSUME CInv, [SendingNext]_<<connection, vars, image>> PROVE CInv'
    OBVIOUS
  <2>1. CASE ConnectNext
    BY <2>1, ConnectStep
  <2>2. CASE UNCHANGED connection
    BY <2>2 DEF connection, CInv, Checked, FitsTable
  <2> QED
    BY <2>1, <2>2 DEF SendingNext, ConvertImage, Send
<1>3. CInv => FitsTable
  BY DEF CInv
<1> QED
  BY <1>1, <1>2, <1>3, PTL DEF SendingSpec

\* What Framing promises of an image holds of one sent over a new handle.
THEOREM SentImagesReassemble == SendingSpec => [](InBounds /\ Reassembles)
<1>1. SendingInit => IInv
  BY InitIInv DEF SendingInit
<1>2. IInv /\ [SendingNext]_<<connection, vars, image>> => IInv'
  BY NextIInv DEF SendingNext, ConvertImage, Send
<1>3. IInv => InBounds /\ Reassembles
  BY IInvReassembles DEF IInv
<1> QED
  BY <1>1, <1>2, <1>3, PTL DEF SendingSpec

-----------------------------------------------------------------------------
(* The picture on the key: every pixel of the bitmap that is sent comes    *)
(* from the part of the drawn picture that its position shows.             *)

\* A quotient and its remainder.
LEMMA Quotient ==
  ASSUME NEW a \in Nat, NEW b \in Nat \ {0}
  PROVE  a \div b \in Nat /\ (a \div b) * b <= a /\ a < (a \div b) * b + b
OBVIOUS

\* The column of a byte, or pixel, is the remainder of its place by the length
\* of a row, and its row the quotient.
LEMMA Place ==
  ASSUME NEW n \in Nat \ {0}, NEW row \in Nat, NEW column \in 0 .. n - 1
  PROVE  (row * n + column) \div n = row /\ (row * n + column) % n = column
OBVIOUS

\* A place in one of some rows is one of the places there are.
LEMMA PlaceInside ==
  ASSUME NEW n \in Nat, NEW rows \in Nat, NEW row \in 0 .. rows - 1, NEW column \in 0 .. n - 1
  PROVE  row * n + column \in 0 .. n * rows - 1
<1>1. (row + 1) * n <= rows * n /\ (row + 1) * n = row * n + n /\ row * n \in Nat /\ rows * n = n * rows
      /\ n * rows \in Nat
  OBVIOUS
<1> QED
  BY <1>1

\* The padded row of the encoders is that of the format, and holds the pixels.
LEMMA RowSize ==
  ASSUME NEW w \in Nat
  PROVE  /\ 4 * ((24 * w + 31) \div 32) = ((w * 3 + 3) \div 4) * 4
         /\ ((w * 3 + 3) \div 4) * 4 \in Nat /\ 3 * w <= ((w * 3 + 3) \div 4) * 4
OBVIOUS

\* A position of the resized row shows a pixel that is there, and covers part
\* of the position: for the crate's sampling and for the port's.
LEMMA SampleCovers ==
  ASSUME NEW c \in {"rust", "go"}, NEW from \in Nat \ {0}, NEW to \in Nat, NEW x \in 0 .. to - 1
  PROVE  Sampled(c, x, from, to) \in 0 .. from - 1 /\ Covers(Sampled(c, x, from, to), from, x, to)
<1>1. /\ x * from \in Nat /\ (2 * x + 1) * from \in Nat /\ to \in Nat \ {0} /\ 2 * to \in Nat \ {0}
      /\ (2 * x + 1) * from = 2 * (x * from) + from
      /\ (x + 1) * from = x * from + from
      /\ (x + 1) * from <= to * from /\ to * from = from * to /\ to * from \in Nat
  OBVIOUS
<1>2. ASSUME NEW v \in Nat, v * to < (x + 1) * from PROVE v \in 0 .. from - 1
  <2>1. v * to < from * to
    <3>1. v * to \in Nat /\ (x + 1) * from \in Nat
      OBVIOUS
    <3> QED
      BY <1>1, <1>2, <3>1
  <2>2. v >= from => v * to >= from * to
    BY <1>1
  <2> QED
    BY <2>1, <2>2
<1>3. CASE c = "go"
  <2> DEFINE v == (x * from) \div to
  <2>1. v \in Nat /\ v * to <= x * from /\ x * from < v * to + to
    BY <1>1, Quotient
  <2>2. Sampled(c, x, from, to) = v
    BY <1>3 DEF Sampled
  <2> HIDE DEF v
  <2>3. (v + 1) * to = v * to + to /\ v * to \in Nat
    BY <2>1
  <2>4. Covers(v, from, x, to)
    BY <1>1, <2>1, <2>3 DEF Covers
  <2> QED
    BY <1>2, <2>1, <2>2, <2>4 DEF Covers
<1>4. CASE c = "rust"
  <2> DEFINE v == ((2 * x + 1) * from) \div (2 * to)
  <2>1. v \in Nat /\ v * (2 * to) <= (2 * x + 1) * from /\ (2 * x + 1) * from < v * (2 * to) + 2 * to
    BY <1>1, Quotient
  <2>2. Sampled(c, x, from, to) = v
    BY <1>4 DEF Sampled
  <2> HIDE DEF v
  <2>3. (v + 1) * to = v * to + to /\ v * to \in Nat /\ v * (2 * to) = 2 * (v * to)
    BY <2>1
  <2>4. Covers(v, from, x, to)
    BY <1>1, <2>1, <2>3 DEF Covers
  <2> QED
    BY <1>2, <2>1, <2>2, <2>4 DEF Covers
<1> QED
  BY <1>3, <1>4

\* Two pictures that show the same.
Same(p, q) ==
  /\ p.w = q.w /\ p.h = q.h
  /\ \A x \in 0 .. p.w - 1 : \A y \in 0 .. p.h - 1 : p.at[x][y] = q.at[x][y]

\* A picture has a width and a height.
Sized(p) == p.w \in Nat /\ p.h \in Nat

\* A position has one opposite to it.
LEMMA Opposite ==
  ASSUME NEW n \in Nat, NEW x \in 0 .. n - 1
  PROVE  n - 1 - x \in 0 .. n - 1 /\ n - 1 - (n - 1 - x) = x
OBVIOUS

\* A picture mirrored twice is as it was.
LEMMA MirroredBack ==
  ASSUME NEW p, NEW q, NEW m, Sized(p), Same(q, applyMirror(p, m))
  PROVE  Same(applyMirror(q, m), p)
<1> DEFINE across(x) == IF m \in {"x", "both"} THEN p.w - 1 - x ELSE x
           down(y)   == IF m \in {"y", "both"} THEN p.h - 1 - y ELSE y
<1>1. /\ \A x \in 0 .. p.w - 1 : across(x) \in 0 .. p.w - 1 /\ across(across(x)) = x
      /\ \A y \in 0 .. p.h - 1 : down(y) \in 0 .. p.h - 1 /\ down(down(y)) = y
  BY Opposite DEF Sized
<1>2. /\ q.w = p.w /\ q.h = p.h
      /\ \A x \in 0 .. p.w - 1 : \A y \in 0 .. p.h - 1 : q.at[x][y] = p.at[across(x)][down(y)]
  <2> DEFINE r == applyMirror(p, m)
  <2>1. /\ r.w = p.w /\ r.h = p.h
        /\ \A x \in 0 .. p.w - 1 : \A y \in 0 .. p.h - 1 : r.at[x][y] = p.at[across(x)][down(y)]
    BY DEF applyMirror, Picture
  <2> HIDE DEF across, down
  <2> QED
    <3>1. /\ q.w = r.w /\ q.h = r.h
          /\ \A x \in 0 .. q.w - 1 : \A y \in 0 .. q.h - 1 : q.at[x][y] = r.at[x][y]
      BY DEF Same
    <3> HIDE DEF r
    <3> QED
      BY <2>1, <3>1
<1>3. /\ applyMirror(q, m).w = p.w /\ applyMirror(q, m).h = p.h
      /\ \A x \in 0 .. p.w - 1 : \A y \in 0 .. p.h - 1 : applyMirror(q, m).at[x][y] = q.at[across(x)][down(y)]
  BY <1>2 DEF applyMirror, Picture
<1> HIDE DEF across, down
<1> QED
  BY <1>1, <1>2, <1>3 DEF Same

\* A picture turned and put upright is as it was.
LEMMA TurnedBack ==
  ASSUME NEW p, NEW q, NEW rot \in ImageRotation, Sized(p), Same(q, applyRotation(p, rot))
  PROVE  Same(Upright(q, rot), p)
<1>0. \A x \in 0 .. p.w - 1 : p.w - 1 - x \in 0 .. p.w - 1 /\ p.w - 1 - (p.w - 1 - x) = x
  BY Opposite DEF Sized
<1>1. \A y \in 0 .. p.h - 1 : p.h - 1 - y \in 0 .. p.h - 1 /\ p.h - 1 - (p.h - 1 - y) = y
  BY Opposite DEF Sized
<1>2. ASSUME NEW s
      PROVE  /\ Turn(s).w = s.h /\ Turn(s).h = s.w
             /\ \A x \in 0 .. s.h - 1 : \A y \in 0 .. s.w - 1 : Turn(s).at[x][y] = s.at[y][s.h - 1 - x]
  BY DEF Turn, Picture
<1>3. CASE rot = "Rot0"
  <2>1. applyRotation(p, rot) = p /\ Upright(q, rot) = q
    BY <1>3 DEF applyRotation, Upright
  <2> QED
    BY <2>1
<1>4. CASE rot = "Rot90"
  <2>1. applyRotation(p, rot) = Turn(p) /\ Upright(q, rot) = Turn(Turn(Turn(q)))
    BY <1>4, Zenon DEF applyRotation, Upright, Turn
  <2>2. /\ q.w = p.h /\ q.h = p.w
        /\ \A x \in 0 .. p.h - 1 : \A y \in 0 .. p.w - 1 : q.at[x][y] = p.at[y][p.h - 1 - x]
    BY <1>2, <2>1 DEF Same
  <2>3. /\ Turn(q).w = p.w /\ Turn(q).h = p.h
        /\ \A x \in 0 .. p.w - 1 : \A y \in 0 .. p.h - 1 :
             Turn(q).at[x][y] = p.at[p.w - 1 - x][p.h - 1 - y]
    BY <1>0, <1>2, <2>2
  <2>4. /\ Turn(Turn(q)).w = p.h /\ Turn(Turn(q)).h = p.w
        /\ \A x \in 0 .. p.h - 1 : \A y \in 0 .. p.w - 1 :
             Turn(Turn(q)).at[x][y] = p.at[p.w - 1 - y][x]
    BY <1>1, <1>2, <2>3
  <2>5. /\ Turn(Turn(Turn(q))).w = p.w /\ Turn(Turn(Turn(q))).h = p.h
        /\ \A x \in 0 .. p.w - 1 : \A y \in 0 .. p.h - 1 :
             Turn(Turn(Turn(q))).at[x][y] = p.at[x][y]
    BY <1>0, <1>2, <2>4
  <2> QED
    BY <2>1, <2>5 DEF Same
<1>5. CASE rot = "Rot180"
  <2>1. Upright(q, rot) = Turn(Turn(q))
    BY <1>5 DEF Upright
  <2>2. /\ q.w = p.w /\ q.h = p.h
        /\ \A x \in 0 .. p.w - 1 : \A y \in 0 .. p.h - 1 :
             q.at[x][y] = p.at[p.w - 1 - x][p.h - 1 - y]
    <3>1. /\ applyRotation(p, rot).w = p.w /\ applyRotation(p, rot).h = p.h
          /\ \A x \in 0 .. p.w - 1 : \A y \in 0 .. p.h - 1 :
               applyRotation(p, rot).at[x][y] = p.at[p.w - 1 - x][p.h - 1 - y]
      BY <1>5 DEF applyRotation, Picture
    <3> QED
      BY <3>1 DEF Same
  <2>3. /\ Turn(q).w = p.h /\ Turn(q).h = p.w
        /\ \A x \in 0 .. p.h - 1 : \A y \in 0 .. p.w - 1 : Turn(q).at[x][y] = p.at[p.w - 1 - y][x]
    BY <1>1, <1>2, <2>2
  <2>4. /\ Turn(Turn(q)).w = p.w /\ Turn(Turn(q)).h = p.h
        /\ \A x \in 0 .. p.w - 1 : \A y \in 0 .. p.h - 1 : Turn(Turn(q)).at[x][y] = p.at[x][y]
    BY <1>0, <1>2, <2>3
  <2> QED
    BY <2>1, <2>4 DEF Same
<1>6. CASE rot = "Rot270"
  <2>1. Upright(q, rot) = Turn(q)
    BY <1>6 DEF Upright
  <2>2. /\ q.w = p.h /\ q.h = p.w
        /\ \A x \in 0 .. p.h - 1 : \A y \in 0 .. p.w - 1 : q.at[x][y] = p.at[p.w - 1 - y][x]
    <3>1. /\ applyRotation(p, rot).w = p.h /\ applyRotation(p, rot).h = p.w
          /\ \A x \in 0 .. p.h - 1 : \A y \in 0 .. p.w - 1 :
               applyRotation(p, rot).at[x][y] = p.at[p.w - 1 - y][x]
      BY <1>6 DEF applyRotation, Picture
    <3> QED
      BY <3>1 DEF Same
  <2>3. /\ Turn(q).w = p.w /\ Turn(q).h = p.h
        /\ \A x \in 0 .. p.w - 1 : \A y \in 0 .. p.h - 1 : Turn(q).at[x][y] = p.at[x][y]
    BY <1>0, <1>2, <2>2
  <2> QED
    BY <2>1, <2>3 DEF Same
<1> QED
  BY <1>3, <1>4, <1>5, <1>6 DEF ImageRotation

\* A bitmap is well formed and shows the picture that was encoded.
LEMMA EncodedShows ==
  ASSUME NEW p, Sized(p), NEW bmp, bmp = encodeBMP(Raw(p), p.w, p.h)
  PROVE  WellFormed(bmp) /\ Same(Shows(bmp), p)
<1> DEFINE w == p.w  h == p.h
           rowSize == ((w * 3 + 3) \div 4) * 4
<1>1. w \in Nat /\ h \in Nat /\ rowSize \in Nat /\ 3 * w <= rowSize
  BY RowSize DEF Sized
<1>2. /\ bmp.width = w /\ bmp.height = h /\ bmp.size = 54 + rowSize * h
      /\ bmp.data = [b \in 0 .. rowSize * h - 1 |->
                      LET row == h - 1 - (b \div rowSize)  column == b % rowSize IN
                        IF column < 3 * w
                        THEN <<Raw(p)[row * w + (column \div 3)], Channel[1 + (column % 3)]>>
                        ELSE Padding]
  BY DEF encodeBMP
<1>3. Stride(bmp) = rowSize
  BY <1>1, <1>2, RowSize DEF Stride
<1>4. ASSUME NEW x \in 0 .. w - 1, NEW y \in 0 .. h - 1, NEW c \in 0 .. 2
      PROVE  Byte(bmp, x, y, c) = <<p.at[x][y], Channel[c + 1]>>
  <2> HIDE DEF rowSize
  <2> DEFINE b == (h - 1 - y) * rowSize + 3 * x + c
             row == h - 1 - y
             column == 3 * x + c
  <2>1. /\ row \in 0 .. h - 1 /\ row \in Nat /\ h - 1 - row = y
        /\ column \in 0 .. rowSize - 1 /\ column < 3 * w
        /\ rowSize \in Nat \ {0}
        /\ column \div 3 = x /\ column % 3 = c
    BY <1>1
  <2>2. b = row * rowSize + column
    BY <1>1
  <2>4. Byte(bmp, x, y, c) = bmp.data[b]
    BY <1>2, <1>3 DEF Byte
  <2> HIDE DEF b, row, column
  <2>3. b \in 0 .. rowSize * h - 1 /\ b \div rowSize = row /\ b % rowSize = column
    BY <1>1, <2>1, <2>2, Place, PlaceInside
  <2>5. bmp.data[b] = <<Raw(p)[y * w + x], Channel[1 + c]>>
    <3>1. bmp.data[b] = IF b % rowSize < 3 * w
                        THEN <<Raw(p)[(h - 1 - (b \div rowSize)) * w + ((b % rowSize) \div 3)],
                               Channel[1 + ((b % rowSize) % 3)]>>
                        ELSE Padding
      BY <1>2, <2>3
    <3> QED
      BY <2>1, <2>3, <3>1
  <2>6. y * w + x \in 0 .. w * h - 1 /\ (y * w + x) % w = x /\ (y * w + x) \div w = y
    <3>1. w \in Nat \ {0} /\ y \in Nat
      BY <1>1
    <3> QED
      BY <1>1, <3>1, Place, PlaceInside
  <2>7. Raw(p)[y * w + x] = p.at[x][y]
    BY <2>6 DEF Raw
  <2> QED
    BY <2>4, <2>5, <2>7
<1>5. Same(Shows(bmp), p)
  <2>1. Shows(bmp).w = w /\ Shows(bmp).h = h
    BY <1>2 DEF Shows, Picture
  <2>2. ASSUME NEW x \in 0 .. w - 1, NEW y \in 0 .. h - 1
        PROVE  Shows(bmp).at[x][y] = p.at[x][y]
    <3>1. Shows(bmp).at[x][y] = Byte(bmp, x, y, 0)[1]
      BY <1>2 DEF Shows, Picture
    <3>2. Byte(bmp, x, y, 0) = <<p.at[x][y], Channel[1]>>
      BY <1>4
    <3> QED
      BY <3>1, <3>2
  <2> QED
    BY <2>1, <2>2 DEF Same
<1>6. WellFormed(bmp)
  <2>1. bmp.size = 54 + Stride(bmp) * bmp.height /\ DOMAIN bmp.data = 0 .. Stride(bmp) * bmp.height - 1
    BY <1>2, <1>3
  <2>2. ASSUME NEW x \in 0 .. w - 1, NEW y \in 0 .. h - 1, NEW c \in 0 .. 2
        PROVE  Byte(bmp, x, y, c) = <<Byte(bmp, x, y, 0)[1], Channel[c + 1]>>
    <3>1. Byte(bmp, x, y, 0) = <<p.at[x][y], Channel[1]>> /\ Byte(bmp, x, y, c) = <<p.at[x][y], Channel[c + 1]>>
      BY <1>4
    <3> QED
      BY <3>1
  <2> QED
    BY <1>2, <2>1, <2>2 DEF WellFormed
<1> QED
  BY <1>5, <1>6

\* Sizes of what turning and mirroring make.
LEMMA TurnedSize ==
  ASSUME NEW p, Sized(p), NEW rot \in ImageRotation, NEW m
  PROVE  /\ Sized(applyRotation(p, rot))
         /\ rot \in {"Rot0", "Rot180"} \/ p.w = p.h =>
              applyRotation(p, rot).w = p.w /\ applyRotation(p, rot).h = p.h
         /\ applyMirror(p, m).w = p.w /\ applyMirror(p, m).h = p.h
<1>1. CASE rot = "Rot0"
  BY <1>1 DEF Sized, applyRotation, applyMirror, Picture
<1>2. CASE rot = "Rot90"
  BY <1>2 DEF Sized, applyRotation, applyMirror, Picture
<1>3. CASE rot = "Rot180"
  BY <1>3 DEF Sized, applyRotation, applyMirror, Picture
<1>4. CASE rot = "Rot270"
  BY <1>4 DEF Sized, applyRotation, applyMirror, Picture
<1> QED
  BY <1>1, <1>2, <1>3, <1>4 DEF ImageRotation

\* What a bitmap that a conversion made shows, turned the way the key is
\* mounted, is the resized picture.
LEMMA ConvertedShows ==
  ASSUME NEW c \in {"rust", "go"}, NEW f \in Formats, f.mode = "bmp", NEW src,
         c = "rust" => f.rotation \in {"Rot0", "Rot180"} \/ f.w = f.h,
         NEW bmp, bmp = ConvertImageWithFormat(c, f, src)
  PROVE  /\ WellFormed(bmp)
         /\ Same(Upright(applyMirror(Shows(bmp), f.mirror), f.rotation), Resized(c, f, src))
<1> DEFINE R == Resized(c, f, src)
           Q == applyRotation(R, f.rotation)
           p == applyMirror(Q, f.mirror)
<1>1. f.w \in Nat /\ f.h \in Nat /\ f.rotation \in ImageRotation
  BY SendingAssumption
<1>2. R.w = f.w /\ R.h = f.h /\ Sized(R)
  BY <1>1 DEF Resized, resizeNearest, Picture, Sized
<1>3. p = Transform(c, f, src)
  BY DEF Transform
<1> HIDE DEF R
<1>4. Sized(Q) /\ (f.rotation \in {"Rot0", "Rot180"} \/ f.w = f.h => Q.w = f.w /\ Q.h = f.h)
  BY <1>1, <1>2, TurnedSize
<1> HIDE DEF Q
<1>5. p.w = Q.w /\ p.h = Q.h /\ Sized(p)
  BY <1>1, <1>4, TurnedSize DEF Sized
<1> HIDE DEF p
<1>6. bmp = encodeBMP(Raw(p), p.w, p.h)
  <2>1. bmp = IF c = "rust" THEN encodeBMP(Raw(p), f.w, f.h) ELSE encodeBMP(Raw(p), p.w, p.h)
    BY <1>3 DEF ConvertImageWithFormat
  <2> QED
    BY <1>4, <1>5, <2>1
<1>7. WellFormed(bmp) /\ Same(Shows(bmp), p)
  BY <1>5, <1>6, EncodedShows
<1>8. Same(applyMirror(Shows(bmp), f.mirror), Q)
  BY <1>4, <1>7, MirroredBack DEF p
<1>9. Same(Upright(applyMirror(Shows(bmp), f.mirror), f.rotation), R)
  BY <1>1, <1>2, <1>8, TurnedBack DEF Q
<1> QED
  BY <1>7, <1>9 DEF R

\* A bitmap that is made was made from a picture for a key.
Made ==
  image.stage = "made" /\ image.mode = "bmp" =>
    /\ image.size \in Pictures
    /\ image.format \in Formats /\ image.format.mode = "bmp"
    /\ image.bytes = ConvertImageWithFormat(code, image.format, Drawn(image.size))

\* Whatever the picture, the key's size, the way it is mounted and mirrored:
\* the bitmap that is sent, seen upright, shows at every position the part of
\* the picture that belongs there (src/images.rs:9-52,
\* goport/internal/mirajazz/images.go:22-199).
THEOREM PicturesShow == SendingSpec => []ShowsThePicture
<1> DEFINE MInv == code \in {"rust", "go"} /\ Made
<1>1. SendingInit => MInv
  BY DEF SendingInit, ConnectInit, Made, NoPicture
<1>2. MInv /\ [SendingNext]_<<connection, vars, image>> => MInv'
  <2> SUFFICES ASSUME MInv, [SendingNext]_<<connection, vars, image>> PROVE MInv'
    OBVIOUS
  <2>1. code' = code
    <3>1. ConnectNext => code' = code
      BY DEF ConnectNext, OpenFirst, RejectVersion, QueryDevice, ReadFirmware, ResolveSerial, MakeHandle
    <3> QED
      BY <3>1 DEF SendingNext, ConvertImage, Send, connection
  <2>2. CASE image' = image
    BY <2>1, <2>2 DEF Made
  <2>3. CASE ConvertImage
    <3>1. PICK size \in Pictures, format \in Formats :
       \/ /\ format.mode \in {"none", "bmp"}
          /\ image' = [stage |-> "made", mode |-> format.mode, format |-> format, size |-> size,
                       bytes |-> ConvertImageWithFormat(code, format, Drawn(size))]
       \/ image' = [stage |-> "made", mode |-> "jpeg"]
       \/ image' = [stage |-> "failed"]
      BY <2>3 DEF ConvertImage
    <3>2. CASE image'.stage = "made" /\ image'.mode = "bmp"
      <4>1. image' = [stage |-> "made", mode |-> format.mode, format |-> format, size |-> size,
                      bytes |-> ConvertImageWithFormat(code, format, Drawn(size))]
        BY <3>1, <3>2
      <4> QED
        BY <2>1, <3>2, <4>1 DEF Made
    <3> QED
      BY <2>1, <3>2 DEF Made
  <2> QED
    BY <2>2, <2>3 DEF SendingNext, Send
<1>3. MInv => ShowsThePicture
  <2> SUFFICES ASSUME code \in {"rust", "go"}, Made, image.stage = "made", image.mode = "bmp"
               PROVE  ShowsThePicture
    BY DEF ShowsThePicture
  <2> DEFINE f == image.format
             w == image.size[1]
             h == image.size[2]
             bmp == image.bytes
             seen == Upright(applyMirror(Shows(bmp), f.mirror), f.rotation)
             R == Resized(code, f, Drawn(image.size))
  <2>1. /\ image.size \in Pictures /\ f \in Formats /\ f.mode = "bmp"
        /\ bmp = ConvertImageWithFormat(code, f, Drawn(image.size))
    BY DEF Made
  <2>2. w \in Nat /\ h \in Nat /\ f.w \in Nat /\ f.h \in Nat /\ f.rotation \in ImageRotation
    BY <2>1, SendingAssumption
  <2>3. CASE code = "rust" /\ f.w # f.h /\ f.rotation \in {"Rot90", "Rot270"}
    BY <2>3 DEF ShowsThePicture
  <2>4. CASE ~(code = "rust" /\ f.w # f.h /\ f.rotation \in {"Rot90", "Rot270"})
    <3>1. code = "rust" => f.rotation \in {"Rot0", "Rot180"} \/ f.w = f.h
      BY <2>2, <2>4 DEF ImageRotation
    <3>2. WellFormed(bmp) /\ Same(seen, R)
      BY <2>1, <3>1, ConvertedShows
    <3>3. R.w = f.w /\ R.h = f.h
      BY DEF Resized, resizeNearest, Picture
    <3>4. ASSUME NEW x \in 0 .. f.w - 1, NEW y \in 0 .. f.h - 1
          PROVE  IF w = 0 \/ h = 0 THEN R.at[x][y] = Black
                 ELSE Covers(R.at[x][y][1], w, x, f.w) /\ Covers(R.at[x][y][2], h, y, f.h)
      <4> DEFINE a == Sampled(code, x, w, f.w)
                 b == Sampled(code, y, h, f.h)
      <4>0. /\ Drawn(image.size).w = w /\ Drawn(image.size).h = h
            /\ w = 0 \/ h = 0 => R.at[x][y] = Black
        BY DEF Drawn, Picture, Resized, resizeNearest
      <4> SUFFICES ASSUME w # 0, h # 0
                   PROVE  Covers(R.at[x][y][1], w, x, f.w) /\ Covers(R.at[x][y][2], h, y, f.h)
        BY <4>0
      <4>1. a \in 0 .. w - 1 /\ Covers(a, w, x, f.w)
        BY <2>2, SampleCovers
      <4>2. b \in 0 .. h - 1 /\ Covers(b, h, y, f.h)
        BY <2>2, SampleCovers
      <4>3. /\ Drawn(image.size).w = w /\ Drawn(image.size).h = h
            /\ Drawn(image.size).at[a][b] = <<a, b>>
        BY <4>1, <4>2 DEF Drawn, Picture
      <4>4. R.at[x][y] = Drawn(image.size).at[a][b]
        BY <2>2, <4>0 DEF Resized, resizeNearest, Picture
      <4>5. R.at[x][y] = <<a, b>>
        BY <4>3, <4>4
      <4> HIDE DEF a, b
      <4>6. R.at[x][y][1] = a /\ R.at[x][y][2] = b
        BY <4>5
      <4> QED
        BY <4>1, <4>2, <4>6
    <3>5. ASSUME NEW x \in 0 .. f.w - 1, NEW y \in 0 .. f.h - 1
          PROVE  IF w = 0 \/ h = 0 THEN seen.at[x][y] = Black
                 ELSE Covers(seen.at[x][y][1], w, x, f.w) /\ Covers(seen.at[x][y][2], h, y, f.h)
      <4>1. seen.at[x][y] = R.at[x][y]
        BY <3>2, <3>3 DEF Same
      <4> QED
        BY <3>4, <4>1
    <3>6. seen.w = f.w /\ seen.h = f.h
      BY <3>2, <3>3 DEF Same
    <3> HIDE DEF seen
    <3> QED
      BY <3>2, <3>5, <3>6 DEF ShowsThePicture, seen
  <2> QED
    BY <2>3, <2>4
<1> QED
  BY <1>1, <1>2, <1>3, PTL DEF SendingSpec
=============================================================================
