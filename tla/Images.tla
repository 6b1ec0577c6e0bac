--------------------------------- MODULE Images ---------------------------------
(***************************************************************************)
(* From a picture to the bytes for the panel: images.go, and where         *)
(* images.rs or the image crate it calls differ.  A picture is a width, a  *)
(* height and a pixel for each position, (0, 0) at the top left.           *)
(***************************************************************************)
EXTENDS Integers, Sequences

Picture(w, h, pixel(_, _)) == [w |-> w, h |-> h, at |-> [x \in 0..w-1 |-> [y \in 0..h-1 |-> pixel(x, y)]]]

ImageMode      == {"none", "bmp", "jpeg"}
ImageRotation  == {"Rot0", "Rot90", "Rot180", "Rot270"}
ImageMirroring == {"none", "x", "y", "both"}

\* The pixel, of a row of from, that position x of to shows: the image crate
\* starts from the middle of the position, the port from its edge.
Sampled(code, x, from, to) ==
  IF code = "rust" THEN ((2 * x + 1) * from) \div (2 * to) ELSE (x * from) \div to

\* What a new picture is filled with.
Black == <<>>

\* An empty picture has nothing to sample: the new one stays as it is.
resizeNearest(code, src, w, h) ==
  Picture(w, h, LAMBDA x, y :
    IF src.w = 0 \/ src.h = 0 THEN Black
    ELSE src.at[Sampled(code, x, src.w, w)][Sampled(code, y, src.h, h)])

\* Rot90 is clockwise.
applyRotation(src, rot) ==
  CASE rot = "Rot0"   -> src
    [] rot = "Rot90"  -> Picture(src.h, src.w, LAMBDA x, y : src.at[y][src.h - 1 - x])
    [] rot = "Rot180" -> Picture(src.w, src.h, LAMBDA x, y : src.at[src.w - 1 - x][src.h - 1 - y])
    [] rot = "Rot270" -> Picture(src.h, src.w, LAMBDA x, y : src.at[src.w - 1 - y][x])

applyMirror(src, m) ==
  Picture(src.w, src.h,
          LAMBDA x, y : src.at[IF m \in {"x", "both"} THEN src.w - 1 - x ELSE x]
                              [IF m \in {"y", "both"} THEN src.h - 1 - y ELSE y])

\* The pixels row by row, as into_rgb8 lists them.
Raw(p) == [n \in 0 .. p.w * p.h - 1 |-> p.at[n % p.w][n \div p.w]]

Padding == <<"padding">>
Channel == <<"b", "g", "r">>

\* Rows are padded to four bytes, and the bottom one comes first.
encodeBMP(raw, w, h) ==
  LET rowSize == ((w * 3 + 3) \div 4) * 4
  IN  [ width  |-> w,
        height |-> h,
        size   |-> 54 + rowSize * h,
        data   |-> [b \in 0 .. rowSize * h - 1 |->
                      LET row == h - 1 - (b \div rowSize)  column == b % rowSize IN
                        IF column < 3 * w
                        THEN <<raw[row * w + (column \div 3)], Channel[1 + (column % 3)]>>
                        ELSE Padding] ]

Resized(code, format, img) == resizeNearest(code, img, format.w, format.h)

\* Faulty variant of Transform: mirrored, then rotated.
MirrorFirst(code, format, img) ==
  applyRotation(applyMirror(Resized(code, format, img), format.mirror), format.rotation)

Transform(code, format, img) ==
  applyMirror(applyRotation(Resized(code, format, img), format.rotation), format.mirror)

\* Rust tells the encoder the size of the format, Go that of the rotated picture.
\* What a JPEG encoder makes of it is a number of bytes.
ConvertImageWithFormat(code, format, img) ==
  LET p == Transform(code, format, img)
  IN  CASE format.mode = "none" -> [size |-> 0]
        [] format.mode = "bmp"  -> IF code = "rust" THEN encodeBMP(Raw(p), format.w, format.h)
                                                    ELSE encodeBMP(Raw(p), p.w, p.h)

-----------------------------------------------------------------------------
(***************************************************************************)
(* What a bitmap shows, by the definition of the format: a row takes       *)
(* 4 * ceil(24 * width / 32) bytes, the first row is the lowest, a pixel   *)
(* is three bytes: blue, green, red.                                       *)
(***************************************************************************)
Stride(bmp) == 4 * ((24 * bmp.width + 31) \div 32)

Byte(bmp, x, y, c) == bmp.data[(bmp.height - 1 - y) * Stride(bmp) + 3 * x + c]

WellFormed(bmp) ==
  /\ bmp.size = 54 + Stride(bmp) * bmp.height
  /\ DOMAIN bmp.data = 0 .. Stride(bmp) * bmp.height - 1
  /\ \A x \in 0 .. bmp.width - 1, y \in 0 .. bmp.height - 1 :
       \E p \in {Byte(bmp, x, y, 0)[1]} :
         \A c \in 0..2 : Byte(bmp, x, y, c) = <<p, Channel[c + 1]>>

Shows(bmp) == Picture(bmp.width, bmp.height, LAMBDA x, y : Byte(bmp, x, y, 0)[1])

\* A quarter turn to the right: the left column becomes the top row.
Turn(p) == Picture(p.h, p.w, LAMBDA x, y : p.at[y][p.h - 1 - x])

\* What has to be turned on until it is upright again.
Upright(p, rotation) ==
  CASE rotation = "Rot0"   -> p
    [] rotation = "Rot90"  -> Turn(Turn(Turn(p)))
    [] rotation = "Rot180" -> Turn(Turn(p))
    [] rotation = "Rot270" -> Turn(p)

\* Of a row of from pixels stretched to positions 0..to-1, pixel v covers at least
\* part of position x.
Covers(v, from, x, to) == v * to < (x + 1) * from /\ x * from < (v + 1) * to
=============================================================================
