------------------------------ MODULE MCFraming ------------------------------
(***************************************************************************)
(* Instances of Sending.                                                   *)
(***************************************************************************)
EXTENDS Sending

\* No image, and lengths around one to four reports of 512 bytes, and around
\* the largest length that two bytes can announce; and those of small bitmaps.
Edges == {0, 1} \cup {512 * n + d : n \in 1..4, d \in {-1, 0, 1}} \cup 65535..65537
Bitmaps == {54 + 4 * n : n \in 0..6}
AllLengths == Edges \cup Bitmaps

\* Upright and flat, square, one pixel, none; all ways to turn and mirror.
Sizes   == {<<0, 2>>, <<1, 1>>, <<2, 2>>, <<2, 3>>, <<3, 2>>, <<4, 1>>}
Format(mode, size, rotation, mirror) ==
  [mode |-> mode, w |-> size[1], h |-> size[2], rotation |-> rotation, mirror |-> mirror]
Keys    == {Format("bmp", size, rotation, mirror) :
              size \in {<<1, 1>>, <<2, 2>>, <<2, 3>>, <<4, 1>>, <<0, 2>>},
              rotation \in ImageRotation, mirror \in ImageMirroring}
Others  == {Format(mode, <<2, 2>>, "Rot0", "none") : mode \in {"none", "jpeg", "unknown"}}
AllFormats == Keys \cup Others
=============================================================================
