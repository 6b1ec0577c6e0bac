-------------------------------- MODULE Sending --------------------------------
(***************************************************************************)
(* Connecting, then a picture converted for a key (set_button_image), then *)
(* its bytes sent over the new handle (flush): Images and Framing with the *)
(* packet size that Connect has chosen.  Framing fixes size and length     *)
(* when it starts; behaviors in which they are not those of the handle and *)
(* the image send nothing.                                                 *)
(***************************************************************************)
EXTENDS Connect, Framing, Images

CONSTANTS
  Pictures,     \* <<width, height>> of the pictures an application draws
  Formats       \* the ImageFormats of its keys

ASSUME SendingAssumption ==
  /\ Pictures \subseteq Nat \X Nat
  /\ \A f \in Formats : /\ f.w \in Nat /\ f.h \in Nat
                        /\ f.rotation \in ImageRotation /\ f.mirror \in ImageMirroring

VARIABLE image  \* [stage |-> "none"], then what the conversion made

NoPicture == [stage |-> "none"]

\* The colour of a pixel is its position.
Drawn(size) == Picture(size[1], size[2], LAMBDA x, y : <<x, y>>)

SendingInit == ConnectInit /\ Init /\ image = NoPicture

\* A JPEG may have any length, or fail to be encoded; an unknown mode is an error
\* in Go and does not exist in Rust.
ConvertImage ==
  /\ phase = "connected" /\ image = NoPicture
  /\ \E size \in Pictures, format \in Formats :
       \/ /\ format.mode \in {"none", "bmp"}
          /\ LET made == ConvertImageWithFormat(code, format, Drawn(size)) IN
               /\ made.size = length
               /\ image' = [stage |-> "made", mode |-> format.mode, format |-> format, size |-> size, bytes |-> made]
       \/ /\ format.mode = "jpeg"
          /\ image' = [stage |-> "made", mode |-> "jpeg"]
       \/ /\ format.mode \in ImageMode => format.mode = "jpeg"
          /\ format.mode \notin ImageMode => code = "go"
          /\ image' = [stage |-> "failed"]
  /\ UNCHANGED <<connection, vars>>

Send ==
  /\ phase = "connected"
  /\ image.stage = "made"
  /\ packet_size = handle.packet_size
  /\ Next
  /\ UNCHANGED <<connection, image>>

SendingNext == (ConnectNext /\ UNCHANGED <<vars, image>>) \/ ConvertImage \/ Send

SendingSpec == SendingInit /\ [][SendingNext]_<<connection, vars, image>>

-----------------------------------------------------------------------------
\* A handle has the parameters that README.md:21-62 gives for its version:
\* although packet size and version are decided apart (src/device.rs:254-272,
\* goport/internal/mirajazz/device.go:87-96), there is no version 0 with large
\* packets, none above it without a serial number of its own except version 1,
\* and no image is sent in packets of the wrong size.
FitsTable ==
  phase = "connected" =>
    /\ handle.version \in 0..3
    /\ handle.version = 0 <=> serial = NoSerial
    /\ handle.serial = IF handle.version <= 1 THEN HardcodedSerial ELSE serial
    /\ handle.both = (handle.version = 3)
    /\ handle.packet_size = IF handle.version <= 1 THEN 512 ELSE 1024

\* Seen the right way round, a bitmap shows the picture that was drawn, stretched
\* to the size of the key: whatever the sizes, no pixel lands in another row, on
\* the padding or on the wrong side (goport/internal/mirajazz/images.go:68-199);
\* of an empty picture it is black.
\* In Rust this holds as long as the turned picture has the size of the format
\* (src/images.rs:39-55).
ShowsThePicture ==
  image.stage = "made" /\ image.mode = "bmp" =>
    LET f == image.format  w == image.size[1]  h == image.size[2]  bmp == image.bytes
        seen == Upright(applyMirror(Shows(bmp), f.mirror), f.rotation)
    IN  \/ code = "rust" /\ f.w # f.h /\ f.rotation \in {"Rot90", "Rot270"}
        \/ /\ WellFormed(bmp)
           /\ seen.w = f.w /\ seen.h = f.h
           /\ \A x \in 0 .. f.w - 1, y \in 0 .. f.h - 1 :
                IF w = 0 \/ h = 0
                THEN seen.at[x][y] = Black
                ELSE /\ Covers(seen.at[x][y][1], w, x, f.w)
                     /\ Covers(seen.at[x][y][2], h, y, f.h)
=============================================================================
