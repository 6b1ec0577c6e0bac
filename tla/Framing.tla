-------------------------------- MODULE Framing --------------------------------
(***************************************************************************)
(* How an image of `length' bytes is put on the wire: send_image announces *)
(* its length, then write_image_data_reports cuts it into reports.         *)
(* Of the bytes only their positions matter: the report of a round of the  *)
(* loop carries image_data[from .. upto - 1] and zeros.                    *)
(***************************************************************************)
EXTENDS Integers, Sequences

CONSTANTS
  PacketSizes,    \* payload bytes of a report: 512 or 1024 in the code
  Lengths         \* lengths of the images

ASSUME FramingAssumption ==
  /\ PacketSizes \subseteq Nat \ {0}
  /\ Lengths \subseteq Nat

VARIABLES
  packet_size,
  length,
  announced,          \* what the BAT header said; 0 before it was written
  page_number,
  bytes_remaining,
  stage,              \* "header", then "chunks", then "done"
  reports             \* the slices sent so far

vars == <<packet_size, length, announced, page_number, bytes_remaining, stage, reports>>

Slice == [from : Nat, upto : Nat]

\* Types: page_number and bytes_remaining of the chunk loop are usize, so that
\* bytes_remaining may never drop below zero (src/device.rs:610-629).
TypeOK ==
  /\ packet_size \in PacketSizes
  /\ length \in Lengths
  /\ announced \in Nat
  /\ page_number \in Nat
  /\ bytes_remaining \in Nat
  /\ stage \in {"header", "chunks", "done"}
  /\ reports \in Seq(Slice)

Init ==
  /\ packet_size \in PacketSizes
  /\ length \in Lengths
  /\ announced = 0
  /\ page_number = 0
  /\ bytes_remaining = length
  /\ stage = "header"
  /\ reports = <<>>

\* Two length bytes, (len >> 8) as u8 and len as u8.
Header ==
  /\ stage = "header"
  /\ announced' = length % 65536
  /\ stage' = "chunks"
  /\ UNCHANGED <<packet_size, length, page_number, bytes_remaining, reports>>

this_length == IF bytes_remaining < packet_size THEN bytes_remaining ELSE packet_size
bytes_sent  == page_number * packet_size

\* Faulty variant of Chunk: the last report is a byte too long.
ChunkPadded ==
  /\ stage = "chunks"
  /\ bytes_remaining > 0
  /\ reports' = Append(reports, [from |-> bytes_sent, upto |-> bytes_sent + this_length + 1])
  /\ bytes_remaining' = bytes_remaining - this_length
  /\ page_number' = page_number + 1
  /\ UNCHANGED <<packet_size, length, announced, stage>>

Chunk ==
  /\ stage = "chunks"
  /\ bytes_remaining > 0
  /\ reports' = Append(reports, [from |-> bytes_sent, upto |-> bytes_sent + this_length])
  /\ bytes_remaining' = bytes_remaining - this_length
  /\ page_number' = page_number + 1
  /\ UNCHANGED <<packet_size, length, announced, stage>>

\* Faulty variant of Finish: a last partial page is not sent.
FinishFull ==
  /\ stage = "chunks"
  /\ bytes_remaining < packet_size
  /\ stage' = "done"
  /\ UNCHANGED <<packet_size, length, announced, page_number, bytes_remaining, reports>>

Finish ==
  /\ stage = "chunks"
  /\ bytes_remaining = 0
  /\ stage' = "done"
  /\ UNCHANGED <<packet_size, length, announced, page_number, bytes_remaining, reports>>

Next == Header \/ Chunk \/ Finish

Spec == Init /\ [][Next]_vars

-----------------------------------------------------------------------------
\* No slice reaches past the end of the image: Rust and Go would panic
\* (src/device.rs:621, goport/internal/mirajazz/device.go:419).
InBounds ==
  \A n \in DOMAIN reports : reports[n].from < reports[n].upto /\ reports[n].upto <= length

\* The panel, which is told only a length, can put the image together: every
\* report but the last is full, each begins where the one before ended, and
\* there are exactly as many as the announced length asks for.  The header has
\* two bytes for it: an image of 64 KiB or more announces something else
\* (src/device.rs:438-439, goport/internal/mirajazz/device.go:392).
Reassembles ==
  /\ \A n \in DOMAIN reports :
       /\ reports[n].from = (n - 1) * packet_size
       /\ n < Len(reports) => reports[n].upto = n * packet_size
  /\ stage = "done" /\ length < 65536 =>
       /\ announced <= Len(reports) * packet_size
       /\ reports # <<>> => /\ (Len(reports) - 1) * packet_size < announced
                            /\ reports[Len(reports)].upto = announced
=============================================================================
