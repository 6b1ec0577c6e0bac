---------------------------- MODULE Framing_proofs ----------------------------
(***************************************************************************)
(* Theorems about Framing, for every packet size and every image length.   *)
(***************************************************************************)
EXTENDS Framing, TLAPS

\* As long as bytes remain, every report sent was full; once none remain, the
\* last one ended with the image.
Progress ==
  /\ Len(reports) = page_number
  /\ stage = "header" => page_number = 0
  /\ stage # "header" /\ length < 65536 => announced = length
  /\ bytes_remaining <= length
  /\ bytes_remaining > 0 => bytes_sent + bytes_remaining = length
  /\ bytes_remaining = 0 => length <= bytes_sent
  /\ \A n \in DOMAIN reports :
       /\ reports[n].from = (n - 1) * packet_size
       /\ n < page_number \/ bytes_remaining > 0 => reports[n].upto = n * packet_size
  /\ bytes_remaining = 0 /\ page_number > 0 =>
       /\ (page_number - 1) * packet_size < length
       /\ reports[page_number].upto = length

IInv == TypeOK /\ Progress /\ InBounds /\ (stage = "done" => bytes_remaining = 0)

\* Before the first report.
LEMMA InitIInv == Init => IInv
BY FramingAssumption DEF Init, IInv, TypeOK, Progress, InBounds, bytes_sent

\* A round of the loop.
LEMMA ChunkIInv ==
  ASSUME IInv, Chunk
  PROVE  IInv'
<1> DEFINE P == packet_size
           r == [from |-> bytes_sent, upto |-> bytes_sent + this_length]
<1>1. /\ P \in Nat /\ P > 0 /\ length \in Nat
      /\ page_number \in Nat /\ bytes_remaining \in Nat /\ bytes_remaining > 0
      /\ reports \in Seq(Slice) /\ Len(reports) = page_number
      /\ page_number * P + bytes_remaining = length
  BY FramingAssumption DEF IInv, TypeOK, Progress, Chunk, bytes_sent
<1>2. /\ page_number * P \in Nat /\ (page_number + 1) * P = page_number * P + P
      /\ (page_number + 1) - 1 = page_number
  BY <1>1
<1>3. /\ this_length \in Nat /\ this_length > 0
      /\ this_length <= bytes_remaining /\ this_length <= P
      /\ this_length < bytes_remaining => this_length = P
  BY <1>1 DEF this_length
<1>4. /\ page_number' = page_number + 1 /\ bytes_remaining' = bytes_remaining - this_length
      /\ packet_size' = P /\ length' = length /\ announced' = announced
      /\ stage = "chunks" /\ stage' = "chunks"
      /\ reports' = Append(reports, r)
  BY DEF Chunk
<1>5. r \in Slice /\ r.from = page_number * P /\ r.upto = page_number * P + this_length
  BY <1>1, <1>2, <1>3 DEF Slice, bytes_sent
<1>6. TypeOK'
  BY <1>1, <1>3, <1>4, <1>5 DEF IInv, TypeOK
<1>7. /\ Len(reports') = page_number + 1
      /\ reports'[page_number + 1] = r
      /\ \A n \in DOMAIN reports : reports'[n] = reports[n]
      /\ DOMAIN reports' = DOMAIN reports \cup {page_number + 1}
      /\ DOMAIN reports = 1..page_number
  BY <1>1, <1>4, <1>5
<1>8. InBounds'
  <2>1. r.from < r.upto /\ r.upto <= length
    BY <1>1, <1>2, <1>3, <1>5
  <2> QED
    BY <1>4, <1>7, <2>1 DEF IInv, InBounds
<1>9. bytes_sent' = page_number * P + P
  BY <1>2, <1>4 DEF bytes_sent
<1>10. /\ bytes_remaining' > 0 => bytes_sent' + bytes_remaining' = length
       /\ bytes_remaining' = 0 => length <= bytes_sent'
       /\ bytes_remaining' <= length
  BY <1>1, <1>2, <1>3, <1>4, <1>9
<1>11. ASSUME NEW n \in DOMAIN reports'
       PROVE  /\ reports'[n].from = (n - 1) * P
              /\ n < page_number' \/ bytes_remaining' > 0 => reports'[n].upto = n * P
  <2>1. CASE n \in DOMAIN reports
    BY <1>1, <1>7, <2>1 DEF IInv, Progress
  <2>2. CASE n = page_number + 1
    BY <1>1, <1>2, <1>3, <1>4, <1>5, <1>7, <2>2
  <2> QED
    BY <1>7, <2>1, <2>2
<1>12. bytes_remaining' = 0 => /\ (page_number' - 1) * P < length
                               /\ reports'[page_number'].upto = length
  <2>1. page_number' - 1 = page_number /\ reports'[page_number'] = r
    BY <1>2, <1>4, <1>7
  <2>2. page_number * P < length
    BY <1>1, <1>2
  <2>3. bytes_remaining' = 0 => r.upto = length
    BY <1>1, <1>2, <1>3, <1>4, <1>5
  <2> HIDE DEF r
  <2> QED
    BY <2>1, <2>2, <2>3
<1>13. Progress'
  <2>1. stage' # "header" /\ length' < 65536 => announced' = length'
    BY <1>4 DEF IInv, Progress
  <2> QED
    BY <2>1, <1>4, <1>7, <1>10, <1>11, <1>12 DEF Progress
<1> QED
  BY <1>4, <1>6, <1>8, <1>13 DEF IInv

\* The header, a round of the loop, and its end.
LEMMA NextIInv == IInv /\ [Next]_vars => IInv'
<1> SUFFICES ASSUME IInv, [Next]_vars PROVE IInv'
  OBVIOUS
<1>1. CASE Header
  <2>1. announced' \in Nat /\ (length < 65536 => announced' = length)
    <3>1. length \in Nat
      BY FramingAssumption DEF IInv, TypeOK
    <3> QED
      BY <1>1, <3>1, SMT DEF Header
  <2> QED
    BY <1>1, <2>1 DEF Header, IInv, TypeOK, Progress, InBounds, bytes_sent
<1>2. CASE Chunk
  BY <1>2, ChunkIInv
<1>3. CASE Finish
  BY <1>3 DEF Finish, IInv, TypeOK, Progress, InBounds, bytes_sent
<1>4. CASE UNCHANGED vars
  BY <1>4 DEF vars, IInv, TypeOK, Progress, InBounds, bytes_sent
<1> QED
  BY <1>1, <1>2, <1>3, <1>4 DEF Next

\* The invariant of the chunk loop holds for every length of image and every
\* packet size.
THEOREM Invariance == Spec => []IInv
BY InitIInv, NextIInv, PTL DEF Spec

\* The usize variables of the loop never drop below zero.
THEOREM TypeCorrect == Spec => []TypeOK
<1>1. IInv => TypeOK
  BY DEF IInv
<1> QED
  BY <1>1, Invariance, PTL

\* No image length and no packet size makes the loop slice past the image.
THEOREM NoSliceOutOfBounds == Spec => []InBounds
<1>1. IInv => InBounds
  BY DEF IInv
<1> QED
  BY <1>1, Invariance, PTL

\* The invariant says where each report begins and ends.
LEMMA IInvReassembles == IInv => Reassembles
<1> SUFFICES ASSUME IInv PROVE Reassembles
  OBVIOUS
<1>1. reports \in Seq(Slice) /\ Len(reports) = page_number /\ page_number \in Nat
  BY DEF IInv, TypeOK, Progress
<1>2. reports # <<>> => page_number > 0
  BY <1>1
<1> QED
  BY <1>1, <1>2 DEF IInv, Progress, Reassembles, bytes_sent

\* The panel can always put the image together from the reports.
THEOREM ImageReassembles == Spec => []Reassembles
BY IInvReassembles, Invariance, PTL
=============================================================================
