------------------------------- MODULE MCReader -------------------------------
(***************************************************************************)
(* Instances of Reader: who reads with which reader, and a decoder for a   *)
(* device with buttons and encoders.                                       *)
(***************************************************************************)
EXTENDS ReaderProperties, TLC

CONSTANTS t1, t2, t3, r1, r2

Alone  == (t1 :> r1)
Shared == (t1 :> r1 @@ t2 :> r1)
Split  == (t1 :> r1 @@ t2 :> r1 @@ t3 :> r2)

\* The buttons as the daemon decodes them; the encoders alike; a key byte
\* that belongs to no control is an error.
Decoder(key, state) ==
  CASE key \in Index("buttons") -> processInput(key, state)
    [] key - 64 \in Index("encoders") ->
         Changed("encoders", [i \in Index("encoders") |-> i = key - 64 /\ state = 1])
    [] key - 128 \in Index("encoders") -> Twisted(key - 128, -1)
    [] key - 160 \in Index("encoders") -> Twisted(key - 160, 1)
    [] OTHER -> BadData

ASSUME DecoderIsFull == FullSnapshots
ASSUME DecoderIsFaithful == FaithfulDecoder /\ IgnoresUnknown
ASSUME ReadsOneByOne == MaxHeld = 1 => OneByOne
=============================================================================
