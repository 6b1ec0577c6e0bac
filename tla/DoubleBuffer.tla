----------------------------- MODULE DoubleBuffer -----------------------------
(***************************************************************************)
(* What write_image and flush promise together: images are drawn on a      *)
(* hidden frame, key by key, and a flush shows the whole frame at once.    *)
(***************************************************************************)
CONSTANTS Key, Image, Factory

VARIABLES frame, shown

Init == frame = [k \in Key |-> Factory] /\ shown = frame

Draw(k, i) == frame' = [frame EXCEPT ![k] = i] /\ UNCHANGED shown

Show == shown' = frame /\ UNCHANGED frame

Next == Show \/ \E k \in Key, i \in Image : Draw(k, i)

Spec == Init /\ [][Next]_<<frame, shown>>
=============================================================================
