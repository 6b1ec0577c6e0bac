------------------------------ MODULE MCDevice ------------------------------
(***************************************************************************)
(* Instances of Device: which calls the tasks make, and how long the       *)
(* images are.                                                             *)
(***************************************************************************)
EXTENDS DeviceProperties, TLC

CONSTANTS a, b    \* two images

Lengths == (a :> 2 @@ b :> 1)
HasEmpty == (a :> 2 @@ b :> 0)
OnlyA    == (a :> 2)
OnlyB    == (b :> 1)

Op(name)     == [op |-> name]
Put(k, i)    == [op |-> "write_image", key |-> k, img |-> i]
Set(k, i)    == [op |-> "set_button_image", key |-> k, img |-> i]
Clear(k)     == [op |-> "clear_button_image", key |-> k]
Bright(p)    == [op |-> "set_brightness", percent |-> p]
Leds(p)      == [op |-> "set_led_brightness", percent |-> p]
Mode(m)      == [op |-> "set_mode", mode |-> m]

\* Every operation; a brightness above 100, the largest mode byte.
AllCalls ==
       {Op(name) : name \in {"reset", "set_led_colors", "clear_all_button_images",
                             "sleep", "keep_alive", "shutdown", "flush"}}
  \cup {Put(k, i) : k \in Key, i \in Image}
  \cup {Set(k, a) : k \in Key}
  \cup {Clear(k) : k \in Key \cup {AllKeys}}
  \cup {Bright(40), Bright(200), Leds(101), Mode(255)}

\* Drawing from several tasks.
DrawCalls ==
       {Op("flush")} \cup {Put(k, i) : k \in Key, i \in Image}

\* Drawing, clearing and dimming from several tasks.
MixedCalls ==
  {Op("flush"), Op("clear_all_button_images"), Bright(40)}
    \cup {Set(k, a) : k \in Key} \cup {Clear(k) : k \in Key \cup {AllKeys}}

\* Drawing and clearing.
ClearCalls ==
  DrawCalls \cup {Clear(k) : k \in Key \cup {AllKeys}} \cup {Op("clear_all_button_images")}

\* Nothing the code does depends on the panel, nor on what the application
\* wanted to see: runs whose properties do not mention them leave them out.
Blindfolded == <<code, bounds, stream, fate, late>>

\* Just enough for a flush to fail and be tried again.
DimCalls   == {Op("flush"), Bright(40), Put(0, b)}

ASSUME CallsAreApi == ThroughTheApi
=============================================================================
