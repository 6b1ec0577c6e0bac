------------------------------- MODULE RustOps -------------------------------
(***************************************************************************)
(* The public operations of the Rust Device (src/device.rs), each as       *)
(* the sequence of steps its body performs.  The arguments of a call are   *)
(* the fields of its record.                                               *)
(***************************************************************************)
EXTENDS DeviceSteps

initialize == <<INITIALIZE>>

\* Faulty variant of set_brightness: it does not initialize.
set_brightness_asleep(percent) == <<Write(Cmd("LIG", Clamp100(percent)))>>

set_brightness(percent) ==
  initialize \o <<Write(Cmd("LIG", Clamp100(percent)))>>

set_led_brightness(percent) ==
  initialize \o <<Write(Cmd("LBLIG", Clamp100(percent)))>>

set_led_colors == initialize \o <<Write(Cmd("SETLB", 0))>>

write_image(key, image_data) == <<Insert(key, image_data)>>

set_button_image(key, image) ==
  initialize \o <<CONVERT>> \o write_image(key, image)

\* Faulty variant of clear_button_image: the wire's key byte names the entry.
clear_next_image(key) ==
  initialize \o <<Write(Cle(key)), Remove((key + 1) % 256)>>

clear_button_image(key) == initialize \o <<Write(Cle(key)), Remove(key)>>

\* Faulty variant of clear_all_button_images: no STP.
clear_all_uncommitted ==
  initialize \o clear_button_image(AllKeys) \o <<EMPTY>>

clear_all_button_images ==
  initialize
    \o clear_button_image(AllKeys)
    \o (IF ProtocolVersion >= 2 THEN <<Write(STP)>> ELSE <<>>)
    \o <<EMPTY>>

reset == initialize \o set_brightness(100) \o clear_all_button_images

sleep == initialize \o <<Write(Cmd("HAN", 0))>>

keep_alive == initialize \o <<Write(Cmd("CONNECT", 0))>>

shutdown == initialize \o <<Write(Cmd("CLEDC", 0)), Write(Cmd("HAN", 0))>>

\* The guard of the cache mutex lives until flush returns; cache.drain()
\* takes each entry out before it is sent.
flush == <<LOCK>> \o initialize \o <<CHECK, Drain(FALSE), Write(STP)>>

\* The only operation that does not initialize the device first.
set_mode(mode) == <<Write(Cmd("MOD", (48 + mode) % 256))>>

RustScript(c) ==
  CASE c.op = "reset"                   -> reset
    [] c.op = "set_brightness"          -> set_brightness(c.percent)
    [] c.op = "set_led_brightness"      -> set_led_brightness(c.percent)
    [] c.op = "set_led_colors"          -> set_led_colors
    [] c.op = "write_image"             -> write_image(c.key, c.img)
    [] c.op = "set_button_image"        -> set_button_image(c.key, c.img)
    [] c.op = "clear_button_image"      -> clear_button_image(c.key)
    [] c.op = "clear_all_button_images" -> clear_all_button_images
    [] c.op = "sleep"                   -> sleep
    [] c.op = "keep_alive"              -> keep_alive
    [] c.op = "shutdown"                -> shutdown
    [] c.op = "flush"                   -> flush
    [] c.op = "set_mode"                -> set_mode(c.mode)
=============================================================================
