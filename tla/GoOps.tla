-------------------------------- MODULE GoOps --------------------------------
(***************************************************************************)
(* The operations of the Go Device                                         *)
(* (goport/internal/mirajazz/device.go), each as the sequence of steps     *)
(* its body performs.  Calls carry the same names as in RustOps, so that   *)
(* one set of calls drives both implementations.                           *)
(***************************************************************************)
EXTENDS DeviceSteps

Initialize == <<INITIALIZE>>

SetBrightness(percent) ==
  Initialize \o <<Write(Cmd("LIG", Clamp100(percent)))>>

SetLEDBrightness(percent) ==
  Initialize \o <<Write(Cmd("LBLIG", Clamp100(percent)))>>

SetLEDColors == Initialize \o <<Write(Cmd("SETLB", 0))>>

WriteImage(key, imageData) == <<Insert(key, imageData)>>

SetButtonImage(key, img) == Initialize \o <<CONVERT>> \o WriteImage(key, img)

ClearButtonImage(key) == Initialize \o <<Write(Cle(key)), Remove(key)>>

ClearAllButtonImages ==
  Initialize
    \o ClearButtonImage(AllKeys)
    \o (IF ProtocolVersion >= 2 THEN <<Write(STP)>> ELSE <<>>)
    \o <<EMPTY>>

Reset == Initialize \o SetBrightness(100) \o ClearAllButtonImages

Sleep == Initialize \o <<Write(Cmd("HAN", 0))>>

KeepAlive == Initialize \o <<Write(Cmd("CONNECT", 0))>>

Shutdown == Initialize \o <<Write(Cmd("CLEDC", 0)), Write(Cmd("HAN", 0))>>

SetMode(mode) == <<Write(Cmd("MOD", (48 + mode) % 256))>>

\* Faulty variant of Flush: an entry is deleted before it is sent.
FlushDeletesFirst == <<LOCK>> \o Initialize \o <<CHECK, Drain(FALSE), Write(STP)>>

\* defer Unlock keeps cacheMu until Flush returns; an entry is deleted only
\* after sendImage has succeeded for it.
Flush == <<LOCK>> \o Initialize \o <<CHECK, Drain(TRUE), Write(STP)>>

GoScript(c) ==
  CASE c.op = "reset"                   -> Reset
    [] c.op = "set_brightness"          -> SetBrightness(c.percent)
    [] c.op = "set_led_brightness"      -> SetLEDBrightness(c.percent)
    [] c.op = "set_led_colors"          -> SetLEDColors
    [] c.op = "write_image"             -> WriteImage(c.key, c.img)
    [] c.op = "set_button_image"        -> SetButtonImage(c.key, c.img)
    [] c.op = "clear_button_image"      -> ClearButtonImage(c.key)
    [] c.op = "clear_all_button_images" -> ClearAllButtonImages
    [] c.op = "sleep"                   -> Sleep
    [] c.op = "keep_alive"              -> KeepAlive
    [] c.op = "shutdown"                -> Shutdown
    [] c.op = "flush"                   -> Flush
    [] c.op = "set_mode"                -> SetMode(c.mode)
=============================================================================
