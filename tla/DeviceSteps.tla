----------------------------- MODULE DeviceSteps -----------------------------
(***************************************************************************)
(* The vocabulary shared by the models of the two implementations of the   *)
(* device handle, src/device.rs (Rust) and                                 *)
(* goport/internal/mirajazz/device.go (Go): the reports a handle puts      *)
(* on the wire, and the elementary steps its calls are made of.            *)
(***************************************************************************)
EXTENDS Integers, Sequences

CONSTANTS
  Key,              \* key indices the application uses (u8)
  Image,            \* encoded images, as handed to write_image
  NoImage,          \* "no entry for this key in the image cache"
  Chunks,           \* Chunks[i]: how many data reports image i is cut into
  ProtocolVersion   \* effective protocol version of the handle

(***************************************************************************)
(* The keys of a device, from 0.  clear_button_image also takes AllKeys,   *)
(* as which key 254 would be encoded; no supported device comes near.      *)
(***************************************************************************)
ASSUME StepsAssumption ==
  /\ Key \subseteq 0..253
  /\ NoImage \notin Image
  /\ Chunks \in [Image -> Nat]
  /\ ProtocolVersion \in 0..3

AllKeys == 255

-----------------------------------------------------------------------------
(***************************************************************************)
(* Reports.  Every report is 1 + packet_size bytes; what matters of it is  *)
(* its opcode, the one argument byte that some opcodes have, and the image *)
(* whose length or bytes it carries.                                       *)
(***************************************************************************)
Opcode == {"DIS", "LIG", "LBLIG", "SETLB", "BAT", "DATA", "CLE", "CLEDC",
           "STP", "HAN", "CONNECT", "MOD"}

Command == [op : Opcode \ {"BAT", "DATA"}, arg : 0..255, img : {NoImage}]
Report  == Command \cup [op : {"BAT", "DATA"}, arg : 0..255, img : Image]

Cmd(op, arg)   == [op |-> op, arg |-> arg, img |-> NoImage]
\* Faulty variant of Bat: keys count from zero on the wire.
BatFromZero(k, i) == [op |-> "BAT",  arg |-> k, img |-> i]
Bat(k, i)      == [op |-> "BAT",  arg |-> (k + 1) % 256, img |-> i]
Data(i)        == [op |-> "DATA", arg |-> 0, img |-> i]
Cle(k)         == Cmd("CLE", IF k = AllKeys THEN 255 ELSE k + 1)
STP            == Cmd("STP", 0)
Clamp100(p)    == IF p > 100 THEN 100 ELSE p

-----------------------------------------------------------------------------
(***************************************************************************)
(* Steps.  A call is a sequence of these; each touches shared state once.  *)
(***************************************************************************)
INITIALIZE   == [do |-> "initialize"]        \* run the handshake if needed
LOCK         == [do |-> "lock"]              \* take the cache lock and keep it
CHECK        == [do |-> "check"]             \* return early if nothing cached
CONVERT      == [do |-> "convert"]           \* encode an image
EMPTY        == [do |-> "empty"]             \* empty the cache
Write(r)     == [do |-> "write", report |-> r]
Insert(k, i) == [do |-> "insert", key |-> k, img |-> i]
Remove(k)    == [do |-> "remove", key |-> k]
\* Send every cached image; keep: an entry leaves the cache only once sent.
Drain(keep)  == [do |-> "drain", keep |-> keep]

Step ==
       [do : {"initialize", "lock", "check", "convert", "empty"}]
  \cup [do : {"write"}, report : Command]
  \cup [do : {"insert"}, key : Key, img : Image]
  \cup [do : {"remove"}, key : 0..255]
  \cup [do : {"drain"}, keep : BOOLEAN]
=============================================================================
