-------------------------------- MODULE Connect --------------------------------
(***************************************************************************)
(* From a device the backend has enumerated to the parameters of a handle: *)
(* connect (src/device.rs) and Connect (goport/internal/mirajazz/          *)
(* device.go).  They take the same decisions; Rust looks the device up and *)
(* opens it itself, and gives up when the firmware cannot be read.         *)
(***************************************************************************)
EXTENDS Integers

CONSTANTS
  Serials,          \* serial numbers that devices report
  NoSerial,         \* None in Rust, the empty string in Go
  HardcodedSerial   \* "355499441494"

ASSUME ConnectAssumption == NoSerial \notin Serials \cup {HardcodedSerial}

VARIABLES
  code,             \* which of the two is called
  requested,        \* the protocol version the application asks for
  serial,           \* the serial number the device reports
  phase,            \* how far the call is
  handle            \* what it returns

connection == <<code, requested, serial, phase, handle>>

NoHandle == [version |-> 0, serial |-> NoSerial, both |-> FALSE, packet_size |-> 0]

ConnectInit ==
  /\ code \in {"rust", "go"}
  /\ requested \in 0..4
  /\ serial \in Serials \cup {NoSerial}
  /\ phase = IF code = "go" THEN "unopened" ELSE "called"
  /\ handle = NoHandle

\* The port is given a device that hidapi has opened.  It fails when listing the
\* devices fails, when none matches, when the first has no path or does not open.
OpenFirst ==
  /\ phase = "unopened"
  /\ phase' \in {"called", "failed"}
  /\ UNCHANGED <<code, requested, serial, handle>>

\* An assertion in Rust, an error in Go.
RejectVersion ==
  /\ phase = "called"
  /\ requested \notin 1..3
  /\ phase' = "failed"
  /\ UNCHANGED <<code, requested, serial, handle>>

\* Rust looks the device up again: it may be gone by now.
QueryDevice ==
  /\ phase = "called" /\ code = "rust"
  /\ requested \in 1..3
  /\ phase' \in {"found", "failed"}
  /\ UNCHANGED <<code, requested, serial, handle>>

\* Go makes do without a firmware version.
ReadFirmware ==
  /\ \/ phase = "found" /\ phase' \in {"read", "failed"}
     \/ phase = "called" /\ code = "go" /\ requested \in 1..3 /\ phase' = "read"
  /\ UNCHANGED <<code, requested, serial, handle>>

\* Faulty variant of ResolveSerial: no device is turned away.
ResolveAny ==
  /\ phase = "read"
  /\ phase' = "resolved"
  /\ UNCHANGED <<code, requested, serial, handle>>

\* Only version 1 does without a serial number of its own.
ResolveSerial ==
  /\ phase = "read"
  /\ phase' = IF requested = 1 \/ serial # NoSerial THEN "resolved" ELSE "failed"
  /\ UNCHANGED <<code, requested, serial, handle>>

\* A device without a serial number is taken for the oldest firmware.
override_protocol_version == IF serial = NoSerial THEN 0 ELSE requested

\* The packet size follows the version asked for, the rest the overridden one.
\* Rust opens the device only now.
MakeHandle ==
  /\ phase = "resolved"
  /\ \/ /\ phase' = "connected"
        /\ handle' = [version     |-> override_protocol_version,
                      serial      |-> IF requested = 1 THEN HardcodedSerial ELSE serial,
                      both        |-> override_protocol_version > 2,
                      packet_size |-> IF requested >= 2 THEN 1024 ELSE 512]
     \/ code = "rust" /\ phase' = "failed" /\ UNCHANGED handle
  /\ UNCHANGED <<code, requested, serial>>

ConnectNext ==
  OpenFirst \/ RejectVersion \/ QueryDevice \/ ReadFirmware \/ ResolveSerial \/ MakeHandle

ConnectSpec == ConnectInit /\ [][ConnectNext]_connection
=============================================================================
