--------------------------------- MODULE Query ---------------------------------
(***************************************************************************)
(* Which HID interfaces a device query selects.  An interface is a record  *)
(* of the device it belongs to and four numbers; zero in a query of the Go *)
(* port stands for any number, in Rust it is a number like the others.     *)
(***************************************************************************)
Field == {"page", "usage", "vendor", "product"}
Any   == 0

\* Rust: some query gives all four numbers.
check_device(device, queries) ==
  \E query \in queries : \A f \in Field : device[f] = query[f]

\* Go: each number the query gives is right.
Matches(q, info) == \A f \in Field : q[f] = Any \/ info[f] = q[f]

MatchesAny(queries, info) == \E q \in queries : Matches(q, info)
=============================================================================
