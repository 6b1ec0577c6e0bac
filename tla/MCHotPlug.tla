------------------------------- MODULE MCHotPlug -------------------------------
(***************************************************************************)
(* Two devices: d1 has an interface that matches a query of either kind    *)
(* and one that only a query with wildcards selects; d2 has two that       *)
(* match, and one that never does.                                         *)
(***************************************************************************)
EXTENDS Watching

CONSTANTS d1, d2

Interface(d, page, usage) ==
  [device |-> d, page |-> page, usage |-> usage, vendor |-> 7, product |-> IF d = d1 THEN 1 ELSE 2]

Attachable ==
  {Interface(d1, 3, 1), Interface(d1, 3, 2),
   Interface(d2, 3, 1), Interface(d2, 3, 2), Interface(d2, 5, 1)}

Asked ==
  {[page |-> 3, usage |-> 1, vendor |-> 7, product |-> 1],
   [page |-> 3, usage |-> Any, vendor |-> 7, product |-> 1],
   [page |-> 3, usage |-> 1, vendor |-> 7, product |-> 2],
   [page |-> 3, usage |-> 2, vendor |-> 7, product |-> 2]}
=============================================================================
