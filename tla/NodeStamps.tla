----------------------------- MODULE NodeStamps -----------------------------
(***************************************************************************)
(* The numbers a node hands out: wall clock in milliseconds, times 1000,   *)
(* plus the id of the node; and when that is not above the last number,    *)
(* the last number plus 100.                                               *)
(***************************************************************************)
EXTENDS Integers

\* Slips in the numbering that the properties have to notice.
ReuseWhenEqual(ms, id, last) ==
    LET new == ms * 1000 + id IN IF new < last THEN last + 100 ELSE new
AdvanceByOne(ms, id, last) ==
    LET new == ms * 1000 + id IN IF new <= last THEN last + 1 ELSE new
StepBack(ms, id, last) ==
    LET new == ms * 1000 + id IN IF new <= last THEN new - last ELSE new
IgnoreNode(ms, id, last) ==
    LET new == ms * 1000 IN IF new <= last THEN last + 100 ELSE new

\* The number a node hands out at time ms when the last one was `last'.
Stamp(ms, id, last) ==
    LET new == ms * 1000 + id IN IF new <= last THEN last + 100 ELSE new
=============================================================================
