------------------------------- MODULE Clock -------------------------------
(***************************************************************************)
(* The clock the in-process services read.                                 *)
(***************************************************************************)
EXTENDS Integers

VARIABLE
    now         \* the current time

\* Time passes, up to a bound.
Advance(max) == now < max /\ now' = now + 1
=============================================================================
