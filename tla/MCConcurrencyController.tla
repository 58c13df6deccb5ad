---------------------- MODULE MCConcurrencyController ----------------------
(* Five callers, of whom one never takes no for an answer, around two slots
   and one place in the queue: refusals, hand-overs, a full queue exceeded by
   `async with`, and cancellations on both sides of a wake-up all occur.     *)
EXTENDS ConcurrencyController

CONSTANTS c1, c2, c3, c4, c5

FiveCallers == {c1, c2, c3, c4, c5}
OneUnbounded == {c4}
=============================================================================
