----------------------------- MODULE Prototype -----------------------------
(***************************************************************************)
(* What the two halves of the earlier prototype (legacy/) have in common.  *)
(* Each keeps tables and requests of its own, so that they can be modelled *)
(* apart; LegacyAccreditation names what both have (Init, Next, ...) so    *)
(* that one module can extend both.                                        *)
(***************************************************************************)
CONSTANTS
  Voters,
  Requests,    \* bound: the requests that come in
  None,        \* no row
  MaxTime      \* bound: the last tick of the clock
=============================================================================
