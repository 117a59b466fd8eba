--------------------------- MODULE MC_RateLimiter ---------------------------
(* RateLimiter with a few threads and a short window. *)
EXTENDS RateLimiter
=============================================================================
