--------------------------- MODULE RouteFallback ----------------------------
(* Which failures of a route may go on to its fallback, for decisions and for    *)
(* the assistance alike (ai/routing/resolver.ts).                               *)

\* Only a temporary failure and an output that is not valid go on to a fallback.
CanAdvanceToFallback(category) == category \in {"temporary", "invalid-output"}

=============================================================================
