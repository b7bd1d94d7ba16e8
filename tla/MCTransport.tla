----------------------------- MODULE MCTransport -----------------------------
(* Transport together with its inductive invariant, for TLC. *)
EXTENDS TransportInvariant

==============================================================================
