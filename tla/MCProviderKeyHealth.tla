------------------------ MODULE MCProviderKeyHealth -------------------------
(* Small instances of ProviderKeyHealth for TLC. *)
EXTENDS ProviderKeyHealth

CONSTANTS a1, a2, b1, o1, o2
=============================================================================
