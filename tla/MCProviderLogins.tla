--------------------------- MODULE MCProviderLogins ---------------------------
(* Small instances of ProviderLogins for TLC. *)
EXTENDS ProviderLogins

CONSTANTS c1, c2, p1, p2

\* A browser that tries again what it tried before.
OneBrowser  == <<c1, c1>>
OneProvider == <<p1, p1>>
=============================================================================
