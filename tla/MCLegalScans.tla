----------------------------- MODULE MCLegalScans -----------------------------
(* Two services; the sweep takes one of them at a time.                     *)
EXTENDS LegalScans
=============================================================================
