----------------------------- MODULE MC_Realtime -----------------------------
(* Handlers of the server and the requests of one page.                      *)
EXTENDS Realtime

CONSTANTS h1, h2
=============================================================================
