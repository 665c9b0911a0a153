-------------------------- MODULE MC_BrowserSession --------------------------
(* Two tabs of one browser and two accounts. *)
EXTENDS BrowserSession

CONSTANTS left, right, alice, bob
=============================================================================
