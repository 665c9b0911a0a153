------------------------------- MODULE MC_Auth -------------------------------
(* A user with two devices, a logout and a request to an administrator's route. *)
EXTENDS Auth

CONSTANTS alice, phone, laptop, out, admin
=============================================================================
