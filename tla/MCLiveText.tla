----------------------------- MODULE MCLiveText -----------------------------
(* Small instances of LiveText. *)
EXTENDS LiveText
=============================================================================
