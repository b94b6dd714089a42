---------------------------- MODULE MCClientTabs -----------------------------
(* ClientTabs on a small instance, for TLC. *)
EXTENDS ClientTabs
==============================================================================
