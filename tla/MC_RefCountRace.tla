-------------------------- MODULE MC_RefCountRace --------------------------
(* What the clients keep apart, for model checking RefCountRace.           *)
EXTENDS RefCountRace

CONSTANTS h1, h2, h3, h4

Nothing == {}
=============================================================================
