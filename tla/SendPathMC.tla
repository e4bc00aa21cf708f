----------------------------- MODULE SendPathMC -----------------------------
(* Values for the constants of SendPath: requests do not share state but the *)
(* session, so one request in every endpoint shows what the properties ask.  *)
EXTENDS SendPath

CONSTANTS s1

OneSend == {s1}
=============================================================================
