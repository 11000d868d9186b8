------------------------------- MODULE MCChat -------------------------------
(* Chat for TLC: an instance in which every prompt fits the context window.  *)
EXTENDS Chat

\* The constants of this instance leave room for every prompt.
ASSUME PromptsFit
=============================================================================
