------------------------------ MODULE MCBridge ------------------------------
(* The bridge for TLC, in fair and in foul weather. *)
EXTENDS Bridge

CONSTANTS call, call2, note, large, chatty, head, body

MCScenarios ==
    {[requests |-> {call, call2}, calm |-> FALSE, upstream |-> {}, commands |-> 0],
     [requests |-> {call}, calm |-> FALSE, upstream |-> Outcomes, commands |-> 1],
     [requests |-> {note, head, body}, calm |-> FALSE, upstream |-> {}, commands |-> 0],
     [requests |-> {call, note}, calm |-> TRUE, upstream |-> Outcomes, commands |-> 2],
     [requests |-> {call, large, chatty}, calm |-> TRUE, upstream |-> {"ok", "error"}, commands |-> 2]}
=============================================================================
