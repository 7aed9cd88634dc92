------------------------------ MODULE MCServer ------------------------------
(* Instances of Server for TLC. *)
EXTENDS Server

MCConfig == {[public |-> TRUE, headless |-> TRUE],
             [public |-> FALSE, headless |-> TRUE],
             [public |-> FALSE, headless |-> FALSE]}

\* The public server is left alone with its directory: neither clients nor a
\* signal before its time.  The others meet both.
MCNext == Next /\ (config.public => lock' = None /\ ~early')

MCSpec == Init /\ [][MCNext]_vars /\ Fairness
=============================================================================
