----------------------------- MODULE MCChannels -----------------------------
(* Instances of Channels for TLC.  In one behaviour at most MaxCommands    *)
(* commands are given, all of them of one mix.  With "lists" in the mix    *)
(* users are online and are sent lists, and MaxListed is the bound;        *)
(* without, their commands come from sessions that the registry has lost.  *)
(* With "sessions" sessions also end and users log in again meanwhile.     *)
EXTENDS Channels, Naturals, TLC

CONSTANTS Mixes, MaxCommands, MaxListed
VARIABLES mix, given

MCMixes ==
    {{"join", "mode", "kick"}, {"join", "mode", "part"}, {"join", "ban", "part"},
     {"join", "invite", "set"}, {"join", "nick", "kick"}, {"join", "sessions", "lists"},
     {"join", "part", "lists"}, {"join", "quit", "lists"}, {"join", "kick", "lists"},
     {"join", "ban", "lists"}, {"join", "set", "topic", "lists"}}

MCInit == Init /\ mix \in Mixes /\ given = 0

Begun == \E w \in Worker : task[w].cmd = "none" /\ task'[w].cmd # "none"

Quits == \E w \in Worker : task[w].cmd = "quit" /\ task'[w].cmd = "none"

Command ==
    /\ Next
    /\ \A w \in Worker : task'[w].cmd \in mix \cup {"none"}
    /\ given' = IF Begun THEN given + 1 ELSE given
    /\ Begun => IF "lists" \in mix THEN given < MaxListed
                ELSE given < MaxCommands /\ \A u \in User : session[u] = "lost"
    /\ "sessions" \in mix \/ given = 0 \/ Quits \/ session' = session
    /\ UNCHANGED mix

(* No command gets stuck, so that a behaviour only ends between two. *)
Rest == (\A w \in Worker : task[w] = NoTask) /\ UNCHANGED <<vars, mix, given>>

MCNext == Command \/ Rest

MCSpec == MCInit /\ [][MCNext]_<<vars, mix, given>>

Symmetry == Permutations(User) \cup Permutations(Nick) \cup Permutations(Worker)
=============================================================================
