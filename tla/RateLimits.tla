----------------------------- MODULE RateLimits -----------------------------
(***************************************************************************)
(* What keeps one user from flooding the server with commands: two         *)
(* fixed-window limiters (RateLimiter::allow, src/net/rate_limiter.hpp),   *)
(* the record of refusals and the ban that follows                         *)
(* (CommandHandler::handle_command, cmd_join, track_abuse, is_abuser,      *)
(* src/commands/command_handler.cpp).  The maps are keyed by user, so one  *)
(* user shows everything.                                                   *)
(*                                                                         *)
(* Two sessions of the user run handlers at once while one replaces the    *)
(* other.  The maps have mutexes, each lock section is a step; allow() is  *)
(* called after the mutex is released, so it is two steps, between which   *)
(* another strand can read the count that is about to be written.          *)
(*                                                                         *)
(* Times are kept as ages that grow with Tick and stop at the value beyond *)
(* which the code no longer tells them apart.                               *)
(***************************************************************************)
EXTENDS Integers, Sequences

CONSTANTS
    Strand,           \* sessions of the user
    Absent,           \* no entry in a map
    Max,              \* tokens of each limiter: 30 commands, 5 joins
    Window,           \* their window, one minute
    MaxViolations,    \* kMaxViolations
    ViolationWindow,  \* kViolationWindow
    BanDuration       \* kBanDuration

Limiter == {"command", "join"}

LimiterState == [Limiter -> [age : 0..Window, count : Nat]]
AbuseRecord == [violations : 0..MaxViolations, first : 0..ViolationWindow + 1,
                last : 0..BanDuration + 1, banned : BOOLEAN]

ASSUME RateLimitsAssumption ==
    /\ Max \in [Limiter -> Nat \ {0}]
    /\ Window \in Nat \ {0} /\ MaxViolations \in Nat \ {0}
    /\ ViolationWindow \in Nat /\ BanDuration \in Nat
    /\ Absent \notin LimiterState \cup AbuseRecord

VARIABLES
    limiter,     \* user_rate_limits_: Absent, or age and count of each limiter's window
    record,      \* abuse_records_: Absent, or violations, age of the first and the last, banned
    pc,          \* where the handler on a strand is
    seen,        \* the count allow() has read
    overlap,     \* history: another strand was in the same allow() meanwhile
    late,        \* history: the handler had passed is_abuser when the ban began
    grants,      \* history: ages of the latest grants of each limiter, overlapping ones left out
    refusals     \* history: ages of the latest refusals that were recorded

rateVars == <<limiter, record, pc, seen, overlap, late, grants, refusals>>

Idle    == <<"idle">>
Refused == <<"refused">>
Phase   == {Idle, Refused} \cup {"call", "allow"} \X Limiter
Banned  == record # Absent /\ record.banned

RateTypeOK ==
    /\ limiter = Absent \/ limiter \in LimiterState
    /\ record = Absent \/ record \in AbuseRecord
    /\ pc \in [Strand -> Phase]
    /\ seen \in [Strand -> Nat]
    /\ overlap \subseteq Strand /\ late \subseteq Strand
    /\ grants \in [Limiter -> Seq(0..Window)]
    /\ refusals \in Seq(0..ViolationWindow + 1)

RateInit ==
    /\ limiter = Absent /\ record = Absent
    /\ pc = [h \in Strand |-> Idle]
    /\ seen = [h \in Strand |-> 0]
    /\ overlap = {} /\ late = {}
    /\ grants = [k \in Limiter |-> <<>>]
    /\ refusals = <<>>

\* Age a, one tick later, never above top.
Older(a, top) == IF a < top THEN a + 1 ELSE top

\* The n latest of q.
Latest(q, n) == IF Len(q) > n THEN SubSeq(q, 1, n) ELSE q

GoesTo(h, where) == pc' = [pc EXCEPT ![h] = where]

-----------------------------------------------------------------------------
\* Mutant: an attempt that is refused counts as the latest violation.
IsAbuserRefreshes(h) ==
    /\ pc[h] = Idle
    /\ IF Banned /\ record.last <= BanDuration
       THEN record' = [record EXCEPT !.last = 0] /\ UNCHANGED pc
       ELSE /\ record' = IF Banned THEN Absent ELSE record
            /\ GoesTo(h, <<"call", "command">>)
    /\ UNCHANGED <<limiter, seen, overlap, late, grants, refusals>>

\* is_abuser at the start of handle_command: a ban that has lasted longer than
\* kBanDuration since the last violation is erased with its record.
IsAbuser(h) ==
    /\ pc[h] = Idle
    /\ IF Banned /\ record.last <= BanDuration
       THEN UNCHANGED <<record, pc>>
       ELSE /\ record' = IF Banned THEN Absent ELSE record
            /\ GoesTo(h, <<"call", "command">>)
    /\ UNCHANGED <<limiter, seen, overlap, late, grants, refusals>>

\* The limits are created on the first command.
Limits == IF limiter = Absent THEN [k \in Limiter |-> [age |-> 0, count |-> 0]] ELSE limiter

\* A window that is over starts anew.
Current(w) == IF w.age >= Window THEN [age |-> 0, count |-> 0] ELSE w

\* The first half of allow(): it renews the window and reads count_.
AllowReads(h, k) ==
    /\ pc[h] = <<"call", k>>
    /\ limiter' = [Limits EXCEPT ![k] = Current(@)]
    /\ seen' = [seen EXCEPT ![h] = limiter'[k].count]
    /\ GoesTo(h, <<"allow", k>>)
    /\ LET inside == {g \in Strand \ {h} : pc[g] = <<"allow", k>>}
       IN overlap' = IF inside = {} THEN overlap ELSE overlap \cup inside \cup {h}
    /\ UNCHANGED <<record, late, grants, refusals>>

AllowReturns(h) ==
    /\ seen' = [seen EXCEPT ![h] = 0]
    /\ overlap' = overlap \ {h}

\* Mutant: one grant too many.
AllowGrantsOneMore(h, k) ==
    /\ pc[h] = <<"allow", k>> /\ seen[h] <= Max[k]
    /\ limiter' = [limiter EXCEPT ![k].count = seen[h] + 1]
    /\ \/ GoesTo(h, Idle)
       \/ k = "command" /\ GoesTo(h, <<"call", "join">>)
    /\ grants' = IF h \in overlap THEN grants
                 ELSE [grants EXCEPT ![k] = Latest(<<0>> \o @, 2 * Max[k] + 1)]
    /\ late' = IF pc'[h] = Idle THEN late \ {h} ELSE late
    /\ AllowReturns(h)
    /\ UNCHANGED <<record, refusals>>

\* The second half: it counts the grant.  A granted command is handled, which
\* for /join asks the other limiter.
AllowGrants(h, k) ==
    /\ pc[h] = <<"allow", k>> /\ seen[h] < Max[k]
    /\ limiter' = [limiter EXCEPT ![k].count = seen[h] + 1]
    /\ \/ GoesTo(h, Idle)
       \/ k = "command" /\ GoesTo(h, <<"call", "join">>)
    /\ grants' = IF h \in overlap THEN grants
                 ELSE [grants EXCEPT ![k] = Latest(<<0>> \o @, 2 * Max[k] + 1)]
    /\ late' = IF pc'[h] = Idle THEN late \ {h} ELSE late
    /\ AllowReturns(h)
    /\ UNCHANGED <<record, refusals>>

AllowRefuses(h, k) ==
    /\ pc[h] = <<"allow", k>> /\ seen[h] >= Max[k]
    /\ GoesTo(h, Refused)
    /\ AllowReturns(h)
    /\ UNCHANGED <<limiter, record, late, grants, refusals>>

\* Mutant: violations are counted for ever.
CountingOn ==
    IF record = Absent
    THEN [violations |-> 0, first |-> 0, last |-> 0, banned |-> FALSE]
    ELSE record

\* The record a violation is counted in: a new one, one that starts over when
\* the first violation is too long ago, or the one there is.
Counting ==
    IF record = Absent \/ record.first > ViolationWindow
    THEN [violations |-> 0, first |-> 0, last |-> 0, banned |-> FALSE]
    ELSE record

\* Mutant: banned at exactly kMaxViolations, the count goes on.
TrackAbuseExactly(h) ==
    /\ pc[h] = Refused
    /\ record' = [Counting EXCEPT !.violations = @ + 1, !.last = 0,
                                  !.banned = Counting.violations + 1 = MaxViolations]
    /\ refusals' = Latest(<<0>> \o refusals, MaxViolations)
    /\ GoesTo(h, Idle)
    /\ UNCHANGED <<limiter, seen, overlap, late, grants>>

\* track_abuse.  A count beyond kMaxViolations makes no further difference.
TrackAbuse(h) ==
    /\ pc[h] = Refused
    /\ LET n == Older(Counting.violations, MaxViolations)
       IN  record' = [Counting EXCEPT !.violations = n, !.last = 0,
                                      !.banned = @ \/ n >= MaxViolations]
    /\ refusals' = Latest(<<0>> \o refusals, MaxViolations)
    /\ GoesTo(h, Idle)
    /\ late' = (IF ~Banned /\ record'.banned THEN {g \in Strand : pc[g] # Idle} ELSE late) \ {h}
    /\ UNCHANGED <<limiter, seen, overlap, grants>>

Tick ==
    /\ limiter' = IF limiter = Absent THEN Absent
                  ELSE [k \in Limiter |-> [limiter[k] EXCEPT !.age = Older(@, Window)]]
    /\ record' = IF record = Absent THEN Absent
                 ELSE [record EXCEPT !.first = Older(@, ViolationWindow + 1),
                                     !.last = Older(@, BanDuration + 1)]
    /\ grants' = [k \in Limiter |-> [i \in DOMAIN grants[k] |-> Older(grants[k][i], Window)]]
    /\ refusals' = [i \in DOMAIN refusals |-> Older(refusals[i], ViolationWindow + 1)]
    /\ UNCHANGED <<pc, seen, overlap, late>>

Handle(h) ==
    \/ \E k \in Limiter : AllowReads(h, k) \/ AllowGrants(h, k) \/ AllowRefuses(h, k)
    \/ TrackAbuse(h)

RateNext == Tick \/ \E h \in Strand : IsAbuser(h) \/ Handle(h)

RateSpec == RateInit /\ [][RateNext]_rateVars

\* Time passes, handlers come to their end, and the user tries again and
\* again.
RateLiveSpec == RateSpec /\ WF_rateVars(Tick) /\ \A h \in Strand : WF_rateVars(Handle(h)) /\ WF_rateVars(IsAbuser(h))

-----------------------------------------------------------------------------
\* A fixed window lets through twice its tokens around its edge and never
\* more: any 2 * max + 1 grants of a limiter stretch over a whole window,
\* whenever the first one opened it, joins refused and windows skipped in
\* between.  Two strands inside one allow() can lose a count, so grants that
\* overlapped another are not counted.
GrantsBounded ==
    \A k \in Limiter : Len(grants[k]) = 2 * Max[k] + 1 => grants[k][2 * Max[k] + 1] = Window

\* A ban is earned: kMaxViolations refusals came within kViolationWindow of
\* each other, the refusals of both limiters and of every session together.
BanEarned ==
    [][~Banned /\ Banned' =>
          /\ Len(refusals') = MaxViolations
          /\ refusals'[MaxViolations] <= ViolationWindow]_rateVars

\* A ban lasts kBanDuration from the last violation.  What can lift it
\* earlier is a refusal of a handler that had passed is_abuser when the ban
\* began: if the violation window has run out by then track_abuse starts the
\* record over, the ban included.
BanLasts ==
    [][Banned /\ ~Banned' =>
          \/ record.last > BanDuration
          \/ \E h \in late : pc[h] = Refused /\ pc'[h] = Idle]_rateVars

\* A ban begins and ends for a reason, whatever the two sessions of a user do
\* at once.
BansJust == BanEarned /\ BanLasts

\* A user who keeps trying gets back in: what is refused during a ban does
\* not prolong it.
BanEnds == Banned ~> ~Banned
=============================================================================
