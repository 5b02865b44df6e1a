--------------------------- MODULE ViolationService ---------------------------
(***************************************************************************)
(* Who may not search, and for how long: ViolationService                  *)
(* (ladder_service/violation_service.py) with its two callers, start_search*)
(* and launch_match (ladder_service/ladder_service.py).                    *)
(*                                                                         *)
(* A Violation is kept until somebody looks at it after its reset time:    *)
(* the cleanup timer, the next search of the player, or the next           *)
(* registration.  Any of them may come first, or much later.  The clock    *)
(* stands still within a step.                                             *)
(***************************************************************************)
EXTENDS Integers

CONSTANTS
    Searchers, Parties,
    Threshold,   \* LADDER_VIOLATIONS_BAN_THRESHOLD
    FirstBan,    \* LADDER_VIOLATIONS_FIRST_BAN_DURATION
    LongBan,     \* LADDER_VIOLATIONS_BAN_DURATION
    ResetTime,   \* LADDER_VIOLATIONS_RESET_TIME
    MaxTime,     \* bound on the clock
    MaxCount     \* bound on the violations of a player

ViolationAssumption ==
    /\ Parties \subseteq SUBSET Searchers
    /\ Threshold \in Nat \ {0}
    /\ FirstBan \in Nat /\ LongBan \in Nat /\ ResetTime \in Nat \ {0}
    /\ FirstBan <= ResetTime /\ LongBan <= ResetTime

VARIABLES
    now,
    violations,  \* _violations; count 0 stands for no entry
    accepted,    \* the searches of this moment
    refused,     \* the parties that were sent search_timeout at this moment
    failures     \* for the properties: the failures of a player in a row and
                 \* the time of the last one, which nothing clears

banVars == <<now, violations, accepted, refused, failures>>

Entry == [count : Nat, time : Nat]

BansTypeOK ==
    /\ now \in Nat
    /\ violations \in [Searchers -> Entry]
    /\ accepted \subseteq Parties
    /\ refused \subseteq Parties
    /\ failures \in [Searchers -> Entry]

NoEntry == [count |-> 0, time |-> 0]

BansInit ==
    /\ now = 0
    /\ violations = [p \in Searchers |-> NoEntry]
    /\ accepted = {}
    /\ refused = {}
    /\ failures = [p \in Searchers |-> NoEntry]

-----------------------------------------------------------------------------
(* Violation *)

\* get_ban_expiration
BanExpiration(v) ==
    CASE v.count < Threshold -> v.time
      [] v.count = Threshold -> v.time + FirstBan
      [] v.count > Threshold -> v.time + LongBan

\* Mutant: the history is forgotten when the first ban ends
IsExpiredEarly(v) == v.time + FirstBan <= now

\* is_expired
IsExpired(v) == v.time + ResetTime <= now

-----------------------------------------------------------------------------
(* ViolationService *)

\* Time passes
Tick ==
    /\ now < MaxTime
    /\ now' = now + 1
    /\ accepted' = {}
    /\ refused' = {}
    /\ UNCHANGED <<violations, failures>>

Expired == {p \in Searchers : violations[p].count > 0 /\ IsExpired(violations[p])}

Without(S) == [p \in Searchers |-> IF p \in S THEN NoEntry ELSE violations[p]]

\* clear_expired
ClearExpired ==
    /\ Expired # {}
    /\ violations' = Without(Expired)
    /\ UNCHANGED <<now, accepted, refused, failures>>

\* A failure more, or the first of a new row
Count(v) ==
    [count |-> IF v.count = 0 \/ IsExpired(v) THEN 1 ELSE v.count + 1, time |-> now]

\* register_violations, for the players who kept a match from starting
RegisterViolations(S) ==
    /\ S # {}
    /\ \A p \in S : violations[p].count < MaxCount
    /\ violations' = [p \in Searchers |->
                        IF p \in S THEN Count(violations[p]) ELSE violations[p]]
    /\ failures' = [p \in Searchers |->
                      IF p \in S
                      THEN [count |-> IF /\ failures[p].count > 0
                                         /\ now < failures[p].time + ResetTime
                                      THEN failures[p].count + 1 ELSE 1,
                            time |-> now]
                      ELSE failures[p]]
    /\ UNCHANGED <<now, accepted, refused>>

\* What get_violations returns for a party
Banned(S) ==
    {p \in S : violations[p].count > 0 /\ BanExpiration(violations[p]) > now}

\* start_search: all players are refused when one is banned; entries that
\* are looked at and old enough are deleted
GetViolations(S) ==
    /\ violations' = Without((S \ Banned(S)) \cap Expired)
    /\ IF Banned(S) = {}
       THEN accepted' = accepted \cup {S} /\ UNCHANGED refused
       ELSE refused' = refused \cup {S} /\ UNCHANGED accepted
    /\ UNCHANGED <<now, failures>>

BansNext ==
    \/ Tick
    \/ ClearExpired
    \/ \E S \in SUBSET Searchers : RegisterViolations(S)
    \/ \E S \in Parties : GetViolations(S)

BansSpec == BansInit /\ [][BansNext]_banVars

-----------------------------------------------------------------------------
(* Properties *)

\* A ban by the failures themselves, however the entries were cleaned up
IsBanned(p) ==
    /\ failures[p].count >= Threshold
    /\ now < failures[p].time + IF failures[p].count = Threshold THEN FirstBan ELSE LongBan

\* A party is let into a queue exactly when none of its players serves a
\* ban: every failure within the reset time of the one before counts, and no
\* cleanup shortens a ban or forgets a failure that still counts.
BansAreServed ==
    [][/\ \A S \in accepted' \ accepted : ~\E p \in S : IsBanned(p)
       /\ \A S \in refused' \ refused : \E p \in S : IsBanned(p)]_banVars
=============================================================================
