----------------------------- MODULE Durations -----------------------------
(***************************************************************************)
(* The two times that heyl computes: the window a user types for a session *)
(* (heyl-app/src/session/settings.rs) and the end of a window it grants    *)
(* itself (heyl-platform/src/clock.rs).  The widths of the integers are    *)
(* parameters, so that TLC can check a narrow instance.                    *)
(***************************************************************************)
EXTENDS Integers

CONSTANTS MaxU64, MaxU32    \* the largest u64 and u32

\* What the two widths have to do with each other: any u32 of hours is a u64 of
\* seconds.
ASSUME WidthAssumption == MaxU64 \in Nat /\ MaxU32 \in Nat /\ 3600 * MaxU32 <= MaxU64

MIN_TIMEOUT_MINUTES == 1

Units == {"s", "m", "h", "bare"}
Scale == [s |-> 1, m |-> 60, h |-> 3600, bare |-> 60]

\* What is typed: a number and its unit; a text that is no number is below zero.
NoNumber == -1

Minutes(n) == [ok |-> TRUE, minutes |-> n]
BadSettingValue == [ok |-> FALSE, error |-> "BadSettingValue"]
TimeoutTooShort == [ok |-> FALSE, error |-> "TimeoutTooShort"]

\* Mutated: the product wraps around.
MutParseTimeout(typed) ==
    LET seconds == (typed.number * Scale[typed.unit]) % (MaxU64 + 1)
        minutes == seconds \div 60
    IN  IF typed.number \notin 0..MaxU64 \/ minutes > MaxU32 THEN BadSettingValue
        ELSE IF minutes < MIN_TIMEOUT_MINUTES THEN TimeoutTooShort
        ELSE Minutes(minutes)

\* parse::<u64>, checked_mul, u32::try_from: each refuses what does not fit.
ParseTimeout(typed) ==
    LET seconds == typed.number * Scale[typed.unit]
        minutes == seconds \div 60
    IN  IF \/ typed.number \notin 0..MaxU64
           \/ seconds > MaxU64
           \/ minutes > MaxU32
        THEN BadSettingValue
        ELSE IF minutes < MIN_TIMEOUT_MINUTES THEN TimeoutTooShort
        ELSE Minutes(minutes)

\* How a window is shown.
RenderTimeout(minutes) ==
    IF minutes % 60 = 0 THEN [number |-> minutes \div 60, unit |-> "h"]
    ELSE [number |-> minutes, unit |-> "m"]

\* A window is never longer than was asked for, nor shorter by a minute; it is
\* refused only if it is under a minute or if its seconds or its minutes do not
\* fit; and what is shown of it can be typed again (settings.rs parse_timeout,
\* render_timeout).
TimeoutHonoured(typed) ==
    LET asked == typed.number * Scale[typed.unit]
        given == ParseTimeout(typed)
    IN  /\ given.ok => /\ 60 * given.minutes <= asked
                       /\ asked < 60 * given.minutes + 60
                       /\ ParseTimeout(RenderTimeout(given.minutes)) = given
        /\ given = TimeoutTooShort => asked < 60
        /\ given = BadSettingValue =>
              typed.number = NoNumber \/ asked > MaxU64 \/ asked >= 60 * (MaxU32 + 1)

-----------------------------------------------------------------------------
(* Instants are counted in half hours of UTC.  A zone has one change of its *)
(* offset; the calendar and the resolution of a local time are jiff's.      *)

Day == 48
TwoAM == 4

Offset(zone, t) == IF t < zone.change THEN zone.before ELSE zone.after
Local(zone, t) == t + Offset(zone, t)

\* The instant of a local time: with the offset at hand if it has that time,
\* with the one that has it if the other has not, and the later side of a gap.
Resolve(zone, local, offset) ==
    LET fits == {o \in {zone.before, zone.after} : Local(zone, local - o) = local}
    IN  IF offset \in fits THEN local - offset
        ELSE local - (IF fits = {} THEN zone.before ELSE CHOOSE o \in fits : TRUE)

\* Mutated: the next 02:00, which may be today's.
MutNextUnlockDeadline(now, zone) ==
    LET today == Local(zone, now) \div Day
        two == today * Day + TwoAM
    IN  Resolve(zone, IF Local(zone, now) < two THEN two ELSE two + Day, Offset(zone, now))

\* 02:00, local, of the day that it will be in 24 hours.
NextUnlockDeadline(now, zone) ==
    LET tomorrow == now + Day
    IN  Resolve(zone, (Local(zone, tomorrow) \div Day) * Day + TwoAM, Offset(zone, tomorrow))

\* A zone as they are: its change is of less than two hours, and does not turn
\* the clock back over a midnight.
Zone(zone) ==
    /\ {zone.change, zone.before, zone.after} \subseteq Int
    /\ zone.before - zone.after \in -3..3
    /\ (zone.change - 1 + zone.before) \div Day <= (zone.change + zone.after) \div Day

\* A window granted now ends on the day that it will be in 24 hours, when the
\* local clock reads 02:00 or, if it never does, later that night; it lies ahead,
\* by less than 28 hours; and a later grant never ends earlier, across a change
\* of the zone's offset too (clock.rs next_unlock_deadline_from).
EndsTomorrowNight(now, zone) ==
    LET end == NextUnlockDeadline(now, zone)
        two == (Local(zone, now + Day) \div Day) * Day + TwoAM
    IN  /\ \/ Local(zone, end) = two
           \/ /\ two < Local(zone, end) /\ Local(zone, end) < two + 4
              /\ \A t \in now..(now + 2 * Day) : Local(zone, t) # two
        /\ now < end /\ end < now + Day + 8
        /\ end <= NextUnlockDeadline(now + 1, zone)
=============================================================================
