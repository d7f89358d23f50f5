------------------------------ MODULE Duration ------------------------------
(***************************************************************************)
(* The deadline of a hold: parsing --for and --until (duration.go,         *)
(* deadline in commands.go) and the "time left" of the start and status    *)
(* lines (shortDur).                                                       *)
(*                                                                         *)
(* Time is counted in units, Second of them to a second, and a Go int or   *)
(* time.Duration has Values values: 10^9 and 2^64 in the program.  A       *)
(* command line argument is what the Go parsers make of it: a bare         *)
(* integer, a Go duration, a clock time, or text none of them takes.       *)
(*                                                                         *)
(* The process waits for the exact deadline.  The pidfile, which is all    *)
(* that status knows, has it in whole seconds, cut off.                    *)
(***************************************************************************)
EXTENDS Integers

CONSTANTS
  Second,  \* units in a second
  Values,  \* how many values an int, and a Duration, can have
  Ints,    \* the bare integers --for is tried with
  Spans,   \* the durations, in units, --for is tried with
  Clocks,  \* the clock times, in minutes since midnight, --until is tried with
  Nows,    \* the times of day, in units, the program runs at
  Lefts    \* the time left when the clock is looked at; below 0 the timer is late

MinInt == -(Values \div 2)
MaxInt == MinInt + Values - 1

ASSUME UnitsAssumption == Second \in Nat \ {0} /\ Values \in Nat \ {0}
ASSUME ArgsAssumption ==
  /\ Ints \subseteq MinInt .. MaxInt
  /\ Spans \subseteq MinInt .. MaxInt
  /\ Clocks \subseteq 0 .. 1439
  /\ Nows \subseteq Nat
  /\ Lefts \subseteq Int

Minute == 60 * Second
Hour   == 60 * Minute

VARIABLES
  forStr,    \* the --for argument
  untilStr,  \* the --until argument
  start,     \* the time the command started
  now,       \* the time it is
  hold       \* [at, expiresAt]: holding until then, recorded in seconds;
             \* Usage: refused; Parsing: not yet known

vars == <<forStr, untilStr, start, now, hold>>

\* "" is a flag that was not given.
None == [kind |-> "none", n |-> 0]
Args(kind, S) == {[kind |-> kind, n |-> n] : n \in S}
Bad  == [kind |-> "bad", n |-> 0]

Usage   == [kind |-> "usage", at |-> 0, expiresAt |-> 0]
Parsing == [kind |-> "parsing", at |-> 0, expiresAt |-> 0]
Forever == [kind |-> "forever", at |-> 0, expiresAt |-> 0]
\* Time.Unix cuts the fraction of a second off.
Until(t) == [kind |-> "until", at |-> t, expiresAt |-> t \div Second]

-----------------------------------------------------------------------------
(* The functions of duration.go.                                           *)

\* Two's complement.
Wrap(x) == ((x - MinInt) % Values) + MinInt

\* Mutant: a duration that is not positive is accepted.
ParseFor_AnySign(s) ==
  CASE s.kind = "int"  -> {Wrap(s.n * Second)}
    [] s.kind = "span" -> {s.n}
    [] OTHER           -> {}
\* The durations s can mean: one, or none when it is refused.
ParseFor(s) ==
  LET d == IF s.kind = "int" THEN Wrap(s.n * Second) ELSE s.n
  IN  IF s.kind \in {"int", "span"} /\ d > 0 THEN {d} ELSE {}

\* The same clock time today, unless it has passed.
ParseUntil(s, t) ==
  {target \in {s.n * Minute} : s.kind = "clock" /\ target > t}

\* d rounded to a multiple of m, a half upwards (time.Duration.Round; below 0
\* it differs, where nothing but "1s" is shown anyway).
Round(d, m) == ((2 * d + m) \div (2 * m)) * m

\* Mutant: the minutes are cut off, not rounded, while seconds are rounded.
shortDur_Cut(d) ==
  IF d < Minute
    THEN LET secs == Round(d, Second) \div Second
         IN  [h |-> 0, m |-> 0, s |-> IF secs < 1 THEN 1 ELSE secs]
    ELSE [h |-> d \div Hour, m |-> (d % Hour) \div Minute, s |-> 0]
\* Mutant: the hours of the span as it is, the minutes of the rounded one.
shortDur_HourFirst(d) ==
  IF d < Minute
    THEN LET secs == Round(d, Second) \div Second
         IN  [h |-> 0, m |-> 0, s |-> IF secs < 1 THEN 1 ELSE secs]
    ELSE [h |-> d \div Hour, m |-> (Round(d, Minute) % Hour) \div Minute, s |-> 0]
\* The hours, minutes and seconds shown for d.
shortDur(d) ==
  IF d < Minute
    THEN LET secs == Round(d, Second) \div Second
         IN  [h |-> 0, m |-> 0, s |-> IF secs < 1 THEN 1 ELSE secs]
    ELSE LET r == Round(d, Minute)
         IN  [h |-> r \div Hour, m |-> (r % Hour) \div Minute, s |-> 0]

-----------------------------------------------------------------------------

\* The holds the two flags ask for: one, or none when they are refused.
deadline(for, until, t) ==
  CASE for # None /\ until # None -> {}
    [] for # None /\ until = None -> {Until(t + d) : d \in ParseFor(for)}
    [] for = None /\ until # None -> {Until(u) : u \in ParseUntil(until, t)}
    [] OTHER                      -> {Forever}

Init ==
  /\ forStr \in {None, Bad} \cup Args("int", Ints) \cup Args("span", Spans)
  /\ untilStr \in {None, Bad} \cup Args("clock", Clocks)
  /\ start \in Nows
  /\ now = start
  /\ hold = Parsing

\* cmdHold, before it touches anything
Parse ==
  LET h == deadline(forStr, untilStr, now)
  IN  /\ hold = Parsing
      /\ hold' \in IF h = {} THEN {Usage} ELSE h
      /\ UNCHANGED <<forStr, untilStr, start, now>>

\* Time passes, until something looks at the clock with this much time left.
Tick ==
  /\ hold.kind = "until"
  /\ \E left \in Lefts : now' = hold.at - left
  /\ now < now'
  /\ UNCHANGED <<forStr, untilStr, start, hold>>

Next == Parse \/ Tick

Spec == Init /\ [][Next]_vars

-----------------------------------------------------------------------------
\* What shortDur makes of d, in units.
InUnits(d) == LET s == shortDur(d) IN s.h * Hour + s.m * Minute + s.s * Second

\* The time left in the line the hold starts with, and in that of a status at
\* time t.
Announced == InUnits(hold.at - start)
Shown(t)  == InUnits(hold.expiresAt * Second - t)

\* A deadline that was accepted lies ahead of the start, however it was typed
\* and whatever the product wrapped to.
DeadlineAhead == hold.kind = "until" => hold.at > start

\* What status shows, from the record that lost its fraction of a second, is
\* never less than a second.  It exceeds the real time left by at most half a
\* unit, unless it is that second, and falls short of it by less than half a
\* unit and a second.  The unit is the minute, or the second below a minute.
ShownIsClose ==
  hold.kind = "until" =>
    LET left == hold.at - now
        unit == IF left < Minute THEN Second ELSE Minute
    IN  /\ Shown(now) >= Second
        /\ Shown(now) > Second => 2 * (Shown(now) - left) <= unit
        /\ 2 * (left - Shown(now)) < unit + 2 * Second

\* Asking again never shows more time left than before, nor more than the
\* start line said.
ShownNeverGrows ==
  [][hold.kind = "until" /\ hold' = hold =>
       Shown(now') <= Shown(now) /\ Shown(now) <= Announced]_vars
=============================================================================
