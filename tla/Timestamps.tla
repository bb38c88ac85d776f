---------------------------- MODULE Timestamps ----------------------------
(***************************************************************************)
(* How the controller writes points in time into text columns, and how     *)
(* those columns then compare.  Liveness (last_heartbeat_at against a      *)
(* cutoff) and queue order (ORDER BY queued_at) are decided by comparing   *)
(* the text, never the instants.                                           *)
(*                                                                         *)
(* Time is a number of units; UnitsPerSecond of them make a second, so an  *)
(* instant is a second and one fractional digit.  RFC3339 drops the        *)
(* fraction.  RFC3339Nano drops its trailing zeros, so the whole second    *)
(* 12:00:05 is written "...:05Z" while half a unit later is "...:05.5Z".   *)
(* In ASCII '.' precedes the digits and every digit precedes 'Z', hence a  *)
(* whole second sorts AFTER every fraction of that same second.            *)
(***************************************************************************)
EXTENDS Integers

CONSTANT UnitsPerSecond

ASSUME UnitsAssumption == UnitsPerSecond \in Nat \ {0}

Second(t) == t \div UnitsPerSecond
Fraction(t) == t % UnitsPerSecond

(* time.Format(time.RFC3339): the instant named by the text.               *)
RFC3339(t) == Second(t) * UnitsPerSecond

(* Position of the RFC3339Nano text of t among the texts of all instants:  *)
(* seconds in order, and inside a second the digits 1, 2, ... and then 0.  *)
TextRank(t) ==
    Second(t) * UnitsPerSecond
        + (IF Fraction(t) = 0 THEN UnitsPerSecond - 1 ELSE Fraction(t) - 1)

(* SQLite's and Go's "s < t" on two such texts.                            *)
TextBefore(s, t) == TextRank(s) < TextRank(t)
============================================================================
