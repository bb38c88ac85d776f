------------------------- MODULE ResourceAdmission -------------------------
(***************************************************************************)
(* The admission test of a queued work item: each of its persisted         *)
(* constraints compares the units its resource already has in use, plus    *)
(* the units the item asks for, with a target.  The sum is an int64; a     *)
(* sum past MaxUnits is an error and not a refusal.                        *)
(***************************************************************************)
EXTENDS Integers, Sequences

CONSTANTS ResourceKeys,   \* resource_key column
          MaxUnits        \* math.MaxInt64

ASSUME MaxUnitsAssumption == MaxUnits \in Nat

ResourceOperators == {"=", "!=", "<", ">", "<=", ">="}

(* Rows of work_item_resource_constraints; the request is positive and the *)
(* target non-negative.                                                    *)
ResourceConstraint ==
    [key : ResourceKeys, units : Nat \ {0}, op : ResourceOperators, target : Nat]

Compare(x, op, y) ==
    \/ op = "="  /\ x = y
    \/ op = "!=" /\ x # y
    \/ op = "<"  /\ x < y
    \/ op = ">"  /\ x > y
    \/ op = "<=" /\ x <= y
    \/ op = ">=" /\ x >= y

checkedAddOverflows(total, units) == total > MaxUnits - units

(* Faulty: compares the units in use, not those after admission.           *)
AllowsByUnitsInUse(total, c) == Compare(total, c.op, c.target)

ResourceConstraintAllows(total, c) ==
    /\ ~checkedAddOverflows(total, c.units)
    /\ Compare(total + c.units, c.op, c.target)

(* Every check passes.                                                     *)
ResourceConstraintChecksAllow(totals, cs) ==
    \A n \in DOMAIN cs : ResourceConstraintAllows(totals[cs[n].key], cs[n])

(* The first check that does not pass is an overflow.                      *)
ResourceConstraintChecksError(totals, cs) ==
    \E n \in DOMAIN cs :
        /\ checkedAddOverflows(totals[cs[n].key], cs[n].units)
        /\ \A m \in 1 .. n-1 : ResourceConstraintAllows(totals[cs[m].key], cs[m])
============================================================================
