----------------------------- MODULE WorkLeases -----------------------------
(***************************************************************************)
(* What the store of work promises, whatever its tables and timestamps:    *)
(* an offered item is leased to one holder at a time, a holder has one     *)
(* lease at a time, a lease ends by being settled by its holder or by the  *)
(* holder being retired, and what a retired holder held is offered again   *)
(* or given up as failed.  WorkStore is shown to implement this.           *)
(***************************************************************************)
EXTENDS Naturals

CONSTANTS Items, Holders

VARIABLES offered,   \* items waiting for a holder
          leases,    \* pairs of an item and the holder working on it
          outcomes,  \* pairs of an item and how a lease of it was settled
          retired    \* holders that may never hold a lease again

leaseVars == <<offered, leases, outcomes, retired>>

Outcomes == {"completed", "failed"}

HeldBy(H) == {l[1] : l \in {m \in leases : m[2] \in H}}

Init ==
    /\ offered = {} /\ leases = {} /\ outcomes = {} /\ retired = {}

Offer(S) ==
    /\ offered' = offered \cup S
    /\ UNCHANGED <<leases, outcomes, retired>>

Grant(i, h) ==
    /\ i \in offered /\ h \notin retired
    /\ \A l \in leases : l[1] # i /\ l[2] # h
    /\ offered' = offered \ {i}
    /\ leases' = leases \cup {<<i, h>>}
    /\ UNCHANGED <<outcomes, retired>>

Settle(i, h, outcome) ==
    /\ <<i, h>> \in leases
    /\ leases' = leases \ {<<i, h>>}
    /\ outcomes' = outcomes \cup {<<i, outcome>>}
    /\ UNCHANGED <<offered, retired>>

(* The items of the retired holders are offered again, save those given up.*)
Retire(H, givenUp) ==
    /\ retired' = retired \cup H
    /\ leases' = {l \in leases : l[2] \notin H}
    /\ offered' = offered \cup (HeldBy(H) \ givenUp)
    /\ outcomes' = outcomes \cup {<<i, "failed">> : i \in HeldBy(H) \cap givenUp}

Next ==
    \/ \E S \in SUBSET Items : Offer(S)
    \/ \E i \in Items, h \in Holders :
        \/ Grant(i, h)
        \/ \E outcome \in Outcomes : Settle(i, h, outcome)
    \/ \E H \in SUBSET Holders, givenUp \in SUBSET Items : Retire(H, givenUp)

Spec == Init /\ [][Next]_leaseVars
=============================================================================
