--------------------------- MODULE CampaignPromise ---------------------------
(***************************************************************************)
(* What Bursa promises about the money of one campaign, without handlers,  *)
(* provider or database: contributions add up, no pledged card is debited  *)
(* before they cover the goal, and the school is paid once, after that and *)
(* out of what the contributions add up to.                                *)
(***************************************************************************)
EXTENDS Integers

CONSTANTS
    Donation,   \* the donations that may be made
    Goal,       \* what the tuition costs
    None        \* no payout yet

VARIABLES
    total,      \* what the contributions add up to
    debited,    \* the pledges whose card was debited
    paid        \* what the school was promised, or None

vars == <<total, debited, paid>>

Init == total = 0 /\ debited = {} /\ paid = None

\* A contribution is never taken back.
Contribute ==
    /\ total' \in Nat
    /\ total' > total
    /\ UNCHANGED <<debited, paid>>

\* All-or-nothing.
Debit ==
    /\ total >= Goal
    /\ \E d \in Donation : debited' = debited \cup {d}
    /\ UNCHANGED <<total, paid>>

\* The payout is made once and is covered.
Pay ==
    /\ total >= Goal
    /\ paid = None
    /\ paid' \in 0 .. total
    /\ UNCHANGED <<total, debited>>

Next == Contribute \/ Debit \/ Pay

Spec == Init /\ [][Next]_vars

=============================================================================
