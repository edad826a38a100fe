----------------------------- MODULE Reconciliation -----------------------------
(***************************************************************************)
(* Payouts against the bank (reconciliation.service.ts and its cores).  A  *)
(* run loads the payouts of the school, fetches the feed of the bank,      *)
(* stores its transactions and matches them; payouts are sent and the      *)
(* bank posts in the meantime.  The clock counts days.                     *)
(***************************************************************************)
EXTENDS Integers, Sequences, FiniteSets, FiniteSetsExt, SequencesExt

CONSTANTS
    Run,            \* the runs that go on at the same time
    Amount, Reference,
    NoReference,
    StaleAfter,     \* STALE_AFTER_HOURS
    Window,         \* MATCH_DATE_WINDOW_HOURS
    Gifts,          \* donations that count: amount, country and campaign
    MaxPayouts, MaxPosted, MaxDay   \* bounds

ReconciliationAssumption ==
    /\ Amount \subseteq Nat /\ NoReference \notin Reference
    /\ {StaleAfter, Window, MaxPayouts, MaxPosted, MaxDay} \subseteq Nat
    /\ IsFiniteSet(DOMAIN Gifts) /\ \A g \in DOMAIN Gifts : Gifts[g].amount \in Nat

VARIABLES
    payouts,        \* the payouts of the school, newest first
    bank,           \* what the bank has posted
    stored,         \* stored[t]: the amount of bank transaction t, as first fetched
    views,          \* the rows, orphans and alerts the last run returned
    day,
    run             \* what each run has loaded

vars == <<payouts, bank, stored, views, day, run>>

NotSent == -1
Idle == [step |-> "idle"]
NoViews == [rows |-> <<>>, orphans |-> {}, alerts |-> {}]

TypeOK ==
    /\ payouts \in Seq([amount : Amount, reference : Reference, sentAt : {NotSent} \cup 0..MaxDay])
    /\ bank \in Seq([amount : Amount, reference : Reference \cup {NoReference}, at : 0..MaxDay])
    /\ DOMAIN stored \subseteq DOMAIN bank /\ \A t \in DOMAIN stored : stored[t] \in Amount
    /\ DOMAIN views = {"rows", "orphans", "alerts"}
    /\ day \in 0..MaxDay
    /\ \A r \in Run : run[r].step \in {"idle", "loaded", "fetched"}

Init ==
    /\ payouts = <<>>
    /\ bank = <<>>
    /\ stored = <<>>
    /\ views = NoViews
    /\ day = 0
    /\ run = [r \in Run |-> Idle]
-----------------------------------------------------------------------------
(* Matching.                                                               *)

DaysBetween(a, b) == IF a > b THEN a - b ELSE b - a

\* isMatch: by the reference, else by the amount and a date that is close.
IsMatch(p, t) ==
    \/ p.reference = t.reference
    \/ /\ t.amount = p.amount
       /\ p.sentAt # NotSent
       /\ DaysBetween(p.sentAt, t.at) <= Window

\* classifyUnmatched
ClassifyUnmatched(p, now) ==
    IF p.sentAt # NotSent /\ DaysBetween(now, p.sentAt) > StaleAfter THEN "UNMATCHED" ELSE "PENDING"

\* Mutant: a transaction may be the counterpart of several payouts.
AnyTransaction(txns, used) == DOMAIN txns

\* The transactions no earlier payout has consumed.
Unconsumed(txns, used) == DOMAIN txns \ used

\* reconcile: payout by payout, the first transaction left that matches.
Matched(rows, p, txns) ==
    LET used == UNION {rows[i] : i \in DOMAIN rows}
        fits == {t \in Unconsumed(txns, used) : IsMatch(p, txns[t])}
    IN  Append(rows, IF fits = {} THEN {} ELSE {Min(fits)})
Matches(ps, txns) == FoldLeft(LAMBDA rows, p : Matched(rows, p, txns), <<>>, ps)

\* reconcile and detectRow: status, counterpart and difference of each payout.
Rows(ps, txns, now) ==
    LET found == Matches(ps, txns)
        Difference(i) == txns[CHOOSE t \in found[i] : TRUE].amount - ps[i].amount
    IN  [i \in DOMAIN ps |->
            IF found[i] = {} THEN [status |-> ClassifyUnmatched(ps[i], now), with |-> {}, off |-> 0]
            ELSE [status |-> IF Difference(i) # 0 THEN "DISCREPANCY" ELSE "MATCHED",
                  with |-> found[i], off |-> Difference(i)]]

\* detectDiscrepancies: the transactions that belong to no payout.
Orphans(ps, txns) == DOMAIN txns \ UNION {Matches(ps, txns)[i] : i \in DOMAIN ps}

\* isStale, of a payout that has been sent
IsStale(p, now) == now - p.sentAt >= StaleAfter

\* buildStaleAlerts
Alerts(ps, rows, now) ==
    {i \in DOMAIN ps : rows[i].status = "UNMATCHED" /\ ps[i].sentAt # NotSent /\ IsStale(ps[i], now)}

\* buildReconciliationView
View(ps, txns, now) ==
    LET rows == Rows(ps, txns, now)
    IN  [rows |-> rows, orphans |-> Orphans(ps, txns), alerts |-> Alerts(ps, rows, now)]

\* The summary of a run.
Summary(view) ==
    [status \in {"MATCHED", "PENDING", "UNMATCHED", "DISCREPANCY"} |->
        Cardinality({i \in DOMAIN view.rows : view.rows[i].status = status})]
-----------------------------------------------------------------------------
(* Reports on the same payouts.                                            *)

\* payoutToJournalLines, buildJournal: a debit and a credit for each payout.
Journal(ps) ==
    [k \in 1..(2 * Len(ps)) |->
        LET p == ps[(k + 1) \div 2]
        IN  IF k % 2 = 1 THEN [account |-> "5000", debit |-> p.amount, credit |-> 0]
            ELSE [account |-> "1000", debit |-> 0, credit |-> p.amount]]
SumOf(rows, column, S) == MapThenSumSet(LAMBDA k : rows[k][column], S)
Total(lines, side) == SumOf(lines, side, DOMAIN lines)

\* regimeForCountry, buildTaxReport
Regime(eu) == IF eu THEN "EU_SEPA" ELSE "US_1099"
TaxReport(ps, eu) ==
    [regime |-> Regime(eu), total |-> SumOf(ps, "amount", DOMAIN ps),
     lines |-> [i \in DOMAIN ps |-> <<ps[i].amount, IF eu THEN "SEPA credit transfer"
                                                    ELSE "1099-MISC Box 3">>]]

\* aggregateTransparency of counted donations: totals, average, countries.
Transparency(gifts, ps) ==
    LET raised == SumOf(gifts, "amount", DOMAIN gifts)
        count == Cardinality(DOMAIN gifts)
        From(country) == {g \in DOMAIN gifts : gifts[g].country = country}
    IN  [raised |-> raised,
         paid |-> SumOf(ps, "amount", DOMAIN ps),
         average |-> IF count = 0 THEN 0 ELSE (2 * raised + count) \div (2 * count),
         students |-> Cardinality({gifts[g].campaign : g \in DOMAIN gifts}),
         geography |-> [country \in {gifts[g].country : g \in DOMAIN gifts} |->
             [count |-> Cardinality(From(country)),
              amount |-> SumOf(gifts, "amount", From(country))]]]
-----------------------------------------------------------------------------
(* What happens.                                                           *)

\* A payout is made, and sent later or never.
CreatePayout(amount, reference) ==
    /\ Len(payouts) < MaxPayouts
    /\ \A i \in DOMAIN payouts : payouts[i].reference # reference
    /\ payouts' = <<[amount |-> amount, reference |-> reference, sentAt |-> NotSent]>> \o payouts
    /\ UNCHANGED <<bank, stored, views, day, run>>
SendPayout(i) ==
    /\ payouts[i].sentAt = NotSent
    /\ payouts' = [payouts EXCEPT ![i].sentAt = day]
    /\ UNCHANGED <<bank, stored, views, day, run>>

\* The bank posts: for a payout, with or without its reference and in full or
\* not, or something else altogether.
Post(amount, reference) ==
    /\ Len(bank) < MaxPosted
    /\ bank' = Append(bank, [amount |-> amount, reference |-> reference, at |-> day])
    /\ UNCHANGED <<payouts, stored, views, day, run>>

Tick ==
    /\ day < MaxDay
    /\ day' = day + 1
    /\ UNCHANGED <<payouts, bank, stored, views, run>>

\* loadPayouts
Load(r) ==
    /\ run[r] = Idle
    /\ run' = [run EXCEPT ![r] = [step |-> "loaded", payouts |-> payouts, now |-> day]]
    /\ UNCHANGED <<payouts, bank, stored, views, day>>

\* fetchTransactions and persistBankTx: a transaction that is stored stays.
Fetch(r) ==
    /\ run[r].step = "loaded"
    /\ stored' = [t \in DOMAIN bank |-> IF t \in DOMAIN stored THEN stored[t] ELSE bank[t].amount]
    /\ run' = [run EXCEPT ![r] = [step |-> "fetched", payouts |-> @.payouts, now |-> @.now,
                                  bank |-> bank]]
    /\ UNCHANGED <<payouts, bank, views, day>>

\* reconcile answers.
Reconcile(r) ==
    /\ run[r].step = "fetched"
    /\ views' = View(run[r].payouts, run[r].bank, run[r].now)
    /\ run' = [run EXCEPT ![r] = Idle]
    /\ UNCHANGED <<payouts, bank, stored, day>>

\* The routes of a school.
ReconciliationStep(r) == Load(r) \/ Fetch(r) \/ Reconcile(r)

Next ==
    \/ \E amount \in Amount, reference \in Reference : CreatePayout(amount, reference)
    \/ \E i \in DOMAIN payouts : SendPayout(i)
    \/ \E amount \in Amount, reference \in Reference \cup {NoReference} : Post(amount, reference)
    \/ Tick
    \/ \E r \in Run : ReconciliationStep(r)

Spec == Init /\ [][Next]_vars
-----------------------------------------------------------------------------
(* What the checks are for.                                                *)

\* "Each bank transaction is consumed by at most one payout", and what no payout
\* consumed is an orphan: each is in exactly one place (reconcile).
EachTransactionOnce ==
    \A i, j \in DOMAIN views.rows :
        /\ i # j => views.rows[i].with \cap views.rows[j].with = {}
        /\ views.rows[i].with \cap views.orphans = {}

\* A payout that is reported unmatched raises an alert and no other does, although
\* the two are decided apart and round differently (classifyUnmatched, isStale).
UnmatchedIsAlerted ==
    views.alerts = {i \in DOMAIN views.rows : views.rows[i].status = "UNMATCHED"}

\* The exports of a school tell one story: its journal balances, journal, tax report
\* and public page have the same total, and no payout is missing from the summary
\* (buildJournal, buildTaxReport, aggregateTransparency, reconcile).
ExportsAgree ==
    LET page == Transparency(Gifts, payouts)
        counts == Summary(views)
    IN  /\ Total(Journal(payouts), "debit") = page.paid
        /\ Total(Journal(payouts), "credit") = page.paid
        /\ \A eu \in BOOLEAN : TaxReport(payouts, eu).total = page.paid
        /\ page.raised = SumOf(page.geography, "amount", DOMAIN page.geography)
        /\ Len(views.rows) = MapThenSumSet(LAMBDA status : counts[status], DOMAIN counts)

\* A transaction that fits one payout alone is not left over while that payout
\* waits (reconcile takes the first that fits, for the newest payout first).
NothingLeftOver ==
    \A r \in Run : run[r].step = "fetched" =>
        LET ps == run[r].payouts  txns == run[r].bank  rows == Rows(ps, txns, run[r].now)
        IN  \A t \in Orphans(ps, txns), i \in DOMAIN ps :
                IsMatch(ps[i], txns[t]) => rows[i].with # {}

=============================================================================
