# Bursa: a verification project

Bursa is an all-or-nothing funding platform for business-school tuition. A student opens a campaign, an administrator
verifies it, private donors pledge cards, companies and employers give and match, and when the goal is covered the
pledged cards are charged and the school (never the student) is paid. Companies also run scholarship programs whose
awards are paid to schools, and every such payment is an entry of an append-only, hash-chained ledger.

The API is one NestJS process over PostgreSQL (`src/apps/api`), the client an Angular application (`src/apps/web`). This
directory holds TLA+ modules of both, the instances TLC checks, and theorems TLAPS proves.

Contents: 1 the system, 2 the modules, 3 the runs, 4 disagreements, 5 the proofs, 6 what is left out, 7 the plan.

## 1. The system

### How it runs

Every request is served by an `async` handler. Between two `await`s a handler is atomic; at an `await` any other handler
may run, and PostgreSQL serves all of them. Prisma's transactions run at READ COMMITTED and no handler locks what it
reads. The usual shape of a handler is therefore *read rows, await a provider, write what was computed from the rows* in
one transaction, and the rows may be old by then. Only unique indexes stop a second writer. There is no queue, no worker
and no retry: "cron" jobs are requests (`POST .../run`), and a process that stops leaves the work of its requests where it
was. This is what the modules model: **one action per stretch between two awaits, the handler's memory as a variable**.

The client works the same way: a page is a set of signals, a call is in flight until its answer comes, answers come in any
order or not at all, and the user goes on meanwhile. No page asks whether an answer still belongs to what it shows.

### Components

| Component | State | Operations | What is hard | What makes it correct |
|---|---|---|---|---|
| donations | `Campaign`, `Donation` | card pledge, SEPA, capture of all pledges | absolute writes from stale rows; capture loop | totals are backed by rows; no card is debited before the goal |
| corporate | `Sponsorship`, `Invoice`, profile | sponsor, settle, profile, report | tier computed before the charge | charged is booked; reports agree; full tuition funds |
| matching | `MatchClaim`, `User.matchUsedCents` | offer, claim | two claims at a time; a new year | one match per donation; the annual cap |
| payouts, admin | `Payout`, `Campaign.status` | disburse; verify, reject | transfer before the row | the school is paid once, and what is covered |
| payments | calls of Stripe or the mock | pledge, charge, capture, pay out | a lost answer | success was done; failure was not, unless the answer was lost |
| recurring | `RecurringPledge` | create, pause, resume, cancel, run | runs overlap or die; the donor cancels meanwhile | once a month; counts agree with charges |
| payroll | `PayrollCampaign`, `EmployeePayrollProfile`, `HrisConnection` | connect, sync, rule, opt-in, run | one snapshot for a whole run; a nested transaction; two syncs | the annual cap; every contribution has its ledger entry; who opted in stays in |
| ledger | `LedgerEntry` | append, verify | appends race for a number | chains verify, and show tampering |
| scholarship | program, form, cycle, application, review, award | form, submit, score, decide, pay, follow, renew | read-then-write everywhere; three-step payments | the best win, within the budget; a payment is booked; a stored application is complete |
| fx | accounts, deposits, rates | quote, deposit, webhook, payout | webhooks come twice or reordered | a deposit is settled once; a payout is booked iff made |
| schools, campaigns | `School`, links, admissions, `Campaign` as DRAFT | onboard, sign, import, review; draft, submit | a link used twice; edits race with approval | active is signed; approved terms stand |
| groups | group, members, votes, contributions | join, leave, roles, vote, chat, match a cohort | the last admin; ballots and the close | there is an admin; the winner stands; a match is exact |
| kyc | case, results, screening | steps, review | a step half done, a late result | verified is earned; results are used |
| trust-safety | moderation cases, flags, chargebacks, scores | scan, decide, ingest, score | webhooks overlap; the process ends in between | three chargebacks freeze; freezes have a cause |
| reconciliation | payouts, bank lines, runs | import, match, report | greedy matching, run after run | each line has one place; exports agree |
| referral, portfolio | links, invites, attributions | invite, attribute, rank | limits checked before the insert | one code per donation, never one's own; the limit |
| notifications, impact feed | subscribers, updates, voices | milestones, updates, moderation | donations overlap; the process ends in a loop | no milestone is missed; rejected stays hidden |
| security | users, tokens, rate limits | register, log in, erase | an erasure against other requests; windows | erased is anonymous; twice the limit at most |
| reports (ESG) | tags, reports, grants | report, tag, grant, read | the ledger grows between report and export | figures and entries agree |
| ai | budget, generations | generate | two generations of one student | the budget is what was generated; the best is recommended |
| observability | consent, events, samples | track, sample, alert | tabs share a consent | silent without consent; alarms have a cause |
| web client | signals, `localStorage`, calls in flight | log in, wizard, checkout, deposit, queues, forms | late answers, reloads, shared storage | a page at rest is current and fits its user |

How they interact: donations, corporate, matching, recurring, payroll and groups all write the one row `Campaign` (its
`raisedCents` and `status`) and `Donation` rows; payouts, admin and schools write its status; scholarship, fx and payroll
append to the ledger of a school; schools owns `payoutVerified`, which scholarship and fx read; all payments go through
`payments/payment-provider.interface.ts`, behind which sits a mock or Stripe; donations tells notifications and referral
what happened after the fact; the client calls all of them.

The hazards that follow from this are listed, line by line, in `PROJECT.json` under `hazards`.

## 2. The modules

Each module is translated from the code; `PROJECT.json` maps every definition to its lines. In all of them a *row* is a
record, a table a function from ids, and a handler a record with a program counter and what it remembers. Ids, payloads
and names are model values. Checks of ownership and roles, validation of inputs that changes no state, notifications,
audit entries and the wording of errors are left out: a request that fails a check has no effect and is no step.

| Module | Models | Builds on |
|---|---|---|
| `CampaignPromise` | what Bursa promises about the money of one campaign, without handlers | - |
| `Funding` | donations, sponsorships, recurring charges, employer matches, capture, verification, disbursement | implements `CampaignPromise` |
| `Ledger` | `ledger/`: append, unique index, verification, tampering | - |
| `SchoolPayouts` | award payments, tranches, local-currency payouts | instantiates and implements `Ledger` |
| `ScholarshipReview` | a program: form, applications, reviewers, scores, decisions, scholars, renewals; its aggregator | parameter `Aggregate` |
| `ApplicationForm` | the form of a program, its page and its server-side validation | - |
| `Recurring` | monthly pledges and the runs that charge them | - |
| `Payroll`, `PayrollRoster` | payroll giving: the money of a run; the people in it | - |
| `Payments` | the providers behind `PaymentProvider` | - |
| `Fx` | quotes, deposits and their webhooks, IBANs and accounts of schools | - |
| `Matching`, `Corporate` | employer matches and their cap; companies, sponsorships, invoices | - |
| `Reconciliation`, `Esg` | payouts against the bank; ESG reports and auditors | - |
| `Schools` | onboarding, admissions, drafts and approvals of campaigns | - |
| `Kyc`, `TrustSafety`, `Fraud` | identity cases; chargebacks, moderation, flags; scores of donations | - |
| `Groups` | cohorts and giving circles | - |
| `ImpactFeed`, `Referral` | milestones, updates and voices; referrals; streaks, boards, badges | `Referral` holds gamification/, which is pure |
| `Accounts`, `RateLimit`, `Observability` | accounts and erasure; the fixed window; consent, figures, alerts | - |
| `Coach` | the writing coach | - |
| `WebSession`, `WebWizard`, `WebCheckout`, `WebDeposit`, `WebConsole`, `WebPages` | the web client: session and guards, campaign wizard, checkout, local deposit, queues of staff, pages that open items | - |
| `MC*` | constants, symmetry and histories for TLC (`Funding` and `Ledger` are run as they are) | see section 3 |
| `*Proofs`, `Sums` | theorems and proofs; sums over finite sets | the modules or instances they are named after |

**Funding.** `campaign`, `donations`, `payout` are the rows; `charged` and `transfers` are what the provider really
moved; `req` and `adm` are handlers. A contribution is `Donate* | Sponsor | RunDue | ClaimMatch` (read the campaign),
`SavePledge | ChargeNow` (await the provider), `Record* | CommitClaim` (the transaction), and for the one that closes
the goal `ListPledges`, `CapturePledge` per pledge and `MarkCaptured`. The five channels differ as they do in the code:
who is charged up front, who keeps a FAILED row, who writes absolute sums and who increments, who captures and who
announces. `booked` is a history variable: the sum of the rows that count. `Crash` ends one handler.

**Ledger.** `rows[s]` is the chain of school `s`, `call` the calls of `append()`: `ReadLast`, then `Create`, which loses to
the unique index or writes. A hash *is* what is hashed, so it is free of collisions and nothing else. `ChainIsValid` is
`verifyChain`. `Tamper` changes one field of one row behind the service, once per school.

**SchoolPayouts.** A handler goes `Start` (checks) - `Pay` - `ReadLedger` - `WriteLedger` - `Mark`. The ledger's variables
are those of `Ledger`, and its actions are used as they are; `KeepsLedger` says that the composition implements `Ledger`.
`GoesOn` is the one place where kinds of payment differ: fx looks at the provider's answer, scholarship does not. What the
payments amount to is not modelled.

**ScholarshipReview.** A handler serves one request after another; `task[h]` is what it has read and not yet written
(`addReviewer`, `aggregate`, `storeConsensus`, `award`, `storeStatus`, `createCycle`). `decideAwards` is the set of
candidates with fewer than `Places` candidates ahead of them, instead of the loop over a sorted list. `decide` never looks
at `application.cycleId`, so applications have none. `RubricConsensus` computes in tenths of points; the code rounds to the same
tenths, and its products and sums of such numbers stay far below where doubles lose exactness.

**Recurring.** The calendar counts months (`Tick`), a run lists the due pledges with their counts (`RunDue`) and then, one
at a time, reads the campaign, charges, and stores (`ReadCampaign`, `Charge`, `ApplyCharge` or `CancelPledge`). The donor
writes a status whenever they like. The campaign is only `raised` and `open` here; what several writers do to its total is
in `Funding`.

**Payroll.** A run reads rule and campaign (`RunCampaign`), employees and clock (`ReadEmployees`), and per employee runs
`Begin` - `Append` - `Commit`: the transaction takes the campaign row (`Locked`, PostgreSQL's row lock), the ledger entry
is committed on a connection of its own, and then the transaction commits or, by `Fail`, is rolled back without the entry.
**PayrollRoster** has the people of such a run: `SyncEmployees` takes the roster and upserts it employee by employee,
while the HR system changes, its webhook sets a status, and employees opt in.

**The other services** have the same shape: `request[r]` (or `task[h]`) is what a handler has read and not yet written;
`Idle` is nothing. A read and a write are one action only where nothing awaits between them, or where a unique index
makes the difference invisible. `Kyc` and `TrustSafety` can `Stop`: all requests vanish, rows stay. `Fx` keeps the webhooks
that were sent (`sent`), and delivers each of them any number of times, in any order. `Payments` keeps what Stripe really made
(`made`) apart from what the caller was told. `Reconciliation`, `Esg`, the boards of `Referral` and parts of `Observability` are mostly
pure rules, stated as operators and compared with a second definition that is not the code's: the edit distance as the best
alignment, streaks month by month, percentiles by counting.

**The web client.** `WebSession`: the token is shared by all tabs, the user is a copy per tab, and a navigation is a guard and
later a page. `WebWizard`: a call that changes something may have been carried out although its answer is a failure, and a
tab that is loaded again never hears of it. `WebCheckout`, `WebDeposit`: what a button says was computed from the answer to an
earlier call. `WebConsole` has six queues that differ in what is locked and where a note is kept. `WebPages` has six pages that
open an item and load its panes; what the server holds for a pane is a version number, so that *stale* is a comparison.

*Idioms.* A property named `XAlone` is `alone => X`, with `alone` a history variable of the MC module: nothing has
overlapped and nobody has died so far. It states what the code relies on when nothing interferes, in the very run that
shows what happens when something does. `X =>` with `matchAlone`, `corpAlone`, `requestsAlone` or `coachAlone` is the same for
the parts of a composed instance. An operator commented `Mutant:` stands before the definition it is a mistaken
version of; `PROJECT.json` lists which property notices it. No specification uses them.

## 3. The runs

Passing runs (`tlc -config <cfg> <module>`; distinct states as found by TLC):

| Run | Instance | Shows | States |
|---|---|---|---|
| `funding_concurrent` | 3 requests of 5 channels, 1 disbursement, 2 in flight, goal 2, declines, crashes | `MoneyIsBacked`, `PledgesAreHonoured`, `KeepsPromise`, `BookedIsSum`: what survives every interleaving | 3.0 M |
| `funding_serial` | 3 requests, 2 disbursements, one at a time, goal 3, tips | `BooksBalance`, `EverythingOnce`, `PledgesSettle`: what the code promises when nothing interleaves | 159 k |
| `ledger_tamper` | 4 appends, 2 schools, stops, one change per school | `ChainsAreSound`, `TamperingShows` | 109 k |
| `back_office` | `SchoolPayouts` with 3 payments; `Schools` (twice), `Kyc`, `TrustSafety`, `Fraud` (twice), `WebConsole` | `AwardPaidOnceAlone`, `PaymentsAreRecorded`, `KeepsLedger`, `SchoolsDecide`, `VerifiedIsEarned`, `FreezesHaveACause`, `QueuesAreHandledInOrder` | 803 k |
| `applications` | `ScholarshipReview` with the real aggregator: 3 reviewers, one request at a time; then without reviewers, 2 requests that decide; `ApplicationForm`; `Coach` | `ConsensusIsRight`, `AwardsAreFair`, `FormsAreComplete`, `CoachIsFair` | 950 k |
| `recurring_runs` | 2 pledges, 2 runs, 2 months, a change, a stop, failing charges; `WebWizard` | `ChargesAreRight`, `DraftsSurvive`, `RunsAndCallsEnd` | 770 k |
| `payroll_runs` | 2 employees, 2 runs, 2 years, 2 rules, other donors, a failure | `WithinCapAlone`, `GiftsAreAccounted` | 4.3 M |
| `platform` | 21 parts of `MCServices` and `MCPlatform` | one property per part or pair of parts, 15 in all | 504 k |

**Composed instances.** The parts of `back_office`, `applications`, `recurring_runs` and `platform` share no variable, so
that interleaving their steps would multiply states and show nothing. `focus` is the part a behaviour is about, chosen in
`Init` and never changed; the others keep an initial state. Within a part everything interleaves. A property
`focus = "x" => P` is `P` of that part. What components share is modelled where they share it: the rows of a campaign in
`Funding`, the ledger under payments in `SchoolPayouts`, schools with their students' campaigns in `Schools`.

Each module's `TypeOK` is part of an invariant of a run. Every property of a passing run has a mutant in `PROJECT.json`: a
plausible mistake in one mapped definition, which makes TLC report that property under the same configuration.

Rules without state (cross rates, slippage, the domain of an address, the choice of providers) are checked as
`RatesAssumption` and `EmployersAssumption` of `MCServices`, which TLC evaluates before the run.

**Bounds, and why they are enough.** The constants named as bounds are `MaxInFlight` (2 suffices for a stale row, 3 for a
race with a third step between), `MaxStops`/`MaxFailures`/`Crashes` (one handler that dies leaves each kind of half-done
work), `MaxToggles`, `MaxChanges` (one change between any two steps), `MaxTime`, `MaxYear`, `MaxMonth`, `MaxDay` (one
boundary to cross), `MaxReviewers` (2 for three candidates: the limit is reached), `LateForms` (whether the form may be
replaced once there are reviewers; FALSE in the runs, since scores survive a replaced form and the cached consensus is
then that of the old one), `MaxScans`, `MaxSent` (a webhook of each kind and one repeated), `MaxForms`, `MaxSubmits` (a form
replaced, an application handed in again), `MaxCalls`, `MaxAsked`, `MaxActs` (a call that overtakes another), `MaxReloads`
(a reload before and after a call is answered). Goals of 2 to 4 with amounts of 1 and 2 allow a contribution below, at and
above the gap, and a lost update that keeps the campaign open. `Caps = {1, 3}` and gifts of 2 let a rule cut a match, be
raised and be lowered. `Hand` has two requests: every hazard of section 1 that names an overlap needs two. Three disputes
reach the threshold of chargebacks; two employers and three donations reach the cap. Requests, runs, administrators,
reviewers, schools and movements are symmetric sets where nothing orders them (applications and employees are numbers, as
their order decides). `funding_serial` and `recurring_runs` check liveness and use no symmetry.

**Deadlock** is checked for `Funding`, where `Verify` is always possible. The other systems stop when their requests are
used up, and their configurations say so.

**Fairness.** `Funding!FairSpec` is weak fairness of the steps of each started handler: Node's event loop resumes a handler
when its promise settles, and every provider call settles. Nothing is assumed of donors, administrators or `Verify`.
`Recurring!Fairness` is the same for a started run (`Proceed`); a run that dies is excused by the property itself.
`AllFairness` of `MCRecurringWizard` adds that the browser answers a call of the page that is open (`HttpClient` completes
every request with an answer or an error). The other modules have no liveness properties: their handlers are straight
lines, and what a handler leaves undone is stated as an invariant about requests that are under way.

## 4. Where code and documents disagree

Four runs end in a counterexample; `findings` quotes both sides.

| Run | Property | What happens |
|---|---|---|
| `double_payout` | `NoDoublePayout` | Two administrators disburse at the same time: both transfers are made before the unique row stops the second one's bookkeeping. |
| `left_behind` | `NoPledgeLeftBehind` | Even one request at a time: a SEPA pledge closes the goal, sets FUNDED and does not capture, and no later request does. |
| `booked_unpaid` | `BookedIsPaid` | The provider answers FAILED, and the tranche is booked and marked RELEASED. |
| `payroll_stuck` | `GoalIsFunded` | Matches of one run reach the goal together; each looked at the old total, so the campaign stays LIVE, full and closed to donations. |

Further behaviour seen while modelling, for a reader of the code. It is why some properties are stated only for handlers
that do not overlap (`...Alone`, the serial runs):

- donations (`donations.service.ts:340`): of two overlapping pledges, one may vanish from `raisedCents`; the rows are right.
- admin (`admin.service.ts:64`): verifying or rejecting looks at no status, so a funded or paid campaign can be LIVE again.
- matching: a match that closes the goal neither captures nor announces, and overlapping claims of one employee use the
  same balance twice.
- scholarship: deciding a cycle again, or twice at once, awards its slots again; a slot nobody filled in competes; an award
  and its tranche are checked independently of each other; a payment whose ledger number is lost stays unbooked; an
  eleventh reviewer can be added; two scorers may leave an old consensus; a withdrawn scholar may be restored by an
  overlapping event.
- recurring: overlapping runs charge a pledge twice and lose a count; a cancelled pledge is charged by the run that read it.
- payroll: overlapping runs exceed the annual cap; a run may book more than the gap because it never re-reads it; a
  rolled-back contribution leaves its ledger entry; employees who left the HR system stay active; a sync that ends writes
  SYNCED over an error that was reported meanwhile.
- kyc: a late result overwrites what a reviewer decided; a process that ends between result and status leaves the case stuck.
- trust-safety: a process that ends between storing the third chargeback and counting leaves the campaign unfrozen, and the
  repeated webhook changes nothing; two overlapping requests both submit evidence and offer a refund; a scan opens a case
  that was decided meanwhile; no code reads the frozen flag before it takes money.
- groups: two admins who leave at once leave none; a ballot may be stored after the winner was announced.
- fx: a webhook that overlaps another may turn a settled deposit into the opposite; a deposit never raises the campaign.
- schools: a link used twice at once lets the second bank account stand with the first signature.
- referral, ai: limits and budgets read before they are written are exceeded by requests at the same time.
- esg (`esg.service.ts:35`): what is booked in the last second of a year is in no report; the PDF lists an excerpt of the
  sources.
- observability (`payment-alerts.ts:25`): the guard turns unsigned webhooks away before the interceptor samples them, so the
  alert on rejected webhooks only sees those that reach the handler.
- web client: two open tabs speak with one token; a busy row is unlocked by the answer for another; late answers appear
  under an item opened since; the erased user who logs in as somebody else within 1.5 seconds is logged out.

## 5. The proofs

Proved for all values of the constants that satisfy the modules' assumptions, with TLAPS (SMT, Zenon, LS4). Every theorem
about a composed instance (`AllSpec`) rests on one fact: a step of the whole is a step of one part, and no step of any other.

| Module | About | Inductive invariant | Theorems |
|---|---|---|---|
| `Sums` | sums over finite sets, recursion over places | none: lemmas about operators (`TotalSplits`, `TotalOfUnion`, `TotalOfClasses`, `TotalsCompare`, `Iterates`, `FoldsPlaces`) | used below wherever rows are added up or a sequence is gone through |
| `FundingProofs` | `Funding`, any interleaving | `Covered` = types, and *what a handler remembers of the total is at most `booked`*; `RowInv` adds how row, charge and handler of a donation belong together; `SumInv` that `booked` is the sum of the rows that count | `MoneyAlwaysBacked`, `PledgesAlwaysHonoured`, `RowsAreTrue`, `NoDoubleMatch`, `BookedIsTheSum`, `PromiseKept` (refinement) |
| | `Funding`, one request at a time | `BooksInv`: the one handler's memory is exact; `OnceInv`: what is charged, paid out or announced has its row or its handler | `BooksAlwaysBalance` (handlers may fail and die), `EverythingHappensOnce` (none dies) |
| | `Payments` | `PayInv`: what was made belongs to one call that is reported | `ProvidersReportTheTruth` |
| | `Corporate` | `CorpInv`: charged is booked or on its way; alone: what a request read of a campaign is what is stored, and one sponsor of the gap is what makes it FUNDED | `SponsorsAlwaysGetWhatTheyPay` |
| | `Matching` | `MatchInv`: alone, what was used of a year is the sum of its claims, and the one request under way has the rest for itself | `ClaimsAlwaysFitTheCap` |
| | `Esg` | `EsgInv`: a report, stored or on its way, quotes entries of the ledger, which nobody changes | `ReportsAlwaysAddUp` |
| | `Fx`, deposits | `FxInv`: what a donor is told is what the locked rate makes of the amount; alone: the deposit a webhook is about to settle is open | `DepositsAlwaysSettleOnce` |
| | `Reconciliation`; `Fx`, IBANs | `BankInv`: what a run loaded had been sent by then, and the last view is right about what it was made of; `IbanInv`: every IBAN that is stored, or about to be, was found valid | `BankAlwaysAgrees` |
| `LedgerProofs` | `Ledger` | what a call will create fits the chain it read; a chain not tampered with is numbered and linked without gap; in one that was there is a *scar*, an entry no append can repair | `ChainsAreAlwaysSound`, `TamperingAlwaysShows` |
| `BackOfficeProofs` | `SchoolPayouts` | handlers and their calls go together; for handlers that run alone, the one handler found its row unpaid | `LedgerIsKept` (refinement), `PaymentsKeepChains`, `MarksAreBooked`, `SuccessIsAlwaysRecorded`, `LocalEntriesAreAlwaysPaid`, `AwardsArePaidOnce`, `PaymentsAreAlwaysRecorded` |
| | `Kyc` | what a request is about to write is earned by results that are stored, and results are never taken away | `VerifiedIsAlwaysEarned`, `VerificationsAreEarned` |
| | `TrustSafety`, `Fraud` | chargebacks are finitely many and never taken away; a verdict on its way is one a reviewer may give; counts by age and status are what was donated | `ThirdChargebackAlwaysFreezes`, `FreezesAlwaysHaveACause`, `FreezesAlwaysHaveReasons` |
| | `Schools` | `SchoolTypes`: who is active has signed; `SchoolOrder`: alone, what a request is about to store keeps signed schools active and touches no terms the public sees | `SchoolsAlwaysDecide` |
| | `WebConsole` | the note in the field is that of the row that is open; who waits for answers has one call under way, and a load that was answered is what is pending | `QueuesAreAlwaysInOrder` |
| `ApplicationsProofs` | `ScholarshipReview` | types, years without gap, a decision on its way that fits a cycle; one request at a time: that decision is current, and the cached consensus is that of the stored scores or its handler is about to store it | `ReviewTypes`, `DecisionsAlwaysFit`, `CyclesAreAlwaysKept`, `GraduatesAreAlwaysAlumni`, `BestAreAlwaysAwarded`, `AwardsAreAlwaysFair`, `ConsensusIsAlwaysRight` |
| | `ApplicationForm` | a submission is what its page showed of all that was typed; a stored row is what its form leaves of a valid submission | `FormsAreAlwaysComplete` |
| | `Coach` | `CoachInv`: what is to be charged and logged is ranked; alone: the budget the one request has read is the stored one, and it is what was generated | `CoachIsAlwaysFair` |
| `RecurringProofs` | `Recurring` | `CountNeverOverstates` also for the counts that runs remember; alone: charges, rows and counts are one number, but for the charge a run is about to store | `RecurringTypes`, `CountNeverEverOverstates`, `ScheduleNeverSkips`, `RecurringChargesAreRight` |
| | `WebWizard` | `WizardInv`: with one tab, what would be loaded is what was typed last, and an unfinished wizard shows it | `DraftsAlwaysSurvive` |
| `PayrollProofs` | `Payroll` | what a run remembers of the total is at most the total; a run's open employee is not booked; alone: what a run knows of the balances is what they are | `PayrollTypes`, `PayrollIsAccounted`, `MatchesFitTheCap` |
| `PlatformProofs` | `RateLimit` | `RateInv`: how much the open window, and any stretch that ends before it, has let through | `NeverMoreThanTwice` |
| | `WebSession` | `SessionInv`: what the guard let pass still fits when it is shown, as every change of the user starts another navigation | `PagesAlwaysFit` |
| | `Accounts` | `AccountsInv`: what a request will store names a user that exists, and only an erased account has the address of the erased | `ErasuresHold` |
| | `PayrollRoster` | `RosterInv`: scopes and log are read-only; alone: the copies a run reads agree with the stored ones | `RosterIsAlwaysKept` |
| | `Groups` | `CircleInv`: an admin is among the members and a closed vote has the winner of its ballots, and so has what the one request is about to write; `CohortInv`: what a match is about to give each campaign is at most its gap and adds up to what can be spent | `GroupsAlwaysKeepTheirRules` |
| | `ImpactFeed` | `FeedInv`, `VoicesInv`: every milestone that is reached was told, is about to be, or its request ended; alone: what was told lies behind the one donation under way; what is rejected is hidden | `NewsIsAlwaysComplete` |
| | `Observability` | types alone: samples and events are finitely many, and what is computed from them is shown by counting | `MeasurementsAreAsAgreed` |
| | `WebCheckout`, `WebDeposit`, `WebPages` | `CheckoutInv`, `DepositInv`, `PagesInv`: for a user who waits, calls under way are about what is on the screen, and what they do not bring is there | `PagesAlwaysTellTheTruth` |
| | `Referral` | `ReferInv`: what is attributed, or about to be, is somebody else's code, and one request waits for a donation; alone: there is room for the advocate that was counted | `ReferralsAlwaysFair` |

*Why the invariants are needed.* `FundedIsCovered` is not inductive: a handler decides FUNDED from a number it read long
ago. It holds because contributions are never taken back, so that an old total is a lower bound of what the rows add up to
now; `MemoryIsBacked` (and `SnapshotsFit` in `Payroll`) says exactly that. `DonationsAreFinal` needs to know that whatever
list of pledges a capture holds, its members are still PLEDGED or CAPTURED. `TamperingShows` needs the scar: appends chain
themselves to the tampered row, so validity cannot come back. `DecisionFits` is a counting argument: `Ahead` is a strict
total order, so the last of the winners has all others ahead of it. `VerifiedIsEarned` needs to know what late requests
hold: the status they write is old, the results it rests on are not, because each is written once. `AtMostTwiceTheLimit`
speaks of any stretch of time, but a step only sees the bucket: the invariant has to say what every stretch that ends just
before the bucket began has let through. The properties of the *alone* kind all have the same core: the handler's memory
equals the rows, which the first overlap would end.

*Sums and sequences.* Totals are `MapThenSumSet` of the community modules, a fold over a recursive function that `CHOOSE` picks.
`Sums` shows, by the least counterexample among the natural numbers, that there is such a function, and from it that a sum does
not depend on the order: one element can be taken out, two sets put together, classes added up one by one. The proofs then
say of a step that it adds or changes one row. `FoldLeft` and `FlattenSeq` are choices of the same kind. `Iterates` and `FoldsPlaces`
show that what is chosen exists, and `CountingUp` follows it from one place to the next: so is it proved that a payout that lacks
a transaction lacks one that fits, whatever payouts came before, and that `mod97`, seven digits at a time, leaves what the whole
number leaves. `SlipsDiffer` rests on 97 being a prime: two remainders that differ stay different whatever is appended.

*Assumptions.* Those named in the modules, all evaluated by TLC: naturals where the code has cents and counts; finite sets
where a proof counts or adds up (tables are finite); goals and limits that are not zero, as the DTOs of the API demand;
constants that stand for *nothing* (`None`, `NoPage`, `NoDraft`, `Nobody`, `Deleted`, the references of failed calls) differ from
what they stand among; requests of the composed parts are finitely many, as are persons, gifts, donors and the providers that are
wanted; every country of the deposit page has a method; texts of the coach are sequences of words, and IBANs sequences over
0..35; a handler is not both a request and an administrator; `Aggregate` in 0..100; hashes without collisions by construction.
Three theorems have a hypothesis of their own, and it is what the run that checks the property sets: `BooksAlwaysBalance` one
request in flight, `EverythingHappensOnce` also that none dies, `ConsensusIsAlwaysRight` `~LateForms` and `Aggregate` equal to
`RubricConsensus`. `VerificationsAreEarned` assumes `Kyc!MatchForgivesAFifth`: what
`levenshtein` computes, a recursion over two texts, needs induction over data, and TLC compares it with all alignments of
the names of the instance.

*Only model-checked.* The liveness properties `PledgesSettle` and `RunsAndCallsEnd`: fairness and ENABLED are beyond TLAPS.
Every other property of a passing run is a theorem. No module has a RECURSIVE operator.

## 6. What is not modelled

- The network between API and Stripe: `Payments` has lost answers, no duplicated ones; Stripe's own webhooks change nothing
  in this code.
- Ownership and roles, which guard every operation of the API and are given. The client's own guards are in `WebSession`.
- `School.payoutVerified` in `Funding`: it is taken as set. It is modelled where it is withdrawn, in `SchoolPayouts` and
  `Schools`.
- Edits of a campaign before its submission in `Funding`, which starts with a submitted campaign; they are in `Schools`.
- Amounts of awards, tranches and exchange in `SchoolPayouts`; a currency is a kind of payment.
- Second factors, audit entries, security headers, the health check, request ids: nothing reads them back.
- The dashboard and heat map of trust and safety, digests, quiet hours and reading streaks of the feed: counted or sorted
  when shown, from rows of modelled components.
- Prompts, templates, labels, PDF and CSV layout, styles; pages of the client that show one answer.
- Seed data, build and deployment.
- Parts of the components marked `partly`, in `PROJECT.json`, each with its reason.

## 7. The plan

Done, in this order: `Funding` with its promise; `Ledger`; `SchoolPayouts` over it; `ScholarshipReview` with its aggregator;
`Recurring`; `Payroll`; their proofs; then every other component of the API and the stateful pages of the client, composed
into four instances; then sums over finite sets, and with them the properties of handlers that run alone; then the composed
instances, part by part; last what rests on folds over sequences: the texts of the coach, bank matching and IBANs.

Next, by what could cost most if it were wrong:

1. One abstract idempotent inbox that chargebacks and deposits both implement, or fail to, with the crash between row and
   effect as the difference.
2. What `levenshtein` computes, which `VerificationsAreEarned` takes as a hypothesis: induction over two texts at a time.
3. Amounts in `SchoolPayouts`, so that awards, tranches and exchange can be compared with the budget of a cycle.
