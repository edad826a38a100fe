----------------------------------- MODULE Fx -----------------------------------
(***************************************************************************)
(* Local payments (fx.service.ts): deposits in a local currency at a rate  *)
(* that is locked, the signed webhooks that settle them, and the accounts  *)
(* schools are paid on.  Webhooks may be delivered again, late and out of  *)
(* order; a request reads a deposit before it writes it.  Amounts are in   *)
(* minor units, and every currency of the registry has two decimals.       *)
(***************************************************************************)
EXTENDS Integers, Sequences, FiniteSets, SequencesExt, TLC

CONSTANTS
    Handler,        \* the requests that run at the same time
    Deposit,        \* the deposits that can be made
    Currency,       \* REGISTRY
    Rates,          \* the rates the provider may quote, as <<n, d>>
    Amounts,        \* the amounts donors enter
    Methods,        \* Methods[country]: COUNTRY_METHODS
    School, Iban,   \* IBANs are sequences of characters, A being 10
    Tolerance,      \* DEFAULT_TOLERANCE_SEC, in steps of the clock
    MaxTime, MaxSent    \* bounds

FxAssumption ==
    /\ Amounts \subseteq Nat /\ Tolerance \in Nat /\ MaxTime \in Nat /\ MaxSent \in Nat
    /\ \A iban \in Iban : iban \in Seq(0..35)
    /\ \A rate \in Rates : rate[1] \in Nat \ {0} /\ rate[2] \in Nat \ {0}

VARIABLES
    rate,           \* the rate of the provider by now
    deposits,       \* the donations made with local methods
    sent,           \* the webhooks the provider has sent
    accounts,       \* the payout accounts of schools
    now,
    task,           \* what each handler has read
    alone           \* no two handlers have run at the same time

vars == <<rate, deposits, sent, accounts, now, task, alone>>

Idle == [step |-> "idle"]
Countries == DOMAIN Methods
Settled == {"SUCCEEDED", "FAILED"}

TypeOK ==
    /\ rate \in Rates
    /\ DOMAIN deposits \subseteq Deposit
    /\ \A d \in DOMAIN deposits :
          deposits[d] \in [amount : Amounts, locked : Rates, told : Nat, captured : BOOLEAN,
                           local : Settled \cup {"PENDING"}, status : Settled \cup {"PENDING"}]
    /\ \A m \in sent : m \in [deposit : Deposit, status : Settled, at : 0..MaxTime]
    /\ DOMAIN accounts \subseteq School \X Countries \X Currency
    /\ now \in 0..MaxTime
    /\ \A h \in Handler : task[h].step \in {"idle", "deposit", "webhook", "account"}

Init ==
    /\ rate \in Rates
    /\ deposits = <<>>
    /\ sent = {}
    /\ accounts = <<>>
    /\ now = 0
    /\ task = [h \in Handler |-> Idle]
    /\ alone = TRUE

Continue(h, next) ==
    /\ task' = [task EXCEPT ![h] = next]
    /\ alone' = (alone /\ Cardinality({g \in Handler : task'[g] # Idle}) <= 1)
With(table, key, row) ==
    [k \in DOMAIN table \cup {key} |-> IF k = key THEN row ELSE table[k]]
-----------------------------------------------------------------------------
(* Money.                                                                  *)

\* roundHalfUp, of a fraction that is not negative
RoundHalfUp(n, d) == (2 * n + d) \div (2 * d)

\* convertMinorUnits
Convert(amount, quoted) == RoundHalfUp(amount * quoted[1], quoted[2])

\* lookupRate: the entry of the table, or the inverse of the opposite one.
LookupRate(table, base, quote) ==
    IF <<base, quote>> \in DOMAIN table THEN {table[<<base, quote>>]}
    ELSE IF <<quote, base>> \in DOMAIN table
         THEN {<<table[<<quote, base>>][2], table[<<quote, base>>][1]>>} ELSE {}
\* quoteLockedRate
LockedRate(table, base, quote) ==
    IF base = quote THEN {<<1, 1>>} ELSE {r \in LookupRate(table, base, quote) : r[1] > 0}

\* MockFxRateProvider: rates against the dollar, and their quotients.
CrossRate(usd, base, quote) ==
    IF base = quote THEN <<1, 1>>
    ELSE IF base = "USD" THEN usd[quote]
    ELSE IF quote = "USD" THEN <<usd[base][2], usd[base][1]>>
    ELSE <<usd[quote][1] * usd[base][2], usd[quote][2] * usd[base][1]>>

\* computeFxSlippage: what the settled rate makes of the locked amount.
Slippage(amount, locked, settled) ==
    LET difference == Convert(amount, settled) - Convert(amount, locked)
    IN  [amount |-> difference,
         direction |-> IF difference > 0 THEN "GAIN" ELSE IF difference < 0 THEN "LOSS" ELSE "FLAT"]

\* resolvePaymentMethods, isMethodAvailable
PaymentMethods(country) ==
    (IF country \in DOMAIN Methods THEN Methods[country] ELSE {}) \cup {"CARD"}

\* resolveKycRequirement, requiresEnhancedReview
EnhancedReview(thresholds, country, amount) ==
    amount >= (IF country \in DOMAIN thresholds THEN thresholds[country] ELSE 100000)
-----------------------------------------------------------------------------
(* Deposits.                                                               *)

\* The mock provider: amounts ending in .13 fail; M-Pesa always accepts.
MockFails(amount) == amount % 100 = 13
\* createLocalDepositProvider
DepositProvider(env) == IF env.provider = "mpesa" /\ env.key /\ env.secret THEN "mpesa" ELSE "mock"

\* initiateDeposit quotes, converts, and asks the provider ...
InitiateDeposit(h, d, country, method, amount) ==
    /\ task[h] = Idle
    /\ d \notin DOMAIN deposits
    /\ method \in PaymentMethods(country)
    /\ Continue(h, [step |-> "deposit", deposit |-> d, amount |-> amount, locked |-> rate,
                    told |-> Convert(amount, rate)])
    /\ UNCHANGED <<rate, deposits, sent, accounts, now>>

Told(t) == t.told

\* ... and stores a donation that is PENDING, even of a deposit that failed.
StoreDeposit(h) ==
    /\ task[h].step = "deposit"
    /\ task[h].deposit \notin DOMAIN deposits
    /\ deposits' = With(deposits, task[h].deposit,
                        [amount |-> task[h].amount, locked |-> task[h].locked,
                         told |-> Told(task[h]), captured |-> FALSE, status |-> "PENDING",
                         local |-> IF MockFails(task[h].amount) THEN "FAILED" ELSE "PENDING"])
    /\ Continue(h, Idle)
    /\ UNCHANGED <<rate, sent, accounts, now>>

\* The provider settles a deposit, and may think better of a failure.
SendWebhook(d, status) ==
    /\ Cardinality(sent) < MaxSent
    /\ deposits[d].local # "FAILED" \/ ~MockFails(deposits[d].amount)
    /\ ~\E m \in sent : m.deposit = d /\ m.status = "SUCCEEDED" /\ status = "FAILED"
    /\ sent' = sent \cup {[deposit |-> d, status |-> status, at |-> now]}
    /\ UNCHANGED <<rate, deposits, accounts, now, task, alone>>

\* verifyWebhookSignature: signed by the provider, and not long ago.
VerifyWebhook(m) == m \in sent /\ now - m.at <= Tolerance

\* Mutant: a settled deposit is settled again.
AnyDeposit(d) == TRUE
IsPending(d) == deposits[d].local = "PENDING"

\* applyWebhook reads the deposit; a settled one is left as it is ...
ReceiveWebhook(h, m) ==
    /\ task[h] = Idle
    /\ VerifyWebhook(m)
    /\ m.deposit \in DOMAIN deposits
    /\ IsPending(m.deposit)
    /\ Continue(h, [step |-> "webhook", deposit |-> m.deposit, status |-> m.status,
                    captured |-> deposits[m.deposit].captured])
    /\ UNCHANGED <<rate, deposits, sent, accounts, now>>

\* ... and writes both statuses.
ApplyWebhook(h) ==
    /\ task[h].step = "webhook"
    /\ deposits' = [deposits EXCEPT
           ![task[h].deposit].local = task[h].status,
           ![task[h].deposit].status = task[h].status,
           ![task[h].deposit].captured = task[h].status = "SUCCEEDED" \/ task[h].captured]
    /\ Continue(h, Idle)
    /\ UNCHANGED <<rate, sent, accounts, now>>
-----------------------------------------------------------------------------
(* Accounts of schools.                                                    *)

\* mod97: letters become two digits, the first four characters go to the end,
\* and seven digits at a time are appended to the remainder.
Digits(character) == IF character < 10 THEN <<character>> ELSE <<character \div 10, character % 10>>
Numeric(iban) == FlattenSeq([i \in 1..Len(iban) |->
    Digits((SubSeq(iban, 5, Len(iban)) \o SubSeq(iban, 1, 4))[i])])
Append7(remainder, block) == FoldLeft(LAMBDA n, digit : n * 10 + digit, remainder, block)
Blocks(digits) ==
    [k \in 1..((Len(digits) + 6) \div 7) |->
        SubSeq(digits, 7 * k - 6, IF 7 * k < Len(digits) THEN 7 * k ELSE Len(digits))]
Mod97(iban) == FoldLeft(LAMBDA n, block : Append7(n, block) % 97, 0, Blocks(Numeric(iban)))

\* validateVirtualIban: 15 to 34 characters, a country, two digits and the rest.
ValidIban(iban) ==
    /\ Len(iban) \in 15..34
    /\ \A i \in 1..2 : iban[i] \in 10..35
    /\ \A i \in 3..4 : iban[i] \in 0..9
    /\ Mod97(iban) = 1

\* createSchoolAccount: one for each school, country and currency ...
OpenAccount(h, s, country, currency, iban) ==
    /\ task[h] = Idle
    /\ ValidIban(iban)
    /\ <<s, country, currency>> \notin DOMAIN accounts
    /\ Continue(h, [step |-> "account", key |-> <<s, country, currency>>, iban |-> iban])
    /\ UNCHANGED <<rate, deposits, sent, accounts, now>>

\* ... which the table enforces.
StoreAccount(h) ==
    /\ task[h].step = "account"
    /\ accounts' = IF task[h].key \in DOMAIN accounts THEN accounts
                   ELSE With(accounts, task[h].key, task[h].iban)
    /\ Continue(h, Idle)
    /\ UNCHANGED <<rate, deposits, sent, now>>

\* listSchoolAccounts
SchoolAccounts(s) == {key \in DOMAIN accounts : key[1] = s}

\* decidePayoutRoute: an account in the country and the currency, if there is one.
PayoutRoute(s, country, currency) ==
    IF <<s, country, currency>> \in SchoolAccounts(s)
    THEN [route |-> "LOCAL_BANK", account |-> {accounts[<<s, country, currency>>]}]
    ELSE [route |-> "INTERNATIONAL", account |-> {}]
-----------------------------------------------------------------------------
RateMoves ==
    /\ rate' \in Rates \ {rate}
    /\ UNCHANGED <<deposits, sent, accounts, now, task, alone>>

Tick ==
    /\ now < MaxTime
    /\ now' = now + 1
    /\ UNCHANGED <<rate, deposits, sent, accounts, task, alone>>

\* The routes of donors and of schools, and the webhook.
FxStep(h) ==
    \/ \E d \in Deposit, country \in Countries, method \in {"CARD", "MPESA"}, a \in Amounts :
          InitiateDeposit(h, d, country, method, a)
    \/ StoreDeposit(h)
    \/ \E s \in School, country \in Countries, currency \in Currency, iban \in Iban :
          OpenAccount(h, s, country, currency, iban)
    \/ StoreAccount(h)
WebhookStep(h) ==
    \/ \E m \in sent : ReceiveWebhook(h, m)
    \/ ApplyWebhook(h)

Next ==
    \/ \E h \in Handler : FxStep(h) \/ WebhookStep(h)
    \/ \E d \in DOMAIN deposits, status \in Settled : SendWebhook(d, status)
    \/ RateMoves
    \/ Tick

Spec == Init /\ [][Next]_vars
-----------------------------------------------------------------------------
(* What the checks are for.                                                *)

\* The donor is told what the locked rate makes of the deposit, to the nearest
\* unit, whatever rates do between the quote and the donation (initiateDeposit).
ToldIsLocked ==
    \A d \in DOMAIN deposits :
        LET locked == deposits[d].locked
            error == deposits[d].told * locked[2] - deposits[d].amount * locked[1]
        IN  -locked[2] <= 2 * error /\ 2 * error <= locked[2]

\* "Only advances a deposit from PENDING; already-terminal deposits are returned
\* unchanged", however webhooks are repeated and reordered, as long as they are
\* handled one at a time (applyWebhook).
SettledStaysAlone ==
    [][alone' => \A d \in DOMAIN deposits :
          deposits[d].local # "PENDING" => deposits'[d] = deposits[d]]_vars

\* A school that has an account in a country and currency is paid there for good: a
\* second request with another account does not move it (createSchoolAccount,
\* decidePayoutRoute).
RoutesStay ==
    [][\A s \in School, country \in Countries, currency \in Currency :
          PayoutRoute(s, country, currency).route = "LOCAL_BANK" =>
              PayoutRoute(s, country, currency)' = PayoutRoute(s, country, currency)]_vars

\* Two accounts never differ in a single digit or a single letter, as they would
\* after a slip of the pen (createSchoolAccount, validateVirtualIban, mod97 in blocks
\* of seven).  A letter in the place of a digit may go unnoticed.
Slip(a, b, i) ==
    /\ Len(a) = Len(b) /\ a[i] # b[i]
    /\ a[i] < 10 <=> b[i] < 10
    /\ \A j \in DOMAIN a \ {i} : a[j] = b[j]
SlipsAreCaught ==
    \A k, l \in DOMAIN accounts : ~ \E i \in DOMAIN accounts[k] : Slip(accounts[k], accounts[l], i)

=============================================================================
