----------------------------- MODULE WebDeposit -----------------------------
(***************************************************************************)
(* The page for a local deposit in the web client: a country decides the   *)
(* currency the school is paid in and the ways to pay, the donor picks the *)
(* currency of the gift, and the page shows the rate of the pair.          *)
(*                                                                         *)
(* Every change asks the server again.  The answer is shown under the pair *)
(* that is selected when it arrives, which need not be the pair it was     *)
(* asked for.                                                              *)
(***************************************************************************)
EXTENDS Naturals, FiniteSets

CONSTANTS
  Country,      \* countries to choose from
  Currency,     \* currencies of a gift
  CurrencyOf,   \* the currency a school of each country is paid in
  MethodsOf,    \* the ways to pay in each country, the first one first
  Rate,         \* the rate of each pair
  First,        \* what is selected at first: [country, currency, method]
  Blank,        \* nothing shown
  MaxAsked,     \* bound on the questions the page asks
  MaxDeposits   \* bound on the deposits sent

DepositPageAssumption ==
  /\ CurrencyOf \in [Country -> Currency]
  /\ First.country \in Country /\ First.currency \in Currency
  /\ \A c \in Country : 1 \in DOMAIN MethodsOf[c]
  /\ MaxAsked \in Nat \ 0..2 /\ MaxDeposits \in Nat

VARIABLES
  country, depositCurrency, payoutCurrency,
  methods, method,  \* the ways to pay on the screen, and the chosen one
  quote,            \* the line that is shown: [from, to, rate], or Blank
  asked,            \* questions in flight: [nr, about, from, to]
  nr,
  deposits,         \* deposits sent: [nr, method, country]
  done,             \* the answer to a deposit has replaced the form
  steady            \* nothing was changed while an answer was outstanding

vars == <<country, depositCurrency, payoutCurrency, methods, method, quote, asked, nr,
          deposits, done, steady>>

Question(n, about, from, to) == [nr |-> n, about |-> about, from |-> from, to |-> to]

\* The page asks for the ways to pay and twice for the rate when it comes up.
Init ==
  /\ country = First.country /\ depositCurrency = First.currency
  /\ payoutCurrency = CurrencyOf[country]
  /\ methods = <<>> /\ method = First.method
  /\ quote = Blank
  /\ asked = {Question(1, "methods", country, country),
              Question(2, "quote", depositCurrency, payoutCurrency),
              Question(3, "quote", depositCurrency, payoutCurrency)}
  /\ nr = 3
  /\ deposits = {}
  /\ done = FALSE /\ steady = TRUE

\* Another country: its currency, its ways to pay and a new rate.
OnCountryChange(c) ==
  /\ ~done /\ nr + 2 <= MaxAsked
  /\ country' = c
  /\ payoutCurrency' = CurrencyOf[c]
  /\ asked' = asked \union {Question(nr + 1, "methods", c, c),
                            Question(nr + 2, "quote", depositCurrency, CurrencyOf[c])}
  /\ nr' = nr + 2
  /\ steady' = (steady /\ asked = {})
  /\ UNCHANGED <<depositCurrency, methods, method, quote, deposits, done>>

OnCurrencyChange(x) ==
  /\ ~done /\ nr < MaxAsked
  /\ depositCurrency' = x
  /\ asked' = asked \union {Question(nr + 1, "quote", x, payoutCurrency)}
  /\ nr' = nr + 1
  /\ steady' = (steady /\ asked = {})
  /\ UNCHANGED <<country, payoutCurrency, methods, method, quote, deposits, done>>

\* The ways to pay replace the list, and the first of them is chosen.
MethodsKnown(q) ==
  /\ q.about = "methods"
  /\ methods' = MethodsOf[q.from]
  /\ method' = MethodsOf[q.from][1]
  /\ asked' = asked \ {q}
  /\ UNCHANGED <<country, depositCurrency, payoutCurrency, quote, nr, deposits, done, steady>>

\* The rate of the question, under the pair on the screen.
QuoteKnown(q) ==
  /\ q.about = "quote"
  /\ quote' = [from |-> depositCurrency, to |-> payoutCurrency, rate |-> Rate[<<q.from, q.to>>]]
  /\ asked' = asked \ {q}
  /\ UNCHANGED <<country, depositCurrency, payoutCurrency, methods, method, nr, deposits, done,
                 steady>>

QuestionFailed(q) ==
  /\ asked' = asked \ {q}
  /\ quote' = IF q.about = "quote" THEN Blank ELSE quote
  /\ steady' = FALSE
  /\ UNCHANGED <<country, depositCurrency, payoutCurrency, methods, method, nr, deposits, done>>

ChooseMethod(m) ==
  /\ ~done /\ \E i \in DOMAIN methods : methods[i] = m
  /\ method' = m
  /\ UNCHANGED <<country, depositCurrency, payoutCurrency, methods, quote, asked, nr, deposits,
                 done, steady>>

\* The button is never disabled: a second click sends a second deposit.
Submit ==
  /\ ~done /\ Cardinality(deposits) < MaxDeposits
  /\ deposits' = deposits \union {[nr |-> Cardinality(deposits), method |-> method,
                                   country |-> country, settled |-> asked = {} /\ steady]}
  /\ UNCHANGED <<country, depositCurrency, payoutCurrency, methods, method, quote, asked, nr,
                 done, steady>>

Started ==
  /\ deposits # {} /\ ~done
  /\ done' = TRUE
  /\ UNCHANGED <<country, depositCurrency, payoutCurrency, methods, method, quote, asked, nr,
                 deposits, steady>>

Next ==
  \/ \E c \in Country : OnCountryChange(c)
  \/ \E x \in Currency : OnCurrencyChange(x)
  \/ \E q \in asked : MethodsKnown(q) \/ QuoteKnown(q) \/ QuestionFailed(q)
  \/ \E c \in Country, i \in 1..2 : i \in DOMAIN MethodsOf[c] /\ ChooseMethod(MethodsOf[c][i])
  \/ Submit \/ Started

Spec == Init /\ [][Next]_vars

TypeOK ==
  /\ country \in Country /\ {depositCurrency, payoutCurrency} \subseteq Currency
  /\ quote = Blank \/ quote.rate \in {Rate[<<x, y>>] : x \in Currency, y \in Currency}
  /\ \A q \in asked : q.nr \in 1..nr /\ q.about \in {"methods", "quote"}
  /\ nr \in 3..MaxAsked
  /\ Cardinality(deposits) <= MaxDeposits
  /\ done \in BOOLEAN /\ steady \in BOOLEAN

\* The rate on the screen is the rate of the pair it is shown for, as long as
\* the donor changed nothing while an answer was outstanding; and a deposit
\* sent once all is answered names a way to pay of its country.
QuoteIsForItsPair ==
  /\ steady /\ quote # Blank => quote.rate = Rate[<<quote.from, quote.to>>]
  /\ \A d \in deposits :
       d.settled => \E i \in DOMAIN MethodsOf[d.country] : MethodsOf[d.country][i] = d.method
=============================================================================
