-------------------------------- MODULE Matching --------------------------------
(***************************************************************************)
(* Employer matches (matching.service.ts).  A donor shows a work address,  *)
(* the program of the employer is looked up, and a claim books the match   *)
(* on the campaign of the donation.  A claim reads the donation, the       *)
(* earlier claim, the donor and the campaign before its transaction; the   *)
(* transaction locks the campaign, and reads the donor again.              *)
(***************************************************************************)
EXTENDS Integers, FiniteSets, FiniteSetsExt

CONSTANTS
    Request,        \* the requests that run at the same time
    User, Campaign, Donation,
    Goal,           \* Goal[c]: what campaign c needs
    AmountOf, CampaignOf, DonorOf,  \* of each donation
    Program,        \* the programs, by domain
    Terms,          \* Terms[p]: ratio in percent, cap, min, level, active
    Nobody,         \* a donor or caller who is not signed in, no program
    MaxYear         \* bound

\* MatchProgram, and a donation with its campaign; a goal is positive (goalCents).
MatchingAssumption ==
    /\ Goal \in [Campaign -> Nat \ {0}] /\ AmountOf \in [Donation -> Nat]
    /\ CampaignOf \in [Donation -> Campaign] /\ DonorOf \in [Donation -> User \cup {Nobody}]
    /\ Terms \in [Program -> [ratio : Nat, cap : Nat, min : Nat, active : BOOLEAN,
                              level : {"AUTO_SUBMIT", "PORTAL", "MANUAL"}]]
    /\ Nobody \notin User \cup Program /\ MaxYear \in Nat
    /\ IsFiniteSet(Request) /\ IsFiniteSet(Donation)

VARIABLES
    campaigns,      \* raised and status of each campaign
    users,          \* employer, year and what was used of the cap in that year
    claims,         \* the claims, one for each donation matched
    year,
    request,        \* what each request has read
    alone           \* no two requests have run at the same time

vars == <<campaigns, users, claims, year, request, alone>>

Idle == [step |-> "idle"]
Claims == [user : User \cup {Nobody}, program : Program, amount : Nat,
           year : 0..MaxYear, pdf : BOOLEAN]

TypeOK ==
    /\ campaigns \in [Campaign -> [raised : Nat, status : {"ACTIVE", "FUNDED"}]]
    /\ users \in [User -> [employer : Program \cup {Nobody}, year : 0..MaxYear, used : Nat]]
    /\ DOMAIN claims \subseteq Donation
    /\ \A d \in DOMAIN claims : claims[d] \in Claims
    /\ year \in 0..MaxYear
    /\ \A r \in Request : request[r].step \in {"idle", "claim", "commit"}

Init ==
    /\ campaigns = [c \in Campaign |-> [raised |-> 0, status |-> "ACTIVE"]]
    /\ users = [u \in User |-> [employer |-> Nobody, year |-> 0, used |-> 0]]
    /\ claims = <<>>
    /\ year = 0
    /\ request = [r \in Request |-> Idle]
    /\ alone = TRUE

Busy == {r \in Request : request[r] # Idle}
Continue(r, next) ==
    /\ request' = [request EXCEPT ![r] = next]
    /\ alone' = (alone /\ Cardinality({q \in Request : request'[q] # Idle}) <= 1)
-----------------------------------------------------------------------------
(* Rules.                                                                  *)

\* evaluateEligibility: no program, an inactive one, a donation too small.
Eligible(p, amount) == p # Nobody /\ Terms[p].active /\ amount >= Terms[p].min

\* remainingAnnualCents
Remaining(cap, used) == Max({0, cap - used})

\* computeMatch
ComputeMatch(amount, ratio, remaining) == Min({(amount * ratio) \div 100, remaining})

\* usedThisYear
UsedThisYear(u) ==
    IF u # Nobody /\ users[u].year = year THEN users[u].used ELSE 0

\* matchTowardGoal
TowardGoal(c, amount) == Min({amount, Max({0, Goal[c] - campaigns[c].raised})})

\* Mutant: the match alone has to reach the goal.
MatchReaches(c, seen, amount) == amount >= Goal[c] /\ seen.status # "FUNDED"

\* Whether a booking makes the campaign FUNDED, by the campaign as it was read.
ReachesGoal(c, seen, amount) == seen.raised + amount >= Goal[c] /\ seen.status # "FUNDED"

\* resolveProgram: the address given, else the employer of the donor.
ProgramFor(p, u) == IF p = Nobody /\ u # Nobody THEN users[u].employer ELSE p

-----------------------------------------------------------------------------
(* Providers.                                                              *)

\* createEmployerMatchProvider: the service only with its key.
MatchProvider(env) == IF env.provider = "dtd" /\ env.key THEN "dtd" ELSE "mock"

\* mapDtdCompany, with what the service leaves out
DtdTerms(company) ==
    [ratio |-> IF "ratio" \in DOMAIN company THEN company.ratio * 100 ELSE 100,
     cap |-> IF "max" \in DOMAIN company THEN company.max ELSE 0,
     min |-> IF "min" \in DOMAIN company THEN company.min ELSE 0,
     level |-> IF company.type = "electronic" THEN "AUTO_SUBMIT"
               ELSE IF company.type = "portal" THEN "PORTAL" ELSE "MANUAL",
     active |-> TRUE]

\* lookupByDomain of the service: unknown, down, or a company.
DtdLookup(answer) ==
    IF answer.status = 404 THEN Nobody
    ELSE IF answer.status = 200 THEN DtdTerms(answer.company) ELSE "error"

\* extractDomain: what follows the last "@" and holds a dot and no space.
ExtractDomain(address) ==
    IF address.at /\ address.dot /\ ~address.space THEN address.domain ELSE Nobody
-----------------------------------------------------------------------------
(* What donors do.                                                         *)

\* detect: a signed-in donor keeps the employer.
Detect(r, p, u) ==
    /\ request[r] = Idle
    /\ Terms[p].active
    /\ users' = [users EXCEPT ![u].employer = p]
    /\ UNCHANGED <<campaigns, claims, year, request, alone>>

\* offer: what a donation would be matched with.
Offer(p, u, amount) ==
    LET q == ProgramFor(p, u)
        remaining == Remaining(Terms[q].cap, UsedThisYear(u))
        match == ComputeMatch(amount, Terms[q].ratio, remaining)
    IN  IF Eligible(q, amount)
        THEN [eligible |-> TRUE, match |-> match, remaining |-> remaining, cap |-> Terms[q].cap,
              capped |-> match < (amount * Terms[q].ratio) \div 100]
        ELSE [eligible |-> FALSE]

\* claim: no earlier claim, a program, something left of the cap and to the goal.
Claim(r, d, p, caller) ==
    LET u == IF caller = Nobody THEN DonorOf[d] ELSE caller
        q == ProgramFor(p, u)
        c == CampaignOf[d]
        left == Remaining(Terms[q].cap, UsedThisYear(u))
        match == TowardGoal(c, ComputeMatch(AmountOf[d], Terms[q].ratio, left))
    IN  /\ request[r] = Idle
        /\ d \notin DOMAIN claims
        /\ Eligible(q, AmountOf[d])
        /\ left > 0
        /\ match > 0
        /\ Continue(r, [step |-> "claim", donation |-> d, user |-> u, program |-> q,
                        match |-> match, seen |-> campaigns[c], year |-> year, before |-> 0])
        /\ UNCHANGED <<campaigns, users, claims, year>>

Locked(c) == \E r \in Busy : request[r].step = "commit" /\ CampaignOf[request[r].donation] = c

\* commitClaim: the campaign is updated first, which locks it; a second claim of
\* the donation fails and is rolled back; the donor is read again ...
BookMatch(r) ==
    /\ request[r].step = "claim"
    /\ ~Locked(CampaignOf[request[r].donation])
    /\ LET u == request[r].user
           before == IF u # Nobody /\ users[u].year = request[r].year THEN users[u].used ELSE 0
       IN  Continue(r, IF request[r].donation \in DOMAIN claims THEN Idle
                       ELSE [request[r] EXCEPT !.step = "commit", !.before = before])
    /\ UNCHANGED <<campaigns, users, claims, year>>

\* ... and what is used of the cap is written as a value.
Commit(r) ==
    /\ request[r].step = "commit"
    /\ LET q == request[r]  c == CampaignOf[q.donation]
       IN  /\ campaigns' = [campaigns EXCEPT ![c] =
                [raised |-> @.raised + q.match,
                 status |-> IF ReachesGoal(c, q.seen, q.match) THEN "FUNDED" ELSE @.status]]
           /\ claims' = [d \in DOMAIN claims \cup {q.donation} |->
                            IF d = q.donation
                            THEN [user |-> q.user, program |-> q.program, amount |-> q.match,
                                  year |-> q.year, pdf |-> Terms[q.program].level = "MANUAL"]
                            ELSE claims[d]]
           /\ users' = [u \in User |->
                            IF u = q.user
                            THEN [employer |-> q.program, year |-> q.year,
                                  used |-> q.before + q.match]
                            ELSE users[u]]
    /\ Continue(r, Idle)
    /\ UNCHANGED year

\* balance
Balance(u) ==
    LET p == users[u].employer
    IN  [used |-> UsedThisYear(u),
         remaining |-> IF p = Nobody THEN Nobody ELSE Remaining(Terms[p].cap, UsedThisYear(u)),
         claims |-> {d \in DOMAIN claims : claims[d].user = u}]

\* buildClaimView: the document is offered for claims made by hand.
ClaimView(d) ==
    [status |-> "CLAIMED", amount |-> claims[d].amount, document |-> claims[d].pdf,
     remaining |-> IF claims[d].user = Nobody THEN Nobody
                   ELSE Remaining(Terms[claims[d].program].cap, users[claims[d].user].used)]
-----------------------------------------------------------------------------
NewYear ==
    /\ year < MaxYear
    /\ year' = year + 1
    /\ UNCHANGED <<campaigns, users, claims, request, alone>>

\* The routes of matches.
MatchStep(r) ==
    \/ \E p \in Program, u \in User : Detect(r, p, u)
    \/ \E d \in Donation, p \in Program \cup {Nobody}, u \in User \cup {Nobody} : Claim(r, d, p, u)
    \/ BookMatch(r)
    \/ Commit(r)

Next == NewYear \/ \E r \in Request : MatchStep(r)

Spec == Init /\ [][Next]_vars
-----------------------------------------------------------------------------
(* What the checks are for.                                                *)

ClaimedIn(u, y) == {d \in DOMAIN claims : claims[d].user = u /\ claims[d].year = y}
Claimed(u, y) ==
    LET amounts == [d \in ClaimedIn(u, y) |-> claims[d].amount]
    IN  MapThenSumSet(LAMBDA d : amounts[d], ClaimedIn(u, y))

\* What a donor is told to have used is what the claims of the year add up to
\* (claim reads the donor twice and writes a value).
UsedIsClaimed == \A u \in User : Balance(u).used = Claimed(u, year)

\* What the page of a claim says is left is what the balance says (buildClaimView
\* looks at neither the year nor the employer of today).
ClaimPagesAgree ==
    \A u \in User : \A d \in Balance(u).claims :
        claims[d].year = year /\ claims[d].program = users[u].employer =>
            ClaimView(d).remaining = Balance(u).remaining

\* The claims of a donor in a year stay within the highest cap of the programs
\* they were made under (claim, computeMatch).
WithinAnnualCap ==
    \A u \in User, y \in 0..year :
        ClaimedIn(u, y) # {} =>
            Claimed(u, y) <= Max({Terms[claims[d].program].cap : d \in ClaimedIn(u, y)})

\* Matches take a campaign to its goal and not beyond it, and then it is FUNDED
\* (matchTowardGoal and the status, both decided on what was read before).
GoalIsMet ==
    \A c \in Campaign :
        /\ campaigns[c].raised <= Goal[c]
        /\ campaigns[c].raised = Goal[c] <=> campaigns[c].status = "FUNDED"

\* Nobody is promised more than what a claim books: the offer of a donor is
\* within what is left, however the employers change (offer, balance).
OffersFit ==
    \A u \in User, p \in Program \cup {Nobody}, d \in Donation :
        LET o == Offer(p, u, AmountOf[d])
        IN  o.eligible => /\ o.match <= o.remaining
                          /\ o.remaining + UsedThisYear(u) >= o.cap

=============================================================================
