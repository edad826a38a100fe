-------------------------------- MODULE Referral --------------------------------
(***************************************************************************)
(* Referrals (referral.service.ts) and the portfolio of a donor            *)
(* (portfolio.service.ts): a donor's link and the advocates a student      *)
(* invites bring donations, each of which counts for one of them.  A       *)
(* donation is attributed after it is stored, while others capture it or   *)
(* let it expire.                                                          *)
(***************************************************************************)
EXTENDS Integers, FiniteSets, FiniteSetsExt

CONSTANTS
    Handler,        \* the requests that run at the same time
    User,           \* numbers but 0: the order of the ids
    Advocate,       \* numbers: those who can be invited
    Campaign,
    Donation,
    MaxAdvocates,   \* MAX_ADVOCATES_PER_CAMPAIGN
    MaxMonth        \* bound

Nobody == 0

ReferralAssumption ==
    /\ User \subseteq Nat \ {Nobody} /\ User # {} /\ Advocate \subseteq Nat
    /\ MaxAdvocates \in Nat /\ MaxMonth \in Nat

VARIABLES
    donations,      \* the donations
    links,          \* the users who have a link, and whether they show it
    invites,        \* the advocates that are active
    attributions,   \* attributions[d]: what brought the donation
    month,
    task            \* what each handler has read and not yet written

vars == <<donations, links, invites, attributions, month, task>>

Statuses == {"PLEDGED", "CAPTURED", "SUCCEEDED", "FAILED", "EXPIRED"}
\* COUNTED_DONATION_STATUSES
Counted == {"PLEDGED", "CAPTURED", "SUCCEEDED"}
Idle == [step |-> "idle"]
Codes == [kind : {"REFERRAL"}, id : User] \cup [kind : {"ADVOCATE"}, id : Advocate]

TypeOK ==
    /\ DOMAIN donations \subseteq Donation
    /\ \A d \in DOMAIN donations :
          donations[d] \in [donor : User \cup {Nobody}, campaign : Campaign, status : Statuses,
                            recurring : BOOLEAN, month : 0..MaxMonth]
    /\ DOMAIN links \subseteq User /\ links \in [DOMAIN links -> BOOLEAN]
    /\ invites \subseteq Advocate
    /\ DOMAIN attributions \subseteq DOMAIN donations
    /\ \A d \in DOMAIN attributions : attributions[d] \in Codes
    /\ \A h \in Handler : task[h].step \in {"idle", "invite", "attribute", "store"}

Init ==
    /\ donations = <<>>
    /\ links = <<>>
    /\ invites = {}
    /\ attributions = <<>>
    /\ month = 0
    /\ task = [h \in Handler |-> Idle]

Continue(h, next) == task' = [task EXCEPT ![h] = next]
With(table, key, row) ==
    [k \in DOMAIN table \cup {key} |-> IF k = key THEN row ELSE table[k]]
-----------------------------------------------------------------------------
(* Streaks, badges and boards (gamification/), which the portfolio, the    *)
(* feed and the groups use as well.  Months are numbers: monthIndex of a   *)
(* date.                                                                   *)

\* The consecutive months that end in m.
RunTo(months, m) ==
    LET starts == {s \in 0..m : (s..m) \subseteq months}
    IN  IF starts = {} THEN 0 ELSE m - Min(starts) + 1

\* computeMonthlyStreak: this month counts when it is covered and is forgiven
\* when it is not.
CurrentMonths(months, now) ==
    IF now \in months THEN RunTo(months, now)
    ELSE IF now = 0 THEN 0 ELSE RunTo(months, now - 1)

LongestMonths(months) ==
    IF months = {} THEN 0 ELSE Max({RunTo(months, m) : m \in months})

\* resolveTier: thresholds are a function from the tiers to what they take.
ResolveTier(value, thresholds) ==
    LET met == {t \in DOMAIN thresholds : thresholds[t] <= value}
    IN  IF met = {} THEN "NONE"
        ELSE CHOOSE t \in met : \A o \in met : thresholds[o] <= thresholds[t]

AmountToNext(value, thresholds) ==
    LET open == {thresholds[t] : t \in {t \in DOMAIN thresholds : thresholds[t] > value}}
    IN  IF open = {} THEN 0 ELSE Min(open) - value

\* MONTHLY_GIVING_THRESHOLDS and REFERRAL_REWARD_THRESHOLDS
MonthlyGiving == [BRONZE |-> 3, SILVER |-> 6, GOLD |-> 12]
ReferralRewards == [BRONZE |-> 3, SILVER |-> 5, GOLD |-> 10]

\* rankLeaderboard: the higher score, and of equals the lower id.  Ids are
\* numbers; the result is the rank of each.
RankLeaderboard(score) ==
    [i \in DOMAIN score |->
        1 + Cardinality({j \in DOMAIN score :
                \/ score[j] > score[i]
                \/ score[j] = score[i] /\ j < i})]

\* aggregateContributions: amount[d] of the donations, target[d] their campaigns.
Aggregate(amount, target, at) ==
    LET total == MapThenSumSet(LAMBDA d : amount[d], DOMAIN amount)
        targets == {target[d] : d \in DOMAIN amount}
    IN  [totalCents |-> total,
         contributionCount |-> Cardinality(DOMAIN amount),
         distinctTargets |-> Cardinality(targets),
         impactPerTargetCents |-> IF targets = {} THEN 0 ELSE total \div Cardinality(targets),
         months |-> {at[d] : d \in DOMAIN amount}]

\* comparePeers: not below the average of everybody.
Ahead(yours, counts) ==
    MapThenSumSet(LAMBDA u : counts[u], DOMAIN counts) <= yours * Cardinality(DOMAIN counts)
-----------------------------------------------------------------------------
(* Links and advocates.                                                    *)

\* donorReferral, getOrCreateReferralLink: one link for each user.
OpenLink(u) ==
    /\ u \notin DOMAIN links
    /\ links' = With(links, u, FALSE)
    /\ UNCHANGED <<donations, invites, attributions, month, task>>

\* setLeaderboardOptIn
OptIn(u, shown) ==
    /\ links' = With(links, u, shown)
    /\ UNCHANGED <<donations, invites, attributions, month, task>>

RoomForAdvocates == Cardinality(invites) < MaxAdvocates

\* inviteAdvocate counts ...
InviteAdvocate(h, a) ==
    /\ task[h] = Idle
    /\ a \notin invites
    /\ RoomForAdvocates
    /\ Continue(h, [step |-> "invite", advocate |-> a])
    /\ UNCHANGED <<donations, links, invites, attributions, month>>

\* ... and creates.
StoreInvite(h) ==
    /\ task[h].step = "invite"
    /\ invites' = invites \cup {task[h].advocate}
    /\ Continue(h, Idle)
    /\ UNCHANGED <<donations, links, attributions, month>>
-----------------------------------------------------------------------------
(* Donations and what brought them.                                        *)

\* A donation is stored, and its code, if it has one, is looked at afterwards.
Give(h, d, u, c, code) ==
    /\ task[h] = Idle
    /\ d \notin DOMAIN donations
    /\ donations' = With(donations, d, [donor |-> u, campaign |-> c, status |-> "PLEDGED",
                                        recurring |-> FALSE, month |-> month])
    /\ Continue(h, [step |-> "attribute", donation |-> d, code |-> code])
    /\ UNCHANGED <<links, invites, attributions, month>>

\* A charge of a recurring pledge, which has no code.
Recur(d, u, c) ==
    /\ d \notin DOMAIN donations
    /\ donations' = With(donations, d, [donor |-> u, campaign |-> c, status |-> "SUCCEEDED",
                                        recurring |-> TRUE, month |-> month])
    /\ UNCHANGED <<links, invites, attributions, month, task>>

\* The campaign is captured, or expires.
Settle(d, status) ==
    /\ donations[d].status = "PLEDGED"
    /\ donations' = [donations EXCEPT ![d].status = status]
    /\ UNCHANGED <<links, invites, attributions, month, task>>

\* validateReferralCode
ValidCode(code) == IF code.kind = "REFERRAL" THEN code.id \in DOMAIN links ELSE code.id \in invites

\* Mutant: a code of one's own is taken.
AnyDonor(d, code) == TRUE

\* self_referral: only a donor who is signed in is known.
BySomebodyElse(d, code) ==
    ~(code.kind = "REFERRAL" /\ donations[d].donor = code.id)

\* attributeDonation reads, resolveAttribution decides ...
Attribute(h) ==
    /\ task[h].step = "attribute"
    /\ LET d == task[h].donation  code == task[h].code
       IN  Continue(h, IF /\ ValidCode(code)
                          /\ donations[d].status \in Counted
                          /\ BySomebodyElse(d, code)
                          /\ d \notin DOMAIN attributions
                       THEN [step |-> "store", donation |-> d, code |-> code]
                       ELSE Idle)
    /\ UNCHANGED <<donations, links, invites, attributions, month>>

\* ... and the attribution is stored; an error is swallowed.
StoreAttribution(h) ==
    /\ task[h].step = "store"
    /\ attributions' \in {attributions, With(attributions, task[h].donation, task[h].code)}
    /\ Continue(h, Idle)
    /\ UNCHANGED <<donations, links, invites, month>>

MonthPasses ==
    /\ month < MaxMonth
    /\ month' = month + 1
    /\ UNCHANGED <<donations, links, invites, attributions, task>>
-----------------------------------------------------------------------------
(* What users see.                                                         *)

Brought(code) == {d \in DOMAIN attributions : attributions[d] = code}

\* referralLinkStats
LinkStats(u) ==
    LET brought == Brought([kind |-> "REFERRAL", id |-> u])
        counted == {d \in brought : donations[d].status \in Counted}
    IN  [invited |-> Cardinality(brought), donated |-> Cardinality(counted),
         active |-> Cardinality({d \in counted : donations[d].recurring})]

\* computeReferralStats: in whole percent.
ConversionPct(s) == IF s.invited = 0 THEN 0 ELSE (s.donated * 100) \div s.invited

\* referralReward
Reward(count) == [tier |-> ResolveTier(count, ReferralRewards),
                  toNext |-> AmountToNext(count, ReferralRewards)]

\* referralLeaderboard: those who show themselves, by what they brought.
ReferralBoard ==
    RankLeaderboard([u \in {u \in DOMAIN links : links[u]} |-> LinkStats(u).invited])

\* advocates, advocateLeaderboard
AdvocateBoard ==
    RankLeaderboard([a \in invites |-> Cardinality(Brought([kind |-> "ADVOCATE", id |-> a]))])
RemainingAdvocates ==
    IF Cardinality(invites) < MaxAdvocates THEN MaxAdvocates - Cardinality(invites) ELSE 0

\* portfolio: the donations of a donor that count.
Own(u) == {d \in DOMAIN donations : donations[d].donor = u /\ donations[d].status \in Counted}
Supported(u) == {donations[d].campaign : d \in Own(u)}
Portfolio(u) ==
    LET stats == Aggregate([d \in Own(u) |-> 1], [d \in Own(u) |-> donations[d].campaign],
                           [d \in Own(u) |-> donations[d].month])
    IN  [stats |-> stats, current |-> CurrentMonths(stats.months, month),
         longest |-> LongestMonths(stats.months),
         badge |-> ResolveTier(CurrentMonths(stats.months, month), MonthlyGiving),
         ahead |-> Ahead(Cardinality(Supported(u)),
                         [d \in {d \in User : Own(d) # {}} |-> Cardinality(Supported(d))])]
-----------------------------------------------------------------------------
\* The routes of donors, and of the students who invite advocates.
DonorStep(h) ==
    \/ task[h] = Idle /\ \E u \in User : OpenLink(u)
    \/ task[h] = Idle /\ \E u \in User, shown \in BOOLEAN : OptIn(u, shown)
    \/ \E d \in Donation, u \in User \cup {Nobody}, c \in Campaign, code \in Codes : Give(h, d, u, c, code)
    \/ Attribute(h) \/ StoreAttribution(h)

AdvocateStep(h) ==
    \/ \E a \in Advocate : InviteAdvocate(h, a)
    \/ StoreInvite(h)

Next ==
    \/ \E h \in Handler : DonorStep(h) \/ AdvocateStep(h)
    \/ \E d \in Donation, u \in User, c \in Campaign : Recur(d, u, c)
    \/ \E d \in DOMAIN donations, status \in {"CAPTURED", "FAILED", "EXPIRED"} : Settle(d, status)
    \/ MonthPasses

Spec == Init /\ [][Next]_vars
-----------------------------------------------------------------------------
(* What the checks are for.                                                *)

\* A donation counts for one code, for good, and never for a code of the donor,
\* whatever becomes of the donation meanwhile (attributeDonation).
ReferredByOthers ==
    [][/\ \A d \in DOMAIN attributions : attributions'[d] = attributions[d]
       /\ \A d \in DOMAIN attributions' :
             attributions'[d].kind = "REFERRAL" => attributions'[d].id # donations'[d].donor]_vars

\* "Advocate limit reached": a campaign has no more advocates than that, and is told
\* how many it may still invite (inviteAdvocate counts first and creates later).
WithinAdvocateLimit == Cardinality(invites) + RemainingAdvocates = MaxAdvocates

\* Statistics are shares, the next badge is as far away as it says, and never is
\* everybody below the average (computeReferralStats, referralReward, comparePeers).
RewardsAreWithinReach ==
    /\ \A u \in DOMAIN links :
          LET stats == LinkStats(u)
              now == Reward(stats.donated)
          IN  /\ ConversionPct(stats) \in 0..100
              /\ now.toNext > 0 => /\ Reward(stats.donated + now.toNext).tier # now.tier
                                   /\ Reward(stats.donated + now.toNext - 1).tier = now.tier
    /\ \E u \in User : Portfolio(u).ahead

\* A streak only ends when a whole month passes without a donation: in a month
\* that is not over, the streak is the one of the month before or longer, and a
\* donation never shortens it (computeMonthlyStreak, portfolio).
StreaksAreForgiving ==
    [][\A u \in User :
          /\ month' = month /\ Own(u) \subseteq Own(u)' =>
                Portfolio(u)'.current >= Portfolio(u).current
          /\ month' = month + 1 /\ month \in Portfolio(u).stats.months =>
                Portfolio(u)'.current = Portfolio(u).current]_vars

\* Ranks are 1, 2, 3 and so on, without gaps, and who brought more is ahead
\* (rankLeaderboard, referralLeaderboard, advocates).
BoardsAreRanked ==
    /\ {ReferralBoard[u] : u \in DOMAIN ReferralBoard} = 1..Cardinality(DOMAIN ReferralBoard)
    /\ {AdvocateBoard[a] : a \in invites} = 1..Cardinality(invites)
    /\ \A u \in DOMAIN ReferralBoard :
          ReferralBoard[u] = 1 => \A v \in DOMAIN ReferralBoard : LinkStats(v).invited <= LinkStats(u).invited

=============================================================================
