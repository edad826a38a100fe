--------------------------------- MODULE Groups ---------------------------------
(***************************************************************************)
(* One group of the groups engine (groups.service.ts): a cohort whose      *)
(* campaigns a company matches, or a giving circle that collects and       *)
(* votes.  Handlers check what they have read and write it later; nothing  *)
(* makes the two atomic.  Where all that a handler checks is guarded by a  *)
(* unique index as well, reading and writing are one action.               *)
(***************************************************************************)
EXTENDS Integers, FiniteSets, FiniteSetsExt

CONSTANTS
    Handler,        \* the requests that run at the same time
    User,
    Invite,         \* invitation links
    Campaign,       \* numbers: the order of the ids
    Goal,           \* what each campaign needs
    Totals,         \* what a company may offer for a cohort
    Donation,       \* donations[d]: who made it
    Option,         \* numbers: the order of the ids of the options of a vote
    Text,           \* messages: what moderation finds in each of them
    MaxVisits       \* bound: memberships that begin or change

GroupsAssumption ==
    /\ Campaign \subseteq Nat /\ Option \subseteq Nat /\ Totals \subseteq Nat
    /\ IsFiniteSet(Campaign)
    /\ Goal \in [Campaign -> Nat]
    /\ DOMAIN Donation \subseteq Nat /\ \A d \in DOMAIN Donation : Donation[d] \in User
    /\ MaxVisits \in Nat

VARIABLES
    mode,           \* COHORT or GIVING_CIRCLE
    members,        \* members[u]: the role of u
    invites,        \* the links that are out, with the role they give
    linked,         \* the campaigns of the cohort
    raised,         \* raisedCents of the campaigns
    contributions,  \* the donations linked to the circle
    messages,       \* the messages of the chat
    vote,           \* the vote, its ballots and the winner that was announced
    task,           \* what each handler has read and not yet written
    visits          \* history: how often memberships began or changed

vars == <<mode, members, invites, linked, raised, contributions, messages, vote, task, visits>>

Roles == {"VIEWER", "CONTRIBUTOR", "ADMIN"}
Modes == {"COHORT", "GIVING_CIRCLE"}
NoVote == [status |-> "NONE", ballots |-> <<>>, winner |-> 0]
Idle == [step |-> "idle"]

Members == DOMAIN members
\* assertRole with a minimum.
CanManage(u) == u \in Members /\ members[u] = "ADMIN"
CanContribute(u) == u \in Members /\ members[u] \in {"ADMIN", "CONTRIBUTOR"}

Total(f, S) == MapThenSumSet(LAMBDA c : f[c], S)
Lower(a, b) == IF a < b THEN a ELSE b

TypeOK ==
    /\ mode \in Modes
    /\ Members \subseteq User /\ members \in [Members -> Roles]
    /\ DOMAIN invites \subseteq Invite /\ invites \in [DOMAIN invites -> Roles]
    /\ linked \subseteq Campaign
    /\ raised \in [Campaign -> Nat]
    /\ contributions \subseteq DOMAIN Donation
    /\ vote.status \in {"NONE", "OPEN", "CLOSED"}
    /\ DOMAIN vote.ballots \subseteq User
    /\ \A u \in DOMAIN vote.ballots : vote.ballots[u] \in Option
    /\ vote.winner \in Option \cup {0}
    /\ \A h \in Handler : task[h].step \in {"idle", "join", "delete", "role", "ballot", "close", "sponsor"}
    /\ visits \in Nat

\* create: the creator is the first administrator.
Create(u) ==
    /\ mode \in Modes
    /\ members = [v \in {u} |-> "ADMIN"]

Init ==
    /\ \E u \in User : Create(u)
    /\ invites = <<>>
    /\ linked = {}
    /\ raised = [c \in Campaign |-> 0]
    /\ contributions = {}
    /\ messages = {}
    /\ vote = NoVote
    /\ task = [h \in Handler |-> Idle]
    /\ visits = 0

Continue(h, next) == task' = [task EXCEPT ![h] = next]
\* A row more, or another one for the same key.
With(table, key, row) ==
    [k \in DOMAIN table \cup {key} |-> IF k = key THEN row ELSE table[k]]
Without(table, key) == [k \in DOMAIN table \ {key} |-> table[k]]

Talk == <<messages, vote>>
Money == <<linked, raised, contributions>>
-----------------------------------------------------------------------------
(* Members.                                                                *)

\* invite: a link with a role; a link is not used up by joining.
CreateInvite(h, u, i, role) ==
    /\ task[h] = Idle
    /\ CanManage(u)
    /\ i \notin DOMAIN invites
    /\ invites' = With(invites, i, role)
    /\ UNCHANGED <<mode, members, Money, Talk, task, visits>>

\* A link runs out.
InviteExpires(i) ==
    /\ i \in DOMAIN invites
    /\ invites' = Without(invites, i)
    /\ UNCHANGED <<mode, members, Money, Talk, task, visits>>

\* join: the link is good and the user is no member.
Join(h, u, i) ==
    /\ task[h] = Idle
    /\ i \in DOMAIN invites
    /\ u \notin Members
    /\ visits < MaxVisits
    /\ Continue(h, [step |-> "join", user |-> u, role |-> invites[i]])
    /\ UNCHANGED <<mode, members, invites, Money, Talk, visits>>

\* The row is unique per user.
CreateMember(h) ==
    /\ task[h].step = "join"
    /\ members' = IF task[h].user \in Members THEN members
                  ELSE With(members, task[h].user, task[h].role)
    /\ visits' = visits + 1
    /\ Continue(h, Idle)
    /\ UNCHANGED <<mode, invites, Money, Talk>>

Admins == {u \in Members : members[u] = "ADMIN"}

\* Mutant: the last administrator is not protected.
NeverLast(u) == FALSE

\* LAST_ADMIN: nobody else is an administrator.
IsLastAdmin(u) == members[u] = "ADMIN" /\ Cardinality(Admins) <= 1

\* leave, decideLeave.
Leave(h, u) ==
    /\ task[h] = Idle
    /\ u \in Members
    /\ ~IsLastAdmin(u)
    /\ Continue(h, [step |-> "delete", user |-> u])
    /\ UNCHANGED <<mode, members, invites, Money, Talk, visits>>

DeleteMember(h) ==
    /\ task[h].step = "delete"
    /\ members' = Without(members, task[h].user)
    /\ Continue(h, Idle)
    /\ UNCHANGED <<mode, invites, Money, Talk, visits>>

\* setRole, decideRoleChange.
SetRole(h, actor, u, role) ==
    /\ task[h] = Idle
    /\ CanManage(actor)
    /\ u \in Members
    /\ role # "ADMIN" => ~IsLastAdmin(u)
    /\ visits < MaxVisits
    /\ Continue(h, [step |-> "role", user |-> u, role |-> role])
    /\ UNCHANGED <<mode, members, invites, Money, Talk, visits>>

\* updateMany: a member who is gone meanwhile is not an error.
StoreRole(h) ==
    /\ task[h].step = "role"
    /\ members' = IF task[h].user \in Members THEN With(members, task[h].user, task[h].role)
                  ELSE members
    /\ visits' = visits + 1
    /\ Continue(h, Idle)
    /\ UNCHANGED <<mode, invites, Money, Talk>>
-----------------------------------------------------------------------------
(* A cohort and its match.                                                 *)

\* addCampaign; a campaign is linked once.
AddCampaign(h, u, c) ==
    /\ task[h] = Idle
    /\ mode = "COHORT"
    /\ CanContribute(u)
    /\ linked' = linked \cup {c}
    /\ UNCHANGED <<mode, members, invites, raised, contributions, Talk, task, visits>>

\* Others give to a campaign.
OthersGive(c) ==
    /\ raised[c] < Goal[c]
    /\ raised' = [raised EXCEPT ![c] = @ + 1]
    /\ UNCHANGED <<mode, members, invites, linked, contributions, Talk, task, visits>>

GapOf(c) == IF raised[c] < Goal[c] THEN Goal[c] - raised[c] ELSE 0

\* The remainder goes to the campaigns in order, each up to its gap.
RestToFirst(base, gap, rest) ==
    [c \in DOMAIN base |->
        LET before == {b \in DOMAIN base : b < c}
            room == [b \in DOMAIN base |-> gap[b] - base[b]]
            left == rest - Total(room, before)
        IN  base[c] + (IF left <= 0 THEN 0 ELSE Lower(room[c], left))]

\* splitCohortMatch, allocateGap: in proportion to the gaps, rounded down.
AllocateGap(gap, total) ==
    LET sum == Total(gap, DOMAIN gap)
        capped == Lower(total, sum)
        base == [c \in DOMAIN gap |-> Lower(gap[c], (capped * gap[c]) \div sum)]
    IN  IF sum = 0 \/ total = 0 THEN [c \in DOMAIN gap |-> 0]
        ELSE RestToFirst(base, gap, capped - Total(base, DOMAIN base))

Live == {c \in linked : raised[c] < Goal[c]}

\* matchCohort reads the gaps and splits the total.
MatchCohort(h, u, total) ==
    /\ task[h] = Idle
    /\ mode = "COHORT"
    /\ CanManage(u)
    /\ Live # {}
    /\ LET gap == [c \in Live |-> GapOf(c)]
       IN  Continue(h, [step |-> "sponsor", total |-> total, gap |-> gap,
                        share |-> AllocateGap(gap, total), todo |-> Live])
    /\ UNCHANGED <<mode, members, invites, Money, Talk, visits>>

\* corporate.sponsor for one campaign after the other; what the campaign does
\* not need by now becomes a tip.  A campaign that is full by now, or a payment
\* that fails, ends the loop; what is done stays done.
SponsorNext(h) ==
    /\ task[h].step = "sponsor"
    /\ \E c \in task[h].todo :
          /\ \A b \in task[h].todo : c <= b
          /\ \/ /\ task[h].share[c] > 0 => raised[c] < Goal[c]
                /\ raised' = [raised EXCEPT ![c] = @ + Lower(task[h].share[c], GapOf(c))]
                /\ Continue(h, IF task[h].todo = {c} THEN Idle
                               ELSE [task[h] EXCEPT !.todo = @ \ {c}])
             \/ /\ task[h].share[c] > 0
                /\ Continue(h, Idle)
                /\ UNCHANGED raised
    /\ UNCHANGED <<mode, members, invites, linked, contributions, Talk, visits>>
-----------------------------------------------------------------------------
(* A giving circle, its votes and its chat.                                *)

\* contribute: the user's own donation, once.
Contribute(h, u, d) ==
    /\ task[h] = Idle
    /\ mode = "GIVING_CIRCLE"
    /\ CanContribute(u)
    /\ Donation[d] = u
    /\ contributions' = contributions \cup {d}
    /\ UNCHANGED <<mode, members, invites, linked, raised, Talk, task, visits>>

\* moderateMessage: any reason to reject one will do.
Moderate(text) == IF text = {} THEN "APPROVED" ELSE "REJECTED"

\* openVote.  One vote at a time is enough: votes do not touch each other.
OpenVote(h, u) ==
    /\ task[h] = Idle
    /\ CanManage(u)
    /\ vote.status = "NONE"
    /\ Option # {}
    /\ vote' = [vote EXCEPT !.status = "OPEN"]
    /\ UNCHANGED <<mode, members, invites, Money, messages, task, visits>>

TakesBallots == vote.status = "OPEN"

\* castBallot looks at the vote and for an earlier ballot ...
CastBallot(h, u, o) ==
    /\ task[h] = Idle
    /\ CanContribute(u)
    /\ TakesBallots
    /\ u \notin DOMAIN vote.ballots
    /\ Continue(h, [step |-> "ballot", user |-> u, option |-> o])
    /\ UNCHANGED <<mode, members, invites, Money, Talk, visits>>

\* ... and stores its own, one per vote and user.
StoreBallot(h) ==
    /\ task[h].step = "ballot"
    /\ vote' = IF task[h].user \in DOMAIN vote.ballots THEN vote
               ELSE [vote EXCEPT !.ballots = With(@, task[h].user, task[h].option)]
    /\ Continue(h, Idle)
    /\ UNCHANGED <<mode, members, invites, Money, messages, visits>>

\* postMessage: what moderation rejects is stored, but not shown.
PostMessage(h, u, text) ==
    /\ task[h] = Idle
    /\ CanContribute(u)
    /\ messages' = messages \cup {[by |-> u, text |-> text, status |-> Moderate(text)]}
    /\ UNCHANGED <<mode, members, invites, Money, vote, task, visits>>

Count(o, ballots) == Cardinality({u \in DOMAIN ballots : ballots[u] = o})

\* tallyVote: the most ballots, and of equals the first id; nobody without any.
Winner(ballots) ==
    IF DOMAIN ballots = {} THEN 0
    ELSE CHOOSE o \in Option : \A p \in Option :
            \/ Count(o, ballots) > Count(p, ballots)
            \/ Count(o, ballots) = Count(p, ballots) /\ o <= p

\* closeVote reads the ballots, of a vote that may be closed already ...
CloseVote(h, u) ==
    /\ task[h] = Idle
    /\ CanManage(u)
    /\ vote.status # "NONE"
    /\ Continue(h, [step |-> "close", winner |-> Winner(vote.ballots)])
    /\ UNCHANGED <<mode, members, invites, Money, Talk, visits>>

\* ... and closes it; the winner among those read is announced.
StoreClosed(h) ==
    /\ task[h].step = "close"
    /\ vote' = [vote EXCEPT !.status = "CLOSED", !.winner = task[h].winner]
    /\ Continue(h, Idle)
    /\ UNCHANGED <<mode, members, invites, Money, messages, visits>>
-----------------------------------------------------------------------------
\* The routes of the controller, each with the rest of its handler.
MemberStep(h) ==
    \/ \E u \in User, i \in Invite, role \in Roles : CreateInvite(h, u, i, role)
    \/ \E u \in User, i \in Invite : Join(h, u, i)
    \/ CreateMember(h)
    \/ \E u \in User : Leave(h, u)
    \/ DeleteMember(h)
    \/ \E actor, u \in User, role \in Roles : SetRole(h, actor, u, role)
    \/ StoreRole(h)

MoneyStep(h) ==
    \/ \E u \in User, c \in Campaign : AddCampaign(h, u, c)
    \/ \E u \in User, total \in Totals : MatchCohort(h, u, total)
    \/ SponsorNext(h)
    \/ \E u \in User, d \in DOMAIN Donation : Contribute(h, u, d)

VoteStep(h) ==
    \/ \E u \in User : OpenVote(h, u)
    \/ \E u \in User, o \in Option : CastBallot(h, u, o)
    \/ StoreBallot(h)
    \/ \E u \in User : CloseVote(h, u)
    \/ \E u \in User, text \in Text : PostMessage(h, u, text)
    \/ StoreClosed(h)

Next ==
    \/ \E h \in Handler : MemberStep(h) \/ MoneyStep(h) \/ VoteStep(h)
    \/ \E i \in Invite : InviteExpires(i)
    \/ \E c \in Campaign : OthersGive(c)

Spec == Init /\ [][Next]_vars
-----------------------------------------------------------------------------
(* What the engine promises.                                               *)


\* "A group always keeps at least one ADMIN" (decideLeave, decideRoleChange).
HasAdmin == Admins # {}

\* The winner that was announced is the one of the ballots that are stored
\* (closeVote, castBallot).
WinnerStands == vote.status = "CLOSED" => vote.winner = Winner(vote.ballots)

\* A match spends what is offered, up to what the campaigns lack together, and
\* gives none of them more than it lacks, however the shares are rounded
\* (splitCohortMatch, matchCohort).
MatchIsExact ==
    \A h \in Handler :
        task[h].step = "sponsor" =>
            LET gap == task[h].gap  share == task[h].share
            IN  /\ \A c \in DOMAIN gap : share[c] <= gap[c]
                /\ Total(share, DOMAIN gap) = Lower(task[h].total, Total(gap, DOMAIN gap))

=============================================================================
