---------------------------- MODULE FundingProofs ----------------------------
(***************************************************************************)
(* Theorems about Funding, for every set of requests, every goal, any      *)
(* number of requests in flight, with provider failures and crashes.       *)
(*                                                                         *)
(* What is booked is a sum over the donation rows: a step that writes one  *)
(* row changes it by what that row counts (Sums).  What only holds of one  *)
(* request at a time says so: BooksAlwaysBalance, EverythingHappensOnce.   *)
(*                                                                         *)
(* Then the services around a contribution, as MCPlatform puts them        *)
(* together, where a step of the whole is a step of one part and the       *)
(* others wait: Payments, Corporate, Matching, Esg, Fx, Reconciliation.    *)
(***************************************************************************)
EXTENDS Funding, MCPlatform, Sums, SequenceTheorems

USE GoalAssumption, AmountAssumption, ChannelAssumption, BoundAssumption, NoneAssumption

-----------------------------------------------------------------------------
(* Facts about the pure helpers.                                           *)

\* What counts toward the goal is a part of the amount, and the rest a tip.
LEMMA SplitFacts ==
    ASSUME NEW raised \in Nat, NEW amount \in Nat, NEW tip \in Nat
    PROVE  /\ Gap(raised) \in Nat
           /\ ToGoal(raised, amount) \in 0 .. amount
           /\ ToTip(raised, amount, tip) \in Nat
BY DEF Gap, ToGoal, ToTip

LEMMA ShareFacts ==
    ASSUME TypeOK, NEW r \in Request
    PROVE  /\ Share(r) \in Nat
           /\ Excess(r) \in Nat
           /\ RaisedAfter(r) \in Nat
           /\ req[r] \in RequestState
<1>1. req[r] \in RequestState
  BY DEF TypeOK
<1>2. req[r].raised \in Nat /\ req[r].amount \in Nat /\ req[r].tip \in Nat
  BY <1>1 DEF RequestState
<1>. QED
  BY <1>1, <1>2 DEF Share, Excess, RaisedAfter, Gap, ToGoal, ToTip

-----------------------------------------------------------------------------
(* Type correctness.                                                       *)

LEMMA StartType ==
    ASSUME TypeOK, NEW r \in Request, NEW kind, NEW amount \in Nat, NEW tip \in Nat,
           NEW of \in Request \cup {None}, NEW pc \in {"pay", "record"},
           Start(r, kind, amount, tip, of, pc)
    PROVE  TypeOK'
<1>. DEFINE new == [Idle EXCEPT !.pc = pc, !.kind = kind,
                              !.raised = campaign.raised, !.tips = campaign.tips,
                              !.status = campaign.status,
                              !.amount = amount, !.tip = tip, !.of = of]
<1>1. new \in RequestState
  BY DEF TypeOK, Start, Idle, RequestState, CampaignRow
<1>2. req' = [req EXCEPT ![r] = new]
  BY DEF Start
<1>. HIDE DEF new
<1>3. req' \in [Request -> RequestState]
  BY <1>1, <1>2 DEF TypeOK
<1>. QED
  BY <1>3 DEF TypeOK, Start

LEMMA GotoType ==
    ASSUME TypeOK, NEW r \in Request, NEW pc \in {"record", "capture", "done"},
           Goto(r, pc)
    PROVE  req' \in [Request -> RequestState]
<1>1. [req[r] EXCEPT !.pc = pc] \in RequestState
  BY DEF TypeOK, RequestState
<1>. QED
  BY <1>1 DEF TypeOK, Goto

LEMMA CampaignUpdateType ==
    ASSUME NEW row \in CampaignRow, NEW raised \in Nat, NEW tips \in Nat,
           NEW status \in CampaignStatus
    PROVE  /\ [row EXCEPT !.raised = raised, !.tips = tips, !.status = status]
                 \in CampaignRow
           /\ [row EXCEPT !.raised = raised, !.status = status] \in CampaignRow
BY DEF CampaignRow

LEMMA RequestUpdateType ==
    ASSUME NEW row \in RequestState, NEW todo \in SUBSET Request,
           NEW taken \in SUBSET Request
    PROVE  /\ [row EXCEPT !.pc = "capturing", !.todo = todo] \in RequestState
           /\ [row EXCEPT !.todo = todo, !.taken = taken] \in RequestState
           /\ [row EXCEPT !.todo = todo] \in RequestState
BY DEF RequestState

LEMMA BookType ==
    ASSUME TypeOK, NEW r \in Request, NEW status \in {"PLEDGED", "SUCCEEDED"},
           Book(r, status)
    PROVE  /\ donations' \in [Request -> DonationRow]
           /\ campaign' \in CampaignRow
           /\ booked' \in Nat
           /\ UNCHANGED <<payout, charged, transfers, adm>>
<1>1. /\ Share(r) \in Nat /\ Excess(r) \in Nat /\ RaisedAfter(r) \in Nat
      /\ req[r].kind \in Channels \cup {None} /\ req[r].tips \in Nat
  BY ShareFacts DEF RequestState
<1>2. [status |-> status, kind |-> req[r].kind, amount |-> Share(r),
       tip |-> Excess(r), of |-> None] \in DonationRow
  BY <1>1 DEF DonationRow, DonationStatus
<1>3. donations' \in [Request -> DonationRow]
  BY <1>2 DEF TypeOK, Book
<1>4. campaign' \in CampaignRow
  <2>. DEFINE new == IF Closes(r) /\ req[r].status # "FUNDED"
                     THEN "FUNDED" ELSE campaign.status
  <2>1. campaign \in CampaignRow
    BY DEF TypeOK
  <2>2. new \in CampaignStatus
    BY <2>1 DEF CampaignRow, CampaignStatus
  <2>3. req[r].tips + Excess(r) \in Nat
    BY <1>1
  <2>4. campaign' = [campaign EXCEPT !.raised = RaisedAfter(r),
                        !.tips = req[r].tips + Excess(r), !.status = new]
    BY DEF Book
  <2>. HIDE DEF new
  <2>. QED
    BY <1>1, <2>1, <2>2, <2>3, <2>4, CampaignUpdateType
<1>5. booked' \in Nat
  BY <1>1 DEF TypeOK, Book
<1>. QED
  BY <1>3, <1>4, <1>5 DEF Book

LEMMA TypeNext == TypeOK /\ [Next]_vars => TypeOK'
<1>. SUFFICES ASSUME TypeOK, [Next]_vars PROVE TypeOK'
  OBVIOUS
<1>1. ASSUME NEW r \in Request, DonateCard(r) PROVE TypeOK'
  BY <1>1, StartType DEF DonateCard
<1>2. ASSUME NEW r \in Request, DonateSepa(r) PROVE TypeOK'
  BY <1>2, StartType DEF DonateSepa
<1>3. ASSUME NEW r \in Request, Sponsor(r) PROVE TypeOK'
  <2>1. Gap(campaign.raised) \in Nat
    BY SplitFacts DEF TypeOK, CampaignRow
  <2>. QED
    BY <1>3, <2>1, StartType DEF Sponsor
<1>4. ASSUME NEW r \in Request, RunDue(r) PROVE TypeOK'
  BY <1>4, StartType DEF RunDue
<1>5. ASSUME NEW r \in Request, ClaimMatch(r) PROVE TypeOK'
  <2>1. PICK d \in Request : \E extra \in 1 .. 2 * donations[d].amount :
                                Start(r, "match", extra, 0, d, "record")
    BY <1>5 DEF ClaimMatch
  <2>2. PICK extra \in 1 .. 2 * donations[d].amount :
                                Start(r, "match", extra, 0, d, "record")
    BY <2>1
  <2>3. extra \in Nat
    BY DEF TypeOK, DonationRow
  <2>. QED
    BY <2>2, <2>3, StartType
<1>6. ASSUME NEW r \in Request, SavePledge(r) PROVE TypeOK'
  <2>1. req' \in [Request -> RequestState]
    BY <1>6, GotoType DEF SavePledge
  <2>2. FailedRow(r) \in DonationRow
    BY ShareFacts DEF FailedRow, RequestState, DonationRow, DonationStatus
  <2>. QED
    BY <1>6, <2>1, <2>2 DEF SavePledge, TypeOK
<1>7. ASSUME NEW r \in Request, ChargeNow(r) PROVE TypeOK'
  <2>1. req' \in [Request -> RequestState]
    BY <1>7, GotoType DEF ChargeNow
  <2>2. FailedRow(r) \in DonationRow
    BY ShareFacts DEF FailedRow, RequestState, DonationRow, DonationStatus
  <2>. QED
    BY <1>7, <2>1, <2>2 DEF ChargeNow, TypeOK
<1>8. ASSUME NEW r \in Request, RecordPledge(r) PROVE TypeOK'
  BY <1>8, GotoType, BookType DEF RecordPledge, AfterBooking, TypeOK
<1>9. ASSUME NEW r \in Request, RecordSponsorship(r) PROVE TypeOK'
  BY <1>9, GotoType, BookType DEF RecordSponsorship, AfterBooking, TypeOK
<1>10. ASSUME NEW r \in Request, RecordSuccess(r) PROVE TypeOK'
  BY <1>10, GotoType, BookType DEF RecordSuccess, AnnounceIfClosed, TypeOK
<1>11. ASSUME NEW r \in Request, CommitClaim(r) PROVE TypeOK'
  <2>1. req' \in [Request -> RequestState]
    BY <1>11, GotoType DEF CommitClaim
  <2>2. Share(r) \in Nat /\ req[r].of \in Request \cup {None}
    BY ShareFacts DEF RequestState
  <2>3. [status |-> "SUCCEEDED", kind |-> "match", amount |-> Share(r), tip |-> 0,
         of |-> req[r].of] \in DonationRow
    BY <2>2 DEF DonationRow, DonationStatus, Channels
  <2>4. donations' \in [Request -> DonationRow]
    BY <1>11, <2>3 DEF CommitClaim, TypeOK
  <2>5. campaign' \in CampaignRow
    <3>. DEFINE new == IF /\ req[r].raised + Share(r) >= Goal
                          /\ req[r].status # "FUNDED"
                       THEN "FUNDED" ELSE campaign.status
    <3>1. campaign \in CampaignRow
      BY DEF TypeOK
    <3>2. new \in CampaignStatus /\ campaign.raised + Share(r) \in Nat
      BY <2>2, <3>1 DEF CampaignRow, CampaignStatus
    <3>3. \/ campaign' = campaign
          \/ campaign' = [campaign EXCEPT !.raised = campaign.raised + Share(r),
                                          !.status = new]
      BY <1>11 DEF CommitClaim
    <3>. HIDE DEF new
    <3>. QED
      BY <3>1, <3>2, <3>3, CampaignUpdateType
  <2>6. booked' \in Nat
    BY <1>11, <2>2 DEF CommitClaim, TypeOK
  <2>. QED
    BY <1>11, <2>1, <2>4, <2>5, <2>6 DEF CommitClaim, TypeOK
<1>12. ASSUME NEW r \in Request, ListPledges(r) PROVE TypeOK'
  <2>1. [req[r] EXCEPT !.pc = "capturing", !.todo = PledgedIds] \in RequestState
    BY ShareFacts, RequestUpdateType DEF PledgedIds
  <2>2. req' = [req EXCEPT ![r] = [@ EXCEPT !.pc = "capturing", !.todo = PledgedIds]]
    BY <1>12 DEF ListPledges
  <2>3. req' \in [Request -> RequestState]
    BY <2>1, <2>2 DEF TypeOK
  <2>. QED
    BY <1>12, <2>3 DEF ListPledges, TypeOK
<1>13. ASSUME NEW r \in Request, NEW d \in Request, CapturePledge(r, d) PROVE TypeOK'
  <2>1. /\ req[r] \in RequestState
        /\ req[r].todo \ {d} \in SUBSET Request
        /\ req[r].taken \cup {d} \in SUBSET Request
    BY ShareFacts DEF RequestState
  <2>2. PICK new \in RequestState : req' = [req EXCEPT ![r] = new]
    <3>. DEFINE paid == [req[r] EXCEPT !.todo = req[r].todo \ {d},
                                      !.taken = req[r].taken \cup {d}]
                declined == [req[r] EXCEPT !.todo = req[r].todo \ {d}]
    <3>1. paid \in RequestState
      BY <2>1, RequestUpdateType
    <3>2. declined \in RequestState
      BY <2>1, RequestUpdateType
    <3>3. req' = [req EXCEPT ![r] = paid] \/ req' = [req EXCEPT ![r] = declined]
      BY <1>13 DEF CapturePledge
    <3>. HIDE DEF paid, declined
    <3>. QED
      BY <3>1, <3>2, <3>3
  <2>3. req' \in [Request -> RequestState]
    BY <2>2 DEF TypeOK
  <2>4. charged' \in [Request -> Nat]
    BY <1>13 DEF CapturePledge, TypeOK
  <2>. QED
    BY <1>13, <2>3, <2>4 DEF CapturePledge, TypeOK
<1>14. ASSUME NEW r \in Request, MarkCaptured(r) PROVE TypeOK'
  BY <1>14, GotoType DEF MarkCaptured, TypeOK, DonationRow, DonationStatus
<1>15. ASSUME NEW a \in Admin, Disburse(a) \/ CreatePayout(a) \/ RecordPayout(a)
       PROVE TypeOK'
  BY <1>15 DEF Disburse, CreatePayout, RecordPayout, TypeOK, CampaignRow, CampaignStatus
<1>16. CASE Verify \/ Reject
  BY <1>16 DEF Verify, Reject, TypeOK, CampaignRow, CampaignStatus
<1>17. CASE Crash
  BY <1>17, GotoType DEF Crash, TypeOK
<1>18. CASE UNCHANGED vars
  BY <1>18 DEF vars, TypeOK
<1>. QED
  BY <1>1, <1>2, <1>3, <1>4, <1>5, <1>6, <1>7, <1>8, <1>9, <1>10, <1>11, <1>12,
     <1>13, <1>14, <1>15, <1>16, <1>17, <1>18 DEF Next, RequestStep, DisburseStep

\* Every row and every handler keeps its type, for any set of requests.
THEOREM TypeCorrect == Spec => []TypeOK
<1>1. Init => TypeOK
  BY DEF Init, TypeOK, Idle, NoRow, RequestState, CampaignRow, CampaignStatus,
         DonationRow, DonationStatus
<1>. QED
  BY <1>1, TypeNext, PTL DEF Spec

-----------------------------------------------------------------------------
(* What the rows cover.  The four parts hold each other up: a handler      *)
(* writes what it remembers, so what it remembers must be covered.         *)

Covered ==
    /\ TypeOK
    /\ RaisedNeverOverstates
    /\ FundedIsCovered
    /\ MemoryIsBacked
    /\ PayoutIsCovered

\* A handler that starts remembers a covered amount.
LEMMA StartCovered ==
    ASSUME Covered, NEW r \in Request, NEW kind, NEW amount, NEW tip, NEW of,
           NEW pc \in {"pay", "record"},
           Start(r, kind, amount, tip, of, pc)
    PROVE  RaisedNeverOverstates' /\ FundedIsCovered' /\ MemoryIsBacked' /\ PayoutIsCovered'
<1>1. req'[r].raised = campaign.raised /\ req'[r].pc = pc
  BY DEF Start, Idle, Covered, TypeOK
<1>2. \A o \in Request \ {r} : req'[o] = req[o]
  BY DEF Start, Covered, TypeOK
<1>3. UNCHANGED <<campaign, payout, adm, booked>>
  BY DEF Start
<1>. QED
  BY <1>1, <1>2, <1>3
  DEF Covered, RaisedNeverOverstates, FundedIsCovered, MemoryIsBacked, PayoutIsCovered

\* A handler that only moves on remembers the same amount.
LEMMA GotoCovered ==
    ASSUME Covered, NEW r \in Request, NEW pc, Goto(r, pc), booked' \in Nat,
           booked' >= booked, pc \in {"capture", "capturing"} => booked' >= Goal,
           UNCHANGED adm
    PROVE  MemoryIsBacked'
<1>1. req'[r].raised = req[r].raised /\ req'[r].pc = pc
  BY DEF Goto, Covered, TypeOK, RequestState
<1>2. \A o \in Request \ {r} : req'[o] = req[o]
  BY DEF Goto, Covered, TypeOK
<1>3. \A o \in Request : req[o].raised \in Nat
  BY DEF Covered, TypeOK, RequestState
<1>4. \A a \in Admin : adm[a].raised \in Nat
  BY DEF Covered, TypeOK
<1>5. booked \in Nat /\ Goal \in Nat
  BY DEF Covered, TypeOK
<1>. QED
  BY <1>1, <1>2, <1>3, <1>4, <1>5 DEF Covered, MemoryIsBacked

\* The absolute write of a stale sum: it loses what others wrote, and adds no
\* more than the row written with it.
LEMMA BookCovered ==
    ASSUME Covered, NEW r \in Request, NEW status, Book(r, status)
    PROVE  /\ booked' \in Nat /\ booked' >= booked
           /\ Closes(r) => booked' >= Goal
           /\ RaisedNeverOverstates' /\ FundedIsCovered' /\ PayoutIsCovered'
<1>1. Share(r) \in Nat /\ RaisedAfter(r) \in Nat /\ req[r].raised \in Nat
  BY ShareFacts DEF Covered, RequestState
<1>2. req[r].raised <= booked /\ booked \in Nat
  BY DEF Covered, MemoryIsBacked, TypeOK
<1>3. booked' = booked + Share(r) /\ UNCHANGED payout
  BY DEF Book
<1>4. Closes(r) => booked' >= Goal
  BY <1>1, <1>2, <1>3 DEF Closes, IsGoalReached
<1>5. campaign'.raised = RaisedAfter(r)
  BY DEF Book, Covered, TypeOK, CampaignRow
<1>6. RaisedNeverOverstates'
  BY <1>1, <1>2, <1>3, <1>5 DEF RaisedNeverOverstates, RaisedAfter
<1>7. campaign'.status \in {campaign.status} \/ (Closes(r) /\ campaign'.status = "FUNDED")
  BY DEF Book, Covered, TypeOK, CampaignRow
<1>8. FundedIsCovered'
  BY <1>1, <1>2, <1>3, <1>4, <1>7 DEF FundedIsCovered, Covered
<1>9. PayoutIsCovered'
  <2>1. payout' # None => payout' \in Nat
    BY <1>3 DEF Covered, TypeOK
  <2>. QED
    BY <1>1, <1>2, <1>3, <2>1 DEF PayoutIsCovered, Covered
<1>. QED
  BY <1>1, <1>2, <1>3, <1>4, <1>6, <1>8, <1>9

\* Charging a pledge touches only the lists of the capture.
LEMMA CaptureStep ==
    ASSUME TypeOK, NEW r \in Request, NEW d \in Request, CapturePledge(r, d)
    PROVE  \A o \in Request :
              /\ req'[o].raised = req[o].raised
              /\ req'[o].pc = req[o].pc
              /\ req'[o].kind = req[o].kind
              /\ req'[o].todo \subseteq req[o].todo
              /\ \/ req'[o].taken = req[o].taken
                 \/ /\ req'[o].taken = req[o].taken \cup {d}
                    /\ d \in req[o].todo
                    /\ charged' = [charged EXCEPT ![d] = @ + 1]
<1>. DEFINE paid == [req[r] EXCEPT !.todo = req[r].todo \ {d},
                                  !.taken = req[r].taken \cup {d}]
            declined == [req[r] EXCEPT !.todo = req[r].todo \ {d}]
<1>1. /\ paid.raised = req[r].raised /\ paid.pc = req[r].pc /\ paid.kind = req[r].kind
      /\ paid.todo = req[r].todo \ {d} /\ paid.taken = req[r].taken \cup {d}
  BY ShareFacts DEF RequestState
<1>2. /\ declined.raised = req[r].raised /\ declined.pc = req[r].pc
      /\ declined.kind = req[r].kind /\ declined.todo = req[r].todo \ {d}
      /\ declined.taken = req[r].taken
  BY ShareFacts DEF RequestState
<1>3. \/ req' = [req EXCEPT ![r] = paid] /\ charged' = [charged EXCEPT ![d] = @ + 1]
      \/ req' = [req EXCEPT ![r] = declined]
  BY DEF CapturePledge
<1>4. d \in req[r].todo
  BY DEF CapturePledge
<1>. HIDE DEF paid, declined
<1>5. \A o \in Request : o # r => req'[o] = req[o]
  BY <1>3 DEF TypeOK
<1>6. \/ req'[r] = paid /\ charged' = [charged EXCEPT ![d] = @ + 1]
      \/ req'[r] = declined
  BY <1>3 DEF TypeOK
<1>. QED
  BY <1>1, <1>2, <1>4, <1>5, <1>6

\* A step that books nothing and leaves the campaign alone.
LEMMA QuietCovered ==
    ASSUME Covered, UNCHANGED <<campaign, payout, adm, booked>>,
           \A r \in Request :
              /\ req'[r].raised = req[r].raised
              /\ req'[r].pc \in {"capture", "capturing"} => booked >= Goal
    PROVE  RaisedNeverOverstates' /\ FundedIsCovered' /\ MemoryIsBacked' /\ PayoutIsCovered'
BY DEF Covered, RaisedNeverOverstates, FundedIsCovered, MemoryIsBacked, PayoutIsCovered

LEMMA CoveredNext == Covered /\ [Next]_vars => Covered'
<1>. DEFINE Rest == RaisedNeverOverstates /\ FundedIsCovered /\ MemoryIsBacked
                    /\ PayoutIsCovered
<1>. SUFFICES ASSUME Covered, [Next]_vars PROVE Rest'
  BY TypeNext DEF Covered
<1>0. booked \in Nat /\ Goal \in Nat /\ booked >= booked
  BY DEF Covered, TypeOK
<1>1. ASSUME NEW r \in Request, DonateCard(r) \/ DonateSepa(r) \/ Sponsor(r) \/ RunDue(r)
      PROVE Rest'
  BY <1>1, StartCovered DEF DonateCard, DonateSepa, Sponsor, RunDue
<1>2. ASSUME NEW r \in Request, ClaimMatch(r) PROVE Rest'
  BY <1>2, StartCovered DEF ClaimMatch
<1>3. ASSUME NEW r \in Request, SavePledge(r) \/ ChargeNow(r) PROVE Rest'
  <2>1. UNCHANGED <<campaign, payout, adm, booked>>
    BY <1>3 DEF SavePledge, ChargeNow
  <2>2. Goto(r, "record") \/ Goto(r, "done")
    BY <1>3 DEF SavePledge, ChargeNow
  <2>3. MemoryIsBacked'
    BY <1>0, <2>1, <2>2, GotoCovered
  <2>. QED
    BY <2>1, <2>3 DEF Covered, RaisedNeverOverstates, FundedIsCovered, PayoutIsCovered
<1>4. ASSUME NEW r \in Request, RecordPledge(r) \/ RecordSponsorship(r) PROVE Rest'
  <2>1. Book(r, "PLEDGED") \/ Book(r, "SUCCEEDED")
    BY <1>4 DEF RecordPledge, RecordSponsorship
  <2>2. /\ booked' \in Nat /\ booked' >= booked
        /\ Closes(r) => booked' >= Goal
        /\ RaisedNeverOverstates' /\ FundedIsCovered' /\ PayoutIsCovered'
    BY <2>1, BookCovered
  <2>3. UNCHANGED adm
    BY <2>1 DEF Book
  <2>4. Goto(r, AfterBooking(r))
    BY <1>4 DEF RecordPledge, RecordSponsorship
  <2>5. MemoryIsBacked'
    BY <2>2, <2>3, <2>4, GotoCovered DEF AfterBooking
  <2>. QED
    BY <2>2, <2>5
<1>5. ASSUME NEW r \in Request, RecordSuccess(r) PROVE Rest'
  <2>1. Book(r, "SUCCEEDED") /\ Goto(r, "done")
    BY <1>5 DEF RecordSuccess
  <2>2. UNCHANGED adm
    BY <2>1 DEF Book
  <2>. QED
    BY <2>1, <2>2, BookCovered, GotoCovered
<1>6. ASSUME NEW r \in Request, CommitClaim(r) PROVE Rest'
  <2>1. Goto(r, "done") /\ UNCHANGED <<payout, adm>>
    BY <1>6 DEF CommitClaim
  <2>2. CASE UNCHANGED <<campaign, booked>>
    <3>1. MemoryIsBacked'
      BY <1>0, <2>1, <2>2, GotoCovered
    <3>. QED
      BY <2>1, <2>2, <3>1 DEF Covered, RaisedNeverOverstates, FundedIsCovered, PayoutIsCovered
  <2>3. CASE ~AlreadyClaimed(r)
    <3>1. /\ Share(r) \in Nat /\ req[r].raised \in Nat /\ req[r].raised <= booked
          /\ campaign.raised \in Nat
      BY ShareFacts DEF Covered, RequestState, MemoryIsBacked, TypeOK, CampaignRow
    <3>2. booked' = booked + Share(r) /\ campaign'.raised = campaign.raised + Share(r)
      BY <1>6, <2>3 DEF CommitClaim, Covered, TypeOK, CampaignRow
    <3>3. campaign'.status = campaign.status \/ req[r].raised + Share(r) >= Goal
      BY <1>6, <2>3 DEF CommitClaim, Covered, TypeOK, CampaignRow
    <3>4. booked' \in Nat /\ booked' >= booked
      BY <1>0, <3>1, <3>2
    <3>5. MemoryIsBacked'
      BY <2>1, <3>4, GotoCovered
    <3>6. RaisedNeverOverstates'
      BY <1>0, <3>1, <3>2 DEF RaisedNeverOverstates, Covered
    <3>7. FundedIsCovered'
      BY <1>0, <3>1, <3>2, <3>3 DEF FundedIsCovered, Covered
    <3>8. PayoutIsCovered'
      <4>1. payout # None => payout \in Nat
        BY DEF Covered, TypeOK
      <4>. QED
        BY <1>0, <2>1, <3>4, <4>1 DEF PayoutIsCovered, Covered
    <3>. QED
      BY <3>5, <3>6, <3>7, <3>8
  <2>. QED
    BY <1>6, <2>2, <2>3 DEF CommitClaim
<1>7. ASSUME NEW r \in Request, ListPledges(r) PROVE Rest'
  <2>1. /\ UNCHANGED <<campaign, payout, adm, booked>>
        /\ req[r].pc = "capture"
        /\ req' = [req EXCEPT ![r] = [@ EXCEPT !.pc = "capturing", !.todo = PledgedIds]]
    BY <1>7 DEF ListPledges
  <2>2. \A o \in Request : req'[o].raised = req[o].raised /\ (o # r => req'[o] = req[o])
    BY <2>1 DEF Covered, TypeOK, RequestState
  <2>. QED
    BY <2>1, <2>2, QuietCovered DEF Covered, MemoryIsBacked
<1>8. ASSUME NEW r \in Request, NEW d \in Request, CapturePledge(r, d) PROVE Rest'
  <2>1. UNCHANGED <<campaign, payout, adm, booked>>
    BY <1>8 DEF CapturePledge
  <2>2. \A o \in Request : req'[o].raised = req[o].raised /\ req'[o].pc = req[o].pc
    BY <1>8, CaptureStep DEF Covered
  <2>. QED
    BY <2>1, <2>2, QuietCovered DEF Covered, MemoryIsBacked
<1>9. ASSUME NEW r \in Request, MarkCaptured(r) PROVE Rest'
  <2>1. UNCHANGED <<campaign, payout, adm, booked>> /\ Goto(r, "done")
    BY <1>9 DEF MarkCaptured
  <2>2. MemoryIsBacked'
    BY <1>0, <2>1, GotoCovered
  <2>. QED
    BY <2>1, <2>2 DEF Covered, RaisedNeverOverstates, FundedIsCovered, PayoutIsCovered
<1>10. ASSUME NEW a \in Admin, Disburse(a) PROVE Rest'
  <2>1. /\ UNCHANGED <<campaign, payout, req, booked>> /\ campaign.status = "FUNDED"
        /\ adm' = [adm EXCEPT ![a] = [pc |-> "pay", raised |-> campaign.raised]]
    BY <1>10 DEF Disburse, Disbursable
  <2>. QED
    BY <2>1 DEF Covered, TypeOK, RaisedNeverOverstates, FundedIsCovered, MemoryIsBacked,
                PayoutIsCovered
<1>11. ASSUME NEW a \in Admin, CreatePayout(a) PROVE Rest'
  <2>1. /\ UNCHANGED <<campaign, payout, req, booked>> /\ adm[a].pc = "pay"
        /\ adm' = [adm EXCEPT ![a].pc = "record"]
    BY <1>11 DEF CreatePayout
  <2>. QED
    BY <2>1 DEF Covered, TypeOK, RaisedNeverOverstates, FundedIsCovered, MemoryIsBacked,
                PayoutIsCovered
<1>12. ASSUME NEW a \in Admin, RecordPayout(a) PROVE Rest'
  <2>1. /\ UNCHANGED <<req, booked>> /\ adm[a].pc = "record"
        /\ adm' = [adm EXCEPT ![a].pc = "done"]
    BY <1>12 DEF RecordPayout
  <2>2. /\ payout' = payout \/ payout' = adm[a].raised
        /\ campaign'.raised = campaign.raised
        /\ campaign'.status = campaign.status \/ campaign'.status = "DISBURSED"
    BY <1>12 DEF RecordPayout, Covered, TypeOK, CampaignRow
  <2>. QED
    BY <2>1, <2>2 DEF Covered, TypeOK, RaisedNeverOverstates, FundedIsCovered,
                      MemoryIsBacked, PayoutIsCovered
<1>13. CASE Verify \/ Reject
  <2>1. /\ UNCHANGED <<payout, req, adm, booked>>
        /\ campaign'.raised = campaign.raised
        /\ campaign'.status \in {"LIVE", "REJECTED"}
    BY <1>13 DEF Verify, Reject, Covered, TypeOK, CampaignRow
  <2>. QED
    BY <2>1 DEF Covered, RaisedNeverOverstates, FundedIsCovered, MemoryIsBacked, PayoutIsCovered
<1>14. CASE Crash
  <2>1. UNCHANGED <<campaign, payout, booked>>
    BY <1>14 DEF Crash
  <2>2. CASE \E r \in Request \cap Serving : Goto(r, "done") /\ UNCHANGED adm
    <3>1. MemoryIsBacked'
      BY <1>0, <2>1, <2>2, GotoCovered
    <3>. QED
      BY <2>1, <3>1 DEF Covered, RaisedNeverOverstates, FundedIsCovered, PayoutIsCovered
  <2>3. CASE \E a \in Admin \cap Serving :
                adm' = [adm EXCEPT ![a].pc = "done"] /\ UNCHANGED req
    BY <2>1, <2>3 DEF Covered, TypeOK, RaisedNeverOverstates, FundedIsCovered,
                      MemoryIsBacked, PayoutIsCovered
  <2>. QED
    BY <1>14, <2>2, <2>3 DEF Crash
<1>15. CASE UNCHANGED vars
  BY <1>15 DEF vars, Covered, RaisedNeverOverstates, FundedIsCovered, MemoryIsBacked,
               PayoutIsCovered
<1>. HIDE DEF Rest
<1>. QED
  BY <1>1, <1>2, <1>3, <1>4, <1>5, <1>6, <1>7, <1>8, <1>9, <1>10, <1>11, <1>12, <1>13,
     <1>14, <1>15 DEF Next, RequestStep, DisburseStep

LEMMA CoveredAlways == Spec => []Covered
<1>1. Init => Covered
  <2>1. Init => TypeOK
    BY DEF Init, TypeOK, Idle, NoRow, RequestState, CampaignRow, CampaignStatus,
           DonationRow, DonationStatus
  <2>. QED
    BY <2>1 DEF Init, Idle, Covered, RaisedNeverOverstates, FundedIsCovered,
                MemoryIsBacked, PayoutIsCovered
<1>. QED
  BY <1>1, CoveredNext, PTL DEF Spec

\* The progress shown is always backed by donation rows.
THEOREM RaisedBacked == Spec => []RaisedNeverOverstates
BY CoveredAlways, PTL DEF Covered

\* FUNDED and DISBURSED are only reached when the rows cover the goal.
THEOREM FundedBacked == Spec => []FundedIsCovered
BY CoveredAlways, PTL DEF Covered

\* The school is never promised more than the rows add up to.
THEOREM PayoutBacked == Spec => []PayoutIsCovered
BY CoveredAlways, PTL DEF Covered

\* What is shown, what made the campaign FUNDED and what is paid out are backed by
\* donation rows, in every interleaving of any number of handlers.
THEOREM MoneyAlwaysBacked == Spec => []MoneyIsBacked
<1>1. Covered => MoneyIsBacked
  BY DEF Covered, MoneyIsBacked
<1> QED BY <1>1, CoveredAlways, PTL

-----------------------------------------------------------------------------
(* What the rows say about the money.                                      *)

Settled(d) ==
    /\ RowFollowsHandler(d)
    /\ donations[d].status = "CAPTURED" => charged[d] > 0
    /\ donations[d].status = "SUCCEEDED" /\ donations[d].kind # "match" => charged[d] = 1

RowInv == Covered /\ \A d \in Request : Settled(d)

\* The total of the rows never shrinks.
LEMMA BookedGrows ==
    ASSUME TypeOK, [Next]_vars
    PROVE  booked \in Nat /\ booked' \in Nat /\ booked' >= booked
<1>1. booked \in Nat
  BY DEF TypeOK
<1>2. booked' = booked \/ \E r \in Request : booked' = booked + Share(r)
  BY DEF Next, RequestStep, DisburseStep, DonateCard, DonateSepa, Sponsor, RunDue,
         ClaimMatch, Start, SavePledge, ChargeNow, RecordPledge, RecordSponsorship,
         RecordSuccess, CommitClaim, ListPledges, CapturePledge, MarkCaptured, Book,
         Disburse, CreatePayout, RecordPayout, Verify, Reject, Crash, vars
<1>. QED
  BY <1>1, <1>2, ShareFacts

LEMMA GotoFacts ==
    ASSUME TypeOK, NEW r \in Request, NEW pc, Goto(r, pc)
    PROVE  /\ req'[r].pc = pc
           /\ req'[r].kind = req[r].kind
           /\ req'[r].todo = req[r].todo
           /\ req'[r].taken = req[r].taken
           /\ \A o \in Request : o # r => req'[o] = req[o]
BY DEF Goto, TypeOK, RequestState

\* A step of r that keeps the pledges others capture keeps their rows in order.
LEMMA OthersSettled ==
    ASSUME RowInv, NEW r \in Request, booked' \in Nat, booked' >= booked,
           donations' \in [Request -> DonationRow], charged' \in [Request -> Nat],
           \A o \in Request : o # r => /\ req'[o] = req[o]
                                      /\ donations'[o] = donations[o]
                                      /\ charged'[o] = charged[o],
           donations[r].status \in {"PLEDGED", "CAPTURED"}
              => donations'[r].status \in {"PLEDGED", "CAPTURED"},
           charged'[r] >= charged[r]
    PROVE  \A d \in Request : d # r => Settled(d)'
<1>. SUFFICES ASSUME NEW d \in Request, d # r PROVE Settled(d)'
  OBVIOUS
<1>1. /\ Settled(d) /\ req[d].todo \subseteq Request /\ req[d].taken \subseteq Request
      /\ booked \in Nat /\ charged \in [Request -> Nat]
  BY ShareFacts DEF RowInv, Covered, TypeOK, RequestState
<1>2. \A e \in req[d].todo \cup req[d].taken :
         donations'[e].status \in {"PLEDGED", "CAPTURED"}
  BY <1>1 DEF Settled, RowFollowsHandler
<1>3. \A e \in req[d].taken : charged'[e] > 0
  BY <1>1 DEF Settled, RowFollowsHandler
<1>4. charged[d] > 0 => booked' >= Goal \/ req[d].kind \in ChargedUpFront
  BY <1>1 DEF Settled, RowFollowsHandler
<1>. QED
  BY <1>1, <1>2, <1>3, <1>4 DEF Settled, RowFollowsHandler

LEMMA StartSettled ==
    ASSUME RowInv, NEW r \in Request, NEW kind, NEW amount, NEW tip, NEW of,
           NEW pc \in {"pay", "record"}, pc = "record" => kind = "match",
           Start(r, kind, amount, tip, of, pc)
    PROVE  \A d \in Request : Settled(d)'
<1>1. /\ req'[r].pc = pc /\ req'[r].kind = kind
      /\ req'[r].todo = {} /\ req'[r].taken = {}
  BY DEF Start, Idle, RowInv, Covered, TypeOK
<1>2. /\ req[r].pc = "idle"
      /\ \A o \in Request : o # r => req'[o] = req[o]
      /\ UNCHANGED <<donations, charged, booked>>
  BY DEF Start, RowInv, Covered, TypeOK
<1>3. /\ donations \in [Request -> DonationRow] /\ charged \in [Request -> Nat]
      /\ booked \in Nat
  BY DEF RowInv, Covered, TypeOK
<1>4. \A d \in Request : d # r => Settled(d)'
  BY <1>2, <1>3, OthersSettled
<1>5. Settled(r)'
  BY <1>1, <1>2, <1>3 DEF RowInv, Settled, RowFollowsHandler, ChargedUpFront
<1>. QED
  BY <1>4, <1>5

\* The handler of r moves on without touching rows or money.
LEMMA GotoSettled ==
    ASSUME RowInv, NEW r \in Request, NEW pc \in {"record", "capture", "done"},
           Goto(r, pc), pc = "record" => req[r].pc = "pay" /\ req[r].kind = "card",
           UNCHANGED <<donations, charged, booked>>
    PROVE  \A d \in Request : Settled(d)'
<1>1. /\ donations \in [Request -> DonationRow] /\ charged \in [Request -> Nat]
      /\ booked \in Nat /\ TypeOK
  BY DEF RowInv, Covered, TypeOK
<1>2. /\ req'[r].pc = pc /\ req'[r].kind = req[r].kind
      /\ req'[r].todo = req[r].todo /\ req'[r].taken = req[r].taken
      /\ \A o \in Request : o # r => req'[o] = req[o]
  BY <1>1, GotoFacts
<1>3. \A d \in Request : d # r => Settled(d)'
  BY <1>1, <1>2, OthersSettled
<1>4. Settled(r)'
  BY <1>1, <1>2 DEF RowInv, Settled, RowFollowsHandler, ChargedUpFront
<1>. QED
  BY <1>3, <1>4

\* The handler of r writes its row, once, and ends or goes on to capture.
LEMMA RowWritten ==
    ASSUME RowInv, NEW r \in Request, NEW pc \in {"capture", "done"}, Goto(r, pc),
           req[r].pc \in {"pay", "record"},
           NEW row \in DonationRow, donations' = [donations EXCEPT ![r] = row],
           row.status \in {"FAILED", "PLEDGED", "SUCCEEDED"},
           row.kind = req[r].kind,
           row.status = "SUCCEEDED" /\ row.kind # "match" => charged[r] = 1,
           UNCHANGED charged, booked' \in Nat, booked' >= booked
    PROVE  \A d \in Request : Settled(d)'
<1>1. /\ donations \in [Request -> DonationRow] /\ charged \in [Request -> Nat]
      /\ booked \in Nat /\ TypeOK
  BY DEF RowInv, Covered, TypeOK
<1>2. /\ req'[r].pc = pc /\ req'[r].kind = req[r].kind
      /\ req'[r].todo = req[r].todo /\ req'[r].taken = req[r].taken
      /\ \A o \in Request : o # r => req'[o] = req[o]
  BY <1>1, GotoFacts
<1>3. /\ donations' \in [Request -> DonationRow] /\ donations'[r] = row
      /\ \A o \in Request : o # r => donations'[o] = donations[o]
  BY <1>1
<1>4. donations[r].status = "NONE" /\ Settled(r)
  BY DEF RowInv, Settled, RowFollowsHandler
<1>5. \A d \in Request : d # r => Settled(d)'
  BY <1>1, <1>2, <1>3, <1>4, OthersSettled
<1>6. /\ req[r].todo \subseteq Request /\ req[r].taken \subseteq Request
      /\ r \notin req[r].todo \cup req[r].taken
  BY <1>1, <1>4, ShareFacts DEF Settled, RowFollowsHandler, RequestState
<1>7. charged[r] > 0 => booked' >= Goal \/ req[r].kind \in ChargedUpFront
  BY <1>1, <1>4 DEF Settled, RowFollowsHandler
<1>8. /\ \A e \in req[r].todo \cup req[r].taken :
            donations'[e].status \in {"PLEDGED", "CAPTURED"}
      /\ \A e \in req[r].taken : charged'[e] > 0
  BY <1>3, <1>4, <1>6 DEF Settled, RowFollowsHandler
<1>9. Settled(r)'
  BY <1>1, <1>2, <1>3, <1>4, <1>7, <1>8 DEF Settled, RowFollowsHandler
<1>. QED
  BY <1>5, <1>9

LEMMA SettledNext == RowInv /\ [Next]_vars => RowInv'
<1>. DEFINE Rest == \A d \in Request : Settled(d)
<1>. SUFFICES ASSUME RowInv, [Next]_vars PROVE Rest'
  BY CoveredNext DEF RowInv
<1>0. /\ TypeOK /\ Covered /\ TypeOK'
      /\ booked \in Nat /\ booked' \in Nat /\ booked' >= booked
  BY TypeNext, BookedGrows DEF RowInv, Covered
<1>1. ASSUME NEW r \in Request, DonateCard(r) \/ DonateSepa(r) \/ Sponsor(r) \/ RunDue(r)
      PROVE Rest'
  BY <1>1, StartSettled DEF DonateCard, DonateSepa, Sponsor, RunDue
<1>2. ASSUME NEW r \in Request, ClaimMatch(r) PROVE Rest'
  BY <1>2, StartSettled DEF ClaimMatch
<1>3. ASSUME NEW r \in Request, SavePledge(r) PROVE Rest'
  <2>1. CASE Goto(r, "record") /\ UNCHANGED donations
    BY <1>3, <2>1, GotoSettled DEF SavePledge
  <2>2. CASE donations' = [donations EXCEPT ![r] = FailedRow(r)] /\ Goto(r, "done")
    <3>1. /\ FailedRow(r) \in DonationRow /\ FailedRow(r).status = "FAILED"
          /\ FailedRow(r).kind = req[r].kind
      BY <1>0, ShareFacts DEF FailedRow, RequestState, DonationRow, DonationStatus
    <3>. QED
      BY <1>0, <1>3, <2>2, <3>1, RowWritten DEF SavePledge
  <2>. QED
    BY <1>3, <2>1, <2>2 DEF SavePledge
<1>4. ASSUME NEW r \in Request, ChargeNow(r) PROVE Rest'
  <2>0. req[r].pc = "pay" /\ req[r].kind \in ChargedUpFront /\ UNCHANGED booked
    BY <1>4 DEF ChargeNow
  <2>1. CASE charged' = [charged EXCEPT ![r] = @ + 1] /\ Goto(r, "record")
             /\ UNCHANGED donations
    <3>1. /\ req'[r].pc = "record" /\ req'[r].kind = req[r].kind
          /\ req'[r].todo = req[r].todo /\ req'[r].taken = req[r].taken
          /\ \A o \in Request : o # r => req'[o] = req[o]
      BY <1>0, <2>1, GotoFacts
    <3>2. Settled(r) /\ charged[r] = 0 /\ donations[r].status = "NONE"
      BY <2>0 DEF RowInv, Settled, RowFollowsHandler
    <3>3. /\ donations' \in [Request -> DonationRow] /\ charged' \in [Request -> Nat]
          /\ charged'[r] = 1
          /\ \A o \in Request : o # r => charged'[o] = charged[o]
      BY <1>0, <2>1, <3>2 DEF TypeOK
    <3>4. \A d \in Request : d # r => Settled(d)'
      BY <1>0, <2>1, <3>1, <3>2, <3>3, OthersSettled
    <3>5. /\ req[r].todo \subseteq Request /\ req[r].taken \subseteq Request
          /\ r \notin req[r].todo \cup req[r].taken
      BY <1>0, <3>2, ShareFacts DEF Settled, RowFollowsHandler, RequestState
    <3>6. Settled(r)'
      BY <2>0, <2>1, <3>1, <3>2, <3>3, <3>5 DEF Settled, RowFollowsHandler
    <3>. QED
      BY <3>4, <3>6
  <2>2. CASE UNCHANGED donations /\ Goto(r, "done") /\ UNCHANGED charged
    BY <2>0, <2>2, GotoSettled
  <2>3. CASE donations' = [donations EXCEPT ![r] = FailedRow(r)] /\ Goto(r, "done")
             /\ UNCHANGED charged
    <3>1. /\ FailedRow(r) \in DonationRow /\ FailedRow(r).status = "FAILED"
          /\ FailedRow(r).kind = req[r].kind
      BY <1>0, ShareFacts DEF FailedRow, RequestState, DonationRow, DonationStatus
    <3>. QED
      BY <1>0, <2>0, <2>3, <3>1, RowWritten
  <2>. QED
    BY <1>4, <2>1, <2>2, <2>3 DEF ChargeNow
<1>5. ASSUME NEW r \in Request,
             RecordPledge(r) \/ RecordSponsorship(r) \/ RecordSuccess(r)
      PROVE Rest'
  <2>1. PICK status \in {"PLEDGED", "SUCCEEDED"}, pc \in {"capture", "done"} :
           /\ Book(r, status) /\ Goto(r, pc) /\ req[r].pc = "record"
           /\ status = "SUCCEEDED" => req[r].kind \in ChargedUpFront
    BY <1>5 DEF RecordPledge, RecordSponsorship, RecordSuccess, AfterBooking, ChargedUpFront
  <2>. DEFINE row == [status |-> status, kind |-> req[r].kind, amount |-> Share(r),
                      tip |-> Excess(r), of |-> None]
  <2>2. row \in DonationRow /\ row.status = status /\ row.kind = req[r].kind
    BY <1>0, ShareFacts DEF RequestState, DonationRow, DonationStatus
  <2>3. donations' = [donations EXCEPT ![r] = row] /\ UNCHANGED charged
    BY <2>1 DEF Book
  <2>4. status = "SUCCEEDED" => charged[r] = 1
    BY <2>1 DEF RowInv, Settled, RowFollowsHandler
  <2>. HIDE DEF row
  <2>. QED
    BY <1>0, <2>1, <2>2, <2>3, <2>4, RowWritten
<1>6. ASSUME NEW r \in Request, CommitClaim(r) PROVE Rest'
  <2>1. Goto(r, "done") /\ UNCHANGED charged /\ req[r].pc = "record" /\ req[r].kind = "match"
    BY <1>6 DEF CommitClaim
  <2>2. CASE UNCHANGED <<donations, booked>>
    BY <2>1, <2>2, GotoSettled
  <2>3. CASE ~AlreadyClaimed(r)
    <3>. DEFINE row == [status |-> "SUCCEEDED", kind |-> "match", amount |-> Share(r),
                        tip |-> 0, of |-> req[r].of]
    <3>1. row \in DonationRow /\ row.status = "SUCCEEDED" /\ row.kind = "match"
      BY <1>0, ShareFacts DEF RequestState, DonationRow, DonationStatus, Channels
    <3>2. donations' = [donations EXCEPT ![r] = row]
      BY <1>6, <2>3 DEF CommitClaim
    <3>. HIDE DEF row
    <3>. QED
      BY <1>0, <2>1, <3>1, <3>2, RowWritten
  <2>. QED
    BY <1>6, <2>2, <2>3 DEF CommitClaim
<1>7. ASSUME NEW r \in Request, ListPledges(r) PROVE Rest'
  <2>1. /\ UNCHANGED <<donations, charged, booked>> /\ req[r].pc = "capture"
        /\ req' = [req EXCEPT ![r] = [@ EXCEPT !.pc = "capturing", !.todo = PledgedIds]]
    BY <1>7 DEF ListPledges
  <2>2. /\ req'[r].pc = "capturing" /\ req'[r].kind = req[r].kind
        /\ req'[r].todo = PledgedIds /\ req'[r].taken = req[r].taken
        /\ \A o \in Request : o # r => req'[o] = req[o]
    BY <1>0, <2>1 DEF TypeOK, RequestState
  <2>3. donations \in [Request -> DonationRow] /\ charged \in [Request -> Nat]
    BY <1>0 DEF TypeOK
  <2>4. \A d \in Request : d # r => Settled(d)'
    BY <1>0, <2>1, <2>2, <2>3, OthersSettled
  <2>5. Settled(r)'
    BY <2>1, <2>2 DEF RowInv, Settled, RowFollowsHandler, PledgedIds
  <2>. QED
    BY <2>4, <2>5
<1>8. ASSUME NEW r \in Request, NEW d \in Request, CapturePledge(r, d) PROVE Rest'
  <2>1. /\ UNCHANGED <<donations, booked>> /\ req[r].pc = "capturing" /\ d \in req[r].todo
        /\ charged' = charged \/ charged' = [charged EXCEPT ![d] = @ + 1]
    BY <1>8 DEF CapturePledge
  <2>2. booked >= Goal
    BY <1>0, <2>1 DEF Covered, MemoryIsBacked
  <2>3. donations[d].status \in {"PLEDGED", "CAPTURED"}
    BY <2>1 DEF RowInv, Settled, RowFollowsHandler
  <2>. SUFFICES ASSUME NEW o \in Request PROVE Settled(o)'
    OBVIOUS
  <2>4. /\ req'[o].pc = req[o].pc /\ req'[o].kind = req[o].kind
        /\ req'[o].todo \subseteq req[o].todo
        /\ \/ req'[o].taken = req[o].taken
           \/ /\ req'[o].taken = req[o].taken \cup {d}
              /\ d \in req[o].todo
              /\ charged' = [charged EXCEPT ![d] = @ + 1]
    BY <1>0, <1>8, CaptureStep
  <2>5. /\ Settled(o) /\ charged \in [Request -> Nat]
        /\ req[o].todo \subseteq Request /\ req[o].taken \subseteq Request
    BY <1>0, ShareFacts DEF RowInv, TypeOK, RequestState
  <2>6. \A e \in Request : charged'[e] >= charged[e] /\ (e # d => charged'[e] = charged[e])
    BY <2>1, <2>5
  <2>7. \A e \in req'[o].todo \cup req'[o].taken :
           donations[e].status \in {"PLEDGED", "CAPTURED"}
    BY <2>3, <2>4, <2>5 DEF Settled, RowFollowsHandler
  <2>8. \A e \in req'[o].taken : charged'[e] > 0
    <3>1. \A e \in req[o].taken : charged'[e] > 0
      BY <2>5, <2>1 DEF Settled, RowFollowsHandler
    <3>2. charged' = [charged EXCEPT ![d] = @ + 1] => charged'[d] > 0
      BY <2>5
    <3>. QED
      BY <2>4, <3>1, <3>2
  <2>9. charged'[o] = charged[o] \/ (o = d /\ charged'[o] = charged[o] + 1)
    BY <2>1, <2>5
  <2>. QED
    BY <2>1, <2>2, <2>3, <2>4, <2>5, <2>7, <2>8, <2>9 DEF Settled, RowFollowsHandler
<1>9. ASSUME NEW r \in Request, MarkCaptured(r) PROVE Rest'
  <2>1. /\ UNCHANGED <<charged, booked>> /\ Goto(r, "done")
        /\ donations' = [d \in Request |->
                            IF d \in req[r].taken
                            THEN [donations[d] EXCEPT !.status = "CAPTURED"]
                            ELSE donations[d]]
    BY <1>9 DEF MarkCaptured, CapturedIds
  <2>2. \A d \in req[r].taken :
           d \in Request /\ donations[d].status \in {"PLEDGED", "CAPTURED"} /\ charged[d] > 0
    BY <1>0, ShareFacts DEF RowInv, Settled, RowFollowsHandler, RequestState
  <2>3. \A d \in Request :
           /\ donations'[d].kind = donations[d].kind
           /\ d \in req[r].taken => donations'[d].status = "CAPTURED"
           /\ d \notin req[r].taken => donations'[d] = donations[d]
    BY <1>0, <2>1 DEF TypeOK, DonationRow
  <2>4. /\ req'[r].pc = "done" /\ req'[r].kind = req[r].kind
        /\ req'[r].todo = req[r].todo /\ req'[r].taken = req[r].taken
        /\ \A o \in Request : o # r => req'[o] = req[o]
    BY <1>0, <2>1, GotoFacts
  <2>. SUFFICES ASSUME NEW o \in Request PROVE Settled(o)'
    OBVIOUS
  <2>5. /\ Settled(o) /\ req[o].todo \subseteq Request /\ req[o].taken \subseteq Request
    BY <1>0, ShareFacts DEF RowInv, RequestState
  <2>6. \A e \in req[o].todo \cup req[o].taken :
           donations'[e].status \in {"PLEDGED", "CAPTURED"}
    BY <2>3, <2>5 DEF Settled, RowFollowsHandler
  <2>. QED
    BY <2>1, <2>2, <2>3, <2>4, <2>5, <2>6 DEF Settled, RowFollowsHandler
<1>10. CASE UNCHANGED <<donations, charged, req, booked>>
  BY <1>10 DEF RowInv, Settled, RowFollowsHandler
<1>11. ASSUME NEW a \in Admin, Disburse(a) \/ CreatePayout(a) \/ RecordPayout(a)
       PROVE Rest'
  BY <1>10, <1>11 DEF Disburse, CreatePayout, RecordPayout
<1>12. CASE Verify \/ Reject
  BY <1>10, <1>12 DEF Verify, Reject
<1>13. CASE Crash
  BY <1>10, <1>13, GotoSettled DEF Crash
<1>14. CASE UNCHANGED vars
  BY <1>10, <1>14 DEF vars
<1>. HIDE DEF Rest
<1>. QED
  BY <1>1, <1>2, <1>3, <1>4, <1>5, <1>6, <1>7, <1>8, <1>9, <1>11, <1>12, <1>13, <1>14
  DEF Next, RequestStep, DisburseStep

LEMMA RowsAtFirst == Init => RowInv
<1>1. Init => TypeOK
  BY DEF Init, TypeOK, Idle, NoRow, RequestState, CampaignRow, CampaignStatus,
         DonationRow, DonationStatus
<1>2. Init => Covered
  BY <1>1 DEF Init, Idle, Covered, RaisedNeverOverstates, FundedIsCovered,
              MemoryIsBacked, PayoutIsCovered
<1>3. Init => \A d \in Request : Settled(d)
  BY DEF Init, Idle, NoRow, Settled, RowFollowsHandler, ChargedUpFront, Channels
<1>. QED
  BY <1>2, <1>3 DEF RowInv

LEMMA SettledAlways == Spec => []RowInv
BY RowsAtFirst, SettledNext, PTL DEF Spec

\* All-or-nothing: no card is debited before the rows cover the goal.
THEOREM NoCardBeforeGoal == Spec => []AllOrNothing
<1>1. RowInv => AllOrNothing
  BY DEF RowInv, Settled, RowFollowsHandler, AllOrNothing, ChargedUpFront
<1>. QED
  BY <1>1, SettledAlways, PTL

\* A row that says the money was taken is true.
THEOREM RowsAreTrue == Spec => []TakenMeansCharged
<1>1. RowInv => TakenMeansCharged
  BY DEF RowInv, Settled, TakenMeansCharged
<1>. QED
  BY <1>1, SettledAlways, PTL

\* What a step may do to a row: write it where there was none, or mark a pledge
\* as captured; only a claim writes a match, and only an unclaimed one.
LEMMA RowSteps ==
    ASSUME RowInv, [Next]_vars, NEW d \in Request
    PROVE  \/ donations'[d] = donations[d]
           \/ /\ donations[d].status = "NONE"
              /\ donations'[d].kind # "match"
           \/ /\ donations[d].status = "NONE" /\ ~AlreadyClaimed(d)
              /\ donations'[d].of = req[d].of
              /\ \A o \in Request : o # d => donations'[o] = donations[o]
           \/ /\ donations[d].status = "PLEDGED" /\ donations'[d].kind = donations[d].kind
              /\ donations'[d].of = donations[d].of
<1>. DEFINE Goal_d == \/ donations'[d] = donations[d]
                      \/ /\ donations[d].status = "NONE"
                         /\ donations'[d].kind # "match"
                      \/ /\ donations[d].status = "NONE" /\ ~AlreadyClaimed(d)
                         /\ donations'[d].of = req[d].of
                         /\ \A o \in Request : o # d => donations'[o] = donations[o]
                      \/ /\ donations[d].status = "PLEDGED"
                         /\ donations'[d].kind = donations[d].kind
                         /\ donations'[d].of = donations[d].of
<1>. SUFFICES Goal_d
  OBVIOUS
<1>0. TypeOK /\ Settled(d) /\ donations \in [Request -> DonationRow]
  BY DEF RowInv, Covered, TypeOK
<1>1. CASE UNCHANGED donations
  BY <1>1
<1>2. ASSUME NEW r \in Request, SavePledge(r) \/ ChargeNow(r) PROVE Goal_d
  <2>1. CASE donations' = [donations EXCEPT ![r] = FailedRow(r)]
    <3>1. req[r].pc = "pay" /\ FailedRow(r).kind # "match"
      BY <1>2 DEF SavePledge, ChargeNow, FailedRow, ChargedUpFront
    <3>. QED
      BY <1>0, <2>1, <3>1 DEF Settled, RowFollowsHandler
  <2>. QED
    BY <1>1, <1>2, <2>1 DEF SavePledge, ChargeNow
<1>3. ASSUME NEW r \in Request,
             RecordPledge(r) \/ RecordSponsorship(r) \/ RecordSuccess(r)
      PROVE Goal_d
  <2>1. /\ req[r].pc = "record" /\ req[r].kind # "match"
        /\ Book(r, "PLEDGED") \/ Book(r, "SUCCEEDED")
    BY <1>3 DEF RecordPledge, RecordSponsorship, RecordSuccess
  <2>2. \A o \in Request : o # r => donations'[o] = donations[o]
    BY <1>0, <2>1 DEF Book
  <2>3. donations'[r].kind = req[r].kind
    BY <1>0, <2>1 DEF Book
  <2>. QED
    BY <1>0, <2>1, <2>2, <2>3 DEF Settled, RowFollowsHandler
<1>4. ASSUME NEW r \in Request, CommitClaim(r) PROVE Goal_d
  <2>1. req[r].pc = "record"
    BY <1>4 DEF CommitClaim
  <2>2. CASE UNCHANGED donations
    BY <1>1, <2>2
  <2>3. CASE ~AlreadyClaimed(r)
    <3>1. /\ donations'[r].of = req[r].of
          /\ \A o \in Request : o # r => donations'[o] = donations[o]
      BY <1>0, <1>4, <2>3 DEF CommitClaim
    <3>. QED
      BY <1>0, <2>1, <2>3, <3>1 DEF Settled, RowFollowsHandler
  <2>. QED
    BY <1>4, <2>2, <2>3 DEF CommitClaim
<1>5. ASSUME NEW r \in Request, MarkCaptured(r) PROVE Goal_d
  <2>1. CASE d \in req[r].taken
    <3>1. /\ donations[d].status \in {"PLEDGED", "CAPTURED"}
          /\ donations'[d] = [donations[d] EXCEPT !.status = "CAPTURED"]
          /\ donations[d] \in DonationRow
      BY <1>0, <1>5, <2>1 DEF MarkCaptured, CapturedIds, RowInv, Settled, RowFollowsHandler
    <3>2. CASE donations[d].status = "CAPTURED"
      <4>1. [donations[d] EXCEPT !.status = "CAPTURED"] = donations[d]
        BY <3>1, <3>2 DEF DonationRow
      <4>. QED
        BY <3>1, <4>1
    <3>3. CASE donations[d].status = "PLEDGED"
      <4>1. /\ donations'[d].kind = donations[d].kind
            /\ donations'[d].of = donations[d].of
        BY <3>1 DEF DonationRow
      <4>. QED
        BY <3>3, <4>1
    <3>. QED
      BY <3>1, <3>2, <3>3
  <2>2. CASE d \notin req[r].taken
    BY <1>0, <1>5, <2>2 DEF MarkCaptured, CapturedIds
  <2>. QED
    BY <2>1, <2>2
<1>. HIDE DEF Goal_d
<1>. QED
  BY <1>1, <1>2, <1>3, <1>4, <1>5
  DEF Next, RequestStep, DisburseStep, DonateCard, DonateSepa, Sponsor, RunDue,
      ClaimMatch, Start, ListPledges, CapturePledge, Disburse, CreatePayout,
      RecordPayout, Verify, Reject, Crash, vars

\* No donation is matched twice, whatever two claims saw when they started.
THEOREM NoDoubleMatch == Spec => []MatchedOnce
<1>1. Init => MatchedOnce
  BY DEF Init, NoRow, MatchedOnce, Channels
<1>2. RowInv /\ MatchedOnce /\ [Next]_vars => MatchedOnce'
  <2>. SUFFICES ASSUME RowInv, MatchedOnce, [Next]_vars, NEW m \in Request,
                       NEW n \in Request, donations'[m].kind = "match",
                       donations'[n].kind = "match", m # n
                PROVE donations'[m].of # donations'[n].of
    BY DEF MatchedOnce
  <2>1. CASE \E d \in {m, n} : /\ ~AlreadyClaimed(d) /\ donations'[d].of = req[d].of
                              /\ \A o \in Request : o # d => donations'[o] = donations[o]
    BY <2>1 DEF AlreadyClaimed
  <2>2. CASE \A d \in {m, n} : /\ donations'[d].kind = donations[d].kind
                              /\ donations'[d].of = donations[d].of
    BY <2>2 DEF MatchedOnce
  <2>. QED
    BY <2>1, <2>2, RowSteps
<1>. QED
  BY <1>1, <1>2, SettledAlways, PTL DEF Spec

\* A row that says how a donation ended is never touched again.
THEOREM EndedIsFinal == Spec => DonationsAreFinal
<1>1. RowInv /\ [Next]_vars
         => [\A d \in Request : donations[d].status \in {"CAPTURED", "SUCCEEDED", "FAILED"}
                => donations'[d] = donations[d]]_donations
  BY RowSteps
<1>. QED
  BY <1>1, SettledAlways, PTL DEF Spec, DonationsAreFinal

\* Pledges are debited only once the goal is covered, and end once.
THEOREM PledgesAlwaysHonoured == Spec => PledgesAreHonoured
BY NoCardBeforeGoal, EndedIsFinal DEF PledgesAreHonoured

-----------------------------------------------------------------------------
(* Refinement: the handlers implement CampaignPromise.                     *)

LEMMA SameDebits ==
    ASSUME \A d \in Request : req'[d].kind = req[d].kind, UNCHANGED charged
    PROVE  DebitedPledges' = DebitedPledges
BY DEF DebitedPledges

\* A handler that starts has not been charged under another kind.
LEMMA StartKeepsDebits ==
    ASSUME RowInv, NEW r \in Request, NEW kind, NEW amount, NEW tip, NEW of, NEW pc,
           Start(r, kind, amount, tip, of, pc)
    PROVE  UNCHANGED <<booked, DebitedPledges, payout>>
<1>1. /\ req[r].pc = "idle" /\ UNCHANGED <<booked, payout, charged>>
      /\ \A o \in Request : o # r => req'[o] = req[o]
  BY DEF Start, RowInv, Covered, TypeOK
<1>2. charged[r] = 0
  BY <1>1 DEF RowInv, Settled, RowFollowsHandler
<1>3. DebitedPledges' = DebitedPledges
  BY <1>1, <1>2 DEF DebitedPledges
<1>. QED
  BY <1>1, <1>3

\* Booking a row is a contribution, or nothing if its share is zero.
LEMMA BookContributes ==
    ASSUME RowInv, NEW r \in Request, NEW pc, Goto(r, pc), UNCHANGED <<charged, payout>>,
           booked' = booked + Share(r)
    PROVE  Promise!Contribute \/ UNCHANGED <<booked, DebitedPledges, payout>>
<1>1. TypeOK /\ Share(r) \in Nat /\ booked \in Nat
  BY ShareFacts DEF RowInv, Covered, TypeOK
<1>2. \A o \in Request : req'[o].kind = req[o].kind
  BY <1>1, GotoFacts
<1>3. DebitedPledges' = DebitedPledges
  BY <1>2, SameDebits
<1>. QED
  BY <1>1, <1>3 DEF Promise!Contribute

LEMMA PromiseStep == RowInv /\ [Next]_vars => [Promise!Next]_(Promise!vars)
<1>. DEFINE Quiet == UNCHANGED <<booked, DebitedPledges, payout>>
<1>. SUFFICES ASSUME RowInv, [Next]_vars PROVE Promise!Next \/ Quiet
  BY DEF Promise!vars
<1>0. TypeOK /\ Covered
  BY DEF RowInv, Covered
<1>1. ASSUME NEW r \in Request,
             DonateCard(r) \/ DonateSepa(r) \/ Sponsor(r) \/ RunDue(r) \/ ClaimMatch(r)
      PROVE Quiet
  BY <1>1, StartKeepsDebits DEF DonateCard, DonateSepa, Sponsor, RunDue, ClaimMatch
<1>2. ASSUME NEW r \in Request, NEW pc, Goto(r, pc), UNCHANGED <<booked, charged, payout>>
      PROVE Quiet
  BY <1>0, <1>2, GotoFacts, SameDebits
<1>3. ASSUME NEW r \in Request, SavePledge(r) PROVE Quiet
  BY <1>2, <1>3 DEF SavePledge
<1>4. ASSUME NEW r \in Request, ChargeNow(r) PROVE Quiet
  <2>1. /\ Goto(r, "record") \/ Goto(r, "done")
        /\ UNCHANGED <<booked, payout>> /\ req[r].kind # "card"
        /\ \A o \in Request : o # r => charged'[o] = charged[o]
    BY <1>0, <1>4 DEF ChargeNow, ChargedUpFront, TypeOK
  <2>2. \A o \in Request : req'[o].kind = req[o].kind
    BY <1>0, <2>1, GotoFacts
  <2>3. DebitedPledges' = DebitedPledges
    BY <2>1, <2>2 DEF DebitedPledges
  <2>. QED
    BY <2>1, <2>3
<1>5. ASSUME NEW r \in Request,
             RecordPledge(r) \/ RecordSponsorship(r) \/ RecordSuccess(r)
      PROVE Promise!Contribute \/ Quiet
  <2>1. /\ Book(r, "PLEDGED") \/ Book(r, "SUCCEEDED")
        /\ \E pc \in {"capture", "done"} : Goto(r, pc)
    BY <1>5 DEF RecordPledge, RecordSponsorship, RecordSuccess, AfterBooking
  <2>2. booked' = booked + Share(r) /\ UNCHANGED <<charged, payout>>
    BY <2>1 DEF Book
  <2>. QED
    BY <2>1, <2>2, BookContributes
<1>6. ASSUME NEW r \in Request, CommitClaim(r) PROVE Promise!Contribute \/ Quiet
  <2>1. /\ Goto(r, "done") /\ UNCHANGED <<charged, payout>>
        /\ booked' = booked \/ booked' = booked + Share(r)
    BY <1>6 DEF CommitClaim
  <2>. QED
    BY <1>2, <2>1, BookContributes
<1>7. ASSUME NEW r \in Request, ListPledges(r) PROVE Quiet
  <2>1. /\ UNCHANGED <<booked, charged, payout>>
        /\ req' = [req EXCEPT ![r] = [@ EXCEPT !.pc = "capturing", !.todo = PledgedIds]]
    BY <1>7 DEF ListPledges
  <2>2. \A o \in Request : req'[o].kind = req[o].kind
    BY <1>0, <2>1 DEF TypeOK, RequestState
  <2>. QED
    BY <2>1, <2>2, SameDebits
<1>8. ASSUME NEW r \in Request, NEW d \in Request, CapturePledge(r, d)
      PROVE Promise!Debit \/ Quiet
  <2>1. /\ UNCHANGED <<booked, payout>> /\ req[r].pc = "capturing"
        /\ charged' = charged \/ charged' = [charged EXCEPT ![d] = @ + 1]
    BY <1>8 DEF CapturePledge
  <2>2. booked >= Goal
    BY <1>0, <2>1 DEF Covered, MemoryIsBacked
  <2>3. \A o \in Request : req'[o].kind = req[o].kind
    BY <1>0, <1>8, CaptureStep
  <2>4. CASE charged' = charged
    BY <2>1, <2>3, <2>4, SameDebits
  <2>5. CASE charged' = [charged EXCEPT ![d] = @ + 1]
    <3>1. charged \in [Request -> Nat]
      BY <1>0 DEF TypeOK
    <3>2. charged'[d] > 0 /\ \A o \in Request : o # d => charged'[o] = charged[o]
      BY <2>5, <3>1
    <3>3. CASE req[d].kind = "card"
      <4>1. DebitedPledges' = DebitedPledges \cup {d}
        BY <2>3, <3>2, <3>3 DEF DebitedPledges
      <4>. QED
        BY <2>1, <2>2, <4>1 DEF Promise!Debit
    <3>4. CASE req[d].kind # "card"
      <4>1. DebitedPledges' = DebitedPledges
        BY <2>3, <3>2, <3>4 DEF DebitedPledges
      <4>. QED
        BY <2>1, <4>1
    <3>. QED
      BY <3>3, <3>4
  <2>. QED
    BY <2>1, <2>4, <2>5
<1>9. ASSUME NEW r \in Request, MarkCaptured(r) PROVE Quiet
  BY <1>2, <1>9 DEF MarkCaptured
<1>10. ASSUME UNCHANGED <<booked, charged, payout, req>> PROVE Quiet
  BY <1>10, SameDebits
<1>11. ASSUME NEW a \in Admin, RecordPayout(a) PROVE Promise!Pay \/ Quiet
  <2>1. /\ UNCHANGED <<booked, charged, req>> /\ adm[a].pc = "record"
        /\ UNCHANGED payout \/ (payout = None /\ payout' = adm[a].raised)
    BY <1>11 DEF RecordPayout
  <2>2. adm[a].raised \in 0 .. booked /\ booked >= Goal
    BY <1>0, <2>1 DEF Covered, TypeOK, MemoryIsBacked
  <2>3. DebitedPledges' = DebitedPledges
    BY <2>1, SameDebits
  <2>. QED
    BY <2>1, <2>2, <2>3 DEF Promise!Pay
<1>12. ASSUME NEW a \in Admin, Disburse(a) \/ CreatePayout(a) PROVE Quiet
  <2>1. UNCHANGED <<booked, charged, payout, req>>
    BY <1>12 DEF Disburse, CreatePayout
  <2>. QED
    BY <1>10, <2>1
<1>13. CASE Verify \/ Reject \/ UNCHANGED vars
  BY <1>10, <1>13 DEF Verify, Reject, vars
<1>14. CASE Crash
  BY <1>2, <1>10, <1>14 DEF Crash
<1>. HIDE DEF Quiet
<1>. QED
  BY <1>1, <1>3, <1>4, <1>5, <1>6, <1>7, <1>8, <1>9, <1>11, <1>12, <1>13, <1>14
  DEF Next, RequestStep, DisburseStep, Promise!Next

\* Whatever the handlers do, they keep the promise to donors and school.
THEOREM PromiseKept == Spec => KeepsPromise
<1>1. Init => Promise!Init
  BY DEF Init, Idle, Promise!Init, DebitedPledges
<1>. QED
  BY <1>1, PromiseStep, SettledAlways, PTL DEF Spec, KeepsPromise, Promise!Spec

-----------------------------------------------------------------------------
(* What the rows add up to.                                                *)

LEMMA SumOverIsTotal == \A S, f : SumOver(S, f) = Total(f, S)
BY DEF SumOver, Total

\* The rows that count keep what they book.
CountedStay == \A d \in CountedIds : /\ donations'[d].amount = donations[d].amount
                                     /\ donations'[d].tip = donations[d].tip

\* The step writes the row of r, and the campaign row with it, from the
\* memory of the handler or from the row itself.
Writes(r) ==
    /\ req[r].pc = "record"
    /\ req'[r].pc \in {"capture", "done"}
    /\ r \notin CountedIds
    /\ CountedIds' = CountedIds \cup {r}
    /\ CountedStay
    /\ donations'[r].amount = Share(r)
    /\ booked' = booked + Share(r)
    /\ campaign'.raised \in {req[r].raised + Share(r), campaign.raised + Share(r)}
    /\ \/ campaign'.tips = req[r].tips + donations'[r].tip
       \/ campaign'.tips = campaign.tips + donations'[r].tip

\* Every other step leaves alone what counts.
WritesNothing ==
    /\ UNCHANGED <<booked, CountedIds>>
    /\ campaign'.raised = campaign.raised
    /\ campaign'.tips = campaign.tips
    /\ CountedStay

LEMMA BookWrites ==
    ASSUME RowInv, NEW r \in Request, NEW status \in {"PLEDGED", "SUCCEEDED"},
           NEW pc \in {"capture", "done"}, req[r].pc = "record",
           Book(r, status), Goto(r, pc)
    PROVE  Writes(r)
<1>1. TypeOK /\ Settled(r) /\ donations \in [Request -> DonationRow]
  BY DEF RowInv, Covered, TypeOK
<1>2. donations[r].status = "NONE"
  BY <1>1 DEF Settled, RowFollowsHandler
<1>3. /\ donations'[r].status = status /\ donations'[r].amount = Share(r)
      /\ donations'[r].tip = Excess(r)
      /\ \A d \in Request : d # r => donations'[d] = donations[d]
  BY <1>1 DEF Book
<1>4. r \notin CountedIds /\ CountedIds' = CountedIds \cup {r} /\ CountedStay
  BY <1>2, <1>3 DEF CountedIds, Counts, CountedStay
<1>5. req'[r].pc = pc
  BY <1>1, GotoFacts
<1>6. /\ campaign'.raised = req[r].raised + Share(r)
      /\ campaign'.tips = req[r].tips + donations'[r].tip
  BY <1>1, <1>3 DEF Book, RaisedAfter, TypeOK, CampaignRow
<1>. QED
  BY <1>3, <1>4, <1>5, <1>6 DEF Writes, Book

LEMMA WriteSteps ==
    ASSUME RowInv, [Next]_vars
    PROVE  WritesNothing \/ \E r \in Request : Writes(r)
<1>. DEFINE Thesis == WritesNothing \/ \E r \in Request : Writes(r)
<1>. SUFFICES Thesis
  OBVIOUS
<1>0. /\ TypeOK /\ donations \in [Request -> DonationRow] /\ campaign \in CampaignRow
      /\ \A d \in Request : Settled(d)
  BY DEF RowInv, Covered, TypeOK
<1>1. CASE UNCHANGED <<donations, campaign, booked>>
  BY <1>1 DEF WritesNothing, CountedIds, Counts, CountedStay
<1>2. ASSUME NEW r \in Request, SavePledge(r) \/ ChargeNow(r) PROVE Thesis
  <2>1. CASE donations' = [donations EXCEPT ![r] = FailedRow(r)]
    <3>1. donations[r].status = "NONE"
      BY <1>0, <1>2 DEF SavePledge, ChargeNow, Settled, RowFollowsHandler
    <3>2. donations'[r].status = "FAILED" /\ \A d \in Request : d # r => donations'[d] = donations[d]
      BY <1>0, <2>1 DEF FailedRow
    <3>. QED
      BY <1>2, <3>1, <3>2
      DEF WritesNothing, CountedIds, Counts, CountedStay, SavePledge, ChargeNow
  <2>. QED
    BY <1>1, <1>2, <2>1 DEF SavePledge, ChargeNow
<1>3. ASSUME NEW r \in Request,
             RecordPledge(r) \/ RecordSponsorship(r) \/ RecordSuccess(r)
      PROVE Thesis
  <2>1. \E status \in {"PLEDGED", "SUCCEEDED"}, pc \in {"capture", "done"} :
           req[r].pc = "record" /\ Book(r, status) /\ Goto(r, pc)
    BY <1>3 DEF RecordPledge, RecordSponsorship, RecordSuccess, AfterBooking
  <2>. QED
    BY <2>1, BookWrites
<1>4. ASSUME NEW r \in Request, CommitClaim(r), ~AlreadyClaimed(r) PROVE Thesis
  <2>1. donations[r].status = "NONE" /\ req[r].pc = "record"
    BY <1>0, <1>4 DEF Settled, RowFollowsHandler, CommitClaim
  <2>2. /\ donations'[r].status = "SUCCEEDED" /\ donations'[r].amount = Share(r)
        /\ donations'[r].tip = 0
        /\ \A d \in Request : d # r => donations'[d] = donations[d]
    BY <1>0, <1>4 DEF CommitClaim
  <2>3. r \notin CountedIds /\ CountedIds' = CountedIds \cup {r} /\ CountedStay
    BY <2>1, <2>2 DEF CountedIds, Counts, CountedStay
  <2>4. req'[r].pc = "done"
    BY <1>0, <1>4, GotoFacts DEF CommitClaim
  <2>5. /\ campaign'.raised = campaign.raised + Share(r)
        /\ campaign'.tips = campaign.tips /\ booked' = booked + Share(r)
    BY <1>0, <1>4 DEF CommitClaim, CampaignRow
  <2>6. campaign.tips \in Nat
    BY <1>0 DEF CampaignRow
  <2>. QED
    BY <2>1, <2>2, <2>3, <2>4, <2>5, <2>6 DEF Writes
<1>5. ASSUME NEW r \in Request, MarkCaptured(r) PROVE Thesis
  <2>1. \A d \in Request : \/ donations'[d] = donations[d]
                           \/ /\ Counts(donations[d]) /\ donations'[d].status = "CAPTURED"
                              /\ donations'[d].amount = donations[d].amount
                              /\ donations'[d].tip = donations[d].tip
    BY <1>0, <1>5 DEF MarkCaptured, CapturedIds, Settled, RowFollowsHandler, Counts, DonationRow
  <2>2. CountedIds' = CountedIds /\ CountedStay
    BY <2>1 DEF CountedIds, Counts, CountedStay
  <2>. QED
    BY <1>5, <2>2 DEF MarkCaptured, WritesNothing
<1>6. CASE Verify \/ Reject
  BY <1>0, <1>6 DEF Verify, Reject, WritesNothing, CountedIds, Counts, CountedStay, CampaignRow
<1>7. ASSUME NEW a \in Admin, RecordPayout(a) PROVE Thesis
  BY <1>0, <1>7
  DEF RecordPayout, WritesNothing, CountedIds, Counts, CountedStay, CampaignRow
<1>. HIDE DEF Thesis
<1>. QED
  BY <1>1, <1>2, <1>3, <1>4, <1>5, <1>6, <1>7
  DEF Next, RequestStep, DisburseStep, DonateCard, DonateSepa, Sponsor, RunDue, CommitClaim,
      ClaimMatch, Start, ListPledges, CapturePledge, Disburse, CreatePayout,
      Crash, vars

SumInv == RowInv /\ IsFiniteSet(CountedIds) /\ BookedIsSum

LEMMA CountedAmounts ==
    ASSUME TypeOK, NEW S \in SUBSET Request
    PROVE  /\ \A d \in S : [r \in Request |-> donations[r].amount][d] = donations[d].amount
           /\ \A d \in S : [r \in Request |-> donations[r].tip][d] = donations[d].tip
           /\ \A d \in S : donations[d].amount \in Int /\ donations[d].tip \in Int
BY DEF TypeOK, DonationRow

\* A sum over the rows that count follows a step that keeps them, and one
\* that writes a row.
LEMMA SumFollows ==
    ASSUME NEW f, NEW g, NEW S \in SUBSET Request, IsFiniteSet(S),
           \A d \in S : g[d] = f[d]
    PROVE  /\ SumOver(S, g) = SumOver(S, f)
           /\ \A r \in Request \ S :
                 /\ IsFiniteSet(S \cup {r})
                 /\ (\A d \in S \cup {r} : g[d] \in Int)
                       => SumOver(S \cup {r}, g) = SumOver(S, f) + g[r]
<1>1. Total(g, S) = Total(f, S)
  BY TotalsAgree
<1>2. ASSUME NEW r \in Request \ S
      PROVE  /\ IsFiniteSet(S \cup {r})
             /\ (\A d \in S \cup {r} : g[d] \in Int)
                    => Total(g, S \cup {r}) = Total(f, S) + g[r]
  <2>1. IsFiniteSet(S \cup {r})
    BY FS_AddElement
  <2>2. ASSUME \A d \in S \cup {r} : g[d] \in Int
        PROVE  Total(g, S \cup {r}) = Total(f, S) + g[r]
    <3>1. Total(g, S \cup {r}) = g[r] + Total(g, (S \cup {r}) \ {r})
      BY <2>1, <2>2, TotalSplits
    <3>2. (S \cup {r}) \ {r} = S
      OBVIOUS
    <3>3. Total(g, S) \in Int
      BY <2>2, TotalSplits
    <3>4. g[r] \in Int
      BY <2>2
    <3>5. Total(g, S \cup {r}) = g[r] + Total(f, S) /\ Total(f, S) \in Int
      BY <1>1, <3>1, <3>2, <3>3
    <3>. QED
      BY <3>4, <3>5
  <2>. QED
    BY <2>1, <2>2
<1>3. /\ SumOver(S, g) = Total(g, S) /\ SumOver(S, f) = Total(f, S)
      /\ \A r : SumOver(S \cup {r}, g) = Total(g, S \cup {r})
  BY SumOverIsTotal
<1>. QED
  BY <1>1, <1>2, <1>3

LEMMA SumNext == SumInv /\ [Next]_vars => SumInv'
<1>. DEFINE f == [r \in Request |-> donations[r].amount]
            g == [r \in Request |-> donations'[r].amount]
<1>. SUFFICES ASSUME SumInv, [Next]_vars PROVE IsFiniteSet(CountedIds') /\ BookedIsSum'
  BY SettledNext DEF SumInv
<1>1. /\ RowInv /\ IsFiniteSet(CountedIds) /\ CountedIds \in SUBSET Request
      /\ booked = SumOver(CountedIds, f)
  BY DEF SumInv, CountedIds, BookedIsSum
<1>2. /\ TypeOK /\ TypeOK'
  BY <1>1, TypeNext DEF RowInv, Covered
<1>3. \A d \in Request : g[d] = donations'[d].amount /\ g[d] \in Int
  BY <1>2 DEF TypeOK, DonationRow
<1>4. SUFFICES IsFiniteSet(CountedIds') /\ booked' = SumOver(CountedIds', g)
  BY DEF BookedIsSum
<1>5. ASSUME CountedStay PROVE \A d \in CountedIds : g[d] = f[d]
  BY <1>1, <1>5 DEF CountedStay
<1>6. CASE WritesNothing
  <2>1. \A d \in CountedIds : g[d] = f[d]
    BY <1>5, <1>6 DEF WritesNothing
  <2>. HIDE DEF f, g
  <2>2. SumOver(CountedIds, g) = SumOver(CountedIds, f)
    BY <1>1, <2>1, SumFollows
  <2>. QED
    BY <1>1, <1>6, <2>2 DEF WritesNothing
<1>7. ASSUME NEW r \in Request, Writes(r) PROVE IsFiniteSet(CountedIds') /\ booked' = SumOver(CountedIds', g)
  <2>1. \A d \in CountedIds : g[d] = f[d]
    BY <1>5, <1>7 DEF Writes
  <2>2. r \in Request \ CountedIds /\ CountedIds' = CountedIds \cup {r}
    BY <1>7 DEF Writes
  <2>3. booked' = booked + g[r]
    BY <1>3, <1>7 DEF Writes
  <2>4. \A d \in CountedIds \cup {r} : g[d] \in Int
    BY <1>1, <1>3
  <2>. HIDE DEF f, g
  <2>5. /\ IsFiniteSet(CountedIds \cup {r})
        /\ SumOver(CountedIds \cup {r}, g) = SumOver(CountedIds, f) + g[r]
    BY <1>1, <2>1, <2>2, <2>4, SumFollows
  <2>. QED
    BY <1>1, <2>2, <2>3, <2>5
<1>. QED
  BY <1>1, <1>6, <1>7, WriteSteps

\* At first no row counts.
LEMMA NothingCounts ==
    ASSUME Init
    PROVE  CountedIds = {} /\ IsFiniteSet(CountedIds) /\ \A f : SumOver(CountedIds, f) = 0
<1>1. CountedIds = {}
  BY DEF Init, NoRow, CountedIds, Counts
<1>2. \A f : SumOver({}, f) = 0
  BY SumOverIsTotal, TotalOfNone
<1>. QED
  BY <1>1, <1>2, FS_EmptySet

LEMMA SumAlways == Spec => []SumInv
<1>1. Init => IsFiniteSet(CountedIds) /\ BookedIsSum
  BY NothingCounts DEF Init, BookedIsSum
<1>2. Init => RowInv
  BY RowsAtFirst
<1>. QED
  BY <1>1, <1>2, SumNext, PTL DEF Spec, SumInv

\* What is booked is the sum of the rows that a reader adds up, in every
\* interleaving and through every crash (recordPledge, commitClaim).
THEOREM BookedIsTheSum == Spec => []BookedIsSum
<1>1. SumInv => BookedIsSum
  BY DEF SumInv
<1>. QED
  BY <1>1, SumAlways, PTL
-----------------------------------------------------------------------------
(* One request at a time: the books balance.                               *)

\* At most one handler runs.
Lone == IsFiniteSet(Serving) /\ \A p, q \in Serving : p = q

\* A handler that has yet to write remembers the campaign as it is.
MemoryIsExact ==
    \A r \in Request :
        req[r].pc \in {"pay", "record"}
            => /\ req[r].raised = campaign.raised
               /\ req[r].tips = campaign.tips
               /\ req[r].raised < Goal

TipsAreSum == campaign.tips = SumOver(CountedIds, [r \in Request |-> donations[r].tip])

BooksInv ==
    /\ SumInv
    /\ Lone
    /\ MemoryIsExact
    /\ campaign.raised = booked
    /\ NeverOverFunded
    /\ TipsAreSum

\* What a step may do to a handler that has yet to write.
LEMMA MemorySteps ==
    ASSUME TypeOK, [Next]_vars, NEW r \in Request, req'[r].pc \in {"pay", "record"}
    PROVE  \/ /\ req[r].pc \in {"pay", "record"}
              /\ req'[r].raised = req[r].raised
              /\ req'[r].tips = req[r].tips
           \/ /\ req[r].pc = "idle"
              /\ UNCHANGED campaign
              /\ req'[r].raised = campaign.raised
              /\ req'[r].tips = campaign.tips
              /\ campaign.raised < Goal
<1>. DEFINE Thesis == \/ /\ req[r].pc \in {"pay", "record"}
                         /\ req'[r].raised = req[r].raised
                         /\ req'[r].tips = req[r].tips
                      \/ /\ req[r].pc = "idle"
                         /\ UNCHANGED campaign
                         /\ req'[r].raised = campaign.raised
                         /\ req'[r].tips = campaign.tips
                         /\ campaign.raised < Goal
<1>. SUFFICES Thesis
  OBVIOUS
<1>0. req \in [Request -> RequestState] /\ campaign \in CampaignRow
  BY DEF TypeOK
<1>1. CASE UNCHANGED req
  BY <1>1
<1>2. ASSUME NEW q \in Request, NEW kind, NEW amount, NEW tip, NEW of, NEW pc,
             Start(q, kind, amount, tip, of, pc), campaign.raised < Goal
      PROVE  Thesis
  BY <1>0, <1>2 DEF Start, Idle
<1>3. ASSUME NEW q \in Request,
             DonateCard(q) \/ DonateSepa(q) \/ Sponsor(q) \/ RunDue(q) \/ ClaimMatch(q)
      PROVE  Thesis
  <2>1. ASSUME NEW amount \in Nat, ToGoal(campaign.raised, amount) > 0
        PROVE  campaign.raised < Goal
    BY <1>0, <2>1 DEF ToGoal, Gap, CampaignRow
  <2>2. CASE ClaimMatch(q)
    <3>1. PICK d \in Request : \E extra \in 1 .. 2 * donations[d].amount :
                  /\ ToGoal(campaign.raised, extra) > 0
                  /\ Start(q, "match", extra, 0, d, "record")
      BY <2>2 DEF ClaimMatch
    <3>2. donations[d].amount \in Nat
      BY DEF TypeOK, DonationRow
    <3>3. PICK extra \in Nat : /\ ToGoal(campaign.raised, extra) > 0
                               /\ Start(q, "match", extra, 0, d, "record")
      BY <3>1, <3>2
    <3>. QED
      BY <1>2, <2>1, <3>3
  <2>. QED
    BY <1>2, <1>3, <2>2 DEF DonateCard, DonateSepa, Sponsor, RunDue, Donatable
<1>4. ASSUME NEW q \in Request, NEW pc, Goto(q, pc),
             pc = "record" => req[q].pc = "pay", pc # "pay"
      PROVE  Thesis
  BY <1>0, <1>4 DEF Goto, RequestState
<1>5. ASSUME NEW q \in Request, ListPledges(q) PROVE Thesis
  BY <1>0, <1>5 DEF ListPledges, RequestState
<1>6. ASSUME NEW q \in Request, NEW d \in Request, CapturePledge(q, d) PROVE Thesis
  <2>1. req[q].pc = "capturing" /\ \A o \in Request : o # q => req'[o] = req[o]
    BY <1>0, <1>6 DEF CapturePledge
  <2>2. req'[q].pc = req[q].pc
    BY <1>6, CaptureStep
  <2>. QED
    BY <2>1, <2>2
<1>7. ASSUME NEW q \in Request,
             \/ SavePledge(q) \/ ChargeNow(q) \/ RecordPledge(q) \/ RecordSponsorship(q)
             \/ RecordSuccess(q) \/ CommitClaim(q) \/ MarkCaptured(q)
      PROVE  Thesis
  <2>. HIDE DEF Thesis
  <2>. QED
    BY <1>4, <1>7 DEF SavePledge, ChargeNow, RecordPledge, RecordSponsorship,
                      RecordSuccess, CommitClaim, MarkCaptured, AfterBooking
<1>8. CASE Crash
  <2>. HIDE DEF Thesis
  <2>. QED
    BY <1>1, <1>4, <1>8 DEF Crash
<1>. HIDE DEF Thesis
<1>. QED
  BY <1>1, <1>3, <1>5, <1>6, <1>7, <1>8
  DEF Next, RequestStep, DisburseStep, Disburse, CreatePayout, RecordPayout, Verify,
      Reject, vars

\* Who serves: nobody new, or one more, who was free to start.
LEMMA ServingSteps ==
    ASSUME TypeOK, [Next]_vars
    PROVE  \/ Serving' \subseteq Serving
           \/ /\ CanStart
              /\ \E p : Serving' \subseteq Serving \cup {p}
<1>. DEFINE Thesis == \/ Serving' \subseteq Serving
                      \/ CanStart /\ \E p : Serving' \subseteq Serving \cup {p}
            Busy(x) == x \notin {"idle", "done"}
<1>. SUFFICES Thesis
  OBVIOUS
<1>0. /\ req \in [Request -> RequestState]
      /\ adm \in [Admin -> [pc: {"idle", "pay", "record", "done"}, raised: Nat]]
  BY DEF TypeOK
<1>1. ASSUME \A r \in Request : Busy(req'[r].pc) => Busy(req[r].pc),
             \A a \in Admin : Busy(adm'[a].pc) => Busy(adm[a].pc)
      PROVE  Thesis
  BY <1>1 DEF Serving
<1>2. ASSUME NEW q, CanStart,
             \A r \in Request : r # q /\ Busy(req'[r].pc) => Busy(req[r].pc),
             \A a \in Admin : a # q /\ Busy(adm'[a].pc) => Busy(adm[a].pc)
      PROVE  Thesis
  <2>1. Serving' \subseteq Serving \cup {q}
    BY <1>2 DEF Serving
  <2>. QED
    BY <1>2, <2>1
<1>3. ASSUME NEW q \in Request, NEW kind, NEW amount, NEW tip, NEW of, NEW pc,
             Start(q, kind, amount, tip, of, pc)
      PROVE  Thesis
  <2>1. CanStart /\ UNCHANGED adm /\ \A r \in Request : r # q => req'[r] = req[r]
    BY <1>0, <1>3 DEF Start
  <2>. HIDE DEF Thesis
  <2>. QED
    BY <1>2, <2>1
<1>4. ASSUME NEW q \in Request, Busy(req[q].pc), UNCHANGED adm,
             \A r \in Request : r # q => req'[r] = req[r]
      PROVE  Thesis
  <2>. HIDE DEF Thesis
  <2>. QED
    BY <1>1, <1>4
<1>5. ASSUME NEW q \in Request, RequestStep(q) PROVE Thesis
  <2>1. Busy(req[q].pc) /\ UNCHANGED adm
    BY <1>5 DEF RequestStep, SavePledge, ChargeNow, RecordPledge, RecordSponsorship,
                RecordSuccess, CommitClaim, MarkCaptured, ListPledges, CapturePledge, Book
  <2>2. \A r \in Request : r # q => req'[r] = req[r]
    BY <1>0, <1>5 DEF RequestStep, SavePledge, ChargeNow, RecordPledge,
                RecordSponsorship, RecordSuccess, CommitClaim, MarkCaptured,
                ListPledges, CapturePledge, Goto
  <2>. HIDE DEF Thesis, Busy
  <2>. QED
    BY <1>4, <2>1, <2>2
<1>6. ASSUME NEW a \in Admin, Disburse(a) PROVE Thesis
  <2>1. CanStart /\ UNCHANGED req /\ \A o \in Admin : o # a => adm'[o] = adm[o]
    BY <1>0, <1>6 DEF Disburse
  <2>. HIDE DEF Thesis
  <2>. QED
    BY <1>2, <2>1
<1>7. ASSUME NEW a \in Admin, DisburseStep(a) PROVE Thesis
  <2>1. /\ Busy(adm[a].pc) /\ UNCHANGED req
        /\ \A o \in Admin : o # a => adm'[o] = adm[o]
    BY <1>0, <1>7 DEF DisburseStep, CreatePayout, RecordPayout
  <2>. HIDE DEF Thesis
  <2>. QED
    BY <1>1, <2>1
<1>8. CASE Crash
  <2>1. ASSUME NEW q \in Request, Goto(q, "done"), UNCHANGED adm PROVE Thesis
    <3>1. req'[q].pc = "done" /\ \A r \in Request : r # q => req'[r] = req[r]
      BY <2>1, GotoFacts
    <3>. HIDE DEF Thesis
    <3>. QED
      BY <1>1, <2>1, <3>1
  <2>2. ASSUME NEW a \in Admin, adm' = [adm EXCEPT ![a].pc = "done"], UNCHANGED req
        PROVE  Thesis
    <3>1. adm'[a].pc = "done" /\ \A o \in Admin : o # a => adm'[o] = adm[o]
      BY <1>0, <2>2
    <3>. HIDE DEF Thesis
    <3>. QED
      BY <1>1, <2>2, <3>1
  <2>. QED
    BY <1>8, <2>1, <2>2 DEF Crash
<1>9. CASE UNCHANGED <<req, adm>>
  BY <1>1, <1>9
<1>10. ASSUME NEW r \in Request,
              DonateCard(r) \/ DonateSepa(r) \/ Sponsor(r) \/ RunDue(r) \/ ClaimMatch(r)
       PROVE  Thesis
  <2>. HIDE DEF Thesis
  <2>. QED
    BY <1>3, <1>10 DEF DonateCard, DonateSepa, Sponsor, RunDue, ClaimMatch
<1>11. CASE Verify \/ Reject \/ UNCHANGED vars
  BY <1>9, <1>11 DEF Verify, Reject, vars
<1>. HIDE DEF Thesis, Busy
<1>. QED
  BY <1>5, <1>6, <1>7, <1>8, <1>10, <1>11 DEF Next

\* A request starts only when nobody is served.
LEMMA NobodyServed ==
    ASSUME Lone, MaxInFlight = 1, CanStart
    PROVE  Serving = {}
BY FS_EmptySet, FS_CardinalityType DEF CanStart, Lone

LEMMA LoneNext ==
    ASSUME TypeOK, [Next]_vars, Lone, MaxInFlight = 1
    PROVE  Lone'
<1>1. CASE Serving' \subseteq Serving
  BY <1>1, FS_Subset DEF Lone
<1>2. ASSUME CanStart, NEW p, Serving' \subseteq Serving \cup {p} PROVE Lone'
  <2>1. Serving = {}
    BY <1>2, NobodyServed
  <2>2. IsFiniteSet({p}) /\ Serving' \subseteq {p}
    BY <1>2, <2>1, FS_Singleton
  <2>. QED
    BY <2>2, FS_Subset DEF Lone
<1>. QED
  BY <1>1, <1>2, ServingSteps
LEMMA BooksNext ==
    ASSUME MaxInFlight = 1, BooksInv, [Next]_vars
    PROVE  BooksInv'
<1>. DEFINE f == [r \in Request |-> donations[r].tip]
            g == [r \in Request |-> donations'[r].tip]
<1>1. /\ SumInv /\ SumInv' /\ RowInv /\ Covered /\ TypeOK /\ TypeOK'
      /\ IsFiniteSet(CountedIds) /\ CountedIds \in SUBSET Request
  BY SumNext, TypeNext DEF BooksInv, SumInv, RowInv, Covered, CountedIds
<1>2. Lone /\ Lone'
  BY <1>1, LoneNext DEF BooksInv
<1>3. /\ campaign.raised \in Nat /\ campaign.tips \in Nat /\ booked \in Nat
      /\ campaign.raised = booked /\ booked <= Goal
      /\ campaign.tips = SumOver(CountedIds, f)
  BY <1>1 DEF BooksInv, TypeOK, CampaignRow, NeverOverFunded, TipsAreSum
<1>4. ASSUME CountedStay PROVE \A d \in CountedIds : g[d] = f[d]
  BY <1>1, <1>4 DEF CountedStay
<1>5. \A d \in Request : g[d] = donations'[d].tip /\ g[d] \in Int
  BY <1>1 DEF TypeOK, DonationRow
<1>6. SUFFICES /\ MemoryIsExact' /\ campaign'.raised = booked' /\ booked' <= Goal
               /\ campaign'.tips = SumOver(CountedIds', g)
  BY <1>1, <1>2 DEF BooksInv, TipsAreSum, NeverOverFunded
<1>7. CASE WritesNothing
  <2>1. \A d \in CountedIds : g[d] = f[d]
    BY <1>4, <1>7 DEF WritesNothing
  <2>2. SumOver(CountedIds, g) = SumOver(CountedIds, f)
    <3>. HIDE DEF f, g
    <3>. QED
      BY <1>1, <2>1, SumFollows
  <2>3. MemoryIsExact'
    <3>. SUFFICES ASSUME NEW r \in Request, req'[r].pc \in {"pay", "record"}
                  PROVE  /\ req'[r].raised = campaign'.raised
                         /\ req'[r].tips = campaign'.tips
                         /\ req'[r].raised < Goal
      BY DEF MemoryIsExact
    <3>. QED
      BY <1>1, <1>7, MemorySteps DEF WritesNothing, BooksInv, MemoryIsExact
  <2>. HIDE DEF f, g
  <2>. QED
    BY <1>3, <1>7, <2>2, <2>3 DEF WritesNothing
<1>8. ASSUME NEW r \in Request, Writes(r)
      PROVE  /\ MemoryIsExact' /\ campaign'.raised = booked' /\ booked' <= Goal
             /\ campaign'.tips = SumOver(CountedIds', g)
  <2>1. /\ req[r].raised = campaign.raised /\ req[r].tips = campaign.tips
        /\ req[r] \in RequestState
    BY <1>1, <1>8, ShareFacts DEF Writes, BooksInv, MemoryIsExact
  <2>2. Share(r) \in Nat /\ Share(r) <= Goal - booked
    BY <1>1, <1>3, <2>1, ShareFacts DEF Share, ToGoal, Gap, RequestState
  <2>3. campaign'.raised = booked' /\ booked' <= Goal
    BY <1>3, <1>8, <2>1, <2>2 DEF Writes
  <2>4. campaign'.tips = SumOver(CountedIds', g)
    <3>1. \A d \in CountedIds : g[d] = f[d]
      BY <1>4, <1>8 DEF Writes
    <3>2. r \in Request \ CountedIds /\ CountedIds' = CountedIds \cup {r}
      BY <1>8 DEF Writes
    <3>3. campaign'.tips = campaign.tips + g[r]
      BY <1>5, <1>8, <2>1 DEF Writes
    <3>4. \A d \in CountedIds \cup {r} : g[d] \in Int
      BY <1>1, <1>5
    <3>. HIDE DEF f, g
    <3>5. SumOver(CountedIds \cup {r}, g) = SumOver(CountedIds, f) + g[r]
      BY <1>1, <3>1, <3>2, <3>4, SumFollows
    <3>. QED
      BY <1>3, <3>2, <3>3, <3>5
  <2>5. MemoryIsExact'
    <3>. SUFFICES ASSUME NEW q \in Request, req'[q].pc \in {"pay", "record"}
                  PROVE  FALSE
      BY DEF MemoryIsExact
    <3>1. q # r /\ r \in Serving
      BY <1>8 DEF Writes, Serving
    <3>2. CASE req[q].pc \in {"pay", "record"}
      BY <1>2, <3>1, <3>2 DEF Lone, Serving
    <3>3. CASE req[q].pc \notin {"pay", "record"}
      <4>1. q \in Serving'
        BY DEF Serving
      <4>2. q \notin Serving
        BY <1>2, <3>1, <3>3 DEF Lone
      <4>3. Serving = {}
        BY <1>1, <1>2, <4>1, <4>2, ServingSteps, NobodyServed
      <4>. QED
        BY <3>1, <4>3
    <3>. QED
      BY <3>2, <3>3
  <2>. QED
    BY <2>3, <2>4, <2>5
<1>. QED
  BY <1>1, <1>7, <1>8, WriteSteps
LEMMA BooksAtFirst == Init => BooksInv
<1>. SUFFICES ASSUME Init PROVE BooksInv
  OBVIOUS
<1>1. SumInv
  BY RowsAtFirst, NothingCounts DEF Init, BookedIsSum, SumInv
<1>2. Serving = {}
  BY DEF Init, Idle, Serving
<1>3. Lone
  BY <1>2, FS_EmptySet DEF Lone
<1>. QED
  BY <1>1, <1>3, NothingCounts
  DEF Init, Idle, BooksInv, MemoryIsExact, NeverOverFunded, TipsAreSum

\* With one request at a time the raised amount and the tips are the sums of
\* the rows, and the goal is not exceeded, even if handlers die
\* (recordPledge, recordSuccess, sponsor, applyCharge, commitClaim).
THEOREM BooksAlwaysBalance ==
    ASSUME MaxInFlight = 1
    PROVE  Spec => []BooksBalance
<1>1. BooksInv /\ [Next]_vars => BooksInv'
  BY BooksNext
<1>2. BooksInv => BooksBalance
  BY DEF BooksInv, BooksBalance, RaisedIsExact, TipsAreSum
<1>. QED
  BY <1>1, <1>2, BooksAtFirst, PTL DEF Spec

-----------------------------------------------------------------------------
(* One request at a time, and no crashes: everything happens once.         *)

\* Money is taken once: a pledge that was charged is on the list of the
\* capture that will mark it.
ChargedInv ==
    /\ ChargedOnce
    /\ \A d \in Request :
          /\ donations[d].status = "PLEDGED" /\ charged[d] > 0
                => \E r \in Request : req[r].pc = "capturing" /\ d \in req[r].taken
          /\ req[d].pc = "record" /\ req[d].kind \notin ChargedUpFront => charged[d] = 0
          /\ req[d].pc = "capturing" => \A e \in req[d].todo : charged[e] = 0

\* The school is paid once: who disburses does so before the payout row.
PaidInv ==
    /\ PaidOutOnce
    /\ transfers > 0 => payout # None \/ \E a \in Admin : adm[a].pc = "record"
    /\ \A a \in Admin :
          adm[a].pc \in {"pay", "record"} => payout = None /\ adm[a].raised = booked

\* News is told once: who closes the goal announces it, or is about to.
ToldInv ==
    /\ announced <= 1
    /\ announced > 0 => booked >= Goal
    /\ \A r \in Request :
          req[r].pc \in {"pay", "record"} /\ req[r].kind # "match" => req[r].status = "LIVE"
    /\ booked >= Goal /\ announced = 0
          => \E r \in Request : \/ req[r].pc \in {"capture", "capturing"}
                                \/ req[r].kind = "match" /\ r \in CountedIds /\ Closes(r)

OnceInv == BooksInv /\ ChargedInv /\ PaidInv /\ ToldInv
\* Nobody else runs.
LEMMA NobodyElse ==
    ASSUME Lone
    PROVE  /\ \A r, q \in Request :
                 (req[r].pc \notin {"idle", "done"}
                     /\ req[q].pc \notin {"idle", "done"}) => r = q
           /\ \A a, b \in Admin :
                 (adm[a].pc \notin {"idle", "done"}
                     /\ adm[b].pc \notin {"idle", "done"}) => a = b
           /\ \A r \in Request, a \in Admin :
                 req[r].pc \in {"idle", "done"} \/ adm[a].pc \in {"idle", "done"}
<1>1. /\ \A r \in Request : req[r].pc \notin {"idle", "done"} => r \in Serving
      /\ \A a \in Admin : adm[a].pc \notin {"idle", "done"} => a \in Serving
      /\ \A p, q \in Serving : p = q
  BY DEF Lone, Serving
<1>2. \A r \in Request, a \in Admin : r # a
  BY ActorAssumption
<1>3. ASSUME NEW r \in Request, NEW a \in Admin
      PROVE  req[r].pc \in {"idle", "done"} \/ adm[a].pc \in {"idle", "done"}
  BY <1>1, <1>2
<1>. QED
  BY <1>1, <1>3

\* What the handler read is fixed once it has started.
LEMMA MemoryStays ==
    ASSUME TypeOK, [Next]_vars, NEW r \in Request, req[r].pc # "idle"
    PROVE  /\ req'[r].kind = req[r].kind
           /\ req'[r].raised = req[r].raised
           /\ req'[r].amount = req[r].amount
           /\ req'[r].status = req[r].status
<1>. DEFINE Same(new) == /\ new.kind = req[r].kind /\ new.raised = req[r].raised
                         /\ new.amount = req[r].amount /\ new.status = req[r].status
<1>. SUFFICES Same(req'[r])
  OBVIOUS
<1>0. req \in [Request -> RequestState]
  BY DEF TypeOK
<1>1. CASE UNCHANGED req
  BY <1>1
<1>2. ASSUME NEW q \in Request,
             DonateCard(q) \/ DonateSepa(q) \/ Sponsor(q) \/ RunDue(q) \/ ClaimMatch(q)
      PROVE  Same(req'[r])
  <2>1. q # r /\ \A o \in Request : o # q => req'[o] = req[o]
    BY <1>0, <1>2 DEF DonateCard, DonateSepa, Sponsor, RunDue, ClaimMatch, Start
  <2>. QED
    BY <2>1
<1>3. ASSUME NEW q \in Request, NEW pc, Goto(q, pc) PROVE Same(req'[r])
  BY <1>0, <1>3 DEF Goto, RequestState
<1>4. ASSUME NEW q \in Request, ListPledges(q) PROVE Same(req'[r])
  BY <1>0, <1>4 DEF ListPledges, RequestState
<1>5. ASSUME NEW q \in Request, NEW d \in Request, CapturePledge(q, d) PROVE Same(req'[r])
  <2>. DEFINE paid == [req[q] EXCEPT !.todo = req[q].todo \ {d},
                                    !.taken = req[q].taken \cup {d}]
              declined == [req[q] EXCEPT !.todo = req[q].todo \ {d}]
  <2>1. req' = [req EXCEPT ![q] = paid] \/ req' = [req EXCEPT ![q] = declined]
    BY <1>5 DEF CapturePledge
  <2>2. q = r => Same(paid) /\ Same(declined)
    BY <1>0 DEF RequestState
  <2>. HIDE DEF paid, declined
  <2>. QED
    BY <1>0, <2>1, <2>2
<1>6. ASSUME NEW q \in Request, RequestStep(q) PROVE Same(req'[r])
  <2>. HIDE DEF Same
  <2>. QED
    BY <1>3, <1>4, <1>5, <1>6
    DEF RequestStep, SavePledge, ChargeNow, RecordPledge, RecordSponsorship,
        RecordSuccess, CommitClaim, MarkCaptured
<1>7. CASE Crash
  <2>. HIDE DEF Same
  <2>. QED
    BY <1>1, <1>3, <1>7 DEF Crash
<1>8. ASSUME NEW a \in Admin, Disburse(a) \/ DisburseStep(a) PROVE Same(req'[r])
  BY <1>1, <1>8 DEF Disburse, DisburseStep, CreatePayout, RecordPayout
<1>9. CASE Verify \/ Reject \/ UNCHANGED vars
  BY <1>1, <1>9 DEF Verify, Reject, vars
<1>. HIDE DEF Same
<1>. QED
  BY <1>2, <1>6, <1>7, <1>8, <1>9 DEF Next

\* A handler starts with one of the contributions ...
LEMMA StartsFromIdle ==
    ASSUME TypeOK, [Next]_vars, NEW r \in Request, req[r].pc = "idle", req'[r].pc # "idle",
           ~Crashes
    PROVE  DonateCard(r) \/ DonateSepa(r) \/ Sponsor(r) \/ RunDue(r) \/ ClaimMatch(r)
<1>. DEFINE Thesis == DonateCard(r) \/ DonateSepa(r) \/ Sponsor(r) \/ RunDue(r) \/ ClaimMatch(r)
<1>. SUFFICES Thesis
  OBVIOUS
<1>0. req \in [Request -> RequestState]
  BY DEF TypeOK
<1>1. ASSUME NEW q \in Request,
             DonateCard(q) \/ DonateSepa(q) \/ Sponsor(q) \/ RunDue(q) \/ ClaimMatch(q)
      PROVE  Thesis
  <2>1. \A o \in Request : o # q => req'[o] = req[o]
    BY <1>0, <1>1 DEF DonateCard, DonateSepa, Sponsor, RunDue, ClaimMatch, Start
  <2>. QED
    BY <1>1, <2>1
<1>2. ASSUME NEW q \in Request, RequestStep(q) PROVE FALSE
  <2>1. req[q].pc # "idle" /\ \A o \in Request : o # q => req'[o] = req[o]
    BY <1>0, <1>2
    DEF RequestStep, SavePledge, ChargeNow, RecordPledge, RecordSponsorship,
        RecordSuccess, CommitClaim, ListPledges, CapturePledge, MarkCaptured, Goto
  <2>. QED
    BY <2>1
<1>3. CASE UNCHANGED req
  BY <1>3
<1>4. ASSUME NEW a \in Admin, Disburse(a) \/ DisburseStep(a) PROVE Thesis
  BY <1>3, <1>4 DEF Disburse, DisburseStep, CreatePayout, RecordPayout
<1>5. CASE Verify \/ Reject \/ Crash \/ UNCHANGED vars
  BY <1>3, <1>5 DEF Verify, Reject, Crash, vars
<1>. HIDE DEF Thesis
<1>. QED
  BY <1>1, <1>2, <1>4, <1>5 DEF Next

\* ... and does not go back to before its row was written.
LEMMA NoWayBack ==
    ASSUME TypeOK, [Next]_vars, NEW r \in Request, req[r].pc # "idle",
           req'[r].pc \in {"pay", "record"}
    PROVE  req[r].pc \in {"pay", "record"}
BY MemorySteps

LEMMA ChargedNext ==
    ASSUME ~Crashes, Lone, RowInv, ChargedInv, [Next]_vars
    PROVE  ChargedInv'
<1>. DEFINE Marked(d) == \E r \in Request : req[r].pc = "capturing" /\ d \in req[r].taken
<1>0. /\ TypeOK /\ req \in [Request -> RequestState] /\ charged \in [Request -> Nat]
      /\ donations \in [Request -> DonationRow] /\ \A d \in Request : Settled(d)
  BY DEF RowInv, Covered, TypeOK
<1>1. \A r, q \in Request : (req[r].pc \notin {"idle", "done"}
                                /\ req[q].pc \notin {"idle", "done"}) => r = q
  BY NobodyElse
<1>2. ASSUME NEW q \in Request, NEW kind, NEW amount, NEW tip, NEW of,
             NEW pc \in {"pay", "record"}, pc = "record" => kind = "match",
             Start(q, kind, amount, tip, of, pc)
      PROVE  ChargedInv'
  <2>1. /\ req[q].pc = "idle" /\ req'[q].pc = pc /\ req'[q].kind = kind
        /\ \A o \in Request : o # q => req'[o] = req[o]
        /\ UNCHANGED <<donations, charged>>
    BY <1>0, <1>2 DEF Start, Idle
  <2>2. charged[q] = 0
    BY <1>0, <2>1 DEF Settled, RowFollowsHandler
  <2>. QED
    BY <1>0, <1>2, <2>1, <2>2 DEF ChargedInv, ChargedOnce
<1>3. ASSUME NEW q \in Request,
             DonateCard(q) \/ DonateSepa(q) \/ Sponsor(q) \/ RunDue(q) \/ ClaimMatch(q)
      PROVE  ChargedInv'
  BY <1>2, <1>3 DEF DonateCard, DonateSepa, Sponsor, RunDue, ClaimMatch
\* The handler of q goes on, its money untouched, and writes no pledge that is charged.
<1>4. ASSUME NEW q \in Request, NEW pc \in {"record", "capture", "done"}, Goto(q, pc),
             req[q].pc \in {"pay", "record"}, pc = "record" => req[q].pc = "pay",
             UNCHANGED charged, donations'[q].status = "PLEDGED" => charged[q] = 0,
             \A o \in Request : o # q => donations'[o] = donations[o]
      PROVE  ChargedInv'
  <2>1. /\ req'[q].pc = pc /\ req'[q].kind = req[q].kind
        /\ \A o \in Request : o # q => req'[o] = req[o]
    BY <1>0, <1>4, GotoFacts
  <2>2. pc = "record" => charged[q] = 0
    BY <1>0, <1>4 DEF Settled, RowFollowsHandler
  <2>. QED
    BY <1>0, <1>4, <2>1, <2>2 DEF ChargedInv, ChargedOnce
<1>5. ASSUME NEW q \in Request, SavePledge(q) PROVE ChargedInv'
  <2>1. /\ req[q].pc = "pay" /\ UNCHANGED charged
        /\ Goto(q, "record") \/ Goto(q, "done")
        /\ donations' = donations \/ donations' = [donations EXCEPT ![q] = FailedRow(q)]
    BY <1>5 DEF SavePledge
  <2>2. donations[q].status = "NONE"
    BY <1>0, <2>1 DEF Settled, RowFollowsHandler
  <2>3. /\ donations'[q].status # "PLEDGED"
        /\ \A o \in Request : o # q => donations'[o] = donations[o]
    BY <1>0, <2>1, <2>2 DEF FailedRow
  <2>. QED
    BY <1>4, <2>1, <2>3
<1>6. ASSUME NEW q \in Request, ChargeNow(q) PROVE ChargedInv'
  <2>1. /\ req[q].pc = "pay" /\ req[q].kind \in ChargedUpFront
        /\ Goto(q, "record") \/ Goto(q, "done")
        /\ donations' = donations \/ donations' = [donations EXCEPT ![q] = FailedRow(q)]
        /\ charged' = charged \/ charged' = [charged EXCEPT ![q] = @ + 1]
    BY <1>6 DEF ChargeNow
  <2>2. donations[q].status = "NONE" /\ charged[q] = 0
    BY <1>0, <2>1 DEF Settled, RowFollowsHandler
  <2>3. /\ donations'[q].status # "PLEDGED"
        /\ \A o \in Request : o # q => donations'[o] = donations[o]
    BY <1>0, <2>1, <2>2 DEF FailedRow
  <2>4. charged'[q] \in {0, 1} /\ \A o \in Request : o # q => charged'[o] = charged[o]
    BY <1>0, <2>1, <2>2
  <2>5. /\ req'[q].pc \in {"record", "done"} /\ req'[q].kind = req[q].kind
        /\ \A o \in Request : o # q => req'[o] = req[o]
    BY <1>0, <2>1, GotoFacts
  <2>6. \A o \in Request : req'[o].pc # "capturing"
    BY <1>1, <2>1, <2>5
  <2>7. \A o \in Request : donations'[o].status = "PLEDGED" => charged'[o] = 0
    BY <1>0, <1>1, <2>1, <2>3, <2>4 DEF ChargedInv
  <2>. QED
    BY <1>0, <2>1, <2>4, <2>5, <2>6, <2>7 DEF ChargedInv, ChargedOnce
<1>7. ASSUME NEW q \in Request,
             RecordPledge(q) \/ RecordSponsorship(q) \/ RecordSuccess(q) \/ CommitClaim(q)
      PROVE  ChargedInv'
  <2>1. /\ req[q].pc = "record" /\ UNCHANGED charged
        /\ \E pc \in {"capture", "done"} : Goto(q, pc)
    BY <1>7 DEF RecordPledge, RecordSponsorship, RecordSuccess, CommitClaim, Book, AfterBooking
  <2>2. donations[q].status = "NONE"
    BY <1>0, <2>1 DEF Settled, RowFollowsHandler
  <2>3. \A o \in Request : o # q => donations'[o] = donations[o]
    BY <1>0, <1>7 DEF RecordPledge, RecordSponsorship, RecordSuccess, CommitClaim, Book
  <2>4. donations'[q].status = "PLEDGED" => req[q].kind = "card"
    BY <1>0, <1>7, <2>2 DEF RecordPledge, RecordSponsorship, RecordSuccess, CommitClaim, Book
  <2>5. req[q].kind = "card" => charged[q] = 0
    BY <2>1 DEF ChargedInv, ChargedUpFront
  <2>. QED
    BY <1>4, <2>1, <2>3, <2>4, <2>5
<1>8. ASSUME NEW q \in Request, ListPledges(q) PROVE ChargedInv'
  <2>1. /\ req[q].pc = "capture" /\ UNCHANGED <<donations, charged>>
        /\ req'[q].todo = PledgedIds /\ req'[q].pc = "capturing"
        /\ \A o \in Request : o # q => req'[o] = req[o]
    BY <1>0, <1>8 DEF ListPledges, RequestState
  <2>2. \A d \in Request : donations[d].status = "PLEDGED" => charged[d] = 0
    BY <1>0, <1>1, <2>1 DEF ChargedInv
  <2>3. \A d \in PledgedIds : charged[d] = 0
    BY <2>2 DEF PledgedIds
  <2>. QED
    BY <1>0, <2>1, <2>2, <2>3 DEF ChargedInv, ChargedOnce
<1>9. ASSUME NEW q \in Request, NEW d \in Request, CapturePledge(q, d) PROVE ChargedInv'
  <2>1. req[q].pc = "capturing" /\ d \in req[q].todo /\ UNCHANGED donations
    BY <1>9 DEF CapturePledge
  <2>2. charged[d] = 0
    BY <2>1 DEF ChargedInv
  <2>3. \A o \in Request : req[o].pc \in {"record", "capturing"} => o = q
    BY <1>1, <2>1
  <2>4. \A o \in Request : req'[o].pc = req[o].pc /\ req'[o].kind = req[o].kind
    BY <1>0, <1>9, CaptureStep
  <2>5. CASE charged' = charged
    <3>1. req'[q].todo \subseteq req[q].todo /\ req[q].taken \subseteq req'[q].taken
      BY <1>0, <1>9, CaptureStep
    <3>. QED
      BY <1>0, <2>1, <2>3, <2>4, <2>5, <3>1 DEF ChargedInv, ChargedOnce
  <2>6. CASE /\ charged' = [charged EXCEPT ![d] = @ + 1]
             /\ req' = [req EXCEPT ![q] = [@ EXCEPT !.todo = req[q].todo \ {d},
                                                   !.taken = req[q].taken \cup {d}]]
    <3>1. charged'[d] = 1 /\ \A o \in Request : o # d => charged'[o] = charged[o]
      BY <1>0, <2>2, <2>6
    <3>2. req'[q].todo = req[q].todo \ {d} /\ req'[q].taken = req[q].taken \cup {d}
      BY <1>0, <2>6 DEF RequestState
    <3>3. req[q].todo \subseteq Request
      BY <1>0 DEF RequestState
    <3>4. ChargedOnce'
      BY <3>1 DEF ChargedInv, ChargedOnce
    <3>5. \A e \in Request : donations[e].status = "PLEDGED" /\ charged'[e] > 0
                                => e \in req'[q].taken
      BY <2>3, <3>1, <3>2 DEF ChargedInv
    <3>6. \A e \in req'[q].todo : charged'[e] = 0
      BY <2>1, <3>1, <3>2, <3>3 DEF ChargedInv
    <3>. QED
      BY <2>1, <2>3, <2>4, <3>4, <3>5, <3>6 DEF ChargedInv
  <2>. QED
    BY <1>9, <2>5, <2>6 DEF CapturePledge
<1>10. ASSUME NEW q \in Request, MarkCaptured(q) PROVE ChargedInv'
  <2>1. /\ req[q].pc = "capturing" /\ UNCHANGED charged /\ Goto(q, "done")
        /\ \A d \in Request : donations'[d] = IF d \in req[q].taken
                                              THEN [donations[d] EXCEPT !.status = "CAPTURED"]
                                              ELSE donations[d]
    BY <1>10 DEF MarkCaptured, CapturedIds
  <2>2. req'[q].pc = "done" /\ \A o \in Request : o # q => req'[o] = req[o]
    BY <1>0, <2>1, GotoFacts
  <2>3. \A o \in Request : req[o].pc \in {"record", "capturing"} => o = q
    BY <1>1, <2>1
  <2>4. ASSUME NEW d \in Request, donations'[d].status = "PLEDGED" PROVE charged[d] = 0
    <3>1. CASE d \in req[q].taken
      BY <1>0, <2>1, <2>4, <3>1 DEF DonationRow
    <3>2. CASE d \notin req[q].taken
      <4>1. donations[d].status = "PLEDGED" /\ charged[d] \in Nat
        BY <1>0, <2>1, <2>4, <3>2
      <4>2. ~(charged[d] > 0)
        BY <2>3, <3>2, <4>1 DEF ChargedInv
      <4>. QED
        BY <4>1, <4>2
    <3>. QED
      BY <3>1, <3>2
  <2>. QED
    BY <1>0, <2>1, <2>2, <2>3, <2>4 DEF ChargedInv, ChargedOnce
<1>11. CASE UNCHANGED <<req, donations, charged>>
  BY <1>11 DEF ChargedInv, ChargedOnce
<1>12. ASSUME NEW a \in Admin, Disburse(a) \/ DisburseStep(a) PROVE ChargedInv'
  BY <1>11, <1>12 DEF Disburse, DisburseStep, CreatePayout, RecordPayout
<1>13. CASE Verify \/ Reject \/ Crash \/ UNCHANGED vars
  BY <1>11, <1>13 DEF Verify, Reject, Crash, vars
<1>. QED
  BY <1>3, <1>5, <1>6, <1>7, <1>8, <1>9, <1>10, <1>12, <1>13 DEF Next, RequestStep
LEMMA PaidNext ==
    ASSUME ~Crashes, BooksInv, Lone', PaidInv, [Next]_vars
    PROVE  PaidInv'
<1>0. /\ RowInv /\ TypeOK /\ booked \in Nat /\ campaign.raised = booked /\ transfers \in Nat
      /\ adm \in [Admin -> [pc: {"idle", "pay", "record", "done"}, raised: Nat]]
  BY DEF BooksInv, SumInv, RowInv, Covered, TypeOK
<1>1. /\ \A a, b \in Admin : (adm[a].pc \notin {"idle", "done"}
                                /\ adm[b].pc \notin {"idle", "done"}) => a = b
      /\ \A r \in Request, a \in Admin :
            req[r].pc \in {"idle", "done"} \/ adm[a].pc \in {"idle", "done"}
  BY NobodyElse DEF BooksInv
<1>2. CASE UNCHANGED <<payout, transfers, adm, booked>>
  BY <1>2 DEF PaidInv, PaidOutOnce
<1>3. ASSUME NEW r \in Request, Writes(r), UNCHANGED <<payout, transfers, adm>>
      PROVE  PaidInv'
  <2>1. booked < Goal
    BY <1>0, <1>3 DEF Writes, BooksInv, MemoryIsExact
  <2>2. payout = None
    BY <1>0, <2>1 DEF RowInv, Covered, PayoutIsCovered
  <2>3. \A a \in Admin : adm[a].pc \notin {"pay", "record"}
    BY <1>1, <1>3 DEF Writes
  <2>. QED
    BY <1>3, <2>2, <2>3 DEF PaidInv, PaidOutOnce
<1>4. ASSUME UNCHANGED <<payout, transfers, adm>> PROVE PaidInv'
  BY <1>0, <1>2, <1>3, <1>4, WriteSteps DEF WritesNothing
<1>5. ASSUME NEW a \in Admin, Disburse(a) PROVE PaidInv'
  <2>1. /\ payout = None /\ UNCHANGED <<payout, transfers, booked>>
        /\ adm[a].pc = "idle" /\ adm'[a].raised = booked
        /\ \A o \in Admin : o # a => adm'[o] = adm[o]
    BY <1>0, <1>5 DEF Disburse, Disbursable
  <2>. QED
    BY <2>1 DEF PaidInv, PaidOutOnce
<1>6. ASSUME NEW a \in Admin, CreatePayout(a) PROVE PaidInv'
  <2>1. /\ adm[a].pc = "pay" /\ UNCHANGED <<payout, booked>>
        /\ adm'[a].pc = "record" /\ adm'[a].raised = adm[a].raised
        /\ \A o \in Admin : o # a => adm'[o] = adm[o]
        /\ transfers' \in {transfers, transfers + 1}
    BY <1>0, <1>6 DEF CreatePayout
  <2>2. payout = None /\ adm[a].raised = booked
    BY <2>1 DEF PaidInv
  <2>3. transfers = 0
    BY <1>0, <1>1, <2>1, <2>2 DEF PaidInv
  <2>. QED
    BY <2>1, <2>2, <2>3 DEF PaidInv, PaidOutOnce
<1>7. ASSUME NEW a \in Admin, RecordPayout(a) PROVE PaidInv'
  <2>1. /\ adm[a].pc = "record" /\ UNCHANGED <<transfers, booked>>
        /\ adm'[a].pc = "done" /\ \A o \in Admin : o # a => adm'[o] = adm[o]
    BY <1>0, <1>7 DEF RecordPayout
  <2>2. payout = None /\ adm[a].raised = booked
    BY <2>1 DEF PaidInv
  <2>3. payout' = booked
    BY <1>7, <2>2 DEF RecordPayout
  <2>4. \A o \in Admin : adm'[o].pc \notin {"pay", "record"}
    BY <1>1, <2>1
  <2>5. payout' # None
    BY <1>0, <2>3, NoneAssumption
  <2>. QED
    BY <2>1, <2>3, <2>4, <2>5 DEF PaidInv, PaidOutOnce
<1>8. ASSUME NEW r \in Request,
             \/ DonateCard(r) \/ DonateSepa(r) \/ Sponsor(r) \/ RunDue(r)
             \/ ClaimMatch(r) \/ RequestStep(r)
      PROVE  PaidInv'
  <2>1. UNCHANGED <<payout, transfers, adm>>
    BY <1>8 DEF DonateCard, DonateSepa, Sponsor, RunDue, ClaimMatch, Start, RequestStep,
                SavePledge, ChargeNow, RecordPledge, RecordSponsorship, RecordSuccess,
                CommitClaim, Book, ListPledges, CapturePledge, MarkCaptured
  <2>. QED
    BY <1>4, <2>1
<1>9. CASE Verify \/ Reject \/ Crash \/ UNCHANGED vars
  BY <1>2, <1>9 DEF Verify, Reject, Crash, vars
<1>. QED
  BY <1>5, <1>6, <1>7, <1>8, <1>9 DEF Next, DisburseStep
\* The handler of r, alone, writes the row of r: does it close the goal?
LEMMA WriterFacts ==
    ASSUME BooksInv, NEW r \in Request, req[r].pc = "record"
    PROVE  /\ TypeOK /\ RowInv /\ booked \in Nat /\ Share(r) \in Nat
           /\ booked < Goal
           /\ Closes(r) <=> booked + Share(r) >= Goal
<1>1. TypeOK /\ RowInv /\ campaign.raised = booked /\ booked \in Nat
  BY DEF BooksInv, SumInv, RowInv, Covered, TypeOK
<1>2. req[r].raised = booked /\ req[r].raised < Goal
  BY <1>1 DEF BooksInv, MemoryIsExact
<1>. QED
  BY <1>1, <1>2, ShareFacts DEF Closes, IsGoalReached

\* A match that closed the goal stays one.
LEMMA ClosedStays ==
    ASSUME RowInv, [Next]_vars, NEW r \in Request, req[r].kind = "match",
           r \in CountedIds, Closes(r)
    PROVE  req'[r].kind = "match" /\ r \in CountedIds' /\ Closes(r)'
<1>1. TypeOK /\ Settled(r)
  BY DEF RowInv, Covered
<1>2. req[r].pc # "idle"
  BY <1>1 DEF CountedIds, Counts, Settled, RowFollowsHandler
<1>3. /\ req'[r].kind = req[r].kind /\ req'[r].raised = req[r].raised
      /\ req'[r].amount = req[r].amount
  BY <1>1, <1>2, MemoryStays
<1>4. r \in CountedIds'
  BY WriteSteps DEF WritesNothing, Writes
<1>. QED
  BY <1>3, <1>4 DEF Closes, IsGoalReached, Share, ToGoal, Gap

LEMMA ToldNext ==
    ASSUME ~Crashes, BooksInv, ToldInv, [Next]_vars
    PROVE  ToldInv'
<1>. DEFINE Closer(r) == \/ req[r].pc \in {"capture", "capturing"}
                         \/ req[r].kind = "match" /\ r \in CountedIds /\ Closes(r)
<1>0. /\ RowInv /\ TypeOK /\ booked \in Nat /\ booked' \in Nat /\ booked' >= booked
      /\ announced \in Nat /\ Goal \in Nat /\ MemoryIsBacked
      /\ req \in [Request -> RequestState]
  BY BookedGrows DEF BooksInv, SumInv, RowInv, Covered, TypeOK
\* A handler that has yet to write started when the campaign was live.
<1>1. ASSUME NEW r \in Request, req'[r].pc \in {"pay", "record"}, req'[r].kind # "match"
      PROVE  req'[r].status = "LIVE"
  <2>1. CASE req[r].pc = "idle"
    <3>1. DonateCard(r) \/ DonateSepa(r) \/ Sponsor(r) \/ RunDue(r) \/ ClaimMatch(r)
      BY <1>0, <1>1, <2>1, StartsFromIdle
    <3>2. ~ClaimMatch(r)
      BY <1>0, <1>1 DEF ClaimMatch, Start, Idle
    <3>3. /\ campaign.status = "LIVE"
          /\ \E kind, amount, tip, of, pc : Start(r, kind, amount, tip, of, pc)
      BY <3>1, <3>2 DEF DonateCard, DonateSepa, Sponsor, RunDue, Donatable
    <3>. QED
      BY <1>0, <3>3 DEF Start, Idle
  <2>2. CASE req[r].pc # "idle"
    <3>1. req'[r].kind = req[r].kind /\ req'[r].status = req[r].status
      BY <1>0, <2>2, MemoryStays
    <3>2. req[r].pc \in {"pay", "record"}
      BY <1>0, <1>1, <2>2, NoWayBack
    <3>. QED
      BY <1>1, <3>1, <3>2 DEF ToldInv
  <2>. QED
    BY <2>1, <2>2
<1>2. SUFFICES /\ announced' <= 1
               /\ announced' > 0 => booked' >= Goal
               /\ booked' >= Goal /\ announced' = 0 => \E r \in Request : Closer(r)'
  BY <1>1 DEF ToldInv
<1>3. ASSUME NEW r \in Request, RecordPledge(r) \/ RecordSponsorship(r)
      PROVE  /\ announced' <= 1
             /\ announced' > 0 => booked' >= Goal
             /\ booked' >= Goal /\ announced' = 0 => \E q \in Request : Closer(q)'
  <2>1. /\ req[r].pc = "record" /\ UNCHANGED announced
        /\ booked' = booked + Share(r) /\ Goto(r, AfterBooking(r))
    BY <1>3 DEF RecordPledge, RecordSponsorship, Book
  <2>2. Closes(r) => req'[r].pc = "capture"
    BY <1>0, <2>1, GotoFacts DEF AfterBooking
  <2>3. booked' >= Goal => Closer(r)'
    BY <2>1, <2>2, WriterFacts
  <2>. QED
    BY <1>0, <2>1, <2>3 DEF ToldInv
<1>4. ASSUME NEW r \in Request, RecordSuccess(r)
      PROVE  /\ announced' <= 1
             /\ announced' > 0 => booked' >= Goal
             /\ booked' >= Goal /\ announced' = 0 => \E q \in Request : Closer(q)'
  <2>1. /\ req[r].pc = "record" /\ announced' = AnnounceIfClosed(r)
        /\ booked' = booked + Share(r) /\ req[r].kind # "match"
    BY <1>4 DEF RecordSuccess, Book
  <2>2. announced = 0 /\ req[r].status = "LIVE"
    BY <1>0, <2>1, WriterFacts DEF ToldInv
  <2>. QED
    BY <2>1, <2>2, WriterFacts DEF AnnounceIfClosed
<1>5. ASSUME NEW r \in Request, CommitClaim(r)
      PROVE  /\ announced' <= 1
             /\ announced' > 0 => booked' >= Goal
             /\ booked' >= Goal /\ announced' = 0 => \E q \in Request : Closer(q)'
  <2>1. /\ req[r].pc = "record" /\ req[r].kind = "match" /\ UNCHANGED announced
        /\ Goto(r, "done")
    BY <1>5 DEF CommitClaim
  <2>2. announced = 0 /\ booked < Goal /\ Share(r) \in Nat
    BY <1>0, <2>1, WriterFacts DEF ToldInv
  <2>3. CASE UNCHANGED booked
    BY <1>0, <2>1, <2>2, <2>3
  <2>4. CASE ~AlreadyClaimed(r)
    <3>1. booked' = booked + Share(r) /\ donations'[r].status = "SUCCEEDED"
      BY <1>0, <1>5, <2>4 DEF CommitClaim, TypeOK
    <3>2. r \in CountedIds' /\ req'[r].kind = "match"
      BY <1>0, <2>1, <3>1, GotoFacts DEF CountedIds, Counts
    <3>3. booked' >= Goal => Closes(r)
      BY <2>1, <3>1, WriterFacts
    <3>4. Closes(r) => Closes(r)'
      BY <1>0, <2>1, MemoryStays DEF Closes, IsGoalReached, Share, ToGoal, Gap
    <3>. QED
      BY <2>1, <2>2, <3>2, <3>3, <3>4
  <2>. QED
    BY <1>5, <2>3, <2>4 DEF CommitClaim
<1>6. ASSUME NEW r \in Request, MarkCaptured(r)
      PROVE  /\ announced' <= 1
             /\ announced' > 0 => booked' >= Goal
             /\ booked' >= Goal /\ announced' = 0 => \E q \in Request : Closer(q)'
  <2>1. booked >= Goal /\ announced' = (IF announced = 0 THEN 1 ELSE announced)
    BY <1>0, <1>6 DEF MarkCaptured, MemoryIsBacked
  <2>. QED
    BY <1>0, <2>1 DEF ToldInv
\* Everything else books and announces nothing, and who closed the goal has.
<1>7. ASSUME UNCHANGED <<booked, announced>>,
             \A r \in Request : req[r].pc \in {"capture", "capturing"}
                                   => req'[r].pc \in {"capture", "capturing"}
      PROVE  /\ announced' <= 1
             /\ announced' > 0 => booked' >= Goal
             /\ booked' >= Goal /\ announced' = 0 => \E q \in Request : Closer(q)'
  <2>1. \A r \in Request : Closer(r) => Closer(r)'
    BY <1>0, <1>7, ClosedStays
  <2>. QED
    BY <1>7, <2>1 DEF ToldInv
<1>8. ASSUME NEW r \in Request,
             \/ DonateCard(r) \/ DonateSepa(r) \/ Sponsor(r) \/ RunDue(r) \/ ClaimMatch(r)
             \/ SavePledge(r) \/ ChargeNow(r)
      PROVE  /\ UNCHANGED <<booked, announced>>
             /\ \A q \in Request : req[q].pc \in {"capture", "capturing"}
                                   => req'[q].pc \in {"capture", "capturing"}
  BY <1>0, <1>8, GotoFacts
  DEF DonateCard, DonateSepa, Sponsor, RunDue, ClaimMatch, Start, SavePledge, ChargeNow
<1>9. ASSUME NEW r \in Request, ListPledges(r)
      PROVE  /\ UNCHANGED <<booked, announced>>
             /\ \A q \in Request : req[q].pc \in {"capture", "capturing"}
                                   => req'[q].pc \in {"capture", "capturing"}
  BY <1>0, <1>9 DEF ListPledges, RequestState
<1>10. ASSUME NEW r \in Request, NEW d \in Request, CapturePledge(r, d)
       PROVE  /\ UNCHANGED <<booked, announced>>
              /\ \A q \in Request : req[q].pc \in {"capture", "capturing"}
                                   => req'[q].pc \in {"capture", "capturing"}
  <2>1. UNCHANGED <<booked, announced>>
    BY <1>10 DEF CapturePledge
  <2>. QED
    BY <1>0, <1>10, <2>1, CaptureStep
<1>11. ASSUME NEW a \in Admin, Disburse(a) \/ DisburseStep(a)
       PROVE  UNCHANGED <<booked, announced, req>>
  BY <1>11 DEF Disburse, DisburseStep, CreatePayout, RecordPayout
<1>12. CASE Verify \/ Reject \/ Crash \/ UNCHANGED vars
  BY <1>7, <1>12 DEF Verify, Reject, Crash, vars
<1>. HIDE DEF Closer
<1>. QED
  BY <1>3, <1>4, <1>5, <1>6, <1>7, <1>8, <1>9, <1>10, <1>11, <1>12 DEF Next, RequestStep

LEMMA OnceAtFirst == Init => OnceInv
<1>. SUFFICES ASSUME Init PROVE ChargedInv /\ PaidInv /\ ToldInv
  BY BooksAtFirst DEF OnceInv
<1>. QED
  BY DEF Init, Idle, NoRow, ChargedInv, ChargedOnce, PaidInv, PaidOutOnce, ToldInv

\* With one request at a time and no crash, money is taken once and paid out
\* once, and the goal is announced once (captureCampaign, disburse, announce).
THEOREM EverythingHappensOnce ==
    ASSUME MaxInFlight = 1, ~Crashes
    PROVE  Spec => []EverythingOnce
<1>1. OnceInv /\ [Next]_vars => OnceInv'
  <2>. SUFFICES ASSUME OnceInv, [Next]_vars PROVE OnceInv'
    OBVIOUS
  <2>1. BooksInv /\ BooksInv' /\ Lone /\ Lone' /\ RowInv
    BY BooksNext DEF OnceInv, BooksInv, SumInv
  <2>. QED
    BY <2>1, ChargedNext, PaidNext, ToldNext DEF OnceInv
<1>2. OnceInv => EverythingOnce
  <2>. SUFFICES ASSUME OnceInv PROVE AnnouncedOnce
    BY DEF OnceInv, ChargedInv, PaidInv, EverythingOnce
  <2>1. campaign.status = "FUNDED" => booked >= Goal
    BY DEF OnceInv, BooksInv, SumInv, RowInv, Covered, FundedIsCovered
  <2>2. \A r \in CountedIds : donations[r].status # "NONE"
    BY DEF CountedIds, Counts
  <2>3. ASSUME Serving = {} PROVE \A r \in Request : req[r].pc \notin {"capture", "capturing"}
    BY <2>3 DEF Serving
  <2>. QED
    BY <2>1, <2>2, <2>3 DEF OnceInv, ToldInv, AnnouncedOnce, HasClosed
<1>. QED
  BY <1>1, <1>2, OnceAtFirst, PTL DEF Spec

-----------------------------------------------------------------------------
(* Payments: what was made belongs to a call that has been reported.       *)

\* A step of the whole is one of the provider, or leaves it alone.
LEMMA PaySteps == [AllNext]_allVars => [Payments!Next]_(Payments!vars)
BY DEF AllNext, OtherParts, allVars, pay, Payments!vars

AskedCalls ==
    [step : {"asked", "retrieved"}, kind : Payments!Kinds, amount : Price, pledge : Calling]
ReportedCalls ==
    [step : {"reported"}, kind : Payments!Kinds, amount : Price, pledge : Calling,
     status : {"AUTHORIZED", "SUCCEEDED", "SENT", "FAILED"},
     reference : Calling \cup Payments!Failures]

\* A capture is for a pledge that was reported, and is retrieved when that one is
\* authorized.
CapturesHavePledges ==
    \A c \in Calling : payCall[c].step # "none" /\ payCall[c].kind = "capture" =>
        LET pledge == payCall[payCall[c].pledge]
        IN  /\ pledge.step = "reported"
            /\ payCall[c].step = "retrieved" => pledge.status = "AUTHORIZED"
            /\ payCall[c].step = "reported" /\ payCall[c].status # "FAILED"
                  /\ payProvider = "stripe" => pledge.status = "AUTHORIZED"

\* Nothing is made before it is reported, what is reported as done was made, and the
\* references tell one call from another.
MadeIsReported ==
    /\ \A m \in payMade : payCall[m.call].step = "reported"
    /\ \A c \in Calling : payCall[c].step = "reported" =>
          /\ payCall[c].reference \in {c} \cup Payments!Failures
          /\ payCall[c].status # "FAILED" =>
                Payments!ThisOne(c) \in payMade /\ payCall[c].reference = c

PayInv ==
    /\ payProvider \in {"mock", "stripe"}
    /\ payMade \subseteq [call : Calling, kind : Payments!Kinds, amount : Price]
    /\ payCall \in [Calling -> {Payments!NotMade} \cup AskedCalls \cup ReportedCalls]
    /\ payLost \subseteq Calling
    /\ CapturesHavePledges
    /\ MadeIsReported
    /\ Payments!FailureMeansNothingWasMade

\* The records of calls, by their step.
LEMMA CallKinds ==
    ASSUME PayInv, NEW c \in Calling
    PROVE  /\ payCall[c].step \in {"none", "asked", "retrieved", "reported"}
           /\ payCall[c].step = "none" => payCall[c] = Payments!NotMade
           /\ payCall[c].step \in {"asked", "retrieved"} => payCall[c] \in AskedCalls
           /\ payCall[c].step = "reported" => payCall[c] \in ReportedCalls
           /\ payCall[c].step # "none" =>
                 /\ payCall[c].kind \in Payments!Kinds /\ payCall[c].amount \in Price
                 /\ payCall[c].pledge \in Calling
<1>1. payCall[c] \in {Payments!NotMade} \cup AskedCalls \cup ReportedCalls
  BY DEF PayInv
<1> QED BY <1>1 DEF Payments!NotMade, AskedCalls, ReportedCalls

\* A call is asked for.
LEMMA AskKeepsPay ==
    ASSUME PayInv, NEW c \in Calling, NEW pledge \in Calling, NEW kind \in Payments!Kinds,
           NEW amount \in Price, Payments!Ask(c, kind, amount, pledge)
    PROVE  PayInv'
<1> PICK new : new = [step |-> "asked", kind |-> kind, amount |-> amount, pledge |-> pledge]
  OBVIOUS
<1>1. /\ payCall' = [payCall EXCEPT ![c] = new] /\ payCall[c] = Payments!NotMade
      /\ payMade' = payMade /\ payLost' = payLost /\ payProvider' = payProvider
      /\ kind = "capture" => /\ payCall[pledge].step = "reported"
                             /\ payCall[pledge].kind = "pledge"
  BY DEF Payments!Ask
<1>2. /\ new \in AskedCalls /\ new.step = "asked" /\ new.kind = kind /\ new.pledge = pledge
      /\ payCall[c].step = "none"
  BY <1>1 DEF AskedCalls, Payments!NotMade
<1>3. /\ payCall' \in [Calling -> {Payments!NotMade} \cup AskedCalls \cup ReportedCalls]
      /\ payCall \in [Calling -> {Payments!NotMade} \cup AskedCalls \cup ReportedCalls]
  BY <1>1, <1>2 DEF PayInv
<1>4. \A d \in Calling : payCall'[d] = IF d = c THEN new ELSE payCall[d]
  BY <1>1, <1>3
<1>5. \A d \in Calling : d # c => Payments!ThisOne(d)' = Payments!ThisOne(d)
  BY <1>4 DEF Payments!ThisOne
<1>6. CapturesHavePledges'
  <2> SUFFICES ASSUME NEW d \in Calling, payCall'[d].step # "none", payCall'[d].kind = "capture"
               PROVE  LET old == payCall'[payCall'[d].pledge]
                      IN  /\ old.step = "reported"
                          /\ payCall'[d].step = "retrieved" => old.status = "AUTHORIZED"
                          /\ payCall'[d].step = "reported" /\ payCall'[d].status # "FAILED"
                                /\ payProvider' = "stripe" => old.status = "AUTHORIZED"
    BY DEF CapturesHavePledges
  <2>1. CASE d = c
    BY <1>1, <1>2, <1>4, <2>1
  <2>2. CASE d # c
    <3>1. payCall'[d] = payCall[d] /\ payCall[d].pledge \in Calling
      BY <1>4, <2>2, CallKinds
    <3>2. payCall[payCall[d].pledge].step = "reported"
      BY <3>1 DEF PayInv, CapturesHavePledges
    <3>3. payCall'[payCall[d].pledge] = payCall[payCall[d].pledge]
      BY <1>2, <1>4, <3>1, <3>2
    <3> QED BY <1>1, <3>1, <3>3 DEF PayInv, CapturesHavePledges
  <2> QED BY <2>1, <2>2
<1>7. MadeIsReported'
  <2>1. \A m \in payMade : payCall'[m.call].step = "reported"
    BY <1>2, <1>4 DEF PayInv, MadeIsReported
  <2> QED BY <1>1, <1>2, <1>4, <1>5, <2>1 DEF PayInv, MadeIsReported
<1>8. Payments!FailureMeansNothingWasMade'
  BY <1>1, <1>2, <1>4, <1>5 DEF PayInv, Payments!FailureMeansNothingWasMade, Payments!Reported
<1> QED BY <1>1, <1>3, <1>6, <1>7, <1>8 DEF PayInv

\* An answer keeps the invariant: it is the first of its call, it says "FAILED" when
\* nothing was made or the answer is lost, and it says what was done when it was made.
LEMMA ReportKeepsPay ==
    ASSUME PayInv, NEW c \in Calling, NEW status \in {"AUTHORIZED", "SUCCEEDED", "SENT", "FAILED"},
           NEW reference \in {c} \cup Payments!Failures,
           payCall[c].step \in {"asked", "retrieved"},
           Payments!Report(c, status, reference),
           payProvider' = payProvider,
           payMade' = payMade \/ payMade' = payMade \cup {Payments!ThisOne(c)},
           payLost' \in SUBSET Calling, payLost \subseteq payLost',
           status # "FAILED" => /\ payMade' = payMade \cup {Payments!ThisOne(c)} /\ reference = c
                                /\ payProvider = "stripe" /\ payCall[c].kind = "capture" =>
                                      payCall[c].step = "retrieved",
           status = "FAILED" => payMade' = payMade \/ c \in payLost'
    PROVE  PayInv'
<1> PICK new : new = [step |-> "reported", kind |-> payCall[c].kind,
                      amount |-> payCall[c].amount, pledge |-> payCall[c].pledge,
                      status |-> status, reference |-> reference]
  OBVIOUS
<1>1. payCall' = [payCall EXCEPT ![c] = new]
  BY DEF Payments!Report
<1>2. /\ new \in ReportedCalls /\ new.step = "reported" /\ new.status = status
      /\ new.kind = payCall[c].kind /\ new.amount = payCall[c].amount
      /\ new.pledge = payCall[c].pledge /\ new.reference = reference
      /\ payCall[c].pledge \in Calling
  BY CallKinds DEF ReportedCalls
<1>3. /\ payCall' \in [Calling -> {Payments!NotMade} \cup AskedCalls \cup ReportedCalls]
      /\ payCall \in [Calling -> {Payments!NotMade} \cup AskedCalls \cup ReportedCalls]
  BY <1>1, <1>2 DEF PayInv
<1>4. \A d \in Calling : payCall'[d] = IF d = c THEN new ELSE payCall[d]
  BY <1>1, <1>3
<1>5. \A d \in Calling : Payments!ThisOne(d)' = Payments!ThisOne(d)
  BY <1>2, <1>4 DEF Payments!ThisOne
<1>6. /\ Payments!ThisOne(c) \in [call : Calling, kind : Payments!Kinds, amount : Price]
      /\ Payments!ThisOne(c).call = c
  BY CallKinds DEF Payments!ThisOne
<1>7. Payments!ThisOne(c) \notin payMade
  BY <1>6 DEF PayInv, MadeIsReported
<1>8. \A d \in Calling : d # c => Payments!ThisOne(d) # Payments!ThisOne(c)
  BY DEF Payments!ThisOne
<1>9. CapturesHavePledges'
  <2> SUFFICES ASSUME NEW d \in Calling, payCall'[d].step # "none", payCall'[d].kind = "capture"
               PROVE  LET old == payCall'[payCall'[d].pledge]
                      IN  /\ old.step = "reported"
                          /\ payCall'[d].step = "retrieved" => old.status = "AUTHORIZED"
                          /\ payCall'[d].step = "reported" /\ payCall'[d].status # "FAILED"
                                /\ payProvider' = "stripe" => old.status = "AUTHORIZED"
    BY DEF CapturesHavePledges
  <2>1. /\ payCall[d].step # "none" /\ payCall[d].kind = "capture"
        /\ payCall'[d].pledge = payCall[d].pledge /\ payCall[d].pledge \in Calling
    BY <1>2, <1>4, CallKinds
  <2>2. payCall[payCall[d].pledge].step = "reported"
    BY <2>1 DEF PayInv, CapturesHavePledges
  <2>3. payCall'[payCall'[d].pledge] = payCall[payCall[d].pledge]
    BY <1>4, <2>1, <2>2
  <2>4. CASE d = c
    BY <1>2, <1>4, <2>1, <2>2, <2>3, <2>4 DEF PayInv, CapturesHavePledges
  <2>5. CASE d # c
    BY <1>4, <2>1, <2>2, <2>3, <2>5 DEF PayInv, CapturesHavePledges
  <2> QED BY <2>4, <2>5
<1>10. MadeIsReported'
  <2>1. \A m \in payMade' : payCall'[m.call].step = "reported"
    BY <1>2, <1>4, <1>6 DEF PayInv, MadeIsReported
  <2>2. ASSUME NEW d \in Calling, payCall'[d].step = "reported"
        PROVE  /\ payCall'[d].reference \in {d} \cup Payments!Failures
               /\ payCall'[d].status # "FAILED" =>
                     Payments!ThisOne(d)' \in payMade' /\ payCall'[d].reference = d
    BY <1>2, <1>4, <1>5, <2>2 DEF PayInv, MadeIsReported
  <2> QED BY <2>1, <2>2 DEF MadeIsReported
<1>11. Payments!FailureMeansNothingWasMade'
  BY <1>2, <1>4, <1>5, <1>7, <1>8
     DEF PayInv, Payments!FailureMeansNothingWasMade, Payments!Reported
<1> QED BY <1>3, <1>6, <1>9, <1>10, <1>11 DEF PayInv

\* What is reported when a call succeeds.
LEMMA OkIsSuccess ==
    ASSUME NEW kind \in Payments!Kinds
    PROVE  /\ Payments!Ok[kind] \in {"AUTHORIZED", "SUCCEEDED", "SENT"}
           /\ Payments!FailureReference(kind) \in Payments!Failures
BY DEF Payments!Kinds, Payments!Ok, Payments!FailureReference, Payments!Failures

\* Steps of a call that is under way keep the invariant.
LEMMA AnswersKeepPay ==
    ASSUME PayInv, NEW c \in Calling,
           \/ Payments!MockAnswers(c) \/ Payments!Retrieve(c) \/ Payments!StripeMakes(c)
           \/ Payments!StripeFails(c) \/ Payments!AnswerLost(c)
    PROVE  PayInv'
<1> PICK kind : kind = payCall[c].kind
  OBVIOUS
<1>1. /\ payCall[c].step \in {"asked", "retrieved"}
      /\ kind \in Payments!Kinds /\ payCall[c].pledge \in Calling
      /\ payLost \subseteq Calling
  <2>1. payCall[c].step \in {"asked", "retrieved"}
    BY DEF Payments!MockAnswers, Payments!Retrieve, Payments!StripeMakes,
           Payments!StripeFails, Payments!AnswerLost, Payments!ReadyToMake
  <2> QED BY <2>1, CallKinds DEF PayInv
<1>2. /\ Payments!Ok[kind] \in {"AUTHORIZED", "SUCCEEDED", "SENT"}
      /\ Payments!FailureReference(kind) \in Payments!Failures
  BY <1>1, OkIsSuccess
<1>3. CASE Payments!MockAnswers(c)
  <2> PICK ok : ok = (payCall[c].kind = "payout" \/ payCall[c].amount \notin RefusedPrice)
    OBVIOUS
  <2>1. /\ payProvider = "mock" /\ payProvider' = payProvider /\ payLost' = payLost
        /\ payMade' = IF ok THEN payMade \cup {Payments!ThisOne(c)} ELSE payMade
        /\ Payments!Report(c, IF ok THEN Payments!Ok[kind] ELSE "FAILED", c)
    BY <1>3 DEF Payments!MockAnswers
  <2> QED BY <1>1, <1>2, <2>1, ReportKeepsPay
<1>4. CASE Payments!StripeMakes(c)
  <2>1. /\ payProvider' = payProvider /\ payLost' = payLost
        /\ payMade' = payMade \cup {Payments!ThisOne(c)}
        /\ Payments!Report(c, Payments!Ok[kind], c)
        /\ kind = "capture" => payCall[c].step = "retrieved"
    BY <1>1, <1>4 DEF Payments!StripeMakes, Payments!ReadyToMake
  <2> QED BY <1>1, <1>2, <2>1, ReportKeepsPay
<1>5. CASE Payments!StripeFails(c)
  <2>1. /\ payProvider' = payProvider /\ payLost' = payLost /\ payMade' = payMade
        /\ Payments!Report(c, "FAILED", Payments!FailureReference(kind))
    BY <1>5 DEF Payments!StripeFails, Payments!StatusOfError
  <2> QED BY <1>1, <1>2, <2>1, ReportKeepsPay
<1>6. CASE Payments!AnswerLost(c)
  <2>1. /\ payProvider' = payProvider /\ payLost' = payLost \cup {c}
        /\ payMade' = payMade \cup {Payments!ThisOne(c)}
        /\ Payments!Report(c, "FAILED", Payments!FailureReference(kind))
    BY <1>6 DEF Payments!AnswerLost
  <2> QED BY <1>1, <1>2, <2>1, ReportKeepsPay
<1>7. CASE Payments!Retrieve(c)
  <2>1. /\ payProvider' = payProvider /\ payLost' = payLost /\ payMade' = payMade
        /\ payCall[c].kind = "capture" /\ payCall[c].step = "asked"
    BY <1>7 DEF Payments!Retrieve
  <2>2. CASE Payments!Report(c, "FAILED", "stripe_charge_failed")
    <3>1. "stripe_charge_failed" \in Payments!Failures
      BY DEF Payments!Failures
    <3> QED BY <1>1, <2>1, <2>2, <3>1, ReportKeepsPay
  <2>3. CASE /\ payCall[payCall[c].pledge].status = "AUTHORIZED"
             /\ payCall' = [payCall EXCEPT ![c].step = "retrieved"]
    <3> PICK new : new = [payCall[c] EXCEPT !.step = "retrieved"]
      OBVIOUS
    <3>1. /\ new \in AskedCalls /\ new.step = "retrieved"
          /\ new.kind = payCall[c].kind /\ new.amount = payCall[c].amount
          /\ new.pledge = payCall[c].pledge
      BY <2>1, CallKinds DEF AskedCalls
    <3>2. /\ payCall' = [payCall EXCEPT ![c] = new]
          /\ payCall \in [Calling -> {Payments!NotMade} \cup AskedCalls \cup ReportedCalls]
      BY <2>3 DEF PayInv
    <3>3. /\ payCall' \in [Calling -> {Payments!NotMade} \cup AskedCalls \cup ReportedCalls]
          /\ \A d \in Calling : payCall'[d] = IF d = c THEN new ELSE payCall[d]
      BY <3>1, <3>2
    <3>4. \A d \in Calling : Payments!ThisOne(d)' = Payments!ThisOne(d)
      BY <3>1, <3>3 DEF Payments!ThisOne
    <3>5. CapturesHavePledges'
      <4> SUFFICES ASSUME NEW d \in Calling, payCall'[d].step # "none",
                          payCall'[d].kind = "capture"
                   PROVE  LET old == payCall'[payCall'[d].pledge]
                          IN  /\ old.step = "reported"
                              /\ payCall'[d].step = "retrieved" => old.status = "AUTHORIZED"
                              /\ payCall'[d].step = "reported" /\ payCall'[d].status # "FAILED"
                                    /\ payProvider' = "stripe" => old.status = "AUTHORIZED"
        BY DEF CapturesHavePledges
      <4>1. /\ payCall[d].step # "none" /\ payCall[d].kind = "capture"
            /\ payCall'[d].pledge = payCall[d].pledge /\ payCall[d].pledge \in Calling
        BY <2>1, <3>1, <3>3, CallKinds
      <4>2. payCall[payCall[d].pledge].step = "reported"
        BY <4>1 DEF PayInv, CapturesHavePledges
      <4>3. payCall'[payCall'[d].pledge] = payCall[payCall[d].pledge]
        BY <2>1, <3>3, <4>1, <4>2
      <4>4. CASE d = c
        BY <2>3, <3>1, <3>3, <4>2, <4>3, <4>4
      <4>5. CASE d # c
        BY <2>1, <3>3, <4>1, <4>2, <4>3, <4>5 DEF PayInv, CapturesHavePledges
      <4> QED BY <4>4, <4>5
    <3>6. MadeIsReported'
      <4>1. \A m \in payMade' : payCall'[m.call].step = "reported"
        BY <2>1, <3>3 DEF PayInv, MadeIsReported
      <4>2. ASSUME NEW d \in Calling, payCall'[d].step = "reported"
            PROVE  /\ payCall'[d].reference \in {d} \cup Payments!Failures
                   /\ payCall'[d].status # "FAILED" =>
                         Payments!ThisOne(d)' \in payMade' /\ payCall'[d].reference = d
        BY <2>1, <3>1, <3>3, <3>4, <4>2 DEF PayInv, MadeIsReported
      <4> QED BY <4>1, <4>2 DEF MadeIsReported
    <3>7. Payments!FailureMeansNothingWasMade'
      BY <2>1, <3>1, <3>3, <3>4
         DEF PayInv, Payments!FailureMeansNothingWasMade, Payments!Reported
    <3> QED BY <2>1, <3>3, <3>5, <3>6, <3>7 DEF PayInv
  <2> QED BY <1>7, <2>2, <2>3 DEF Payments!Retrieve
<1> QED BY <1>3, <1>4, <1>5, <1>6, <1>7

\* Whatever calls run at the same time, at either provider and with lost answers: a
\* success is real, under a reference of its own and only for a pledge that was
\* authorized; a failure means that nothing was made, unless the answer was lost
\* (createPledge, chargeImmediately, captureOnGoalReached, payout).
THEOREM ProvidersReportTheTruth == AllSpec => []ReportsOfProvidersAreTrue
<1>1. AllInit => PayInv
  <2> SUFFICES ASSUME Payments!Init PROVE PayInv
    BY DEF AllInit
  <2>1. /\ payMade = {} /\ payLost = {} /\ payCall = [c \in Calling |-> Payments!NotMade]
        /\ payProvider \in {"mock", "stripe"}
    BY DEF Payments!Init, Payments!ProviderFor
  <2>2. \A c \in Calling : payCall[c].step = "none"
    BY <2>1 DEF Payments!NotMade
  <2> QED BY <2>1, <2>2 DEF PayInv, CapturesHavePledges, MadeIsReported,
             Payments!FailureMeansNothingWasMade, Payments!Reported
<1>2. PayInv /\ [Payments!Next]_(Payments!vars) => PayInv'
  <2> SUFFICES ASSUME PayInv, [Payments!Next]_(Payments!vars) PROVE PayInv'
    OBVIOUS
  <2>1. CASE UNCHANGED Payments!vars
    BY <2>1 DEF Payments!vars, PayInv, CapturesHavePledges, MadeIsReported,
             Payments!FailureMeansNothingWasMade, Payments!Reported, Payments!ThisOne
  <2>2. CASE Payments!Next
    BY <2>2, AskKeepsPay, AnswersKeepPay DEF Payments!Next
  <2> QED BY <2>1, <2>2
<1>3. PayInv => ReportsOfProvidersAreTrue
  <2> SUFFICES ASSUME PayInv PROVE ReportsOfProvidersAreTrue
    OBVIOUS
  <2>1. Payments!TypeOK
    BY CallKinds DEF PayInv, Payments!TypeOK
  <2>2. ASSUME NEW c \in Calling, Payments!Reported(c), payCall[c].status # "FAILED",
               NEW d \in Calling \ {c}, Payments!Reported(d)
        PROVE  payCall[d].reference # payCall[c].reference
    <3>1. Calling \cap Payments!Failures = {}
      BY MoneyAssumption DEF Payments!PaymentsAssumption
    <3> QED BY <2>2, <3>1 DEF PayInv, MadeIsReported, Payments!Reported
  <2>3. ASSUME NEW c \in Calling, Payments!Reported(c), payCall[c].status # "FAILED"
        PROVE  /\ Payments!ThisOne(c) \in payMade
               /\ payProvider = "stripe" /\ payCall[c].kind = "capture" =>
                     payCall[payCall[c].pledge].status = "AUTHORIZED"
    BY <2>3 DEF PayInv, MadeIsReported, CapturesHavePledges, Payments!Reported
  <2>4. Payments!SuccessIsReal
    BY <2>2, <2>3 DEF Payments!SuccessIsReal
  <2> QED BY <2>1, <2>4 DEF PayInv, ReportsOfProvidersAreTrue
<1> QED BY <1>1, <1>2, <1>3, PaySteps, PTL DEF AllSpec
-----------------------------------------------------------------------------
(* Corporate: while requests do not overlap, what a request has read of    *)
(* the campaign is what is stored.                                         *)

\* A step of the whole is one of the companies, or leaves them alone.
LEMMA CorporateSteps == [AllNext]_allVars => [Corporate!Next]_(Corporate!vars)
BY DEF AllNext, OtherParts, allVars, corp, Corporate!vars

\* The constants of the companies.
LEMMA CorporateConstants ==
    /\ TuitionOf \in [Sponsored -> Nat \ {0}] /\ CustomAmount \subseteq Nat
    /\ DOMAIN StudentOf = Sponsored /\ Wishes \subseteq BOOLEAN \X BOOLEAN
    /\ IsFiniteSet(Hand) /\ IsFiniteSet(Sponsorship)
BY MoneyAssumption DEF Corporate!CorporateAssumption, Corporate!IsFiniteSet, IsFiniteSet

CampaignRows == [raised : Nat, tips : Nat, status : {"LIVE", "FUNDED"}]
SponsorshipRows ==
    [company : Company, campaign : Sponsored, amount : Nat, tip : Nat, full : BOOLEAN,
     kind : {"NAMED", "LOGO", "ANONYMOUS"}, type : {"SPONSORING", "DONATION"}, vat : Nat,
     invoice : {"PAID", "PENDING"}]
SponsorRequests ==
    {q \in [step : {"charge", "book"}, id : Sponsorship, company : Company, campaign : Sponsored,
            amount : Nat, paid : Nat, seen : CampaignRows, full : BOOLEAN, card : BOOLEAN,
            kind : {"NAMED", "LOGO", "ANONYMOUS"}, type : {"SPONSORING", "DONATION"}] :
        q.amount <= q.paid}

\* What a company has paid and what is booked; what is on its way lies between.
OnItsWay(tasks, k) == {r \in Hand : tasks[r].step = "book" /\ tasks[r].company = k}
SumIn(rows, S, field) == Total([s \in S |-> rows[s][field]], S)
BookedIn(rows, k, field) ==
    SumIn(rows, {s \in DOMAIN rows : rows[s].company = k}, field)
RaisedOf(rows, c) == SumIn(rows, {s \in DOMAIN rows : rows[s].campaign = c}, "amount")
AtMostOneFull(rows, c) ==
    \A s, t \in {i \in DOMAIN rows : rows[i].campaign = c /\ rows[i].full} : s = t
PaidOf(tasks, R) == Total([r \in R |-> tasks[r].paid], R)

\* While requests do not overlap, a request knows the campaign as it is.
SeenIsStored ==
    \A r \in Hand : corpRequest[r] # Corporate!Idle =>
        LET q == corpRequest[r]
        IN  /\ \A o \in Hand : corpRequest[o] # Corporate!Idle => o = r
            /\ q.seen = corpCampaigns[q.campaign]
            /\ q.seen.status = "LIVE" /\ q.seen.raised < TuitionOf[q.campaign]
            /\ q.full <=> q.paid >= TuitionOf[q.campaign] - q.seen.raised
            /\ q.amount = IF q.full THEN TuitionOf[q.campaign] - q.seen.raised ELSE q.paid

\* A campaign is at its goal when it has the one sponsor of what was missing.
FundedAsBooked(held, rows, c) ==
    /\ held[c].raised <= TuitionOf[c]
    /\ held[c].status = "FUNDED" <=> held[c].raised = TuitionOf[c]
    /\ held[c].status = "FUNDED" <=> \E s \in DOMAIN rows : rows[s].campaign = c /\ rows[s].full
    /\ AtMostOneFull(rows, c)
    /\ held[c].raised = RaisedOf(rows, c)
FundedByOne == \A c \in Sponsored : FundedAsBooked(corpCampaigns, corpSponsorships, c)

CorpTypes ==
    /\ corpProfiles \subseteq Company
    /\ corpCampaigns \in [Sponsored -> CampaignRows]
    /\ DOMAIN corpSponsorships \subseteq Sponsorship
    /\ corpSponsorships \in [DOMAIN corpSponsorships -> SponsorshipRows]
    /\ corpCharged \in [Company -> Nat]
    /\ corpRequest \in [Hand -> {Corporate!Idle} \cup SponsorRequests]
    /\ corpAlone \in BOOLEAN

PaidIsBooked ==
    \A k \in Company :
        corpCharged[k] = BookedIn(corpSponsorships, k, "amount")
                         + BookedIn(corpSponsorships, k, "tip")
                         + PaidOf(corpRequest, OnItsWay(corpRequest, k))

CorpInv ==
    /\ CorpTypes
    /\ PaidIsBooked
    /\ corpAlone => SeenIsStored /\ FundedByOne

\* The sums of the module are sums of Sums.
LEMMA CorporateSums ==
    /\ \A S, f : Corporate!SumOver(S, f) = Total(f, S)
    /\ \A S, field : Corporate!SumOf(S, field) = SumIn(corpSponsorships, S, field)
BY DEF Corporate!SumOf, Corporate!SumOver, Corporate!MapThenSumSet, Corporate!MapThenFoldSet,
       SumIn, Total, MapThenSumSet, MapThenFoldSet

\* The larger and the smaller of two numbers.
LEMMA CorporateMaxMin ==
    /\ \A a, b \in Int : Corporate!Max({a, b}) = IF a >= b THEN a ELSE b
    /\ \A a, b \in Int : Corporate!Min({a, b}) = IF a <= b THEN a ELSE b
BY DEF Corporate!Max, Corporate!Min

\* A sum over sponsorships looks at their rows only.
LEMMA RowsKept ==
    ASSUME NEW rows, NEW more, NEW S, NEW field, \A s \in S : more[s] = rows[s]
    PROVE  SumIn(more, S, field) = SumIn(rows, S, field)
<1>1. [s \in S |-> more[s][field]] = [s \in S |-> rows[s][field]]
  OBVIOUS
<1> QED BY <1>1 DEF SumIn

\* A sum over sponsorships when one is added.
OneMoreRow(rows, more, S, id, field) ==
    /\ S \in SUBSET Sponsorship /\ id \in Sponsorship \ S /\ more[id][field] \in Nat
    /\ \A s \in S : more[s] = rows[s] /\ rows[s][field] \in Nat
LEMMA RowAdded ==
    ASSUME NEW rows, NEW more, NEW S, NEW id, NEW field, OneMoreRow(rows, more, S, id, field)
    PROVE  SumIn(more, S \cup {id}, field) = SumIn(rows, S, field) + more[id][field]
<1> USE DEF OneMoreRow
<1> PICK T : T = S \cup {id}
  OBVIOUS
<1>1. IsFiniteSet(S)
  BY CorporateConstants, FS_Subset
<1>g. PICK g : g = [s \in S |-> rows[s][field]]
  OBVIOUS
<1>h. PICK h : h = [s \in T |-> more[s][field]]
  OBVIOUS
<1>2. /\ \A s \in S : g[s] \in Int /\ h[s] = g[s]
      /\ h[id] = more[id][field] /\ h[id] \in Int
  BY <1>g, <1>h
<1>3. Total(h, S \cup {id}) = Total(g, S) + h[id]
  BY <1>1, <1>2, TotalWithOneMore
<1> QED BY <1>2, <1>3, <1>g, <1>h DEF SumIn

\* The rows of some sponsorships are numbers, and so is their sum.
LEMMA RowsAreNumbers ==
    ASSUME CorpTypes, NEW S \in SUBSET DOMAIN corpSponsorships, NEW field \in {"amount", "tip"}
    PROVE  /\ IsFiniteSet(S)
           /\ \A s \in S : corpSponsorships[s][field] \in Nat
           /\ SumIn(corpSponsorships, S, field) \in Nat
<1>1. IsFiniteSet(S)
  BY CorporateConstants, FS_Subset DEF CorpTypes
<1>2. \A s \in S : corpSponsorships[s][field] \in Nat
  BY DEF CorpTypes, SponsorshipRows
<1> PICK g : g = [s \in S |-> corpSponsorships[s][field]]
  OBVIOUS
<1>3. \A s \in S : g[s] \in Nat
  BY <1>2
<1>4. Total(g, S) \in Nat
  BY <1>1, <1>3, TotalIsNatural
<1> QED BY <1>1, <1>2, <1>4 DEF SumIn

\* What requests have paid, when one more is on its way.
OneMorePaid(old, new, R, r) ==
    /\ R \in SUBSET Hand /\ r \in Hand \ R /\ new[r].paid \in Nat
    /\ \A q \in R : old[q].paid \in Nat /\ new[q] = old[q]
LEMMA PaidWithOneMore ==
    ASSUME NEW old, NEW new, NEW R, NEW r, OneMorePaid(old, new, R, r)
    PROVE  /\ PaidOf(new, R \cup {r}) = PaidOf(old, R) + new[r].paid
           /\ PaidOf(old, R) \in Nat
<1> USE DEF OneMorePaid
<1> PICK T : T = R \cup {r}
  OBVIOUS
<1>1. IsFiniteSet(R)
  BY CorporateConstants, FS_Subset
<1>g. PICK g : g = [q \in R |-> old[q].paid]
  OBVIOUS
<1>h. PICK h : h = [q \in T |-> new[q].paid]
  OBVIOUS
<1>2. /\ \A q \in R : g[q] \in Nat /\ h[q] = g[q]
      /\ h[r] = new[r].paid
  BY <1>g, <1>h
<1>3. (\A q \in R : g[q] \in Int /\ h[q] = g[q]) /\ h[r] \in Int
  BY <1>2
<1>4. Total(h, R \cup {r}) = Total(g, R) + h[r]
  BY <1>1, <1>3, TotalWithOneMore
<1>5. Total(g, R) \in Nat
  BY <1>1, <1>2, TotalIsNatural
<1> QED BY <1>2, <1>4, <1>5, <1>g, <1>h DEF PaidOf

\* What requests on their way have paid is a number.
LEMMA OnItsWayIsNumber ==
    ASSUME CorpTypes, NEW k
    PROVE  /\ \A r \in OnItsWay(corpRequest, k) : corpRequest[r].paid \in Nat
           /\ PaidOf(corpRequest, OnItsWay(corpRequest, k)) \in Nat
<1>1. \A r \in OnItsWay(corpRequest, k) : corpRequest[r] \in SponsorRequests
  BY DEF CorpTypes, OnItsWay, Corporate!Idle
<1>2. \A r \in OnItsWay(corpRequest, k) : corpRequest[r].paid \in Nat
  BY <1>1 DEF SponsorRequests
<1>3. IsFiniteSet(OnItsWay(corpRequest, k))
  BY CorporateConstants, FS_Subset DEF OnItsWay
<1>g. PICK g : g = [q \in OnItsWay(corpRequest, k) |-> corpRequest[q].paid]
  OBVIOUS
<1>4. \A q \in OnItsWay(corpRequest, k) : g[q] \in Nat
  BY <1>2, <1>g
<1>5. Total(g, OnItsWay(corpRequest, k)) \in Nat
  BY <1>3, <1>4, TotalIsNatural
<1> QED BY <1>2, <1>5, <1>g DEF PaidOf

\* A request has paid an amount of which at most what is missing is booked.
LEMMA AmountsFit ==
    ASSUME CorpTypes, NEW c \in Sponsored, NEW custom \in CustomAmount,
           NEW tier \in Corporate!Tiers
    PROVE  LET amount == Corporate!TierAmount(tier, c, custom)
               missing == IF TuitionOf[c] >= corpCampaigns[c].raised
                          THEN TuitionOf[c] - corpCampaigns[c].raised ELSE 0
           IN  /\ amount \in Nat
               /\ Corporate!IsFullTuition(c, amount) <=> missing > 0 /\ amount >= missing
               /\ Corporate!AmountToGoal(c, amount) =
                     IF amount <= missing THEN amount ELSE missing
<1> PICK goal : goal = TuitionOf[c]
  OBVIOUS
<1> PICK raised : raised = corpCampaigns[c].raised
  OBVIOUS
<1>1. goal \in Nat /\ raised \in Nat
  BY CorporateConstants DEF CorpTypes, CampaignRows
<1>2. Corporate!Gap(c) = IF goal >= raised THEN goal - raised ELSE 0
  BY <1>1, CorporateMaxMin DEF Corporate!Gap
<1> PICK gap : gap = Corporate!Gap(c)
  OBVIOUS
<1>3. gap \in Nat
  BY <1>1, <1>2
<1>4. Corporate!RoundDiv(goal, 4) \in Nat /\ Corporate!RoundDiv(goal, 2) \in Nat
  BY <1>1 DEF Corporate!RoundDiv
<1>5. Corporate!TierAmount(tier, c, custom) \in Nat
  <2>1. /\ Corporate!Min({gap, Corporate!RoundDiv(goal, 4)}) \in Nat
        /\ Corporate!Min({gap, Corporate!RoundDiv(goal, 2)}) \in Nat
    BY <1>3, <1>4, CorporateMaxMin
  <2>2. custom \in Nat
    BY CorporateConstants
  <2>3. tier \in {"SEMESTER", "YEAR", "FULL", "CUSTOM"}
    BY DEF Corporate!Tiers
  <2> QED BY <1>3, <2>1, <2>2, <2>3 DEF Corporate!TierAmount
<1> PICK amount : amount = Corporate!TierAmount(tier, c, custom)
  OBVIOUS
<1>6. amount \in Nat
  BY <1>5
<1>7. Corporate!AmountToGoal(c, amount) = IF amount <= gap THEN amount ELSE gap
  BY <1>3, <1>6, CorporateMaxMin DEF Corporate!AmountToGoal
<1>8. Corporate!IsFullTuition(c, amount) <=> gap > 0 /\ amount >= gap
  BY DEF Corporate!IsFullTuition
<1> QED BY <1>2, <1>6, <1>7, <1>8

\* One request more or less that is not idle does not make the others overlap.
LEMMA AloneIsOne ==
    ASSUME CorpInv, NEW r \in Hand, NEW next, Corporate!Continue(r, next), corpAlone'
    PROVE  /\ corpAlone
           /\ \A o, q \in Hand :
                 corpRequest'[o] # Corporate!Idle /\ corpRequest'[q] # Corporate!Idle => o = q
<1>1. corpAlone
  BY DEF Corporate!Continue, CorpInv, CorpTypes
<1> PICK busy : busy = {q \in Hand : corpRequest'[q] # Corporate!Idle}
  OBVIOUS
<1>2. Corporate!Cardinality(busy) <= 1
  BY DEF Corporate!Continue, CorpInv, CorpTypes
<1>3. Cardinality(busy) <= 1
  BY <1>2 DEF Cardinality, Corporate!Cardinality
<1>4. IsFiniteSet(busy)
  BY CorporateConstants, FS_Subset
<1>5. \A o, q \in busy : o = q
  BY <1>3, <1>4, OneAtMost
<1> QED BY <1>1, <1>5

\* What is booked and on its way depends on sponsorships and requests alone.
LEMMA ProfilesDoNotMatter ==
    ASSUME CorpInv, NEW k \in Company, Corporate!UpsertProfile(k)
    PROVE  CorpInv'
BY DEF CorpInv, CorpTypes, PaidIsBooked, SeenIsStored, FundedByOne, FundedAsBooked,
       Corporate!UpsertProfile

\* A request begins with the campaign as it is.
LEMMA SponsorStep ==
    ASSUME CorpInv, NEW r \in Hand, NEW s \in Sponsorship, NEW k \in Company,
           NEW c \in Sponsored, NEW tier \in Corporate!Tiers, NEW custom \in CustomAmount,
           NEW card \in BOOLEAN, NEW w \in Wishes,
           Corporate!Sponsor(r, s, k, c, tier, custom, card, w[1], w[2])
    PROVE  CorpInv'
<1> PICK amount : amount = Corporate!TierAmount(tier, c, custom)
  OBVIOUS
<1> PICK goal : goal = TuitionOf[c]
  OBVIOUS
<1> PICK raised : raised = corpCampaigns[c].raised
  OBVIOUS
<1>1. /\ corpRequest[r] = Corporate!Idle
      /\ corpCampaigns[c].status = "LIVE" /\ raised < goal
      /\ UNCHANGED <<corpProfiles, corpCampaigns, corpSponsorships, corpCharged>>
  BY DEF Corporate!Sponsor, Corporate!Donatable
<1>2. goal \in Nat /\ raised \in Nat /\ corpCampaigns[c] \in CampaignRows
  BY CorporateConstants DEF CorpInv, CorpTypes, CampaignRows
<1>3. /\ amount \in Nat
      /\ Corporate!IsFullTuition(c, amount) <=> amount >= goal - raised
      /\ Corporate!AmountToGoal(c, amount) =
            IF amount <= goal - raised THEN amount ELSE goal - raised
  BY <1>1, <1>2, AmountsFit DEF CorpInv
<1> PICK towards : towards = Corporate!AmountToGoal(c, amount)
  OBVIOUS
<1> PICK full : full = Corporate!IsFullTuition(c, amount)
  OBVIOUS
<1> PICK kind : kind = Corporate!RecognitionKind(w[1], w[2])
  OBVIOUS
<1> PICK type : type = Corporate!DocumentType(w[2])
  OBVIOUS
<1> PICK q : q = [step |-> "charge", id |-> s, company |-> k, campaign |-> c,
                  amount |-> towards, paid |-> amount, seen |-> corpCampaigns[c],
                  full |-> full, card |-> card, kind |-> kind, type |-> type]
  OBVIOUS
<1>4. Corporate!Continue(r, q)
  BY DEF Corporate!Sponsor
<1>5. towards \in Nat /\ towards <= amount
  BY <1>1, <1>2, <1>3
<1>6. full \in BOOLEAN
  BY DEF Corporate!IsFullTuition
<1>7. kind \in {"NAMED", "LOGO", "ANONYMOUS"} /\ type \in {"SPONSORING", "DONATION"}
  BY DEF Corporate!RecognitionKind, Corporate!DocumentType
<1>8. q \in SponsorRequests /\ q.step = "charge"
  BY <1>2, <1>3, <1>5, <1>6, <1>7 DEF SponsorRequests
<1>9. /\ corpRequest' = [corpRequest EXCEPT ![r] = q]
      /\ corpRequest'[r] = q /\ \A o \in Hand \ {r} : corpRequest'[o] = corpRequest[o]
      /\ corpAlone' \in BOOLEAN
  BY <1>4 DEF Corporate!Continue, CorpInv, CorpTypes
<1>10. CorpTypes'
  BY <1>1, <1>8, <1>9 DEF CorpInv, CorpTypes
<1>11. PaidIsBooked'
  <2>1. \A x \in Company : OnItsWay(corpRequest', x) = OnItsWay(corpRequest, x)
                           /\ r \notin OnItsWay(corpRequest, x)
    BY <1>1, <1>8, <1>9 DEF OnItsWay, Corporate!Idle
  <2>2. \A x \in Company : PaidOf(corpRequest', OnItsWay(corpRequest', x))
                           = PaidOf(corpRequest, OnItsWay(corpRequest, x))
    <3> SUFFICES ASSUME NEW x \in Company
                 PROVE  PaidOf(corpRequest', OnItsWay(corpRequest', x))
                        = PaidOf(corpRequest, OnItsWay(corpRequest, x))
      OBVIOUS
    <3> PICK R : R = OnItsWay(corpRequest, x)
      OBVIOUS
    <3>1. \A o \in R : corpRequest'[o] = corpRequest[o]
      BY <2>1, <1>9 DEF OnItsWay
    <3>2. [o \in R |-> corpRequest'[o].paid] = [o \in R |-> corpRequest[o].paid]
      BY <3>1
    <3> QED BY <2>1, <3>2 DEF PaidOf
  <2>3. PaidIsBooked
    BY DEF CorpInv
  <2> QED BY <1>1, <2>2, <2>3 DEF PaidIsBooked
<1>12. ASSUME corpAlone' PROVE SeenIsStored' /\ FundedByOne'
  <2>1. /\ corpAlone
        /\ \A o \in Hand : corpRequest'[o] # Corporate!Idle => o = r
    BY <1>4, <1>8, <1>9, <1>12, AloneIsOne DEF Corporate!Idle
  <2>2. FundedByOne'
    BY <1>1, <2>1 DEF CorpInv, FundedByOne, FundedAsBooked
  <2>3. /\ q.seen = corpCampaigns[q.campaign] /\ q.seen.status = "LIVE"
        /\ q.seen.raised = raised /\ TuitionOf[q.campaign] = goal
        /\ q.full = full /\ q.paid = amount /\ q.amount = towards
    BY <1>1
  <2>4. /\ q.full <=> q.paid >= TuitionOf[q.campaign] - q.seen.raised
        /\ q.amount = IF q.full THEN TuitionOf[q.campaign] - q.seen.raised ELSE q.paid
    BY <1>2, <1>3, <2>3
  <2>5. SeenIsStored'
    BY <1>1, <1>9, <2>1, <2>3, <2>4 DEF SeenIsStored
  <2> QED BY <2>2, <2>5
<1> QED BY <1>10, <1>11, <1>12 DEF CorpInv

\* What is charged is on its way.
LEMMA ChargeStep ==
    ASSUME CorpInv, NEW r \in Hand, NEW succeeds \in BOOLEAN, Corporate!Charge(r, succeeds)
    PROVE  CorpInv'
<1> PICK q : q = corpRequest[r]
  OBVIOUS
<1>1. /\ q.step = "charge" /\ q # Corporate!Idle /\ q \in SponsorRequests
      /\ UNCHANGED <<corpProfiles, corpCampaigns, corpSponsorships>>
  BY DEF Corporate!Charge, CorpInv, CorpTypes, Corporate!Idle
<1> PICK next : next = IF succeeds THEN [q EXCEPT !.step = "book"] ELSE Corporate!Idle
  OBVIOUS
<1>2. /\ Corporate!Continue(r, next)
      /\ corpCharged' = IF succeeds THEN [corpCharged EXCEPT ![q.company] = @ + q.paid]
                                    ELSE corpCharged
  BY DEF Corporate!Charge
<1>3. /\ corpRequest' = [corpRequest EXCEPT ![r] = next]
      /\ corpRequest'[r] = next /\ \A o \in Hand \ {r} : corpRequest'[o] = corpRequest[o]
      /\ corpAlone' \in BOOLEAN
  BY <1>2 DEF Corporate!Continue, CorpInv, CorpTypes
<1>4. q.paid \in Nat /\ q.company \in Company
  BY <1>1 DEF SponsorRequests
<1>5. next \in {Corporate!Idle} \cup SponsorRequests
  BY <1>1 DEF SponsorRequests
<1>6. CorpTypes'
  BY <1>1, <1>2, <1>3, <1>4, <1>5 DEF CorpInv, CorpTypes
<1>7. PaidIsBooked'
  <2> SUFFICES ASSUME NEW x \in Company
               PROVE  corpCharged'[x] = BookedIn(corpSponsorships, x, "amount")
                         + BookedIn(corpSponsorships, x, "tip")
                         + PaidOf(corpRequest', OnItsWay(corpRequest', x))
    BY <1>1 DEF PaidIsBooked
  <2> PICK R : R = OnItsWay(corpRequest, x)
    OBVIOUS
  <2>1. r \notin R /\ R \in SUBSET Hand
    BY <1>1 DEF OnItsWay
  <2>2. \A o \in R : corpRequest[o].paid \in Nat /\ corpRequest'[o] = corpRequest[o]
    BY <1>3, <2>1, OnItsWayIsNumber DEF CorpInv
  <2>3. corpCharged[x] = BookedIn(corpSponsorships, x, "amount")
                         + BookedIn(corpSponsorships, x, "tip") + PaidOf(corpRequest, R)
    BY DEF CorpInv, PaidIsBooked
  <2>4. /\ BookedIn(corpSponsorships, x, "amount") \in Nat
        /\ BookedIn(corpSponsorships, x, "tip") \in Nat
    BY RowsAreNumbers DEF BookedIn, CorpInv
  <2>5. CASE succeeds /\ q.company = x
    <3>1. OnItsWay(corpRequest', x) = R \cup {r}
      BY <1>1, <1>3, <2>5 DEF OnItsWay, SponsorRequests
    <3>2. corpRequest'[r].paid = q.paid
      BY <1>1, <1>3, <2>5 DEF SponsorRequests
    <3>3. PaidOf(corpRequest', R \cup {r}) = PaidOf(corpRequest, R) + corpRequest'[r].paid
          /\ PaidOf(corpRequest, R) \in Nat
      <4>1. OneMorePaid(corpRequest, corpRequest', R, r)
        BY <1>4, <2>1, <2>2, <3>2 DEF OneMorePaid
      <4> QED BY <4>1, PaidWithOneMore
    <3>4. corpCharged'[x] = corpCharged[x] + q.paid
      BY <1>2, <1>4, <2>5 DEF CorpInv, CorpTypes
    <3> QED BY <1>4, <2>3, <2>4, <3>1, <3>2, <3>3, <3>4
  <2>6. CASE ~(succeeds /\ q.company = x)
    <3>1. OnItsWay(corpRequest', x) = R
      BY <1>1, <1>3, <2>6 DEF OnItsWay, SponsorRequests, Corporate!Idle
    <3>2. [o \in R |-> corpRequest'[o].paid] = [o \in R |-> corpRequest[o].paid]
      BY <2>2
    <3>3. PaidOf(corpRequest', R) = PaidOf(corpRequest, R)
      BY <3>2 DEF PaidOf
    <3>4. corpCharged'[x] = corpCharged[x]
      BY <1>2, <1>4, <2>6 DEF CorpInv, CorpTypes
    <3> QED BY <2>3, <3>1, <3>3, <3>4
  <2> QED BY <2>5, <2>6
<1>8. ASSUME corpAlone' PROVE SeenIsStored' /\ FundedByOne'
  <2>1. corpAlone /\ SeenIsStored /\ FundedByOne
    BY <1>2, <1>8, AloneIsOne DEF CorpInv
  <2>2. FundedByOne'
    BY <1>1, <2>1 DEF FundedByOne, FundedAsBooked
  <2>3. \A o \in Hand : corpRequest'[o] # Corporate!Idle =>
           o = r /\ succeeds /\ corpRequest'[o] = [q EXCEPT !.step = "book"]
    BY <1>1, <1>3, <2>1 DEF SeenIsStored
  <2>4. LET b == [q EXCEPT !.step = "book"]
        IN  /\ b.seen = q.seen /\ b.campaign = q.campaign /\ b.full = q.full
            /\ b.paid = q.paid /\ b.amount = q.amount
    BY <1>1 DEF SponsorRequests
  <2>5. /\ q.seen = corpCampaigns[q.campaign]
        /\ q.seen.status = "LIVE" /\ q.seen.raised < TuitionOf[q.campaign]
        /\ q.full <=> q.paid >= TuitionOf[q.campaign] - q.seen.raised
        /\ q.amount = IF q.full THEN TuitionOf[q.campaign] - q.seen.raised ELSE q.paid
    BY <1>1, <2>1 DEF SeenIsStored
  <2>6. SeenIsStored'
    <3> SUFFICES ASSUME NEW x \in Hand, corpRequest'[x] # Corporate!Idle
                 PROVE  /\ \A o \in Hand : corpRequest'[o] # Corporate!Idle => o = x
                        /\ corpRequest'[x].seen = corpCampaigns[corpRequest'[x].campaign]
                        /\ corpRequest'[x].seen.status = "LIVE"
                        /\ corpRequest'[x].seen.raised < TuitionOf[corpRequest'[x].campaign]
                        /\ corpRequest'[x].full <=> corpRequest'[x].paid >=
                              TuitionOf[corpRequest'[x].campaign] - corpRequest'[x].seen.raised
                        /\ corpRequest'[x].amount = IF corpRequest'[x].full
                              THEN TuitionOf[corpRequest'[x].campaign] - corpRequest'[x].seen.raised
                              ELSE corpRequest'[x].paid
      BY <1>1 DEF SeenIsStored
    <3>1. \A o \in Hand : corpRequest'[o] # Corporate!Idle => o = x
      BY <2>3
    <3>2. /\ corpRequest'[x].seen = q.seen /\ corpRequest'[x].campaign = q.campaign
          /\ corpRequest'[x].full = q.full /\ corpRequest'[x].paid = q.paid
          /\ corpRequest'[x].amount = q.amount
      BY <2>3, <2>4
    <3> QED BY <2>5, <3>1, <3>2
  <2> QED BY <2>2, <2>6
<1> QED BY <1>6, <1>7, <1>8 DEF CorpInv

\* What is on its way is booked, for the campaign as it is if requests do not overlap.
LEMMA BookStep ==
    ASSUME CorpInv, NEW r \in Hand, Corporate!Book(r)
    PROVE  CorpInv'
<1> PICK q : q = corpRequest[r]
  OBVIOUS
<1> PICK rows : rows = corpSponsorships
  OBVIOUS
<1> PICK more : more = corpSponsorships'
  OBVIOUS
<1> PICK tip : tip = q.paid - q.amount
  OBVIOUS
<1> PICK raised : raised = q.seen.raised + q.amount
  OBVIOUS
<1>row. PICK row : row = [company |-> q.company, campaign |-> q.campaign, amount |-> q.amount,
                      tip |-> tip, full |-> q.full, kind |-> q.kind, type |-> q.type,
                      vat |-> Corporate!Vat(q.amount, q.type),
                      invoice |-> IF q.card THEN "PAID" ELSE "PENDING"]
  OBVIOUS
<1>camp. PICK camp : camp = [raised |-> raised, tips |-> q.seen.tips + tip,
                        status |-> IF raised >= TuitionOf[q.campaign] THEN "FUNDED"
                                   ELSE corpCampaigns[q.campaign].status]
  OBVIOUS
<1>1. /\ q.step = "book" /\ q # Corporate!Idle /\ q \in SponsorRequests
      /\ q.id \in Sponsorship \ DOMAIN rows
      /\ UNCHANGED <<corpProfiles, corpCharged>>
  BY DEF Corporate!Book, CorpInv, CorpTypes, Corporate!Idle, SponsorRequests
<1>2. /\ more = [s \in DOMAIN rows \cup {q.id} |-> IF s = q.id THEN row ELSE rows[s]]
      /\ corpCampaigns' = [corpCampaigns EXCEPT ![q.campaign] = camp]
      /\ Corporate!Continue(r, Corporate!Idle)
  <2>1. /\ more = [s \in DOMAIN rows \cup {q.id} |-> IF s = q.id THEN row ELSE rows[s]]
        /\ Corporate!Continue(r, Corporate!Idle)
    BY <1>row DEF Corporate!Book
  <2>2. corpCampaigns' = [corpCampaigns EXCEPT ![q.campaign] = camp]
    BY CorporateConstants, <1>1, <1>camp DEF Corporate!Book, CorpInv, CorpTypes
  <2> QED BY <2>1, <2>2
<1>3. /\ corpRequest' = [corpRequest EXCEPT ![r] = Corporate!Idle]
      /\ corpRequest'[r] = Corporate!Idle
      /\ \A o \in Hand \ {r} : corpRequest'[o] = corpRequest[o]
      /\ corpAlone' \in BOOLEAN
  BY <1>2 DEF Corporate!Continue, CorpInv, CorpTypes
<1>4. /\ q.paid \in Nat /\ q.amount \in Nat /\ q.amount <= q.paid
      /\ q.company \in Company /\ q.campaign \in Sponsored
      /\ q.seen \in CampaignRows /\ q.full \in BOOLEAN
  BY <1>1 DEF SponsorRequests
<1>5. tip \in Nat /\ raised \in Nat /\ q.seen.tips + tip \in Nat
  BY <1>4 DEF CampaignRows
<1>6. row \in SponsorshipRows /\ row.amount = q.amount /\ row.tip = tip
      /\ row.company = q.company /\ row.campaign = q.campaign /\ row.full = q.full
  <2>1. Corporate!Vat(q.amount, q.type) \in Nat
    BY <1>4 DEF Corporate!Vat, Corporate!RoundDiv
  <2> QED BY <1>1, <1>4, <1>5, <1>row, <2>1 DEF SponsorshipRows, SponsorRequests
<1>7. camp \in CampaignRows
  BY <1>4, <1>5, <1>camp DEF CampaignRows, CorpInv, CorpTypes
<1>8. rows \in [DOMAIN rows -> SponsorshipRows] /\ DOMAIN rows \subseteq Sponsorship
  BY DEF CorpInv, CorpTypes
<1>9. /\ DOMAIN more = DOMAIN rows \cup {q.id} /\ more[q.id] = row
      /\ \A s \in DOMAIN rows : more[s] = rows[s]
  BY <1>1, <1>2
<1>10. CorpTypes'
  <2>1. more \in [DOMAIN more -> SponsorshipRows] /\ DOMAIN more \subseteq Sponsorship
    BY <1>1, <1>2, <1>6, <1>8, <1>9
  <2>2. corpCampaigns' \in [Sponsored -> CampaignRows]
    BY <1>2, <1>7 DEF CorpInv, CorpTypes
  <2> QED BY <1>1, <1>3, <2>1, <2>2 DEF CorpInv, CorpTypes
<1>11. ASSUME NEW S \in SUBSET DOMAIN rows, NEW field \in {"amount", "tip"}
       PROVE  /\ SumIn(more, S, field) = SumIn(rows, S, field)
              /\ SumIn(more, S \cup {q.id}, field) = SumIn(rows, S, field) + row[field]
              /\ SumIn(rows, S, field) \in Int
  <2>1. \A s \in S : more[s] = rows[s] /\ rows[s][field] \in Nat
    BY <1>8, <1>9 DEF SponsorshipRows
  <2>2. /\ q.id \in Sponsorship /\ q.id \notin S /\ S \in SUBSET Sponsorship
        /\ more[q.id] = row /\ row[field] \in Nat
    BY <1>1, <1>6, <1>8, <1>9 DEF SponsorshipRows
  <2>3. SumIn(more, S, field) = SumIn(rows, S, field)
    BY <2>1, RowsKept
  <2>4. SumIn(more, S \cup {q.id}, field) = SumIn(rows, S, field) + more[q.id][field]
    <3>1. OneMoreRow(rows, more, S, q.id, field)
      BY <2>1, <2>2 DEF OneMoreRow
    <3> QED BY <3>1, RowAdded
  <2>5. SumIn(rows, S, field) \in Int
    BY RowsAreNumbers DEF CorpInv
  <2> QED BY <2>2, <2>3, <2>4, <2>5
<1>12. PaidIsBooked'
  <2> SUFFICES ASSUME NEW x \in Company
               PROVE  corpCharged[x] = BookedIn(more, x, "amount") + BookedIn(more, x, "tip")
                         + PaidOf(corpRequest', OnItsWay(corpRequest', x))
    BY <1>1 DEF PaidIsBooked
  <2>R. PICK R : R = OnItsWay(corpRequest', x)
    OBVIOUS
  <2> PICK S : S = {s \in DOMAIN rows : rows[s].company = x}
    OBVIOUS
  <2>1. r \notin R /\ R \in SUBSET Hand
    BY <1>3, <2>R DEF OnItsWay, Corporate!Idle
  <2>2. R \subseteq OnItsWay(corpRequest, x) /\ \A o \in R : corpRequest'[o] = corpRequest[o]
    BY <1>3, <2>1, <2>R DEF OnItsWay
  <2>3. \A o \in R : corpRequest'[o].paid \in Nat
    BY <2>2, OnItsWayIsNumber DEF CorpInv
  <2>4. corpCharged[x] = SumIn(rows, S, "amount") + SumIn(rows, S, "tip")
                         + PaidOf(corpRequest, OnItsWay(corpRequest, x))
    BY DEF CorpInv, PaidIsBooked, BookedIn
  <2>5. S \in SUBSET DOMAIN rows
    OBVIOUS
  <2>6. CASE q.company = x
    <3>1. OnItsWay(corpRequest, x) = R \cup {r}
      BY <1>1, <1>3, <2>6, <2>R DEF OnItsWay, Corporate!Idle
    <3>2. PaidOf(corpRequest, R \cup {r}) = PaidOf(corpRequest', R) + corpRequest[r].paid
          /\ PaidOf(corpRequest', R) \in Nat
      <4>old. PICK old : old = corpRequest'
        OBVIOUS
      <4>new. PICK new : new = corpRequest
        OBVIOUS
      <4>1. r \in Hand \ R /\ new[r].paid \in Nat
        BY <1>4, <2>1, <4>new
      <4>2. \A o \in R : old[o].paid \in Nat /\ new[o] = old[o]
        BY <2>2, <2>3, <4>old, <4>new
      <4>3. OneMorePaid(old, new, R, r)
        BY <2>1, <4>1, <4>2 DEF OneMorePaid
      <4>4. PaidOf(new, R \cup {r}) = PaidOf(old, R) + new[r].paid /\ PaidOf(old, R) \in Nat
        BY <4>3, PaidWithOneMore
      <4> QED BY <4>4, <4>old, <4>new
    <3>3. {s \in DOMAIN more : more[s].company = x} = S \cup {q.id}
      BY <1>6, <1>9, <2>6
    <3>4. /\ BookedIn(more, x, "amount") = SumIn(rows, S, "amount") + q.amount
          /\ BookedIn(more, x, "tip") = SumIn(rows, S, "tip") + tip
          /\ SumIn(rows, S, "amount") \in Int /\ SumIn(rows, S, "tip") \in Int
      BY <1>6, <1>11, <2>5, <3>3 DEF BookedIn
    <3>5. q.amount + tip = q.paid
      BY <1>4
    <3> QED BY <1>4, <1>5, <2>4, <2>R, <3>1, <3>2, <3>4, <3>5
  <2>7. CASE q.company # x
    <3>1. OnItsWay(corpRequest, x) = R
      BY <1>1, <1>3, <2>7, <2>R DEF OnItsWay, Corporate!Idle
    <3>2. [o \in R |-> corpRequest'[o].paid] = [o \in R |-> corpRequest[o].paid]
      BY <2>2
    <3>3. PaidOf(corpRequest', R) = PaidOf(corpRequest, R)
      BY <3>2 DEF PaidOf
    <3>4. {s \in DOMAIN more : more[s].company = x} = S
      BY <1>6, <1>9, <2>7
    <3>5. /\ BookedIn(more, x, "amount") = SumIn(rows, S, "amount")
          /\ BookedIn(more, x, "tip") = SumIn(rows, S, "tip")
      BY <1>11, <2>5, <3>4 DEF BookedIn
    <3> QED BY <2>4, <2>R, <3>1, <3>3, <3>5
  <2> QED BY <2>6, <2>7
<1>13. ASSUME corpAlone' PROVE SeenIsStored' /\ FundedByOne'
  <2>1. corpAlone /\ SeenIsStored /\ FundedByOne
    BY <1>2, <1>13, AloneIsOne DEF CorpInv
  <2>2. SeenIsStored'
    BY <1>1, <1>3, <2>1 DEF SeenIsStored
  <2> PICK goal : goal = TuitionOf[q.campaign]
    OBVIOUS
  <2>3. /\ q.seen = corpCampaigns[q.campaign]
        /\ q.seen.status = "LIVE" /\ q.seen.raised < goal
        /\ q.full <=> q.paid >= goal - q.seen.raised
        /\ q.amount = IF q.full THEN goal - q.seen.raised ELSE q.paid
        /\ goal \in Nat /\ q.seen.raised \in Nat
    BY <1>1, <1>4, <2>1, CorporateConstants DEF SeenIsStored, CampaignRows
  <2>4. /\ raised <= goal
        /\ q.full <=> raised = goal
        /\ camp.raised = raised
        /\ camp.status = "FUNDED" <=> q.full
    <3>1. raised <= goal /\ (q.full <=> raised = goal)
      BY <1>4, <2>3
    <3>2. camp.raised = raised
      BY <1>camp
    <3>3. camp.status = IF raised >= goal THEN "FUNDED" ELSE "LIVE"
      BY <2>3, <1>camp
    <3> QED BY <1>5, <2>3, <3>1, <3>2, <3>3
  <2>5. FundedByOne'
    <3> SUFFICES ASSUME NEW c \in Sponsored
                 PROVE
        /\ corpCampaigns'[c].raised <= TuitionOf[c]
        /\ corpCampaigns'[c].status = "FUNDED" <=> corpCampaigns'[c].raised = TuitionOf[c]
        /\ corpCampaigns'[c].status = "FUNDED" <=>
              \E s \in DOMAIN more : more[s].campaign = c /\ more[s].full
        /\ AtMostOneFull(more, c)
        /\ corpCampaigns'[c].raised = RaisedOf(more, c)
      BY DEF FundedByOne, FundedAsBooked
    <3> PICK S : S = {s \in DOMAIN rows : rows[s].campaign = c}
      OBVIOUS
    <3>1. /\ corpCampaigns[c].raised <= TuitionOf[c]
          /\ corpCampaigns[c].status = "FUNDED" <=> corpCampaigns[c].raised = TuitionOf[c]
          /\ corpCampaigns[c].status = "FUNDED" <=>
                \E s \in DOMAIN rows : rows[s].campaign = c /\ rows[s].full
          /\ AtMostOneFull(rows, c)
          /\ corpCampaigns[c].raised = SumIn(rows, S, "amount")
      <4>1. FundedAsBooked(corpCampaigns, rows, c)
        BY <2>1 DEF FundedByOne
      <4>2. RaisedOf(rows, c) = SumIn(rows, S, "amount")
        BY DEF RaisedOf
      <4> QED BY <4>1, <4>2 DEF FundedAsBooked
    <3>2. S \in SUBSET DOMAIN rows
      OBVIOUS
    <3>3. CASE c = q.campaign
      <4>1. corpCampaigns'[c] = camp
        BY <1>2, <1>4, <3>3 DEF CorpInv, CorpTypes
      <4>2. \A s \in DOMAIN rows : rows[s].campaign = c => ~rows[s].full
        BY <2>3, <3>1, <3>3
      <4>3. \A s \in DOMAIN more : more[s].campaign = c /\ more[s].full <=> s = q.id /\ q.full
        BY <1>1, <1>6, <1>9, <3>3, <4>2
      <4>4. {s \in DOMAIN more : more[s].campaign = c} = S \cup {q.id}
        BY <1>6, <1>9, <3>3
      <4>5. SumIn(more, S \cup {q.id}, "amount") = SumIn(rows, S, "amount") + q.amount
        BY <1>6, <1>11, <3>2
      <4>6. raised = SumIn(rows, S, "amount") + q.amount
        BY <2>3, <3>1, <3>3
      <4>7. q.id \in DOMAIN more
        BY <1>9
      <4>8. /\ corpCampaigns'[c].raised = raised
            /\ corpCampaigns'[c].status = "FUNDED" <=> q.full
        BY <2>4, <4>1
      <4>9. RaisedOf(more, c) = raised
        BY <4>4, <4>5, <4>6 DEF RaisedOf
      <4>10. raised <= TuitionOf[c] /\ (q.full <=> raised = TuitionOf[c])
        BY <2>4, <3>3
      <4>11. (\E s \in DOMAIN more : more[s].campaign = c /\ more[s].full) <=> q.full
        BY <4>3, <4>7
      <4>12. AtMostOneFull(more, c)
        BY <4>3 DEF AtMostOneFull
      <4> QED BY <4>8, <4>9, <4>10, <4>11, <4>12
    <3>4. CASE c # q.campaign
      <4>1. corpCampaigns'[c] = corpCampaigns[c]
        BY <1>2, <3>4 DEF CorpInv, CorpTypes
      <4>2. \A s \in DOMAIN more : more[s].campaign = c <=> s \in S
        BY <1>1, <1>6, <1>9, <3>4
      <4>3. \A s \in S : more[s] = rows[s]
        BY <1>9
      <4>4. {s \in DOMAIN more : more[s].campaign = c} = S
        BY <1>9, <4>2
      <4>5. SumIn(more, S, "amount") = SumIn(rows, S, "amount")
        BY <1>11, <3>2
      <4>6. \A s \in DOMAIN more : more[s].campaign = c =>
               s \in DOMAIN rows /\ rows[s].campaign = c /\ more[s].full = rows[s].full
        BY <4>2, <4>3
      <4>7. \A s \in DOMAIN rows : s \in DOMAIN more /\ more[s] = rows[s]
        BY <1>9
      <4>8. (\E s \in DOMAIN more : more[s].campaign = c /\ more[s].full)
            <=> \E s \in DOMAIN rows : rows[s].campaign = c /\ rows[s].full
        BY <4>6, <4>7
      <4>9. AtMostOneFull(more, c)
        BY <3>1, <4>6 DEF AtMostOneFull
      <4>10. RaisedOf(more, c) = SumIn(rows, S, "amount")
        BY <4>4, <4>5 DEF RaisedOf
      <4> QED BY <3>1, <4>1, <4>8, <4>9, <4>10
    <3> QED BY <3>3, <3>4
  <2> QED BY <2>2, <2>5
<1> QED BY <1>10, <1>12, <1>13 DEF CorpInv

\* A transfer that comes in changes no amount.
LEMMA SettleStep ==
    ASSUME CorpInv, NEW k \in Company, NEW id \in DOMAIN corpSponsorships,
           Corporate!Settle(k, id)
    PROVE  CorpInv'
<1> PICK rows : rows = corpSponsorships
  OBVIOUS
<1> PICK more : more = corpSponsorships'
  OBVIOUS
<1>1. /\ more = [rows EXCEPT ![id].invoice = "PAID"]
      /\ UNCHANGED <<corpProfiles, corpCampaigns, corpCharged, corpRequest, corpAlone>>
  BY DEF Corporate!Settle
<1>2. rows \in [DOMAIN rows -> SponsorshipRows] /\ DOMAIN rows \subseteq Sponsorship
  BY DEF CorpInv, CorpTypes
<1>3. DOMAIN more = DOMAIN rows /\ more \in [DOMAIN rows -> SponsorshipRows]
  BY <1>1, <1>2 DEF SponsorshipRows
<1>4. \A s \in DOMAIN rows :
         /\ more[s].company = rows[s].company /\ more[s].campaign = rows[s].campaign
         /\ more[s].amount = rows[s].amount /\ more[s].tip = rows[s].tip
         /\ more[s].full = rows[s].full
  BY <1>1, <1>2 DEF SponsorshipRows
<1>5. ASSUME NEW S \in SUBSET DOMAIN rows
      PROVE  /\ SumIn(more, S, "amount") = SumIn(rows, S, "amount")
             /\ SumIn(more, S, "tip") = SumIn(rows, S, "tip")
  <2>1. [s \in S |-> more[s]["amount"]] = [s \in S |-> rows[s]["amount"]]
    BY <1>4
  <2>2. [s \in S |-> more[s]["tip"]] = [s \in S |-> rows[s]["tip"]]
    BY <1>4
  <2> QED BY <2>1, <2>2 DEF SumIn
<1>6. CorpTypes'
  BY <1>1, <1>2, <1>3 DEF CorpInv, CorpTypes
<1>7. PaidIsBooked'
  <2>1. \A k1 \in Company : {s \in DOMAIN more : more[s].company = k1}
                            = {s \in DOMAIN rows : rows[s].company = k1}
    BY <1>3, <1>4
  <2>2. \A k1 \in Company : /\ BookedIn(more, k1, "amount") = BookedIn(rows, k1, "amount")
                            /\ BookedIn(more, k1, "tip") = BookedIn(rows, k1, "tip")
    BY <1>5, <2>1 DEF BookedIn
  <2>3. PaidIsBooked
    BY DEF CorpInv
  <2> QED BY <1>1, <2>2, <2>3 DEF PaidIsBooked
<1>8. ASSUME corpAlone' PROVE SeenIsStored' /\ FundedByOne'
  <2>1. SeenIsStored /\ FundedByOne
    BY <1>1, <1>8 DEF CorpInv
  <2>2. SeenIsStored'
    BY <1>1, <2>1 DEF SeenIsStored
  <2>3. \A c \in Sponsored : {s \in DOMAIN more : more[s].campaign = c}
                             = {s \in DOMAIN rows : rows[s].campaign = c}
    BY <1>3, <1>4
  <2>4. \A c \in Sponsored : SumIn(more, {s \in DOMAIN more : more[s].campaign = c}, "amount")
           = SumIn(rows, {s \in DOMAIN rows : rows[s].campaign = c}, "amount")
    BY <1>5, <2>3
  <2>5. \A c \in Sponsored : RaisedOf(more, c) = RaisedOf(rows, c)
    BY <2>4 DEF RaisedOf
  <2>6. \A c \in Sponsored : AtMostOneFull(rows, c) => AtMostOneFull(more, c)
    BY <1>3, <1>4 DEF AtMostOneFull
  <2>f. \A c \in Sponsored : (\E s \in DOMAIN more : more[s].campaign = c /\ more[s].full)
                             <=> \E s \in DOMAIN rows : rows[s].campaign = c /\ rows[s].full
    BY <1>3, <1>4
  <2>7. ASSUME NEW c \in Sponsored PROVE FundedAsBooked(corpCampaigns, more, c)
    <3>1. FundedAsBooked(corpCampaigns, rows, c)
      BY <2>1 DEF FundedByOne
    <3>2. AtMostOneFull(rows, c)
      BY <3>1 DEF FundedAsBooked
    <3>3. AtMostOneFull(more, c) /\ RaisedOf(more, c) = RaisedOf(rows, c)
      BY <3>2, <2>5, <2>6
    <3>4. (\E s \in DOMAIN more : more[s].campaign = c /\ more[s].full)
          <=> \E s \in DOMAIN rows : rows[s].campaign = c /\ rows[s].full
      BY <2>f
    <3> QED BY <3>1, <3>3, <3>4 DEF FundedAsBooked
  <2>8. FundedByOne'
    BY <1>1, <2>7 DEF FundedByOne
  <2> QED BY <2>2, <2>8
<1> QED BY <1>6, <1>7, <1>8 DEF CorpInv

\* A sum over a set of sponsorships is the sum of what there is for each campaign.
LEMMA SumByCampaign ==
    ASSUME CorpTypes, NEW S \in SUBSET DOMAIN corpSponsorships, NEW perCampaign,
           perCampaign = [c \in {corpSponsorships[s].campaign : s \in S} |->
                SumIn(corpSponsorships, {s \in S : corpSponsorships[s].campaign = c}, "amount")]
    PROVE  Total(perCampaign, DOMAIN perCampaign) = SumIn(corpSponsorships, S, "amount")
<1>c. PICK c : c = [s \in S |-> corpSponsorships[s].campaign]
  OBVIOUS
<1>g. PICK g : g = [s \in S |-> corpSponsorships[s].amount]
  OBVIOUS
<1>C. PICK C : C = DOMAIN perCampaign
  OBVIOUS
<1>1. C = {c[s] : s \in S} /\ \A s \in S : c[s] = corpSponsorships[s].campaign
  BY <1>c, <1>C
<1>2. IsFiniteSet(S) /\ \A s \in S : corpSponsorships[s].amount \in Nat
  BY RowsAreNumbers
<1>3. IsFiniteSet(C)
  <2>1. c \in Surjection(S, C)
    BY <1>1, <1>c DEF Surjection
  <2> QED BY <1>2, <2>1, FS_Surjection
<1>4. c \in [S -> C] /\ \A s \in S : g[s] \in Int
  BY <1>1, <1>2, <1>c, <1>g
<1>5. \A k \in C : \E T \in SUBSET S :
         (\A s \in S : s \in T <=> c[s] = k) /\ perCampaign[k] = Total(g, T)
  <2> SUFFICES ASSUME NEW k \in C
               PROVE  \E T \in SUBSET S :
                         (\A s \in S : s \in T <=> c[s] = k) /\ perCampaign[k] = Total(g, T)
    OBVIOUS
  <2>T. PICK T : T = {s \in S : c[s] = k}
    OBVIOUS
  <2>f. PICK f : f = [s \in T |-> corpSponsorships[s].amount]
    OBVIOUS
  <2>1. T = {s \in S : corpSponsorships[s].campaign = k}
    BY <1>1, <2>T
  <2>2. perCampaign[k] = Total(f, T)
    BY <1>C, <2>1, <2>f DEF SumIn
  <2>3. IsFiniteSet(T) /\ \A s \in T : f[s] = g[s]
    BY <1>2, <1>g, <2>T, <2>f, FS_Subset
  <2>4. perCampaign[k] = Total(g, T)
    BY <2>2, <2>3, TotalsAgree
  <2> QED BY <2>4, <2>T
<1>6. Total(perCampaign, C) = Total(g, S)
  <2>1. InClasses(g, perCampaign, S, C, c)
    BY <1>2, <1>3, <1>4, <1>5 DEF InClasses
  <2> QED BY <2>1, TotalOfClasses
<1> QED BY <1>6, <1>C, <1>g DEF SumIn

\* What companies see adds up.
LEMMA CompaniesSeeTheSame == CorpTypes => Corporate!ReportsAgree
<1> SUFFICES ASSUME CorpTypes, NEW k \in Company
             PROVE  LET i == Corporate!Impact(k)
                        total == Corporate!EsgMetrics(k).total
                    IN  /\ total = Corporate!SumOver(DOMAIN i.campaigns, i.campaigns)
                        /\ total = Corporate!SumOver(Corporate!Own(k),
                              [s \in Corporate!Own(k) |-> Corporate!Receipt(k, s).amount])
                        /\ total = Corporate!SumOver(Corporate!Own(k),
                              [s \in Corporate!Own(k) |-> Corporate!InvoiceDoc(k, s).net])
                        /\ \A s \in Corporate!Own(k) :
                              Corporate!InvoiceDoc(k, s).gross - Corporate!InvoiceDoc(k, s).vat
                              = Corporate!InvoiceDoc(k, s).net
  BY DEF Corporate!ReportsAgree
<1>o. PICK own : own = Corporate!Own(k)
  OBVIOUS
<1>1. own \in SUBSET DOMAIN corpSponsorships
  BY <1>o DEF Corporate!Own
<1>2. Corporate!EsgMetrics(k).total = SumIn(corpSponsorships, own, "amount")
  BY <1>o, CorporateSums DEF Corporate!EsgMetrics
<1>i. PICK i : i = Corporate!Impact(k).campaigns
  OBVIOUS
<1>3. i = [c \in {corpSponsorships[s].campaign : s \in own} |->
              SumIn(corpSponsorships, {s \in own : corpSponsorships[s].campaign = c}, "amount")]
  BY <1>o, <1>i, CorporateSums DEF Corporate!Impact
<1>4. Total(i, DOMAIN i) = SumIn(corpSponsorships, own, "amount")
  BY <1>1, <1>3, SumByCampaign
<1>5. Corporate!SumOver(DOMAIN i, i) = SumIn(corpSponsorships, own, "amount")
  BY <1>4, CorporateSums
<1>6. /\ Corporate!SumOver(own, [s \in own |-> Corporate!Receipt(k, s).amount])
           = SumIn(corpSponsorships, own, "amount")
      /\ Corporate!SumOver(own, [s \in own |-> Corporate!InvoiceDoc(k, s).net])
           = SumIn(corpSponsorships, own, "amount")
  BY CorporateSums DEF SumIn, Corporate!Receipt, Corporate!InvoiceDoc
<1>7. \A s \in own : Corporate!InvoiceDoc(k, s).gross - Corporate!InvoiceDoc(k, s).vat
                     = Corporate!InvoiceDoc(k, s).net
  <2>1. \A s \in own : corpSponsorships[s].amount \in Nat /\ corpSponsorships[s].vat \in Nat
    BY <1>1 DEF CorpTypes, SponsorshipRows
  <2> QED BY <2>1 DEF Corporate!InvoiceDoc
<1> QED BY <1>2, <1>5, <1>6, <1>7, <1>o, <1>i

\* One sponsor of what was missing.
LEMMA OneSponsorFunds == CorpTypes /\ FundedByOne => Corporate!FullTuitionFunds
<1> SUFFICES ASSUME CorpTypes, FundedByOne, NEW c \in Sponsored
             PROVE
        LET here == {s \in DOMAIN corpSponsorships : corpSponsorships[s].campaign = c}
            full == {s \in here : corpSponsorships[s].full}
        IN  /\ Corporate!Cardinality(full) <= 1
            /\ corpCampaigns[c].status = "FUNDED" <=> full # {}
            /\ corpCampaigns[c].raised = Corporate!SumOf(here, "amount")
            /\ corpCampaigns[c].raised <= TuitionOf[c]
  BY DEF Corporate!FullTuitionFunds
<1> PICK full : full = {s \in DOMAIN corpSponsorships :
                          corpSponsorships[s].campaign = c /\ corpSponsorships[s].full}
  OBVIOUS
<1>1. \A s, t \in full : s = t
  BY DEF FundedByOne, FundedAsBooked, AtMostOneFull
<1>2. Cardinality(full) <= 1
  <2>1. CASE full = {}
    <3>1. Cardinality(full) = 0
      BY <2>1, FS_EmptySet, Zenon
    <3> QED BY <3>1
  <2>2. ASSUME NEW s \in full PROVE Cardinality(full) <= 1
    <3>1. full = {s}
      BY <1>1
    <3>2. Cardinality({s}) = 1
      BY FS_Singleton
    <3>3. Cardinality(full) = 1
      BY <3>1, <3>2, Zenon
    <3> QED BY <3>3
  <2> QED BY <2>1, <2>2
<1>3. Corporate!Cardinality(full) <= 1
  BY <1>2 DEF Cardinality, Corporate!Cardinality
<1>4. corpCampaigns[c].status = "FUNDED" <=> full # {}
  BY DEF FundedByOne, FundedAsBooked
<1> PICK here : here = {s \in DOMAIN corpSponsorships : corpSponsorships[s].campaign = c}
  OBVIOUS
<1>5. corpCampaigns[c].raised = Corporate!SumOf(here, "amount")
      /\ corpCampaigns[c].raised <= TuitionOf[c]
  BY CorporateSums DEF FundedByOne, FundedAsBooked, RaisedOf
<1>6. full = {s \in here : corpSponsorships[s].full}
  OBVIOUS
<1> QED BY <1>3, <1>4, <1>5, <1>6

\* Companies have paid what is booked for them and what is being booked, what they
\* look at adds up to it, and while requests do not overlap a campaign is funded by
\* one sponsor of what was missing (sponsor, impact, computeEsgMetrics, receipt).
THEOREM SponsorsAlwaysGetWhatTheyPay == AllSpec => []SponsorsGetWhatTheyPay
<1>1. AllInit => CorpInv
  <2> SUFFICES ASSUME Corporate!Init PROVE CorpInv
    BY DEF AllInit
  <2>1. /\ corpProfiles = {} /\ corpAlone = TRUE
        /\ corpCampaigns = [c \in Sponsored |-> [raised |-> 0, tips |-> 0, status |-> "LIVE"]]
        /\ DOMAIN corpSponsorships = {} /\ corpSponsorships = <<>>
        /\ corpCharged = [k \in Company |-> 0]
        /\ corpRequest = [r \in Hand |-> Corporate!Idle]
    BY DEF Corporate!Init
  <2>2. CorpTypes
    BY <2>1 DEF CorpTypes, CampaignRows
  <2>3. \A field, T : T = {} => SumIn(corpSponsorships, T, field) = 0
    BY TotalOfNone DEF SumIn
  <2>4. PaidIsBooked
    <3> SUFFICES ASSUME NEW k \in Company
                 PROVE  0 = BookedIn(corpSponsorships, k, "amount")
                            + BookedIn(corpSponsorships, k, "tip")
                            + PaidOf(corpRequest, OnItsWay(corpRequest, k))
      BY <2>1 DEF PaidIsBooked
    <3>1. OnItsWay(corpRequest, k) = {}
      BY <2>1 DEF OnItsWay, Corporate!Idle
    <3>2. PaidOf(corpRequest, {}) = 0
      BY TotalOfNone DEF PaidOf
    <3>3. BookedIn(corpSponsorships, k, "amount") = 0 /\ BookedIn(corpSponsorships, k, "tip") = 0
      BY <2>1, <2>3 DEF BookedIn
    <3> QED BY <3>1, <3>2, <3>3
  <2>5. SeenIsStored
    BY <2>1 DEF SeenIsStored
  <2>6. FundedByOne
    BY <2>1, <2>3, CorporateConstants DEF FundedByOne, FundedAsBooked, RaisedOf, AtMostOneFull
  <2> QED BY <2>2, <2>4, <2>5, <2>6 DEF CorpInv
<1>2. CorpInv /\ [Corporate!Next]_(Corporate!vars) => CorpInv'
  <2> SUFFICES ASSUME CorpInv, [Corporate!Next]_(Corporate!vars) PROVE CorpInv'
    OBVIOUS
  <2>1. CASE UNCHANGED Corporate!vars
    BY <2>1
    DEF Corporate!vars, CorpInv, CorpTypes, PaidIsBooked, SeenIsStored, FundedByOne,
        FundedAsBooked
  <2>2. ASSUME NEW r \in Hand, Corporate!SponsorStep(r) PROVE CorpInv'
    <3>1. ASSUME NEW s \in Sponsorship \ DOMAIN corpSponsorships, NEW k \in Company,
                 NEW c \in Sponsored, NEW tier \in Corporate!Tiers, NEW custom \in CustomAmount,
                 NEW card \in BOOLEAN, NEW w \in Wishes,
                 Corporate!Sponsor(r, s, k, c, tier, custom, card, w[1], w[2])
          PROVE  CorpInv'
      BY <3>1, SponsorStep
    <3> QED BY <2>2, <3>1, ChargeStep, BookStep DEF Corporate!SponsorStep
  <2>3. CASE Corporate!CompanyStep
    BY <2>3, ProfilesDoNotMatter, SettleStep DEF Corporate!CompanyStep
  <2> QED BY <2>1, <2>2, <2>3 DEF Corporate!Next
<1>3. CorpInv => SponsorsGetWhatTheyPay
  <2> SUFFICES ASSUME CorpInv PROVE SponsorsGetWhatTheyPay
    OBVIOUS
  <2>1. Corporate!TypeOK
    <3>1. \A r \in Hand : corpRequest[r].step \in {"idle", "charge", "book"}
      BY DEF CorpInv, CorpTypes, SponsorRequests, Corporate!Idle
    <3> QED BY <3>1 DEF CorpInv, CorpTypes, Corporate!TypeOK, CampaignRows, SponsorshipRows
  <2>2. Corporate!ChargesAreBooked
    BY CorporateSums DEF CorpInv, PaidIsBooked, Corporate!ChargesAreBooked, Corporate!Own,
       BookedIn, OnItsWay, PaidOf
  <2> QED BY <2>1, <2>2, CompaniesSeeTheSame, OneSponsorFunds DEF CorpInv, SponsorsGetWhatTheyPay
<1> QED BY <1>1, <1>2, <1>3, CorporateSteps, PTL DEF AllSpec
-----------------------------------------------------------------------------
(* Matching: while requests do not overlap, what was used of a year is     *)
(* what its claims add up to, and a request has the rest for itself.       *)

\* A step of the whole is one of the matches, or leaves them alone.
LEMMA MatchSteps == [AllNext]_allVars => [Matching!Next]_(Matching!vars)
BY DEF AllNext, OtherParts, allVars, match, Matching!vars

TermRows == [ratio : Nat, cap : Nat, min : Nat, active : BOOLEAN,
             level : {"AUTO_SUBMIT", "PORTAL", "MANUAL"}]

\* The constants of the matches.
LEMMA MatchConstants ==
    /\ GoalOf \in [MatchedCampaign -> Nat \ {0}] /\ AmountOf \in [Donation -> Nat]
    /\ CampaignOf \in [Donation -> MatchedCampaign]
    /\ DonorOf \in [Donation -> Donor \cup {NoProgram}]
    /\ Terms \in [Program -> TermRows]
    /\ NoProgram \notin Donor /\ NoProgram \notin Program /\ MaxYear \in Nat
    /\ IsFiniteSet(Hand) /\ IsFiniteSet(Donation)
BY MoneyAssumption DEF Matching!MatchingAssumption, Matching!IsFiniteSet, IsFiniteSet, TermRows

MatchCampaignRows == [raised : Nat, status : {"ACTIVE", "FUNDED"}]
DonorRows == [employer : Program \cup {NoProgram}, year : 0 .. MaxYear, used : Nat]
MatchRequests ==
    [step : {"claim", "commit"}, donation : Donation, user : Donor \cup {NoProgram},
     program : Program, match : Nat \ {0}, seen : MatchCampaignRows, year : 0 .. MaxYear,
     before : Nat]

\* What is used of a year, and the claims that say so.
UsedOf(rows, u, y) == IF rows[u].year = y THEN rows[u].used ELSE 0
ClaimsOf(rows, u, y) == {d \in DOMAIN rows : rows[d].user = u /\ rows[d].year = y}
SumOfClaims(rows, S) == Total([d \in S |-> rows[d].amount], S)

MatchTypes ==
    /\ matchCampaigns \in [MatchedCampaign -> MatchCampaignRows]
    /\ matchUsers \in [Donor -> DonorRows]
    /\ DOMAIN matchClaims \subseteq Donation
    /\ matchClaims \in [DOMAIN matchClaims -> Matching!Claims]
    /\ matchYear \in 0 .. MaxYear
    /\ matchRequest \in [Hand -> {Matching!Idle} \cup MatchRequests]
    /\ matchAlone \in BOOLEAN

\* The one request knows its campaign as it is, and its match fits what is left.
ClaimFits(q) ==
    /\ q.seen = matchCampaigns[CampaignOf[q.donation]]
    /\ q.match <= GoalOf[CampaignOf[q.donation]] - q.seen.raised
    /\ q.year <= matchYear
    /\ q.user \in Donor =>
          /\ matchUsers[q.user].year <= q.year
          /\ UsedOf(matchUsers, q.user, q.year) + q.match <= Terms[q.program].cap
          /\ q.step = "commit" => q.before = UsedOf(matchUsers, q.user, q.year)
    /\ q.step = "commit" => q.donation \notin DOMAIN matchClaims
OneClaimFits ==
    \A r \in Hand : matchRequest[r] # Matching!Idle =>
        /\ \A o \in Hand : matchRequest[o] # Matching!Idle => o = r
        /\ ClaimFits(matchRequest[r])

\* The claims of the latest year add up to what was used of it, and none is later.
UsedIsSum ==
    \A u \in Donor :
        /\ matchUsers[u].year <= matchYear
        /\ \A d \in DOMAIN matchClaims :
              matchClaims[d].user = u => matchClaims[d].year <= matchUsers[u].year
        /\ matchUsers[u].used
              = SumOfClaims(matchClaims, ClaimsOf(matchClaims, u, matchUsers[u].year))

\* The claims of a year fit one of the programs they were made under.
SumFitsACap ==
    \A u \in Donor, y \in 0 .. MaxYear :
        ClaimsOf(matchClaims, u, y) # {} =>
            \E d \in ClaimsOf(matchClaims, u, y) :
                SumOfClaims(matchClaims, ClaimsOf(matchClaims, u, y))
                    <= Terms[matchClaims[d].program].cap

MatchInv ==
    /\ MatchTypes
    /\ matchAlone => OneClaimFits /\ UsedIsSum /\ SumFitsACap /\ Matching!GoalIsMet

\* The sums and the larger of two numbers.
LEMMA MatchSums ==
    /\ \A u, y : Matching!Claimed(u, y)
                 = SumOfClaims(matchClaims, ClaimsOf(matchClaims, u, y))
    /\ \A u, y : Matching!ClaimedIn(u, y) = ClaimsOf(matchClaims, u, y)
BY DEF Matching!Claimed, Matching!ClaimedIn, Matching!MapThenSumSet, Matching!MapThenFoldSet,
       ClaimsOf, SumOfClaims, Total, MapThenSumSet, MapThenFoldSet

\* The larger and the smaller of two numbers.
LEMMA MatchMaxMin ==
    /\ \A a, b \in Int : Matching!Max({a, b}) = IF a >= b THEN a ELSE b
    /\ \A a, b \in Int : Matching!Min({a, b}) = IF a <= b THEN a ELSE b
BY DEF Matching!Max, Matching!Min

\* What is matched of an amount, from what the year has left of the cap.
MatchOf(amount, ratio, cap, used, left, whole) ==
    /\ amount \in Nat /\ ratio \in Nat /\ cap \in Nat /\ used \in Nat
    /\ left = Matching!Remaining(cap, used) /\ whole = Matching!ComputeMatch(amount, ratio, left)

\* A match is at most what is left of the cap.
LEMMA MatchesFit ==
    ASSUME NEW amount, NEW ratio, NEW cap, NEW used, NEW left, NEW whole,
           MatchOf(amount, ratio, cap, used, left, whole)
    PROVE  /\ left = (IF cap >= used THEN cap - used ELSE 0) /\ left \in Nat
           /\ whole \in Nat /\ whole <= left
<1>0. /\ amount \in Nat /\ ratio \in Nat /\ cap \in Nat /\ used \in Nat
      /\ left = Matching!Remaining(cap, used) /\ whole = Matching!ComputeMatch(amount, ratio, left)
  BY DEF MatchOf
<1>1. left = (IF cap >= used THEN cap - used ELSE 0) /\ left \in Nat
  BY <1>0, MatchMaxMin DEF Matching!Remaining
<1>2. \A n \in Nat : n \div 100 \in Nat
  OBVIOUS
<1>3. amount * ratio \in Nat
  BY <1>0
<1>4. (amount * ratio) \div 100 \in Nat
  BY <1>2, <1>3
<1>5. whole \in Nat /\ whole <= left
  BY <1>0, <1>1, <1>4, MatchMaxMin DEF Matching!ComputeMatch
<1> QED BY <1>1, <1>5

\* A match takes the campaign to its goal at most.
LEMMA MatchesTowardGoal ==
    ASSUME MatchTypes, NEW c \in MatchedCampaign, NEW amount \in Nat
    PROVE  LET m == Matching!TowardGoal(c, amount)
           IN  /\ m \in Nat /\ m <= amount
               /\ m > 0 => m <= GoalOf[c] - matchCampaigns[c].raised
<1> PICK goal : goal = GoalOf[c]
  OBVIOUS
<1> PICK raised : raised = matchCampaigns[c].raised
  OBVIOUS
<1>1. goal \in Nat /\ raised \in Nat
  BY MatchConstants DEF MatchTypes, MatchCampaignRows
<1> QED BY <1>1, MatchMaxMin DEF Matching!TowardGoal

\* What is used of this year is a number.
LEMMA UsedIsNumber ==
    ASSUME MatchTypes
    PROVE  /\ \A u \in Donor : matchUsers[u].used \in Nat
           /\ \A u \in Donor : Matching!UsedThisYear(u) = UsedOf(matchUsers, u, matchYear)
           /\ \A u \in Donor : \A y : UsedOf(matchUsers, u, y) \in Nat
           /\ \A u \in Donor \cup {NoProgram} : Matching!UsedThisYear(u) \in Nat
<1>1. \A u \in Donor : matchUsers[u].used \in Nat
  BY DEF MatchTypes, DonorRows
<1> QED BY <1>1, MatchConstants DEF UsedOf, Matching!UsedThisYear

\* Offers are within what is left, whatever happens.
LEMMA OffersAlwaysFit == MatchTypes => Matching!OffersFit
<1> SUFFICES ASSUME MatchTypes, NEW u \in Donor, NEW p \in Program \cup {NoProgram},
                    NEW d \in Donation, Matching!Offer(p, u, AmountOf[d]).eligible
             PROVE  LET o == Matching!Offer(p, u, AmountOf[d])
                    IN  /\ o.match <= o.remaining
                        /\ o.remaining + Matching!UsedThisYear(u) >= o.cap
  BY DEF Matching!OffersFit
<1> PICK q : q = Matching!ProgramFor(p, u)
  OBVIOUS
<1> PICK used : used = Matching!UsedThisYear(u)
  OBVIOUS
<1> PICK left : left = Matching!Remaining(Terms[q].cap, used)
  OBVIOUS
<1> PICK m : m = Matching!ComputeMatch(AmountOf[d], Terms[q].ratio, left)
  OBVIOUS
<1>1. Matching!Eligible(q, AmountOf[d])
  BY DEF Matching!Offer
<1>2. q \in Program
  BY <1>1, MatchConstants DEF Matching!ProgramFor, Matching!Eligible, MatchTypes, DonorRows
<1>3. Terms[q].cap \in Nat /\ Terms[q].ratio \in Nat /\ AmountOf[d] \in Nat /\ used \in Nat
  BY <1>2, MatchConstants, UsedIsNumber DEF TermRows
<1>4. /\ left = (IF Terms[q].cap >= used THEN Terms[q].cap - used ELSE 0)
      /\ m <= left
  <2>1. MatchOf(AmountOf[d], Terms[q].ratio, Terms[q].cap, used, left, m)
    BY <1>3 DEF MatchOf
  <2> QED BY <2>1, MatchesFit
<1>o. PICK o : o = Matching!Offer(p, u, AmountOf[d])
  OBVIOUS
<1>5. o.match = m /\ o.remaining = left /\ o.cap = Terms[q].cap
  BY <1>1, <1>o DEF Matching!Offer
<1>6. left + used >= Terms[q].cap
  BY <1>3, <1>4
<1>7. o.match <= o.remaining /\ o.remaining + used >= o.cap
  BY <1>4, <1>5, <1>6
<1> QED BY <1>7, <1>o

\* One request more or less that is not idle does not make the others overlap.
LEMMA OneClaimAlone ==
    ASSUME MatchInv, NEW r \in Hand, NEW next, Matching!Continue(r, next), matchAlone'
    PROVE  /\ matchAlone
           /\ \A o, q \in Hand :
                 matchRequest'[o] # Matching!Idle /\ matchRequest'[q] # Matching!Idle => o = q
<1>1. matchAlone
  BY DEF Matching!Continue, MatchInv, MatchTypes
<1> PICK busy : busy = {q \in Hand : matchRequest'[q] # Matching!Idle}
  OBVIOUS
<1>2. Matching!Cardinality(busy) <= 1
  BY DEF Matching!Continue, MatchInv, MatchTypes
<1>3. Cardinality(busy) <= 1
  BY <1>2 DEF Cardinality, Matching!Cardinality
<1>4. IsFiniteSet(busy)
  BY MatchConstants, FS_Subset
<1>5. \A o, q \in busy : o = q
  BY <1>3, <1>4, OneAtMost
<1> QED BY <1>1, <1>5

\* What a request becomes changes no claim, donor or campaign.
LEMMA RequestChanges ==
    ASSUME MatchInv, NEW r \in Hand, NEW next, Matching!Continue(r, next)
    PROVE  /\ matchRequest' = [matchRequest EXCEPT ![r] = next]
           /\ matchRequest'[r] = next
           /\ \A o \in Hand \ {r} : matchRequest'[o] = matchRequest[o]
           /\ matchAlone' \in BOOLEAN
BY DEF Matching!Continue, MatchInv, MatchTypes

\* Another employer changes nothing of what was used.
LEMMA DetectStep ==
    ASSUME MatchInv, NEW r \in Hand, NEW p \in Program, NEW u \in Donor,
           Matching!Detect(r, p, u)
    PROVE  MatchInv'
<1>1. /\ matchUsers' = [matchUsers EXCEPT ![u].employer = p]
      /\ UNCHANGED <<matchCampaigns, matchClaims, matchYear, matchRequest, matchAlone>>
  BY DEF Matching!Detect
<1>2. /\ matchUsers' \in [Donor -> DonorRows]
      /\ \A v \in Donor : /\ matchUsers'[v].year = matchUsers[v].year
                          /\ matchUsers'[v].used = matchUsers[v].used
  BY <1>1 DEF MatchInv, MatchTypes, DonorRows
<1>3. MatchTypes'
  BY <1>1, <1>2 DEF MatchInv, MatchTypes
<1>4. \A v \in Donor : \A y : UsedOf(matchUsers', v, y) = UsedOf(matchUsers, v, y)
  BY <1>2 DEF UsedOf
<1>5. ASSUME matchAlone'
      PROVE  OneClaimFits' /\ UsedIsSum' /\ SumFitsACap' /\ Matching!GoalIsMet'
  <2>1. OneClaimFits /\ UsedIsSum /\ SumFitsACap /\ Matching!GoalIsMet
    BY <1>1, <1>5 DEF MatchInv
  <2>2. UsedIsSum'
    BY <1>1, <1>2, <2>1 DEF UsedIsSum
  <2>3. SumFitsACap' /\ Matching!GoalIsMet'
    BY <1>1, <2>1 DEF SumFitsACap, Matching!GoalIsMet
  <2>4. ASSUME NEW q, q.user \in Donor, ClaimFits(q) PROVE ClaimFits(q)'
    BY <1>1, <1>2, <1>4, <2>4 DEF ClaimFits
  <2>5. ASSUME NEW q, q.user \notin Donor, ClaimFits(q) PROVE ClaimFits(q)'
    BY <1>1, <2>5 DEF ClaimFits
  <2>6. \A q : ClaimFits(q) => ClaimFits(q)'
    BY <2>4, <2>5
  <2>7. OneClaimFits'
    BY <1>1, <2>1, <2>6 DEF OneClaimFits
  <2> QED BY <2>2, <2>3, <2>7
<1> QED BY <1>3, <1>5 DEF MatchInv

\* A new year changes nothing of what was used in the years before it.
LEMMA NewYearStep ==
    ASSUME MatchInv, Matching!NewYear
    PROVE  MatchInv'
<1>1. /\ matchYear' = matchYear + 1 /\ matchYear' \in 0 .. MaxYear
      /\ UNCHANGED <<matchCampaigns, matchUsers, matchClaims, matchRequest, matchAlone>>
  BY MatchConstants DEF Matching!NewYear, MatchInv, MatchTypes
<1>2. MatchTypes'
  BY <1>1 DEF MatchInv, MatchTypes
<1>3. ASSUME matchAlone'
      PROVE  OneClaimFits' /\ UsedIsSum' /\ SumFitsACap' /\ Matching!GoalIsMet'
  <2>1. OneClaimFits /\ UsedIsSum /\ SumFitsACap /\ Matching!GoalIsMet
    BY <1>1, <1>3 DEF MatchInv
  <2>2. SumFitsACap' /\ Matching!GoalIsMet'
    BY <1>1, <2>1 DEF SumFitsACap, Matching!GoalIsMet
  <2>3. matchYear \in Int /\ \A u \in Donor : matchUsers[u].year \in Int
    BY MatchConstants DEF MatchInv, MatchTypes, DonorRows
  <2>4. UsedIsSum'
    BY <1>1, <2>1, <2>3 DEF UsedIsSum
  <2>5. OneClaimFits'
    <3> SUFFICES ASSUME NEW r \in Hand, matchRequest[r] # Matching!Idle
                 PROVE  /\ \A o \in Hand : matchRequest[o] # Matching!Idle => o = r
                        /\ ClaimFits(matchRequest[r])'
      BY <1>1 DEF OneClaimFits
    <3>1. matchRequest[r] \in MatchRequests
      BY DEF MatchInv, MatchTypes
    <3>2. matchRequest[r].year \in Int
      BY <3>1, MatchConstants DEF MatchRequests
    <3> QED BY <1>1, <2>1, <2>3, <3>2 DEF OneClaimFits, ClaimFits
  <2> QED BY <2>2, <2>4, <2>5
<1> QED BY <1>2, <1>3 DEF MatchInv

\* A claim begins with a match that fits what is left of the cap and to the goal.
LEMMA ClaimStep ==
    ASSUME MatchInv, NEW r \in Hand, NEW d \in Donation, NEW p \in Program \cup {NoProgram},
           NEW caller \in Donor \cup {NoProgram}, Matching!Claim(r, d, p, caller)
    PROVE  MatchInv'
<1> PICK u : u = IF caller = NoProgram THEN DonorOf[d] ELSE caller
  OBVIOUS
<1> PICK q : q = Matching!ProgramFor(p, u)
  OBVIOUS
<1> PICK c : c = CampaignOf[d]
  OBVIOUS
<1> PICK used : used = Matching!UsedThisYear(u)
  OBVIOUS
<1> PICK left : left = Matching!Remaining(Terms[q].cap, used)
  OBVIOUS
<1> PICK whole : whole = Matching!ComputeMatch(AmountOf[d], Terms[q].ratio, left)
  OBVIOUS
<1> PICK m : m = Matching!TowardGoal(c, whole)
  OBVIOUS
<1>next. PICK next : next = [step |-> "claim", donation |-> d, user |-> u, program |-> q,
                        match |-> m, seen |-> matchCampaigns[c], year |-> matchYear,
                        before |-> 0]
  OBVIOUS
<1>1. /\ d \notin DOMAIN matchClaims /\ Matching!Eligible(q, AmountOf[d])
      /\ left > 0 /\ m > 0 /\ Matching!Continue(r, next)
      /\ UNCHANGED <<matchCampaigns, matchUsers, matchClaims, matchYear>>
  BY <1>next DEF Matching!Claim
<1>2. u \in Donor \cup {NoProgram} /\ c \in MatchedCampaign
  BY MatchConstants
<1>3. q \in Program
  BY <1>1, <1>2, MatchConstants
  DEF Matching!ProgramFor, Matching!Eligible, MatchInv, MatchTypes, DonorRows
<1>4. Terms[q].cap \in Nat /\ Terms[q].ratio \in Nat /\ AmountOf[d] \in Nat /\ used \in Nat
  BY <1>2, <1>3, MatchConstants, UsedIsNumber DEF TermRows, MatchInv
<1>5. /\ left = (IF Terms[q].cap >= used THEN Terms[q].cap - used ELSE 0)
      /\ whole \in Nat /\ whole <= left
  <2>1. MatchOf(AmountOf[d], Terms[q].ratio, Terms[q].cap, used, left, whole)
    BY <1>4 DEF MatchOf
  <2> QED BY <2>1, MatchesFit
<1>6. m \in Nat /\ m <= whole /\ m <= GoalOf[c] - matchCampaigns[c].raised
  BY <1>1, <1>2, <1>5, MatchesTowardGoal DEF MatchInv
<1>7. used + m <= Terms[q].cap
  BY <1>1, <1>4, <1>5, <1>6
<1>8. matchCampaigns[c] \in MatchCampaignRows /\ matchYear \in 0 .. MaxYear
  BY <1>2 DEF MatchInv, MatchTypes
<1>9. next \in MatchRequests /\ next.step = "claim"
  BY <1>1, <1>2, <1>3, <1>6, <1>8, <1>next DEF MatchRequests
<1>10. MatchTypes'
  BY <1>1, <1>9, RequestChanges DEF MatchInv, MatchTypes
<1>11. ASSUME matchAlone'
       PROVE  OneClaimFits' /\ UsedIsSum' /\ SumFitsACap' /\ Matching!GoalIsMet'
  <2>1. OneClaimFits /\ UsedIsSum /\ SumFitsACap /\ Matching!GoalIsMet
    BY <1>1, <1>11, OneClaimAlone DEF MatchInv
  <2>2. UsedIsSum' /\ SumFitsACap' /\ Matching!GoalIsMet'
    BY <1>1, <2>1 DEF UsedIsSum, SumFitsACap, Matching!GoalIsMet
  <2>3. \A o \in Hand : matchRequest'[o] # Matching!Idle => o = r
    BY <1>1, <1>9, <1>11, OneClaimAlone, RequestChanges DEF Matching!Idle
  <2>4. matchRequest'[r] = next
    BY <1>1, RequestChanges
  <2>5. u \in Donor => /\ matchUsers[u].year <= matchYear
                       /\ UsedOf(matchUsers, u, matchYear) = used
    BY <2>1, UsedIsNumber DEF UsedIsSum, MatchInv
  <2>6. ClaimFits(next)'
    <3>1. /\ next.seen = matchCampaigns[c] /\ next.donation = d /\ next.match = m
          /\ next.year = matchYear /\ next.user = u /\ next.program = q
      BY <1>next
    <3>2. matchYear <= matchYear
      BY <1>8, MatchConstants
    <3> QED BY <1>1, <1>6, <1>7, <1>9, <2>5, <3>1, <3>2 DEF ClaimFits
  <2>7. OneClaimFits'
    BY <2>3, <2>4, <2>6 DEF OneClaimFits
  <2> QED BY <2>2, <2>7
<1> QED BY <1>10, <1>11 DEF MatchInv

\* The transaction of a claim reads what was used, or ends with nothing.
LEMMA BookMatchStep ==
    ASSUME MatchInv, NEW r \in Hand, Matching!BookMatch(r)
    PROVE  MatchInv'
<1> PICK q : q = matchRequest[r]
  OBVIOUS
<1> PICK before : before = IF q.user # NoProgram /\ matchUsers[q.user].year = q.year
                           THEN matchUsers[q.user].used ELSE 0
  OBVIOUS
<1> PICK next : next = IF q.donation \in DOMAIN matchClaims THEN Matching!Idle
                       ELSE [q EXCEPT !.step = "commit", !.before = before]
  OBVIOUS
<1>1. /\ q.step = "claim" /\ q # Matching!Idle /\ q \in MatchRequests
      /\ Matching!Continue(r, next)
      /\ UNCHANGED <<matchCampaigns, matchUsers, matchClaims, matchYear>>
  BY DEF Matching!BookMatch, MatchInv, MatchTypes, Matching!Idle
<1>2. before \in Nat /\ (q.user \in Donor => before = UsedOf(matchUsers, q.user, q.year))
  BY <1>1, MatchConstants, UsedIsNumber DEF MatchRequests, UsedOf, MatchInv
<1>3. next # Matching!Idle =>
         /\ next \in MatchRequests /\ next.before = before /\ next.step = "commit"
         /\ next.donation = q.donation /\ next.user = q.user /\ next.program = q.program
         /\ next.match = q.match /\ next.seen = q.seen /\ next.year = q.year
         /\ q.donation \notin DOMAIN matchClaims
  BY <1>1, <1>2 DEF MatchRequests
<1>4. MatchTypes'
  BY <1>1, <1>3, RequestChanges DEF MatchInv, MatchTypes
<1>5. ASSUME matchAlone'
      PROVE  OneClaimFits' /\ UsedIsSum' /\ SumFitsACap' /\ Matching!GoalIsMet'
  <2>1. OneClaimFits /\ UsedIsSum /\ SumFitsACap /\ Matching!GoalIsMet
    BY <1>1, <1>5, OneClaimAlone DEF MatchInv
  <2>2. UsedIsSum' /\ SumFitsACap' /\ Matching!GoalIsMet'
    BY <1>1, <2>1 DEF UsedIsSum, SumFitsACap, Matching!GoalIsMet
  <2>3. ClaimFits(q)
    BY <1>1, <2>1 DEF OneClaimFits
  <2>4. next # Matching!Idle => ClaimFits(next)'
    BY <1>1, <1>2, <1>3, <2>3 DEF ClaimFits
  <2>5. \A o \in Hand : matchRequest'[o] # Matching!Idle => o = r /\ matchRequest'[o] = next
    BY <1>1, <2>1, RequestChanges DEF OneClaimFits
  <2>6. OneClaimFits'
    BY <2>4, <2>5 DEF OneClaimFits
  <2> QED BY <2>2, <2>6
<1> QED BY <1>4, <1>5 DEF MatchInv

\* Claims are numbers, and one more adds its amount to the claims of its donor and year.
LEMMA ClaimAdded ==
    ASSUME MatchTypes, NEW id \in Donation \ DOMAIN matchClaims,
           NEW more, more[id] \in Matching!Claims,
           \A d \in DOMAIN matchClaims : more[d] = matchClaims[d],
           NEW S \in SUBSET DOMAIN matchClaims
    PROVE  /\ SumOfClaims(matchClaims, S) \in Nat
           /\ SumOfClaims(more, S) = SumOfClaims(matchClaims, S)
           /\ SumOfClaims(more, S \cup {id}) = SumOfClaims(matchClaims, S) + more[id].amount
<1>1. IsFiniteSet(S) /\ id \notin S
  BY MatchConstants, FS_Subset DEF MatchTypes
<1>2. \A d \in S : matchClaims[d].amount \in Nat /\ more[d] = matchClaims[d]
  BY DEF MatchTypes, Matching!Claims
<1>3. more[id].amount \in Nat
  BY DEF Matching!Claims
<1>g. PICK g : g = [d \in S |-> matchClaims[d].amount]
  OBVIOUS
<1>h. PICK h : h = [d \in S \cup {id} |-> more[d].amount]
  OBVIOUS
<1>4. /\ \A d \in S : g[d] \in Int /\ h[d] = g[d]
      /\ h[id] = more[id].amount /\ h[id] \in Int
  BY <1>1, <1>2, <1>3, <1>g, <1>h
<1>5. Total(h, S \cup {id}) = Total(g, S) + h[id]
  BY <1>1, <1>4, TotalWithOneMore
<1>6. \A d \in S : g[d] \in Nat
  BY <1>2, <1>g
<1>7. Total(g, S) \in Nat
  BY <1>1, <1>6, TotalIsNatural
<1>8. [d \in S |-> more[d].amount] = g
  BY <1>2, <1>g
<1> QED BY <1>4, <1>5, <1>7, <1>8, <1>g, <1>h DEF SumOfClaims

\* A claim is booked on the campaign and on the donor.
LEMMA CommitStep ==
    ASSUME MatchInv, NEW r \in Hand, Matching!Commit(r)
    PROVE  MatchInv'
<1> PICK q : q = matchRequest[r]
  OBVIOUS
<1> PICK c : c = CampaignOf[q.donation]
  OBVIOUS
<1>row. PICK row : row = [user |-> q.user, program |-> q.program, amount |-> q.match,
                      year |-> q.year, pdf |-> Terms[q.program].level = "MANUAL"]
  OBVIOUS
<1>donor. PICK donor :
             donor = [employer |-> q.program, year |-> q.year, used |-> q.before + q.match]
  OBVIOUS
<1> PICK more : more = matchClaims'
  OBVIOUS
<1>1. /\ q.step = "commit" /\ q # Matching!Idle /\ q \in MatchRequests
      /\ Matching!Continue(r, Matching!Idle)
      /\ matchUsers' = [u \in Donor |-> IF u = q.user THEN donor ELSE matchUsers[u]]
      /\ more = [d \in DOMAIN matchClaims \cup {q.donation} |->
                    IF d = q.donation THEN row ELSE matchClaims[d]]
      /\ matchYear' = matchYear
  BY <1>row, <1>donor DEF Matching!Commit, MatchInv, MatchTypes, Matching!Idle
<1>2. /\ q.donation \in Donation /\ q.user \in Donor \cup {NoProgram} /\ q.program \in Program
      /\ q.match \in Nat \ {0} /\ q.year \in 0 .. MaxYear /\ q.before \in Nat
      /\ c \in MatchedCampaign /\ q.seen \in MatchCampaignRows
  BY <1>1, MatchConstants DEF MatchRequests
<1>3. matchCampaigns' = [matchCampaigns EXCEPT ![c] =
         [raised |-> matchCampaigns[c].raised + q.match,
          status |-> IF Matching!ReachesGoal(c, q.seen, q.match) THEN "FUNDED"
                     ELSE matchCampaigns[c].status]]
  BY <1>2 DEF Matching!Commit, MatchInv, MatchTypes
<1>4. matchCampaigns' \in [MatchedCampaign -> MatchCampaignRows]
  <2>1. matchCampaigns \in [MatchedCampaign -> MatchCampaignRows]
    BY DEF MatchInv, MatchTypes
  <2>2. matchCampaigns[c].raised + q.match \in Nat
    BY <1>2, <2>1 DEF MatchCampaignRows
  <2> QED BY <1>2, <1>3, <2>1, <2>2 DEF MatchCampaignRows
<1>5. row \in Matching!Claims /\ donor \in DonorRows
  BY <1>2, <1>row, <1>donor DEF Matching!Claims, DonorRows
<1>6. /\ DOMAIN more = DOMAIN matchClaims \cup {q.donation} /\ more[q.donation] = row
      /\ \A d \in DOMAIN matchClaims : d # q.donation => more[d] = matchClaims[d]
  BY <1>1
<1>7. MatchTypes'
  <2>1. more \in [DOMAIN more -> Matching!Claims] /\ DOMAIN more \subseteq Donation
    BY <1>1, <1>2, <1>5, <1>6 DEF MatchInv, MatchTypes
  <2>2. matchUsers' \in [Donor -> DonorRows]
    BY <1>1, <1>5 DEF MatchInv, MatchTypes
  <2>3. matchRequest' \in [Hand -> {Matching!Idle} \cup MatchRequests] /\ matchAlone' \in BOOLEAN
    BY <1>1, RequestChanges DEF MatchInv, MatchTypes
  <2> QED BY <1>1, <1>4, <2>1, <2>2, <2>3 DEF MatchInv, MatchTypes
<1>8. ASSUME matchAlone'
      PROVE  OneClaimFits' /\ UsedIsSum' /\ SumFitsACap' /\ Matching!GoalIsMet'
  <2>1. OneClaimFits /\ UsedIsSum /\ SumFitsACap /\ Matching!GoalIsMet
    BY <1>1, <1>8, OneClaimAlone DEF MatchInv
  <2>2. OneClaimFits'
    <3>1. \A o \in Hand : matchRequest'[o] = Matching!Idle
      BY <1>1, <2>1, RequestChanges DEF OneClaimFits
    <3> QED BY <3>1 DEF OneClaimFits
  <2>3. /\ q.seen = matchCampaigns[c] /\ q.match <= GoalOf[c] - q.seen.raised
        /\ q.year <= matchYear /\ q.donation \notin DOMAIN matchClaims
        /\ q.user \in Donor => /\ matchUsers[q.user].year <= q.year
                               /\ q.before + q.match <= Terms[q.program].cap
                               /\ q.before = UsedOf(matchUsers, q.user, q.year)
    BY <1>1, <2>1 DEF OneClaimFits, ClaimFits
  <2>4. Matching!GoalIsMet'
    <3> SUFFICES ASSUME NEW c1 \in MatchedCampaign
                 PROVE  /\ matchCampaigns'[c1].raised <= GoalOf[c1]
                        /\ matchCampaigns'[c1].raised = GoalOf[c1]
                              <=> matchCampaigns'[c1].status = "FUNDED"
      BY DEF Matching!GoalIsMet
    <3>1. CASE c1 # c
      <4>1. matchCampaigns'[c1] = matchCampaigns[c1]
        BY <1>3, <3>1 DEF MatchInv, MatchTypes
      <4> QED BY <2>1, <4>1 DEF Matching!GoalIsMet
    <3>2. CASE c1 = c
      <4> PICK goal : goal = GoalOf[c]
        OBVIOUS
      <4> PICK raised : raised = matchCampaigns[c].raised
        OBVIOUS
      <4>1. goal \in Nat /\ raised \in Nat /\ q.match \in Nat \ {0} /\ q.match <= goal - raised
        BY <1>2, <2>3, MatchConstants DEF MatchCampaignRows
      <4>2. raised = goal <=> matchCampaigns[c].status = "FUNDED"
        BY <1>2, <2>1 DEF Matching!GoalIsMet
      <4>3. matchCampaigns[c].status # "FUNDED"
        BY <4>1, <4>2
      <4>4. Matching!ReachesGoal(c, q.seen, q.match) <=> raised + q.match >= goal
        BY <2>3, <4>3 DEF Matching!ReachesGoal
      <4>5. matchCampaigns'[c] = [raised |-> raised + q.match,
                                  status |-> IF raised + q.match >= goal THEN "FUNDED"
                                             ELSE matchCampaigns[c].status]
        BY <1>2, <1>3, <4>4 DEF MatchInv, MatchTypes
      <4>6. /\ matchCampaigns'[c].raised = raised + q.match
            /\ matchCampaigns'[c].status = "FUNDED" <=> raised + q.match >= goal
        BY <4>3, <4>5
      <4> QED BY <3>2, <4>1, <4>6
    <3> QED BY <3>1, <3>2
  <2>5. q.donation \in Donation \ DOMAIN matchClaims
    BY <1>2, <2>3
  <2>6. ASSUME NEW S \in SUBSET DOMAIN matchClaims
        PROVE  /\ SumOfClaims(matchClaims, S) \in Nat
               /\ SumOfClaims(more, S) = SumOfClaims(matchClaims, S)
               /\ SumOfClaims(more, S \cup {q.donation}) = SumOfClaims(matchClaims, S) + q.match
    <3> PICK id \in Donation \ DOMAIN matchClaims : id = q.donation
      BY <2>5
    <3>1. row.amount = q.match
      BY <1>row
    <3>2. /\ more[id] = row /\ more[id] \in Matching!Claims /\ MatchTypes
          /\ \A d \in DOMAIN matchClaims : more[d] = matchClaims[d]
      BY <1>5, <1>6, <2>3 DEF MatchInv
    <3>3. /\ SumOfClaims(matchClaims, S) \in Nat
          /\ SumOfClaims(more, S) = SumOfClaims(matchClaims, S)
          /\ SumOfClaims(more, S \cup {id}) = SumOfClaims(matchClaims, S) + more[id].amount
      BY <3>2, ClaimAdded
    <3> QED BY <3>1, <3>2, <3>3
  <2>7. ASSUME NEW u, NEW y, ~(u = q.user /\ y = q.year)
        PROVE  ClaimsOf(more, u, y) = ClaimsOf(matchClaims, u, y)
    <3>1. row.user = q.user /\ row.year = q.year
      BY <1>row
    <3> QED BY <1>6, <2>3, <2>7, <3>1 DEF ClaimsOf
  <2>8. ClaimsOf(more, q.user, q.year) = ClaimsOf(matchClaims, q.user, q.year) \cup {q.donation}
    <3>1. row.user = q.user /\ row.year = q.year
      BY <1>row
    <3> QED BY <1>6, <2>3, <3>1 DEF ClaimsOf
  <2>9. \A u, y : ClaimsOf(matchClaims, u, y) \in SUBSET DOMAIN matchClaims
    BY DEF ClaimsOf
  <2>10. ASSUME NEW u, NEW y, ~(u = q.user /\ y = q.year)
         PROVE  SumOfClaims(more, ClaimsOf(more, u, y))
                = SumOfClaims(matchClaims, ClaimsOf(matchClaims, u, y))
    BY <2>6, <2>7, <2>9, <2>10
  <2>11. q.user \in Donor =>
            SumOfClaims(more, ClaimsOf(more, q.user, q.year)) = q.before + q.match
    <3> SUFFICES ASSUME q.user \in Donor
                 PROVE  SumOfClaims(matchClaims, ClaimsOf(matchClaims, q.user, q.year)) = q.before
      BY <2>6, <2>8, <2>9
    <3>1. CASE matchUsers[q.user].year = q.year
      BY <2>1, <2>3, <3>1 DEF UsedIsSum, UsedOf
    <3>2. CASE matchUsers[q.user].year # q.year
      <4>1. matchUsers[q.user].year \in 0 .. MaxYear
        BY DEF MatchInv, MatchTypes, DonorRows
      <4>2. ~(q.year <= matchUsers[q.user].year)
        BY <1>2, <2>3, <3>2, <4>1, MatchConstants
      <4>3. ClaimsOf(matchClaims, q.user, q.year) = {}
        <5> SUFFICES ASSUME NEW d \in ClaimsOf(matchClaims, q.user, q.year) PROVE FALSE
          OBVIOUS
        <5>1. d \in DOMAIN matchClaims /\ matchClaims[d].user = q.user
              /\ matchClaims[d].year = q.year
          BY DEF ClaimsOf
        <5> QED BY <2>1, <4>2, <5>1 DEF UsedIsSum
      <4>4. SumOfClaims(matchClaims, {}) = 0
        BY TotalOfNone DEF SumOfClaims
      <4> QED BY <2>3, <3>2, <4>3, <4>4 DEF UsedOf
    <3> QED BY <3>1, <3>2
  <2>12. UsedIsSum'
    <3> SUFFICES ASSUME NEW u \in Donor
                 PROVE  /\ matchUsers'[u].year <= matchYear
                        /\ \A d \in DOMAIN more :
                              more[d].user = u => more[d].year <= matchUsers'[u].year
                        /\ matchUsers'[u].used
                              = SumOfClaims(more, ClaimsOf(more, u, matchUsers'[u].year))
      BY <1>1 DEF UsedIsSum
    <3>1. CASE u = q.user
      <4>1. matchUsers'[u].year = q.year /\ matchUsers'[u].used = q.before + q.match
        BY <1>1, <1>donor, <3>1
      <4>2. ASSUME NEW d \in DOMAIN more, more[d].user = u PROVE more[d].year <= q.year
        <5>1. CASE d = q.donation
          BY <1>2, <1>6, <1>row, <5>1
        <5>2. CASE d # q.donation
          <6>1. d \in DOMAIN matchClaims /\ more[d] = matchClaims[d]
            BY <1>6, <5>2
          <6>2. matchClaims[d].year <= matchUsers[u].year /\ matchUsers[u].year <= q.year
            BY <2>1, <2>3, <3>1, <4>2, <6>1 DEF UsedIsSum
          <6>3. matchClaims[d].year \in Int /\ matchUsers[u].year \in Int /\ q.year \in Int
            BY <1>2, <6>1, MatchConstants DEF MatchInv, MatchTypes, Matching!Claims, DonorRows
          <6> QED BY <6>1, <6>2, <6>3
        <5> QED BY <5>1, <5>2
      <4> QED BY <2>3, <2>11, <3>1, <4>1, <4>2
    <3>2. CASE u # q.user
      <4>1. matchUsers'[u] = matchUsers[u]
        BY <1>1, <3>2
      <4>2. \A d \in DOMAIN more : more[d].user = u =>
               d \in DOMAIN matchClaims /\ more[d] = matchClaims[d]
        BY <1>6, <1>row, <3>2
      <4>3. SumOfClaims(more, ClaimsOf(more, u, matchUsers[u].year))
            = SumOfClaims(matchClaims, ClaimsOf(matchClaims, u, matchUsers[u].year))
        BY <2>10, <3>2
      <4> QED BY <2>1, <4>1, <4>2, <4>3 DEF UsedIsSum
    <3> QED BY <3>1, <3>2
  <2>13. SumFitsACap'
    <3> SUFFICES ASSUME NEW u \in Donor, NEW y \in 0 .. MaxYear, ClaimsOf(more, u, y) # {}
                 PROVE  \E d \in ClaimsOf(more, u, y) :
                           SumOfClaims(more, ClaimsOf(more, u, y)) <= Terms[more[d].program].cap
      BY DEF SumFitsACap
    <3>1. CASE u = q.user /\ y = q.year
      <4>1. q.donation \in ClaimsOf(more, u, y) /\ more[q.donation].program = q.program
        BY <1>6, <1>row, <2>8, <3>1
      <4> QED BY <2>3, <2>11, <3>1, <4>1
    <3>2. CASE ~(u = q.user /\ y = q.year)
      <4>1. /\ ClaimsOf(more, u, y) = ClaimsOf(matchClaims, u, y)
            /\ SumOfClaims(more, ClaimsOf(more, u, y))
                  = SumOfClaims(matchClaims, ClaimsOf(matchClaims, u, y))
        BY <2>7, <2>10, <3>2
      <4>2. PICK d \in ClaimsOf(matchClaims, u, y) :
                SumOfClaims(matchClaims, ClaimsOf(matchClaims, u, y))
                    <= Terms[matchClaims[d].program].cap
        BY <2>1, <4>1 DEF SumFitsACap
      <4>3. more[d] = matchClaims[d]
        BY <1>6, <2>3 DEF ClaimsOf
      <4> QED BY <4>1, <4>2, <4>3
    <3> QED BY <3>1, <3>2
  <2> QED BY <2>2, <2>4, <2>12, <2>13
<1> QED BY <1>7, <1>8 DEF MatchInv

\* The claims of a year stay within the highest cap, and pages say what is left.
LEMMA ClaimsAreWithin ==
    ASSUME MatchTypes, OneClaimFits, UsedIsSum, SumFitsACap
    PROVE  /\ Matching!UsedIsClaimed
           /\ Matching!ClaimPagesAgree
           /\ Matching!WithinAnnualCap
<1>1. \A u \in Donor : Matching!Balance(u).used = UsedOf(matchUsers, u, matchYear)
  BY UsedIsNumber DEF Matching!Balance
<1>2. ASSUME NEW u \in Donor
      PROVE  UsedOf(matchUsers, u, matchYear)
             = SumOfClaims(matchClaims, ClaimsOf(matchClaims, u, matchYear))
  <2>1. CASE matchUsers[u].year = matchYear
    BY <2>1 DEF UsedIsSum, UsedOf
  <2>2. CASE matchUsers[u].year # matchYear
    <3>1. ~(matchYear <= matchUsers[u].year)
      <4>1. matchUsers[u].year \in 0 .. MaxYear /\ matchYear \in 0 .. MaxYear
        BY DEF MatchTypes, DonorRows
      <4>2. matchUsers[u].year <= matchYear
        BY DEF UsedIsSum
      <4> QED BY <2>2, <4>1, <4>2, MatchConstants
    <3>2. ClaimsOf(matchClaims, u, matchYear) = {}
      <4> SUFFICES ASSUME NEW d \in ClaimsOf(matchClaims, u, matchYear) PROVE FALSE
        OBVIOUS
      <4>1. d \in DOMAIN matchClaims /\ matchClaims[d].user = u
            /\ matchClaims[d].year = matchYear
        BY DEF ClaimsOf
      <4> QED BY <3>1, <4>1 DEF UsedIsSum
    <3>3. SumOfClaims(matchClaims, {}) = 0
      BY TotalOfNone DEF SumOfClaims
    <3> QED BY <2>2, <3>2, <3>3 DEF UsedOf
  <2> QED BY <2>1, <2>2
<1>3. Matching!UsedIsClaimed
  BY <1>1, <1>2, MatchSums DEF Matching!UsedIsClaimed
<1>4. Matching!ClaimPagesAgree
  <2> SUFFICES ASSUME NEW u \in Donor, NEW d \in Matching!Balance(u).claims,
                      matchClaims[d].year = matchYear,
                      matchClaims[d].program = matchUsers[u].employer
               PROVE  Matching!ClaimView(d).remaining = Matching!Balance(u).remaining
    BY DEF Matching!ClaimPagesAgree
  <2>1. d \in DOMAIN matchClaims /\ matchClaims[d].user = u
    BY DEF Matching!Balance
  <2>2. matchClaims[d].program \in Program
    BY <2>1 DEF MatchTypes, Matching!Claims
  <2>3. matchUsers[u].year = matchYear
    <3>1. matchYear <= matchUsers[u].year /\ matchUsers[u].year <= matchYear
      BY <2>1 DEF UsedIsSum
    <3>2. matchUsers[u].year \in 0 .. MaxYear /\ matchYear \in 0 .. MaxYear
      BY DEF MatchTypes, DonorRows
    <3> QED BY <3>1, <3>2, MatchConstants
  <2>4. Matching!UsedThisYear(u) = matchUsers[u].used
    BY <2>3, UsedIsNumber DEF UsedOf
  <2>5. Matching!ClaimView(d).remaining
        = Matching!Remaining(Terms[matchClaims[d].program].cap, matchUsers[u].used)
    BY <2>1, MatchConstants DEF Matching!ClaimView
  <2>6. Matching!Balance(u).remaining
        = Matching!Remaining(Terms[matchUsers[u].employer].cap, matchUsers[u].used)
    BY <2>2, <2>4, MatchConstants DEF Matching!Balance
  <2> QED BY <2>5, <2>6
<1>5. Matching!WithinAnnualCap
  <2> SUFFICES ASSUME NEW u \in Donor, NEW y \in 0 .. matchYear,
                      ClaimsOf(matchClaims, u, y) # {}
               PROVE  SumOfClaims(matchClaims, ClaimsOf(matchClaims, u, y))
                      <= Matching!Max({Terms[matchClaims[d].program].cap :
                                          d \in ClaimsOf(matchClaims, u, y)})
    BY MatchSums DEF Matching!WithinAnnualCap
  <2> PICK S : S = ClaimsOf(matchClaims, u, y)
    OBVIOUS
  <2>c. PICK cap : cap = [d \in S |-> Terms[matchClaims[d].program].cap]
    OBVIOUS
  <2> PICK caps : caps = {Terms[matchClaims[d].program].cap : d \in S}
    OBVIOUS
  <2>1. y \in 0 .. MaxYear
    BY MatchConstants DEF MatchTypes
  <2>2. PICK e \in S : SumOfClaims(matchClaims, S) <= Terms[matchClaims[e].program].cap
    BY <2>1 DEF SumFitsACap
  <2>3. S \subseteq DOMAIN matchClaims /\ IsFiniteSet(S)
    BY MatchConstants, FS_Subset DEF MatchTypes, ClaimsOf
  <2>4. \A d \in S : Terms[matchClaims[d].program].cap \in Nat
    BY <2>3, MatchConstants DEF MatchTypes, Matching!Claims, TermRows
  <2>5. cap \in Surjection(S, caps)
    BY <2>c DEF Surjection
  <2>6. IsFiniteSet(caps)
    BY <2>3, <2>5, FS_Surjection
  <2>7. PICK n \in caps : \A m \in caps : m <= n
    <3>1. caps \in SUBSET Int /\ caps # {}
      BY <2>2, <2>4
    <3> QED BY <2>6, <3>1, LargestNumber
  <2>8. Matching!Max(caps) \in caps /\ \A m \in caps : m <= Matching!Max(caps)
    <3>1. n \in caps /\ \A m \in caps : n >= m
      BY <2>4, <2>7
    <3>2. Matching!Max(caps) \in caps /\ \A m \in caps : Matching!Max(caps) >= m
      BY <3>1 DEF Matching!Max
    <3> QED BY <2>4, <3>2
  <2>9. Terms[matchClaims[e].program].cap \in caps
    OBVIOUS
  <2>10. Terms[matchClaims[e].program].cap <= Matching!Max(caps)
    BY <2>8, <2>9
  <2>11. SumOfClaims(matchClaims, S) \in Int
    <3>g. PICK g : g = [d \in S |-> matchClaims[d].amount]
      OBVIOUS
    <3>1. \A d \in S : g[d] \in Int
      BY <2>3, <3>g DEF MatchTypes, Matching!Claims
    <3> QED BY <2>3, <3>1, <3>g, TotalSplits DEF SumOfClaims
  <2>12. Terms[matchClaims[e].program].cap \in Int /\ Matching!Max(caps) \in Int
    BY <2>4, <2>8
  <2> QED BY <2>2, <2>10, <2>11, <2>12
<1> QED BY <1>3, <1>4, <1>5

\* What a donor is offered is within what is left of the cap; and while requests do
\* not overlap, the claims of a year are what was used of it and fit a cap, and
\* matches take a campaign to its goal and not beyond (offer, claim, commitClaim).
THEOREM ClaimsAlwaysFitTheCap == AllSpec => []ClaimsFitTheCap
<1>1. AllInit => MatchInv
  <2> SUFFICES ASSUME Matching!Init PROVE MatchInv
    BY DEF AllInit
  <2>1. /\ matchCampaigns = [c \in MatchedCampaign |-> [raised |-> 0, status |-> "ACTIVE"]]
        /\ matchUsers = [u \in Donor |-> [employer |-> NoProgram, year |-> 0, used |-> 0]]
        /\ DOMAIN matchClaims = {} /\ matchClaims = <<>> /\ matchYear = 0
        /\ matchRequest = [r \in Hand |-> Matching!Idle] /\ matchAlone = TRUE
    BY DEF Matching!Init
  <2>2. MatchTypes
    BY <2>1, MatchConstants DEF MatchTypes, MatchCampaignRows, DonorRows
  <2>3. \A u, y : ClaimsOf(matchClaims, u, y) = {}
    BY <2>1 DEF ClaimsOf
  <2>4. SumOfClaims(matchClaims, {}) = 0
    BY TotalOfNone DEF SumOfClaims
  <2>5. UsedIsSum
    <3>1. \A u \in Donor : matchUsers[u].year = 0 /\ matchUsers[u].used = 0
      BY <2>1
    <3>2. \A u \in Donor : matchUsers[u].used
             = SumOfClaims(matchClaims, ClaimsOf(matchClaims, u, matchUsers[u].year))
      BY <2>3, <2>4, <3>1
    <3>3. \A u \in Donor : matchUsers[u].year <= matchYear
      BY <2>1, <3>1
    <3> QED BY <2>1, <3>2, <3>3 DEF UsedIsSum
  <2>6. OneClaimFits /\ SumFitsACap
    BY <2>1, <2>3 DEF OneClaimFits, SumFitsACap
  <2>7. Matching!GoalIsMet
    BY <2>1, MatchConstants DEF Matching!GoalIsMet
  <2> QED BY <2>2, <2>5, <2>6, <2>7 DEF MatchInv
<1>2. MatchInv /\ [Matching!Next]_(Matching!vars) => MatchInv'
  <2> SUFFICES ASSUME MatchInv, [Matching!Next]_(Matching!vars) PROVE MatchInv'
    OBVIOUS
  <2>1. CASE UNCHANGED Matching!vars
    BY <2>1 DEF Matching!vars, MatchInv, MatchTypes, OneClaimFits, ClaimFits, UsedIsSum,
             SumFitsACap, Matching!GoalIsMet
  <2>2. ASSUME NEW r \in Hand, Matching!MatchStep(r) PROVE MatchInv'
    BY <2>2, DetectStep, ClaimStep, BookMatchStep, CommitStep DEF Matching!MatchStep
  <2> QED BY <2>1, <2>2, NewYearStep DEF Matching!Next
<1>3. MatchInv => ClaimsFitTheCap
  <2> SUFFICES ASSUME MatchInv PROVE ClaimsFitTheCap
    OBVIOUS
  <2>1. Matching!TypeOK
    <3>1. \A r \in Hand : matchRequest[r].step \in {"idle", "claim", "commit"}
      BY DEF MatchInv, MatchTypes, MatchRequests, Matching!Idle
    <3> QED BY <3>1
        DEF MatchInv, MatchTypes, Matching!TypeOK, MatchCampaignRows, DonorRows
  <2> QED BY <2>1, OffersAlwaysFit, ClaimsAreWithin DEF MatchInv, ClaimsFitTheCap
<1> QED BY <1>1, <1>2, <1>3, MatchSteps, PTL DEF AllSpec
-----------------------------------------------------------------------------
(* Esg: a report that is kept quotes entries that nobody changes, so what  *)
(* it says stays what they say, however the ledger grows.                  *)

AmountsIn(l, I) == [e \in I |-> l[e].amount]

\* A report says what some entries of the ledger say.
Quotes(l, view) ==
    /\ \E I \in SUBSET (DOMAIN l) :
          /\ view.annotations = {[sequence |-> e, amount |-> l[e].amount] : e \in I}
          /\ view.invested = Total(AmountsIn(l, I), I)
    /\ \E k \in Nat : Len(view.figures) = k

EsgEntries == [type : Esg!Types, amount : EsgAmount, at : 0 .. EsgMaxTime]

EsgInv ==
    /\ Esg!TypeOK
    /\ DOMAIN esgRequest = EsgRequest /\ esgRequest = [r \in EsgRequest |-> esgRequest[r]]
    /\ esgProfiles = [p \in DOMAIN esgProfiles |-> esgProfiles[p]]
    /\ \A r \in EsgRequest :
          esgRequest[r].step = "report" => Quotes(esgLedger, esgRequest[r].view)
    /\ \A id \in DOMAIN esgReports : Quotes(esgLedger, esgReports[id])

\* A step of the whole is one of Esg, or leaves it alone.
LEMMA EsgSteps == [AllNext]_allVars => [Esg!Next]_(Esg!vars)
BY DEF AllNext, OtherParts, allVars, esg, Esg!vars

LEMMA EsgConstants ==
    /\ {EsgTicks, EsgMinTtl, EsgMaxTtl, EsgPageLines, EsgMaxEntries, EsgMaxTime} \subseteq Nat
    /\ EsgTicks > 0 /\ EsgBatch \subseteq Nat \ {0} /\ EsgAmount \subseteq Nat
    /\ EsgTtl \subseteq Nat /\ EsgMinTtl <= EsgMaxTtl /\ IsFiniteSet(DOMAIN Scholar)
BY MoneyAssumption DEF Esg!EsgAssumption, Esg!IsFiniteSet, IsFiniteSet

\* Sums, counts and the greater and the lesser of two, as other modules have them.
LEMMA EsgSums == \A S : Esg!SumOf(S) = Total(AmountsIn(esgLedger, S), S)
BY DEF Esg!SumOf, Esg!MapThenSumSet, Esg!MapThenFoldSet, AmountsIn, Total, MapThenSumSet,
       MapThenFoldSet

LEMMA EsgCounts == \A S : Esg!Cardinality(S) = Cardinality(S)
BY DEF Esg!Cardinality, Cardinality

LEMMA EsgLifetimes == \A t \in Nat : Esg!ResolveTtl(t) \in Nat
<1> TAKE t \in Nat
<1>1. \A x, y \in Int : /\ Esg!Max({x, y}) = IF x >= y THEN x ELSE y
                        /\ Esg!Min({x, y}) = IF x <= y THEN x ELSE y
  BY DEF Esg!Max, Esg!Min
<1> PICK m : m = Esg!Min({t, EsgMaxTtl})
  OBVIOUS
<1>c. EsgMaxTtl \in Nat /\ EsgMinTtl \in Nat
  BY EsgConstants
<1>2. m \in Nat
  <2>1. m = IF t <= EsgMaxTtl THEN t ELSE EsgMaxTtl
    BY <1>1, <1>c
  <2> QED BY <1>c, <2>1
<1>3. Esg!Max({EsgMinTtl, m}) \in Nat
  <2>1. Esg!Max({EsgMinTtl, m}) = IF EsgMinTtl >= m THEN EsgMinTtl ELSE m
    <3>1. m \in Int /\ EsgMinTtl \in Int
      BY <1>2, <1>c
    <3> QED BY <1>1, <3>1, Zenon
  <2> QED BY <1>2, <1>c, <2>1
<1> QED BY <1>3 DEF Esg!ResolveTtl

\* What has been said of entries stays true when others follow.
LEMMA EntriesAreNotRewritten ==
    ASSUME NEW l, NEW longer, NEW view, Quotes(l, view), IsFiniteSet(DOMAIN l),
           DOMAIN l \subseteq DOMAIN longer, \A e \in DOMAIN l : longer[e] = l[e]
    PROVE  Quotes(longer, view)
<1>1. PICK I \in SUBSET (DOMAIN l) :
        /\ view.annotations = {[sequence |-> e, amount |-> l[e].amount] : e \in I}
        /\ view.invested = Total(AmountsIn(l, I), I)
  BY DEF Quotes
<1>2. {[sequence |-> e, amount |-> l[e].amount] : e \in I}
      = {[sequence |-> e, amount |-> longer[e].amount] : e \in I}
  OBVIOUS
<1>3. AmountsIn(longer, I) = AmountsIn(l, I)
  BY DEF AmountsIn
<1>4. \E k \in Nat : Len(view.figures) = k
  BY DEF Quotes
<1> QED BY <1>1, <1>2, <1>3, <1>4 DEF Quotes

\* A report says what the entries of its year say, and has a few figures.
LEMMA ReportsQuote ==
    ASSUME NEW standard \in Esg!Standards, NEW year
    PROVE  Quotes(esgLedger, Esg!BuildReport(standard, year))
<1> DEFINE view == Esg!BuildReport(standard, year)
           es == Esg!EntriesIn(year)
           I == Esg!InvestedEntries(es)
<1>1. I \in SUBSET (DOMAIN esgLedger)
  BY DEF Esg!InvestedEntries, Esg!EntriesIn
<1>2. view.annotations = {[sequence |-> e, amount |-> esgLedger[e].amount] : e \in I}
  BY DEF Esg!BuildReport, Esg!Annotations, Esg!InvestedEntries
<1>3. view.invested = Total(AmountsIn(esgLedger, I), I)
  BY EsgSums DEF Esg!BuildReport
<1>4. \E k \in Nat : Len(view.figures) = k
  <2> PICK a : a = Esg!Aggregate(es, year)
    OBVIOUS
  <2>1. view.figures = Esg!MapToStandard(standard, a)
    BY DEF Esg!BuildReport
  <2>2. Len(Esg!MapToStandard(standard, a)) \in {2, 3, 4}
    <3> USE DEF Esg!MapToStandard
    <3>1. CASE standard = "GRI_2024"
      BY <3>1
    <3>2. CASE standard = "CSRD_ESRS"
      BY <3>2
    <3>3. CASE standard = "SASB"
      BY <3>3
    <3>4. CASE standard = "UN_SDG"
      BY <3>4
    <3> QED BY <3>1, <3>2, <3>3, <3>4 DEF Esg!Standards
  <2> QED BY <2>1, <2>2
<1> HIDE DEF view, I
<1> QED BY <1>1, <1>2, <1>3, <1>4 DEF Quotes, view
LEMMA EsgInitially == AllInit => EsgInv
<1> SUFFICES ASSUME AllInit PROVE EsgInv
  OBVIOUS
<1>1. Esg!Init
  BY DEF AllInit
<1>2. 0 \in Nat /\ 0 \in 0 .. EsgMaxTime
  BY EsgConstants
<1>3. Esg!TypeOK
  BY <1>1, <1>2 DEF Esg!Init, Esg!TypeOK, Esg!Idle
<1>4. \A r \in EsgRequest : esgRequest[r].step = "idle"
  BY <1>1 DEF Esg!Init, Esg!Idle
<1>5. DOMAIN esgReports = {} /\ DOMAIN esgProfiles = {}
  BY <1>1 DEF Esg!Init
<1>6. esgProfiles = [p \in DOMAIN esgProfiles |-> esgProfiles[p]]
  BY <1>1 DEF Esg!Init
<1>7. DOMAIN esgRequest = EsgRequest /\ esgRequest = [r \in EsgRequest |-> esgRequest[r]]
  BY <1>1 DEF Esg!Init
<1> QED BY <1>3, <1>4, <1>5, <1>6, <1>7 DEF EsgInv

\* The types of a state that differs from one that has them.
LEMMA EsgTypesOf ==
    ASSUME esgLedger' \in Seq(EsgEntries),
           DOMAIN esgTags' \subseteq DOMAIN esgLedger',
           \A e \in DOMAIN esgTags' : esgTags'[e] \in Esg!Categories,
           DOMAIN esgProfiles' \subseteq DOMAIN Scholar,
           DOMAIN esgReports' \subseteq EsgReport,
           DOMAIN esgGrants' \subseteq EsgGrant,
           \A g \in DOMAIN esgGrants' : esgGrants'[g] \in [expires : Nat, revoked : BOOLEAN],
           esgSeen' \in [EsgGrant -> Nat], esgNow' \in 0 .. EsgMaxTime,
           \A r \in EsgRequest : esgRequest'[r].step \in {"idle", "report", "portal"}
    PROVE  Esg!TypeOK'
BY DEF Esg!TypeOK, EsgEntries

\* The ledger grows: what has been said of it stays true.
LEMMA EsgAppend ==
    ASSUME EsgInv, NEW type \in Esg!Types, NEW amount \in EsgAmount, NEW n \in EsgBatch,
           Esg!AppendEntries(type, amount, n)
    PROVE  EsgInv'
<1> DEFINE row == [type |-> type, amount |-> amount, at |-> esgNow]
           more == [i \in 1 .. n |-> row]
<1>1. row \in EsgEntries /\ esgLedger \in Seq(EsgEntries) /\ n \in Nat
  BY EsgConstants DEF EsgInv, Esg!TypeOK, EsgEntries
<1>2. more \in Seq(EsgEntries)
  <2> HIDE DEF row
  <2> QED BY <1>1
<1>3. esgLedger' = esgLedger \o more
  BY DEF Esg!AppendEntries
<1> HIDE DEF more
<1>4. /\ esgLedger' \in Seq(EsgEntries) /\ DOMAIN esgLedger \subseteq DOMAIN esgLedger'
      /\ \A e \in DOMAIN esgLedger : esgLedger'[e] = esgLedger[e]
      /\ IsFiniteSet(DOMAIN esgLedger)
  <2>1. /\ esgLedger' \in Seq(EsgEntries) /\ Len(esgLedger') = Len(esgLedger) + Len(more)
        /\ \A i \in 1 .. Len(esgLedger) + Len(more) :
              esgLedger'[i] = IF i <= Len(esgLedger) THEN esgLedger[i]
                              ELSE more[i - Len(esgLedger)]
    BY <1>1, <1>2, <1>3, ConcatProperties
  <2>2. Len(esgLedger) \in Nat /\ Len(more) \in Nat /\ DOMAIN esgLedger = 1 .. Len(esgLedger)
    BY <1>1, <1>2
  <2>3. IsFiniteSet(1 .. Len(esgLedger))
    BY <2>2, PlacesAreCounted
  <2>4. DOMAIN esgLedger' = 1 .. Len(esgLedger) + Len(more)
    BY <2>1
  <2> QED BY <2>1, <2>2, <2>3, <2>4
<1>5. UNCHANGED <<esgTags, esgProfiles, esgReports, esgGrants, esgSeen, esgNow, esgRequest>>
  BY DEF Esg!AppendEntries
<1>6. Esg!TypeOK'
  BY <1>4, <1>5, EsgTypesOf DEF EsgInv, Esg!TypeOK
<1>7. \A view : Quotes(esgLedger, view) => Quotes(esgLedger', view)
  BY <1>4, EntriesAreNotRewritten
<1> QED BY <1>5, <1>6, <1>7 DEF EsgInv

\* What is booked, and what the time and the reports that are kept say, stays.
LEMMA EsgFrame ==
    ASSUME EsgInv, Esg!TypeOK', esgLedger' = esgLedger, esgReports' = esgReports,
           esgProfiles' = [p \in DOMAIN esgProfiles' |-> esgProfiles'[p]],
           DOMAIN esgRequest' = EsgRequest,
           esgRequest' = [r \in EsgRequest |-> esgRequest'[r]],
           \A r \in EsgRequest :
              esgRequest'[r].step = "report" => Quotes(esgLedger, esgRequest'[r].view)
    PROVE  EsgInv'
BY DEF EsgInv

\* A request goes on.
LEMMA EsgContinues ==
    ASSUME EsgInv, NEW r \in EsgRequest, NEW next, Esg!Continue(r, next),
           next.step \in {"idle", "report", "portal"},
           next.step = "report" => Quotes(esgLedger, next.view)
    PROVE  /\ DOMAIN esgRequest' = EsgRequest
           /\ esgRequest' = [q \in EsgRequest |-> esgRequest'[q]]
           /\ \A q \in EsgRequest : esgRequest'[q].step \in {"idle", "report", "portal"}
           /\ \A q \in EsgRequest :
                 esgRequest'[q].step = "report" => Quotes(esgLedger, esgRequest'[q].view)
<1>1. esgRequest' = [q \in EsgRequest |-> IF q = r THEN next ELSE esgRequest[q]]
  BY DEF EsgInv, Esg!Continue
<1>2. \A q \in EsgRequest : esgRequest'[q] = next \/ esgRequest'[q] = esgRequest[q]
  BY <1>1
<1>3. \A q \in EsgRequest : /\ esgRequest[q].step \in {"idle", "report", "portal"}
                            /\ esgRequest[q].step = "report" =>
                                  Quotes(esgLedger, esgRequest[q].view)
  BY DEF EsgInv, Esg!TypeOK
<1> QED BY <1>1, <1>2, <1>3

LEMMA EsgStep == ASSUME EsgInv, [AllNext]_allVars PROVE EsgInv'
<1>1. /\ esgLedger \in Seq(EsgEntries) /\ DOMAIN esgTags \subseteq DOMAIN esgLedger
      /\ \A e \in DOMAIN esgTags : esgTags[e] \in Esg!Categories
      /\ DOMAIN esgProfiles \subseteq DOMAIN Scholar /\ DOMAIN esgReports \subseteq EsgReport
      /\ DOMAIN esgGrants \subseteq EsgGrant
      /\ \A g \in DOMAIN esgGrants : esgGrants[g] \in [expires : Nat, revoked : BOOLEAN]
      /\ esgSeen \in [EsgGrant -> Nat] /\ esgNow \in 0 .. EsgMaxTime
      /\ \A r \in EsgRequest : esgRequest[r].step \in {"idle", "report", "portal"}
  BY DEF EsgInv, Esg!TypeOK, EsgEntries
<1>2. /\ DOMAIN esgRequest = EsgRequest /\ esgRequest = [r \in EsgRequest |-> esgRequest[r]]
      /\ esgProfiles = [p \in DOMAIN esgProfiles |-> esgProfiles[p]]
      /\ \A r \in EsgRequest :
            esgRequest[r].step = "report" => Quotes(esgLedger, esgRequest[r].view)
      /\ \A id \in DOMAIN esgReports : Quotes(esgLedger, esgReports[id])
  BY DEF EsgInv
<1>3. [Esg!Next]_(Esg!vars)
  BY EsgSteps
<1>4. ASSUME NEW type \in Esg!Types, NEW amount \in EsgAmount, NEW n \in EsgBatch,
             Esg!AppendEntries(type, amount, n)
      PROVE  EsgInv'
  BY <1>4, EsgAppend
<1>5. CASE Esg!Tick
  <2>1. esgNow' \in 0 .. EsgMaxTime
    BY <1>1, <1>5, EsgConstants DEF Esg!Tick
  <2>2. UNCHANGED <<esgLedger, esgTags, esgProfiles, esgReports, esgGrants, esgSeen, esgRequest>>
    BY <1>5 DEF Esg!Tick
  <2>3. Esg!TypeOK'
    BY <1>1, <2>1, <2>2, EsgTypesOf
  <2> QED BY <1>2, <2>2, <2>3, EsgFrame
<1>6. ASSUME NEW r \in EsgRequest, NEW standard \in Esg!Standards, NEW year,
             Esg!CreateReport(r, standard, year)
      PROVE  EsgInv'
  <2> PICK view : view = Esg!BuildReport(standard, year)
    OBVIOUS
  <2> PICK next : next = [step |-> "report", view |-> view]
    OBVIOUS
  <2>1. /\ Esg!Continue(r, next)
        /\ UNCHANGED <<esgLedger, esgTags, esgProfiles, esgReports, esgGrants, esgSeen, esgNow>>
    BY <1>6 DEF Esg!CreateReport
  <2>2. next.step \in {"idle", "report", "portal"} /\ Quotes(esgLedger, next.view)
    BY ReportsQuote
  <2>3. /\ DOMAIN esgRequest' = EsgRequest
        /\ esgRequest' = [q \in EsgRequest |-> esgRequest'[q]]
        /\ \A q \in EsgRequest : esgRequest'[q].step \in {"idle", "report", "portal"}
        /\ \A q \in EsgRequest :
              esgRequest'[q].step = "report" => Quotes(esgLedger, esgRequest'[q].view)
    BY <2>1, <2>2, EsgContinues
  <2>4. Esg!TypeOK'
    BY <1>1, <2>1, <2>3, EsgTypesOf
  <2> QED BY <1>2, <2>1, <2>3, <2>4, EsgFrame
<1>7. ASSUME NEW r \in EsgRequest, NEW id \in EsgReport, Esg!KeepReport(r, id)
      PROVE  EsgInv'
  <2>1. /\ Esg!Continue(r, Esg!Idle)
        /\ UNCHANGED <<esgLedger, esgTags, esgProfiles, esgGrants, esgSeen, esgNow>>
        /\ esgRequest[r].step = "report"
        /\ esgReports' = Esg!With(esgReports, id, esgRequest[r].view)
    BY <1>7 DEF Esg!KeepReport
  <2>2. Esg!Idle.step = "idle"
    BY DEF Esg!Idle
  <2>3. /\ DOMAIN esgRequest' = EsgRequest
        /\ esgRequest' = [q \in EsgRequest |-> esgRequest'[q]]
        /\ \A q \in EsgRequest : esgRequest'[q].step \in {"idle", "report", "portal"}
        /\ \A q \in EsgRequest :
              esgRequest'[q].step = "report" => Quotes(esgLedger, esgRequest'[q].view)
    BY <2>1, <2>2, EsgContinues
  <2>4. /\ DOMAIN esgReports' = DOMAIN esgReports \cup {id}
        /\ esgReports'[id] = esgRequest[r].view
        /\ \A k \in DOMAIN esgReports : k # id => esgReports'[k] = esgReports[k]
    BY <2>1 DEF Esg!With
  <2>5. Esg!TypeOK'
    BY <1>1, <2>1, <2>3, <2>4, EsgTypesOf
  <2>6. \A k \in DOMAIN esgReports' : Quotes(esgLedger, esgReports'[k])
    BY <1>2, <2>1, <2>4
  <2> QED BY <1>2, <2>1, <2>3, <2>5, <2>6 DEF EsgInv
<1>8. ASSUME NEW e \in DOMAIN esgLedger, NEW c \in Esg!Categories, Esg!TagEntry(e, c)
      PROVE  EsgInv'
  <2>1. /\ UNCHANGED <<esgLedger, esgProfiles, esgReports, esgGrants, esgSeen, esgNow, esgRequest>>
        /\ esgTags' = Esg!With(esgTags, e, c)
    BY <1>8 DEF Esg!TagEntry
  <2>2. /\ DOMAIN esgTags' = DOMAIN esgTags \cup {e} /\ esgTags'[e] = c
        /\ \A k \in DOMAIN esgTags : k # e => esgTags'[k] = esgTags[k]
    BY <2>1 DEF Esg!With
  <2>3. Esg!TypeOK'
    BY <1>1, <2>1, <2>2, EsgTypesOf
  <2> QED BY <1>2, <2>1, <2>3, EsgFrame
<1>9. ASSUME NEW p \in DOMAIN Scholar, Esg!SetDiversity(p)
      PROVE  EsgInv'
  <2>1. /\ UNCHANGED <<esgLedger, esgTags, esgReports, esgGrants, esgSeen, esgNow, esgRequest>>
        /\ esgProfiles' = Esg!With(esgProfiles, p, esgNow)
    BY <1>9 DEF Esg!SetDiversity
  <2>2. /\ DOMAIN esgProfiles' = DOMAIN esgProfiles \cup {p}
        /\ esgProfiles' = [k \in DOMAIN esgProfiles' |-> esgProfiles'[k]]
    BY <2>1 DEF Esg!With
  <2>3. Esg!TypeOK'
    BY <1>1, <2>1, <2>2, EsgTypesOf
  <2> QED BY <1>2, <2>1, <2>2, <2>3, EsgFrame
<1>10. ASSUME NEW g \in EsgGrant, NEW ttl \in EsgTtl, Esg!CreateGrant(g, ttl)
       PROVE  EsgInv'
  <2> PICK row : row = [expires |-> esgNow + Esg!ResolveTtl(ttl), revoked |-> FALSE]
    OBVIOUS
  <2>1. /\ UNCHANGED <<esgLedger, esgTags, esgProfiles, esgReports, esgSeen, esgNow, esgRequest>>
        /\ esgGrants' = Esg!With(esgGrants, g, row)
    BY <1>10 DEF Esg!CreateGrant
  <2>2. /\ DOMAIN esgGrants' = DOMAIN esgGrants \cup {g} /\ esgGrants'[g] = row
        /\ \A k \in DOMAIN esgGrants : k # g => esgGrants'[k] = esgGrants[k]
    BY <2>1 DEF Esg!With
  <2>3. row \in [expires : Nat, revoked : BOOLEAN]
    <3>1. ttl \in Nat
      BY EsgConstants
    <3>2. esgNow \in Nat /\ Esg!ResolveTtl(ttl) \in Nat
      BY <1>1, <3>1, EsgLifetimes
    <3>3. esgNow + Esg!ResolveTtl(ttl) \in Nat
      BY <3>2
    <3> QED BY <3>3
  <2>4. Esg!TypeOK'
    BY <1>1, <2>1, <2>2, <2>3, EsgTypesOf
  <2> QED BY <1>2, <2>1, <2>4, EsgFrame
<1>11. ASSUME NEW g \in DOMAIN esgGrants, Esg!RevokeGrant(g)
       PROVE  EsgInv'
  <2> PICK old : old = esgGrants[g]
    OBVIOUS
  <2> PICK row : row = [old EXCEPT !.revoked = TRUE]
    OBVIOUS
  <2>1. /\ UNCHANGED <<esgLedger, esgTags, esgProfiles, esgReports, esgSeen, esgNow, esgRequest>>
        /\ esgGrants' = [esgGrants EXCEPT ![g] = row]
    BY <1>11 DEF Esg!RevokeGrant
  <2>2. row \in [expires : Nat, revoked : BOOLEAN]
    BY <1>1
  <2>3. DOMAIN esgGrants' = DOMAIN esgGrants
    BY <2>1
  <2>4. \A k \in DOMAIN esgGrants : esgGrants'[k] = row \/ esgGrants'[k] = esgGrants[k]
    BY <2>1
  <2>5. \A k \in DOMAIN esgGrants' : esgGrants'[k] \in [expires : Nat, revoked : BOOLEAN]
    BY <1>1, <2>2, <2>3, <2>4
  <2>6. Esg!TypeOK'
    BY <1>1, <2>1, <2>3, <2>5, EsgTypesOf
  <2> QED BY <1>2, <2>1, <2>6, EsgFrame
<1>12. ASSUME NEW r \in EsgRequest, NEW g \in DOMAIN esgGrants, Esg!OpenPortal(r, g)
       PROVE  EsgInv'
  <2> PICK next : next = [step |-> "portal", grant |-> g]
    OBVIOUS
  <2>1. /\ Esg!Continue(r, next)
        /\ UNCHANGED <<esgLedger, esgTags, esgProfiles, esgReports, esgGrants, esgSeen, esgNow>>
    BY <1>12 DEF Esg!OpenPortal
  <2>2. next.step = "portal"
    OBVIOUS
  <2>3. /\ DOMAIN esgRequest' = EsgRequest
        /\ esgRequest' = [q \in EsgRequest |-> esgRequest'[q]]
        /\ \A q \in EsgRequest : esgRequest'[q].step \in {"idle", "report", "portal"}
        /\ \A q \in EsgRequest :
              esgRequest'[q].step = "report" => Quotes(esgLedger, esgRequest'[q].view)
    BY <2>1, <2>2, EsgContinues
  <2>4. Esg!TypeOK'
    BY <1>1, <2>1, <2>3, EsgTypesOf
  <2> QED BY <1>2, <2>1, <2>3, <2>4, EsgFrame
<1>13. ASSUME NEW r \in EsgRequest, Esg!ShowLedger(r)
       PROVE  EsgInv'
  <2>1. /\ Esg!Continue(r, Esg!Idle)
        /\ UNCHANGED <<esgLedger, esgTags, esgProfiles, esgReports, esgGrants, esgNow>>
        /\ esgSeen' = [esgSeen EXCEPT ![esgRequest[r].grant] = Len(esgLedger)]
    BY <1>13 DEF Esg!ShowLedger
  <2>2. Esg!Idle.step = "idle"
    BY DEF Esg!Idle
  <2>3. /\ DOMAIN esgRequest' = EsgRequest
        /\ esgRequest' = [q \in EsgRequest |-> esgRequest'[q]]
        /\ \A q \in EsgRequest : esgRequest'[q].step \in {"idle", "report", "portal"}
        /\ \A q \in EsgRequest :
              esgRequest'[q].step = "report" => Quotes(esgLedger, esgRequest'[q].view)
    BY <2>1, <2>2, EsgContinues
  <2>4. esgSeen' \in [EsgGrant -> Nat]
    <3>1. Len(esgLedger) \in Nat
      BY <1>1
    <3> QED BY <1>1, <2>1, <3>1
  <2>5. Esg!TypeOK'
    BY <1>1, <2>1, <2>3, <2>4, EsgTypesOf
  <2> QED BY <1>2, <2>1, <2>3, <2>5, EsgFrame
<1>14. CASE UNCHANGED Esg!vars
  <2>1. UNCHANGED <<esgLedger, esgTags, esgProfiles, esgReports, esgGrants, esgSeen, esgNow,
                    esgRequest>>
    BY <1>14 DEF Esg!vars
  <2>2. Esg!TypeOK'
    BY <1>1, <2>1, EsgTypesOf
  <2> QED BY <1>2, <2>1, <2>2, EsgFrame
<1>15. ASSUME NEW r \in EsgRequest, Esg!AdminStep(r)
       PROVE  EsgInv'
  BY <1>6, <1>7, <1>8, <1>9, <1>10, <1>11, <1>15 DEF Esg!AdminStep
<1>16. ASSUME NEW r \in EsgRequest, Esg!PortalStep(r)
       PROVE  EsgInv'
  BY <1>12, <1>13, <1>16 DEF Esg!PortalStep
<1> QED BY <1>3, <1>4, <1>5, <1>14, <1>15, <1>16 DEF Esg!Next
-----------------------------------------------------------------------------
\* The amount of a report is that of its rows.
LEMMA EsgAddsUp == EsgInv => Esg!ReportsAddUp
<1> SUFFICES ASSUME EsgInv, NEW id \in DOMAIN esgReports
             PROVE  LET rows == Esg!ReportCsv(id).rows
                    IN  /\ esgReports[id].invested = Esg!SumOf({x.sequence : x \in rows})
                        /\ \A x \in rows : x.amount = esgLedger[x.sequence].amount
  BY DEF Esg!ReportsAddUp
<1> PICK view : view = esgReports[id]
  OBVIOUS
<1>1. PICK I \in SUBSET (DOMAIN esgLedger) :
        /\ view.annotations = {[sequence |-> e, amount |-> esgLedger[e].amount] : e \in I}
        /\ view.invested = Total(AmountsIn(esgLedger, I), I)
  BY DEF EsgInv, Quotes
<1>2. Esg!ReportCsv(id).rows = view.annotations
  BY DEF Esg!ReportCsv
<1>3. {x.sequence : x \in view.annotations} = I
  <2>1. \A x \in view.annotations : x.sequence \in I
    BY <1>1
  <2>2. ASSUME NEW e \in I
        PROVE  \E x \in view.annotations : x.sequence = e
    <3> DEFINE x == [sequence |-> e, amount |-> esgLedger[e].amount]
    <3>1. x \in view.annotations /\ x.sequence = e
      BY <1>1
    <3> HIDE DEF x
    <3> QED BY <3>1
  <2> QED BY <2>1, <2>2
<1>4. \A x \in view.annotations : x.amount = esgLedger[x.sequence].amount
  BY <1>1
<1>5. view.invested = Esg!SumOf(I)
  BY <1>1, EsgSums
<1> QED BY <1>2, <1>3, <1>4, <1>5

\* Of the rows of a report, those up to one are no more than those up to a later one.
LEMMA EsgPages ==
    ASSUME EsgInv, NEW id \in DOMAIN esgReports
    PROVE  LET page == Esg!ReportPdf(id).rows
               all == Esg!ReportCsv(id).rows
           IN  /\ page \subseteq all
               /\ \A x \in page, y \in all : y.sequence < x.sequence => y \in page
<1> PICK view : view = esgReports[id]
  OBVIOUS
<1>1. PICK I \in SUBSET (DOMAIN esgLedger) :
        view.annotations = {[sequence |-> e, amount |-> esgLedger[e].amount] : e \in I}
  BY DEF EsgInv, Quotes
<1>2. PICK k \in Nat : Len(view.figures) = k
  BY DEF EsgInv, Quotes
<1> DEFINE a == view.annotations
           UpTo(x) == {y \in a : y.sequence <= x.sequence}
           Line(x) == 8 + 2 * Len(view.figures) + Cardinality(UpTo(x))
<1>3. /\ Esg!ReportPdf(id).rows = {x \in a : Line(x) <= EsgPageLines}
      /\ Esg!ReportCsv(id).rows = a
  BY EsgCounts DEF Esg!ReportPdf, Esg!ReportCsv
<1>4. IsFiniteSet(a)
  <2>1. Len(esgLedger) \in Nat /\ DOMAIN esgLedger = 1 .. Len(esgLedger)
    BY DEF EsgInv, Esg!TypeOK
  <2>2. IsFiniteSet(I)
    BY <2>1, PlacesAreCounted
  <2> DEFINE f == [e \in I |-> [sequence |-> e, amount |-> esgLedger[e].amount]]
  <2>3. f \in Surjection(I, a)
    BY <1>1 DEF Surjection
  <2> HIDE DEF f, a
  <2> QED BY <2>2, <2>3, FS_Surjection
<1>5. \A x \in a : x.sequence \in Int
  <2>1. \A e \in DOMAIN esgLedger : e \in Int
    BY DEF EsgInv, Esg!TypeOK
  <2> QED BY <1>1, <2>1
<1>6. ASSUME NEW x \in a, NEW y \in a, y.sequence < x.sequence, Line(x) <= EsgPageLines
      PROVE  Line(y) <= EsgPageLines
  <2>1. UpTo(y) \subseteq UpTo(x)
    BY <1>5, <1>6
  <2>2. IsFiniteSet(UpTo(x))
    <3>1. UpTo(x) \subseteq a
      OBVIOUS
    <3> HIDE DEF UpTo, a
    <3> QED BY <1>4, <3>1, FS_Subset
  <2>3. /\ Cardinality(UpTo(y)) \in Nat /\ Cardinality(UpTo(x)) \in Nat
        /\ Cardinality(UpTo(y)) <= Cardinality(UpTo(x))
    <3> HIDE DEF UpTo, a
    <3>1. IsFiniteSet(UpTo(y)) /\ Cardinality(UpTo(y)) <= Cardinality(UpTo(x))
      BY <2>1, <2>2, FS_Subset
    <3> QED BY <2>2, <3>1, FS_CardinalityType
  <2> HIDE DEF UpTo
  <2> QED BY <1>2, <1>6, <2>3, EsgConstants
<1> HIDE DEF Line, a
<1> QED BY <1>3, <1>6

\* What is invested in a year is at least what its report says: that leaves a second out.
LEMMA EsgTrend ==
    ASSUME EsgInv, NEW year \in DOMAIN Esg!Trend
    PROVE  Esg!Trend[year].invested >= Esg!BuildReport("SASB", year).invested
<1> DEFINE all == {e \in Esg!InvestedEntries(DOMAIN esgLedger) : Esg!Year(esgLedger[e].at) = year}
           some == Esg!InvestedEntries(Esg!EntriesIn(year))
           f == AmountsIn(esgLedger, all)
<1>1. Esg!Trend[year].invested = Total(f, all)
  BY EsgSums DEF Esg!Trend
<1>2. Esg!BuildReport("SASB", year).invested = Total(AmountsIn(esgLedger, some), some)
  BY EsgSums DEF Esg!BuildReport
<1>3. some \subseteq all /\ all \subseteq DOMAIN esgLedger
  BY DEF Esg!InvestedEntries, Esg!EntriesIn, Esg!InPeriod
<1>4. IsFiniteSet(all)
  <2>1. Len(esgLedger) \in Nat /\ DOMAIN esgLedger = 1 .. Len(esgLedger)
    BY DEF EsgInv, Esg!TypeOK
  <2> HIDE DEF all
  <2> QED BY <1>3, <2>1, PlacesAreCounted
<1>5. \A e \in all : f[e] \in Nat
  <2>1. \A e \in DOMAIN esgLedger : esgLedger[e].amount \in EsgAmount
    <3>1. esgLedger \in Seq(EsgEntries)
      BY DEF EsgInv, Esg!TypeOK, EsgEntries
    <3>2. \A e \in DOMAIN esgLedger : esgLedger[e] \in EsgEntries
      BY <3>1
    <3> QED BY <3>2 DEF EsgEntries
  <2>2. \A e \in all : f[e] = esgLedger[e].amount
    BY DEF AmountsIn
  <2> HIDE DEF f, all
  <2> QED BY <1>3, <2>1, <2>2, EsgConstants
<1>6. Total(AmountsIn(esgLedger, some), some) = Total(f, some)
  <2>1. \A e \in some : AmountsIn(esgLedger, some)[e] = f[e]
    BY <1>3 DEF AmountsIn
  <2>2. IsFiniteSet(some)
    BY <1>3, <1>4, FS_Subset
  <2> HIDE DEF f, some
  <2> QED BY <2>1, <2>2, TotalsAgree
<1>7. Total(f, all) = Total(f, some) + Total(f, all \ some)
  <2>1. all = some \cup (all \ some) /\ some \cap (all \ some) = {}
    BY <1>3
  <2>2. IsFiniteSet(some) /\ IsFiniteSet(all \ some)
    BY <1>3, <1>4, FS_Subset
  <2>3. \A e \in some \cup (all \ some) : f[e] \in Int
    BY <1>5, <2>1
  <2> HIDE DEF f, some, all
  <2> QED BY <2>1, <2>2, <2>3, TotalOfUnion
<1>8. Total(f, some) \in Nat /\ Total(f, all \ some) \in Nat
  <2>1. IsFiniteSet(some) /\ IsFiniteSet(all \ some)
    BY <1>3, <1>4, FS_Subset
  <2>2. (\A e \in some : f[e] \in Nat) /\ (\A e \in all \ some : f[e] \in Nat)
    BY <1>3, <1>5
  <2> HIDE DEF f, some, all
  <2> QED BY <2>1, <2>2, TotalIsNatural
<1> HIDE DEF f, some, all
<1> QED BY <1>1, <1>2, <1>6, <1>7, <1>8

\* Only who may open the portal is listed as active.
LEMMA EsgGrantsOpen == Esg!TypeOK => Esg!ListedGrantsOpen
<1> SUFFICES ASSUME Esg!TypeOK, NEW g \in DOMAIN esgGrants
             PROVE  Esg!GrantStatus(g) = "ACTIVE" <=> Esg!ValidateAuditorToken(g)
  BY DEF Esg!ListedGrantsOpen
<1>1. /\ esgGrants[g].expires \in Nat /\ esgGrants[g].revoked \in BOOLEAN /\ esgNow \in Int
  BY DEF Esg!TypeOK
<1>2. esgGrants[g].expires > esgNow <=> ~(esgGrants[g].expires <= esgNow)
  BY <1>1
<1> QED BY <1>1, <1>2 DEF Esg!GrantStatus, Esg!ValidateAuditorToken

\* What all have said is nine and more of ten, what nobody has is none.
LEMMA EsgFields == EsgInv => Esg!MissingFieldsAreAskedFor
<1> SUFFICES ASSUME EsgInv, NEW field \in DOMAIN Esg!DataQuality
             PROVE  /\ Esg!DataQuality[field].collectMore =>
                          esgProfiles = <<>> \/ Esg!Having(field) # DOMAIN esgProfiles
                    /\ Esg!Having(field) = {} => Esg!DataQuality[field].collectMore
  BY DEF Esg!MissingFieldsAreAskedFor
<1> PICK n : n = Cardinality(DOMAIN esgProfiles)
  OBVIOUS
<1>1. IsFiniteSet(DOMAIN esgProfiles)
  BY EsgConstants, FS_Subset DEF EsgInv, Esg!TypeOK
<1>2. n \in Nat /\ (n = 0 <=> DOMAIN esgProfiles = {})
  BY <1>1, FS_CardinalityType, FS_EmptySet
<1>3. Esg!DataQuality[field].collectMore <=>
        Esg!Share(Cardinality(Esg!Having(field)), n) < 800
  BY EsgCounts DEF Esg!DataQuality
<1>4. DOMAIN esgProfiles = {} => esgProfiles = <<>>
  BY DEF EsgInv
<1>5. CASE n = 0
  <2>1. Esg!Share(Cardinality(Esg!Having(field)), n) = 0
    BY <1>5 DEF Esg!Share
  <2> QED BY <1>2, <1>3, <1>4, <1>5, <2>1
<1>6. CASE n # 0
  <2>1. \A part : Esg!Share(part, n) = (2000 * part + n) \div (2 * n)
    BY <1>6 DEF Esg!Share
  <2>2. n \in Nat \ {0} /\ n \in Int /\ 0 \in Int
    BY <1>2, <1>6
  <2>3. Esg!Share(n, n) = 1000
    BY <2>1, <2>2, RoundedShares
  <2>4. Esg!Share(0, n) = 0
    BY <2>1, <2>2, RoundedShares
  <2>5. Cardinality({}) = 0
    BY FS_EmptySet
  <2>6. CASE Esg!Having(field) = DOMAIN esgProfiles
    <3>1. Esg!Having(field) # {}
      BY <1>2, <1>6, <2>6
    <3>2. ~Esg!DataQuality[field].collectMore
      BY <1>3, <2>3, <2>6
    <3> QED BY <3>1, <3>2
  <2>7. CASE Esg!Having(field) # DOMAIN esgProfiles
    <3>1. Esg!Having(field) = {} => Esg!DataQuality[field].collectMore
      BY <1>3, <2>4, <2>5
    <3> QED BY <2>7, <3>1
  <2> QED BY <2>6, <2>7
<1> QED BY <1>5, <1>6

\* The amount of a report is what the rows of its export add up to, whatever is booked
\* after it; a page hides no earlier source than it shows; a year's trend counts what its
\* report does; listed grants open and missing fields are asked for: for every ledger,
\* every length of the year and of the page, every lifetime (createReport, reportCsv,
\* reportPdf, buildTrend, listGrants, computeDataQuality).
THEOREM ReportsAlwaysAddUp == AllSpec => []ReportsAddUp
<1>1. AllInit => EsgInv
  BY EsgInitially
<1>2. EsgInv /\ [AllNext]_allVars => EsgInv'
  BY EsgStep
<1>3. EsgInv => ReportsAddUp
  <2> SUFFICES ASSUME EsgInv PROVE ReportsAddUp
    OBVIOUS
  <2>1. Esg!TypeOK
    BY DEF EsgInv
  <2>2. Esg!ReportsAddUp /\ Esg!ListedGrantsOpen /\ Esg!MissingFieldsAreAskedFor
    BY <2>1, EsgAddsUp, EsgGrantsOpen, EsgFields
  <2>3. Esg!ExcerptsAreHonest
    BY EsgPages, EsgTrend DEF Esg!ExcerptsAreHonest
  <2> QED BY <2>1, <2>2, <2>3 DEF ReportsAddUp
<1> QED BY <1>1, <1>2, <1>3, PTL DEF AllSpec
-----------------------------------------------------------------------------
(* Fx: deposits and the webhooks that settle them.  The inductive          *)
(* invariant says that what a request tells the donor is what the rate it  *)
(* has locked makes of the amount, and that while requests do not overlap  *)
(* the deposit of a webhook is still open when it is written.              *)

\* A step of the whole is one of the deposits, or leaves them alone; and of the accounts.
LEMMA FxSteps ==
    /\ [AllNext]_allVars => [Fx!Next]_(Fx!vars)
    /\ [AllNext]_allVars => [Ibans!Next]_(Ibans!vars)
BY DEF AllNext, OtherParts, allVars, fx, iban, Fx!vars, Ibans!vars

\* What deposits are made of.
LEMMA FxConstants ==
    /\ IsFiniteSet(Hand) /\ FxAmounts \subseteq Nat
    /\ \A r \in FxRates : r[1] \in Nat \ {0} /\ r[2] \in Nat \ {0}
    /\ FxMaxTime \in Nat
BY MoneyAssumption DEF Fx!FxAssumption, Roster!RosterAssumption, Roster!IsFiniteSet, IsFiniteSet

FxQuote == [step : {"deposit"}, deposit : FxDeposit, amount : FxAmounts, locked : FxRates, told : Nat]
FxHook == [step : {"webhook"}, deposit : FxDeposit, status : Fx!Settled, captured : BOOLEAN]
FxTasks == {Fx!Idle} \cup FxQuote \cup FxHook
FxRow == [amount : FxAmounts, locked : FxRates, told : Nat, captured : BOOLEAN,
          local : Fx!Settled \cup {"PENDING"}, status : Fx!Settled \cup {"PENDING"}]

LEMMA FxStages ==
    /\ Fx!Idle.step = "idle"
    /\ \A t \in FxTasks :
          /\ t.step \in {"idle", "deposit", "webhook"}
          /\ t.step = "idle" <=> t = Fx!Idle
          /\ t.step = "deposit" <=> t \in FxQuote
          /\ t.step = "webhook" <=> t \in FxHook
BY DEF FxTasks, FxQuote, FxHook, Fx!Idle

\* What is told is what the locked rate makes of the amount, to the nearest unit.
IsTold(row) ==
    LET error == row.told * row.locked[2] - row.amount * row.locked[1]
    IN  -row.locked[2] <= 2 * error /\ 2 * error <= row.locked[2]

FxTypes ==
    /\ Fx!TypeOK
    /\ fxTask \in [Hand -> FxTasks] /\ fxAlone \in BOOLEAN
    /\ \A d \in DOMAIN fxDeposits : IsTold(fxDeposits[d])
    /\ \A h \in Hand : /\ fxTask[h].step = "deposit" => IsTold(fxTask[h])
                       /\ fxTask[h].step = "webhook" => fxTask[h].deposit \in DOMAIN fxDeposits

FxOneAtATime == \A g, h \in Hand : fxTask[g] # Fx!Idle /\ fxTask[h] # Fx!Idle => g = h

\* While requests do not overlap, what a webhook writes to is open.
FxOpen ==
    /\ FxOneAtATime
    /\ \A h \in Hand :
          fxTask[h].step = "webhook" => fxDeposits[fxTask[h].deposit].local = "PENDING"

FxInv == FxTypes /\ (fxAlone => FxOpen)

\* A conversion is right to the nearest unit.
LEMMA ConversionsAreTold ==
    ASSUME NEW amount \in FxAmounts, NEW r \in FxRates
    PROVE  /\ Fx!Convert(amount, r) \in Nat
           /\ \A row : row.amount = amount /\ row.locked = r /\ row.told = Fx!Convert(amount, r)
                           => IsTold(row)
<1> PICK n : n = r[1]
  OBVIOUS
<1> PICK d : d = r[2]
  OBVIOUS
<1> PICK x : x = amount * n
  OBVIOUS
<1> PICK q : q = (2 * x + d) \div (2 * d)
  OBVIOUS
<1>1. amount \in Nat /\ n \in Nat /\ d \in Nat \ {0}
  BY FxConstants
<1>2. x \in Nat /\ 2 * x + d \in Int /\ 2 * d \in Nat \ {0}
  BY <1>1
<1>3. q \in Int /\ (2 * d) * q <= 2 * x + d /\ 2 * x + d < (2 * d) * q + 2 * d
  BY <1>2, Quotients DEF IsQuotient, FitsAsQuotient
<1>4. Fx!Convert(amount, r) = q
  BY DEF Fx!Convert, Fx!RoundHalfUp
<1>5. q \in Nat
  <2> SUFFICES ASSUME q <= -1 PROVE FALSE
    BY <1>3
  <2>1. \A c \in Nat : \A y \in Int : y <= -1 => c * y + c <= 0
    OBVIOUS
  <2>2. (2 * d) * q + 2 * d <= 0
    BY <1>2, <1>3, <2>1
  <2> QED BY <1>1, <1>2, <1>3, <2>2
<1>6. -d <= 2 * (q * d - x) /\ 2 * (q * d - x) <= d
  <2> PICK p : p = q * d
    OBVIOUS
  <2>1. p \in Int /\ (2 * d) * q = 2 * p
    BY <1>1, <1>3
  <2> QED BY <1>1, <1>2, <1>3, <2>1
<1> QED BY <1>4, <1>5, <1>6 DEF IsTold

\* A request goes on: the history sees whether another one is at work.
LEMMA FxGoesOn ==
    ASSUME FxTypes, NEW h \in Hand, NEW t \in FxTasks, Fx!Continue(h, t),
           fxAlone => FxOneAtATime
    PROVE  /\ fxTask' \in [Hand -> FxTasks] /\ fxAlone' \in BOOLEAN
           /\ fxTask'[h] = t /\ \A g \in Hand \ {h} : fxTask'[g] = fxTask[g]
           /\ fxAlone' => /\ fxAlone /\ FxOneAtATime'
                          /\ t # Fx!Idle => \A g \in Hand \ {h} : fxTask[g] = Fx!Idle
<1>1. fxTask' = [fxTask EXCEPT ![h] = t]
  BY DEF Fx!Continue
<1>2. /\ fxTask' \in [Hand -> FxTasks] /\ fxAlone' \in BOOLEAN
      /\ fxTask'[h] = t /\ \A g \in Hand \ {h} : fxTask'[g] = fxTask[g]
  <2>1. fxAlone' \in BOOLEAN
    BY DEF Fx!Continue
  <2> QED BY <1>1, <2>1 DEF FxTypes
<1>3. ASSUME fxAlone' PROVE fxAlone /\ FxOneAtATime'
  <2> PICK busy : busy = {g \in Hand : fxTask'[g] # Fx!Idle}
    OBVIOUS
  <2>1. fxAlone /\ Cardinality(busy) <= 1
    <3>1. fxAlone /\ Fx!Cardinality(busy) <= 1
      BY <1>3 DEF Fx!Continue, FxTypes
    <3>2. Fx!Cardinality(busy) = Cardinality(busy)
      BY DEF Fx!Cardinality, Cardinality
    <3> QED BY <3>1, <3>2
  <2>2. IsFiniteSet(busy)
    BY FxConstants, FS_Subset
  <2> QED BY <2>1, <2>2, OneAtMost DEF FxOneAtATime
<1> QED BY <1>2, <1>3 DEF FxOneAtATime

\* Nobody reads or writes a deposit.
LEMMA FxWaits ==
    ASSUME FxInv, Fx!TypeOK', UNCHANGED <<fxDeposits, fxTask, fxAlone>>
    PROVE  FxInv'
BY DEF FxInv, FxTypes, FxOpen, FxOneAtATime

LEMMA InitiateKeepsDeposits ==
    ASSUME FxInv, NEW h \in Hand, NEW d \in FxDeposit, NEW country, NEW method,
           NEW a \in FxAmounts, Fx!InitiateDeposit(h, d, country, method, a)
    PROVE  FxInv'
<1> PICK t : t = [step |-> "deposit", deposit |-> d, amount |-> a, locked |-> fxRate,
                  told |-> Fx!Convert(a, fxRate)]
  OBVIOUS
<1>1. fxRate \in FxRates
  BY DEF FxInv, FxTypes, Fx!TypeOK
<1>2. t \in FxQuote /\ t \in FxTasks /\ t.step = "deposit" /\ IsTold(t)
  BY <1>1, ConversionsAreTold DEF FxQuote, FxTasks
<1>3. Fx!Continue(h, t) /\ UNCHANGED <<fxRate, fxDeposits, fxSent, fxAccounts, fxNow>>
  BY DEF Fx!InitiateDeposit
<1>4. /\ fxTask' \in [Hand -> FxTasks] /\ fxAlone' \in BOOLEAN
      /\ fxTask'[h] = t /\ \A g \in Hand \ {h} : fxTask'[g] = fxTask[g]
      /\ fxAlone' => fxAlone /\ FxOneAtATime'
  BY <1>2, <1>3, FxGoesOn DEF FxInv, FxOpen
<1>5. Fx!TypeOK'
  BY <1>3, <1>4, FxStages DEF FxInv, FxTypes, Fx!TypeOK
<1>6. FxTypes'
  BY <1>2, <1>3, <1>4, <1>5 DEF FxInv, FxTypes, IsTold
<1>7. fxAlone' => FxOpen'
  BY <1>2, <1>3, <1>4 DEF FxInv, FxOpen
<1> QED BY <1>6, <1>7 DEF FxInv

LEMMA StoreKeepsDeposits ==
    ASSUME FxInv, NEW h \in Hand, Fx!StoreDeposit(h)
    PROVE  FxInv' /\ \A d \in DOMAIN fxDeposits : fxDeposits'[d] = fxDeposits[d]
<1> PICK old : old = fxTask[h]
  OBVIOUS
<1> PICK row : row = [amount |-> old.amount, locked |-> old.locked, told |-> old.told,
                      captured |-> FALSE, status |-> "PENDING",
                      local |-> IF Fx!MockFails(old.amount) THEN "FAILED" ELSE "PENDING"]
  OBVIOUS
<1>1. old.step = "deposit" /\ old \in FxQuote /\ IsTold(old)
  BY FxStages DEF FxInv, FxTypes, Fx!StoreDeposit
<1>2. row \in FxRow /\ IsTold(row)
  BY <1>1 DEF FxRow, FxQuote, IsTold, Fx!Settled
<1>3. /\ old.deposit \notin DOMAIN fxDeposits
      /\ fxDeposits' = Fx!With(fxDeposits, old.deposit, row)
      /\ Fx!Continue(h, Fx!Idle) /\ UNCHANGED <<fxRate, fxSent, fxAccounts, fxNow>>
  BY DEF Fx!StoreDeposit, Fx!Told
<1>4. /\ DOMAIN fxDeposits' = DOMAIN fxDeposits \cup {old.deposit}
      /\ fxDeposits'[old.deposit] = row
      /\ \A d \in DOMAIN fxDeposits : fxDeposits'[d] = fxDeposits[d]
  BY <1>3 DEF Fx!With
<1>5. Fx!Idle \in FxTasks /\ Fx!Idle.step = "idle"
  BY FxStages DEF FxTasks
<1>6. /\ fxTask' \in [Hand -> FxTasks] /\ fxAlone' \in BOOLEAN
      /\ fxTask'[h] = Fx!Idle /\ \A g \in Hand \ {h} : fxTask'[g] = fxTask[g]
      /\ fxAlone' => fxAlone /\ FxOneAtATime'
  BY <1>3, <1>5, FxGoesOn DEF FxInv, FxOpen
<1>7. \A d \in DOMAIN fxDeposits' : fxDeposits'[d] \in FxRow /\ IsTold(fxDeposits'[d])
  BY <1>2, <1>4 DEF FxInv, FxTypes, Fx!TypeOK, FxRow
<1>8. DOMAIN fxDeposits' \subseteq FxDeposit
  BY <1>1, <1>4 DEF FxInv, FxTypes, Fx!TypeOK, FxQuote
<1>9. Fx!TypeOK'
  <2>1. \A g \in Hand : fxTask'[g].step \in {"idle", "deposit", "webhook", "account"}
    BY <1>6, FxStages
  <2>2. \A d \in DOMAIN fxDeposits' :
           fxDeposits'[d] \in [amount : FxAmounts, locked : FxRates, told : Nat,
                               captured : BOOLEAN, local : Fx!Settled \cup {"PENDING"},
                               status : Fx!Settled \cup {"PENDING"}]
    BY <1>7 DEF FxRow
  <2> QED BY <1>3, <1>8, <2>1, <2>2 DEF FxInv, FxTypes, Fx!TypeOK
<1>10. FxTypes'
  BY <1>4, <1>5, <1>6, <1>7, <1>9 DEF FxInv, FxTypes, IsTold
<1>11. fxAlone' => FxOpen'
  BY <1>4, <1>5, <1>6 DEF FxInv, FxOpen, FxTypes
<1> QED BY <1>4, <1>10, <1>11 DEF FxInv

LEMMA ReceiveKeepsDeposits ==
    ASSUME FxInv, NEW h \in Hand, NEW m \in fxSent, Fx!ReceiveWebhook(h, m)
    PROVE  FxInv'
<1> PICK t : t = [step |-> "webhook", deposit |-> m.deposit, status |-> m.status,
                  captured |-> fxDeposits[m.deposit].captured]
  OBVIOUS
<1>1. /\ m.deposit \in DOMAIN fxDeposits /\ fxDeposits[m.deposit].local = "PENDING"
      /\ Fx!Continue(h, t) /\ UNCHANGED <<fxRate, fxDeposits, fxSent, fxAccounts, fxNow>>
  BY DEF Fx!ReceiveWebhook, Fx!IsPending
<1>2. m.deposit \in FxDeposit /\ m.status \in Fx!Settled
  BY DEF FxInv, FxTypes, Fx!TypeOK
<1>3. fxDeposits[m.deposit].captured \in BOOLEAN
  BY <1>1 DEF FxInv, FxTypes, Fx!TypeOK
<1>4. t \in FxHook /\ t \in FxTasks /\ t.step = "webhook" /\ t.deposit = m.deposit
  BY <1>2, <1>3 DEF FxHook, FxTasks
<1>5. /\ fxTask' \in [Hand -> FxTasks] /\ fxAlone' \in BOOLEAN
      /\ fxTask'[h] = t /\ \A g \in Hand \ {h} : fxTask'[g] = fxTask[g]
      /\ fxAlone' => fxAlone /\ FxOneAtATime'
  BY <1>1, <1>4, FxGoesOn DEF FxInv, FxOpen
<1>6. Fx!TypeOK'
  BY <1>1, <1>5, FxStages DEF FxInv, FxTypes, Fx!TypeOK
<1>7. FxTypes'
  BY <1>1, <1>4, <1>5, <1>6 DEF FxInv, FxTypes, IsTold
<1>8. fxAlone' => FxOpen'
  BY <1>1, <1>4, <1>5 DEF FxInv, FxOpen
<1> QED BY <1>7, <1>8 DEF FxInv

LEMMA ApplyKeepsDeposits ==
    ASSUME FxInv, NEW h \in Hand, Fx!ApplyWebhook(h)
    PROVE  /\ FxInv'
           /\ fxAlone' => \A d \in DOMAIN fxDeposits :
                             fxDeposits[d].local # "PENDING" => fxDeposits'[d] = fxDeposits[d]
<1> PICK old : old = fxTask[h]
  OBVIOUS
<1> PICK e : e = old.deposit
  OBVIOUS
<1>1. old.step = "webhook" /\ old \in FxHook /\ e \in DOMAIN fxDeposits
  BY FxStages DEF FxInv, FxTypes, Fx!ApplyWebhook
<1>2. /\ fxDeposits' = [fxDeposits EXCEPT
             ![e].local = old.status, ![e].status = old.status,
             ![e].captured = old.status = "SUCCEEDED" \/ old.captured]
      /\ Fx!Continue(h, Fx!Idle) /\ UNCHANGED <<fxRate, fxSent, fxAccounts, fxNow>>
  BY DEF Fx!ApplyWebhook
<1>3. /\ DOMAIN fxDeposits' = DOMAIN fxDeposits
      /\ \A d \in DOMAIN fxDeposits \ {e} : fxDeposits'[d] = fxDeposits[d]
  BY <1>2
<1> PICK row : row = fxDeposits[e]
  OBVIOUS
<1>4. row \in FxRow /\ IsTold(row)
  BY <1>1 DEF FxInv, FxTypes, Fx!TypeOK, FxRow
<1>5. fxDeposits'[e] = [row EXCEPT !.local = old.status, !.status = old.status,
                                   !.captured = old.status = "SUCCEEDED" \/ old.captured]
  BY <1>1, <1>2
<1>6. /\ fxDeposits'[e] \in FxRow
      /\ fxDeposits'[e].told = row.told /\ fxDeposits'[e].amount = row.amount
      /\ fxDeposits'[e].locked = row.locked
  <2>1. (old.status = "SUCCEEDED" \/ old.captured) \in BOOLEAN /\ old.status \in Fx!Settled
    BY <1>1 DEF FxHook
  <2> QED BY <1>4, <1>5, <2>1 DEF FxRow
<1>7. IsTold(fxDeposits'[e])
  BY <1>4, <1>6 DEF IsTold
<1>8. Fx!Idle \in FxTasks /\ Fx!Idle.step = "idle"
  BY FxStages DEF FxTasks
<1>9. /\ fxTask' \in [Hand -> FxTasks] /\ fxAlone' \in BOOLEAN
      /\ fxTask'[h] = Fx!Idle /\ \A g \in Hand \ {h} : fxTask'[g] = fxTask[g]
      /\ fxAlone' => fxAlone /\ FxOneAtATime'
  BY <1>2, <1>8, FxGoesOn DEF FxInv, FxOpen
<1>10. Fx!TypeOK'
  BY <1>2, <1>3, <1>6, <1>9, FxStages DEF FxInv, FxTypes, Fx!TypeOK, FxRow
<1>11. FxTypes'
  BY <1>3, <1>7, <1>8, <1>9, <1>10 DEF FxInv, FxTypes, IsTold
<1>12. ASSUME fxAlone'
       PROVE  /\ row.local = "PENDING"
              /\ \A g \in Hand : fxTask'[g] = Fx!Idle
  <2>1. fxAlone /\ FxOpen
    BY <1>9, <1>12 DEF FxInv
  <2>2. old # Fx!Idle
    BY <1>1, <1>8
  <2> QED BY <1>1, <1>9, <2>1, <2>2 DEF FxOpen, FxOneAtATime
<1>13. fxAlone' => FxOpen'
  BY <1>8, <1>9, <1>12 DEF FxOpen
<1> QED BY <1>3, <1>11, <1>12, <1>13 DEF FxInv

\* Every step keeps the invariant, and what is settled while requests do not overlap.
LEMMA DepositsAreKept ==
    ASSUME FxInv, [Fx!Next]_(Fx!vars)
    PROVE  /\ FxInv'
           /\ fxAlone' => \A d \in DOMAIN fxDeposits :
                             fxDeposits[d].local # "PENDING" => fxDeposits'[d] = fxDeposits[d]
<1>1. CASE UNCHANGED Fx!vars
  <2>1. Fx!TypeOK'
    BY <1>1 DEF Fx!vars, FxInv, FxTypes, Fx!TypeOK
  <2> QED BY <1>1, <2>1, FxWaits DEF Fx!vars
<1>2. ASSUME NEW h \in Hand, Fx!FxStep(h) \/ Fx!WebhookStep(h)
      PROVE  \/ \E country, method : \E d \in FxDeposit, a \in FxAmounts :
                   Fx!InitiateDeposit(h, d, country, method, a)
             \/ Fx!StoreDeposit(h)
             \/ \E m \in fxSent : Fx!ReceiveWebhook(h, m)
             \/ Fx!ApplyWebhook(h)
  <2>1. fxTask[h].step # "account"
    BY FxStages DEF FxInv, FxTypes
  <2>2. ~Fx!StoreAccount(h)
    BY <2>1 DEF Fx!StoreAccount
  <2>3. Fx!FxStep(h) =>
           \/ \E country, method : \E d \in FxDeposit, a \in FxAmounts :
                 Fx!InitiateDeposit(h, d, country, method, a)
           \/ Fx!StoreDeposit(h)
    BY <2>2, Zenon DEF Fx!FxStep
  <2> QED BY <1>2, <2>3 DEF Fx!WebhookStep
<1>3. CASE \E d \in DOMAIN fxDeposits, status \in Fx!Settled : Fx!SendWebhook(d, status)
  <2> PICK d \in DOMAIN fxDeposits, status \in Fx!Settled : Fx!SendWebhook(d, status)
    BY <1>3
  <2> PICK m : m = [deposit |-> d, status |-> status, at |-> fxNow]
    OBVIOUS
  <2>1. /\ fxSent' = fxSent \cup {m}
        /\ UNCHANGED <<fxRate, fxDeposits, fxAccounts, fxNow, fxTask, fxAlone>>
    BY DEF Fx!SendWebhook
  <2>2. m \in [deposit : FxDeposit, status : Fx!Settled, at : 0 .. FxMaxTime]
    BY DEF FxInv, FxTypes, Fx!TypeOK
  <2>3. Fx!TypeOK'
    BY <2>1, <2>2 DEF FxInv, FxTypes, Fx!TypeOK
  <2> QED BY <2>1, <2>3, FxWaits
<1>4. CASE Fx!RateMoves \/ Fx!Tick
  <2>1. UNCHANGED <<fxDeposits, fxSent, fxAccounts, fxTask, fxAlone>>
    BY <1>4 DEF Fx!RateMoves, Fx!Tick
  <2>2. fxRate' \in FxRates /\ fxNow' \in 0 .. FxMaxTime
    BY <1>4, FxConstants DEF Fx!RateMoves, Fx!Tick, FxInv, FxTypes, Fx!TypeOK
  <2>3. Fx!TypeOK'
    BY <2>1, <2>2 DEF FxInv, FxTypes, Fx!TypeOK
  <2> QED BY <2>1, <2>3, FxWaits
<1>5. ASSUME NEW h \in Hand, Fx!FxStep(h) \/ Fx!WebhookStep(h)
      PROVE  /\ FxInv'
             /\ fxAlone' => \A d \in DOMAIN fxDeposits :
                               fxDeposits[d].local # "PENDING" => fxDeposits'[d] = fxDeposits[d]
  <2>1. CASE \E country, method : \E d \in FxDeposit, a \in FxAmounts :
                Fx!InitiateDeposit(h, d, country, method, a)
    BY <2>1, InitiateKeepsDeposits DEF Fx!InitiateDeposit
  <2>2. CASE Fx!StoreDeposit(h)
    BY <2>2, StoreKeepsDeposits
  <2>3. CASE \E m \in fxSent : Fx!ReceiveWebhook(h, m)
    BY <2>3, ReceiveKeepsDeposits DEF Fx!ReceiveWebhook
  <2>4. CASE Fx!ApplyWebhook(h)
    BY <2>4, ApplyKeepsDeposits
  <2> QED BY <1>2, <1>5, <2>1, <2>2, <2>3, <2>4
<1> QED BY <1>1, <1>3, <1>4, <1>5 DEF Fx!Next

\* An account that is there is not replaced.
LEMMA AccountsAreKept ==
    ASSUME [Ibans!Next]_(Ibans!vars), NEW key \in DOMAIN ibanAccounts
    PROVE  key \in DOMAIN ibanAccounts' /\ ibanAccounts'[key] = ibanAccounts[key]
<1>1. ASSUME NEW h \in Hand, Ibans!StoreAccount(h)
      PROVE  key \in DOMAIN ibanAccounts' /\ ibanAccounts'[key] = ibanAccounts[key]
  BY <1>1 DEF Ibans!StoreAccount, Ibans!With
<1>2. \/ UNCHANGED ibanAccounts
      \/ \E h \in Hand : Ibans!StoreAccount(h)
  BY DEF Ibans!vars, Ibans!Next, Ibans!FxStep, Ibans!WebhookStep, Ibans!InitiateDeposit,
         Ibans!StoreDeposit, Ibans!OpenAccount, Ibans!ReceiveWebhook, Ibans!ApplyWebhook,
         Ibans!SendWebhook, Ibans!RateMoves, Ibans!Tick
<1> QED BY <1>1, <1>2

\* Donors are told what the locked rate makes of their amount; while requests do not
\* overlap a deposit is settled once, however webhooks are repeated and reordered; and a
\* school is paid on the account it has for good: for any deposits, rates and amounts.
THEOREM DepositsAlwaysSettleOnce == AllSpec => DepositsSettleOnce
<1>1. AllInit => FxInv
  <2> SUFFICES ASSUME Fx!Init PROVE FxInv
    BY DEF AllInit
  <2>1. Fx!Idle \in FxTasks /\ Fx!Idle.step = "idle"
    BY FxStages DEF FxTasks
  <2>2. /\ DOMAIN fxDeposits = {} /\ DOMAIN fxAccounts = {} /\ fxSent = {} /\ fxNow = 0
        /\ fxRate \in FxRates /\ fxTask = [h \in Hand |-> Fx!Idle] /\ fxAlone = TRUE
    BY DEF Fx!Init
  <2>3. FxTypes
    BY <2>1, <2>2, FxConstants DEF FxTypes, Fx!TypeOK
  <2> QED BY <2>1, <2>2, <2>3 DEF FxInv, FxOpen, FxOneAtATime
<1>2. FxInv /\ [Fx!Next]_(Fx!vars) => FxInv'
  BY DepositsAreKept
<1>3. FxInv => (focus = "fx" => Fx!TypeOK /\ Fx!ToldIsLocked)
  BY DEF FxInv, FxTypes, Fx!ToldIsLocked, IsTold
<1>4. FxInv /\ [Fx!Next]_(Fx!vars) =>
          [fxAlone' => \A d \in DOMAIN fxDeposits :
              fxDeposits[d].local # "PENDING" => fxDeposits'[d] = fxDeposits[d]]_(Fx!vars)
  BY DepositsAreKept
<1>5. [Ibans!Next]_(Ibans!vars) =>
          [\A s \in IbanSchool, country \in Ibans!Countries, currency \in IbanCurrency :
             Ibans!PayoutRoute(s, country, currency).route = "LOCAL_BANK" =>
                 Ibans!PayoutRoute(s, country, currency)' =
                    Ibans!PayoutRoute(s, country, currency)]_(Ibans!vars)
  <2> SUFFICES ASSUME [Ibans!Next]_(Ibans!vars), NEW s \in IbanSchool,
                      NEW country \in Ibans!Countries, NEW currency \in IbanCurrency,
                      Ibans!PayoutRoute(s, country, currency).route = "LOCAL_BANK"
               PROVE  Ibans!PayoutRoute(s, country, currency)' =
                         Ibans!PayoutRoute(s, country, currency)
    OBVIOUS
  <2> PICK key : key = <<s, country, currency>>
    OBVIOUS
  <2>1. key \in DOMAIN ibanAccounts
    BY DEF Ibans!PayoutRoute, Ibans!SchoolAccounts
  <2>2. key \in DOMAIN ibanAccounts' /\ ibanAccounts'[key] = ibanAccounts[key] /\ key[1] = s
    BY <2>1, AccountsAreKept
  <2> QED BY <2>1, <2>2 DEF Ibans!PayoutRoute, Ibans!SchoolAccounts
<1> QED BY <1>1, <1>2, <1>3, <1>4, <1>5, FxSteps, PTL
        DEF AllSpec, DepositsSettleOnce, Fx!SettledStaysAlone, Ibans!RoutesStay

\* What follows needs nothing of these constants.
HIDE GoalAssumption
HIDE AmountAssumption
HIDE ChannelAssumption
HIDE BoundAssumption
HIDE NoneAssumption

-----------------------------------------------------------------------------
(* Reconciliation: payouts against the bank.                               *)

LEMMA BankConstants ==
    /\ BankAmount \subseteq Nat /\ NoReference \notin BankReference
    /\ StaleAfter \in Nat /\ MatchWindow \in Nat
    /\ BankMaxPayouts \in Nat /\ BankMaxPosted \in Nat /\ BankMaxDay \in Nat
    /\ IsFiniteSet(DOMAIN CountedGifts) /\ \A g \in DOMAIN CountedGifts : CountedGifts[g].amount \in Nat
BY MoneyAssumption DEF Reconciliation!ReconciliationAssumption, Reconciliation!IsFiniteSet, IsFiniteSet

\* A step of the whole is one of Reconciliation, or leaves it alone.
LEMMA BankSteps == [AllNext]_allVars => [Reconciliation!Next]_(Reconciliation!vars)
BY DEF AllNext, OtherParts, allVars, bank, Reconciliation!vars

BankPayouts == [amount : BankAmount, reference : BankReference,
                sentAt : {Reconciliation!NotSent} \cup 0..BankMaxDay]
BankPosts == [amount : BankAmount, reference : BankReference \cup {NoReference}, at : 0..BankMaxDay]

\* The fold of Matches, which CHOOSE finds: over sets of payouts, the last one last.
MatchFold(ps, txns, h) ==
    [s \in SUBSET (DOMAIN ps) |->
        IF s = {} THEN <<>> ELSE Reconciliation!Matched(h[s \ {Max(s)}], ps[Max(s)], txns)]

LEMMA MatchesIsFold ==
    \A ps, txns : Reconciliation!Matches(ps, txns) = (CHOOSE h : h = MatchFold(ps, txns, h))[DOMAIN ps]
BY DEF Reconciliation!Matches, Reconciliation!FoldLeft, Reconciliation!MapThenFoldSet, MatchFold,
       Reconciliation!Max, Max

\* The first of some transactions is one of them.
LEMMA FirstFits == \A T \in SUBSET Nat : T # {} => Reconciliation!Min(T) \in T
<1> SUFFICES ASSUME NEW T \in SUBSET Nat, T # {} PROVE Reconciliation!Min(T) \in T
  OBVIOUS
<1>1. PICK n \in T : \A m \in T : n <= m
  BY LeastNatural
<1> QED BY <1>1 DEF Reconciliation!Min

\* The transactions that fit a payout and are left by the ones before it.
Left(txns, rows, i) == DOMAIN txns \ UNION {rows[j] : j \in 1..(i - 1)}
Fitting(ps, txns, rows, i) == {t \in Left(txns, rows, i) : Reconciliation!IsMatch(ps[i], txns[t])}
Placed(ps, txns, rows, i) ==
    /\ rows[i] \subseteq Fitting(ps, txns, rows, i)
    /\ rows[i] = {} => Fitting(ps, txns, rows, i) = {}

IsNext(ps, txns, m, rows, new) ==
    /\ new \in [1..(m + 1) -> SUBSET (DOMAIN txns)]
    /\ \A i \in 1..m : new[i] = rows[i]
    /\ Placed(ps, txns, new, m + 1)

\* One payout more: it gets what fits and is left.
LEMMA MatchedAdds ==
    ASSUME NEW ps, NEW txns, NEW m \in Nat, DOMAIN txns \subseteq Nat,
           NEW rows \in [1..m -> SUBSET (DOMAIN txns)], NEW new,
           new = Reconciliation!Matched(rows, ps[m + 1], txns)
    PROVE  IsNext(ps, txns, m, rows, new)
<1> DEFINE used == UNION {rows[i] : i \in DOMAIN rows}
           fits == {t \in DOMAIN txns \ used : Reconciliation!IsMatch(ps[m + 1], txns[t])}
           best == IF fits = {} THEN {} ELSE {Reconciliation!Min(fits)}
<1>1. new = Append(rows, best)
  BY DEF Reconciliation!Matched, Reconciliation!Unconsumed
<1>2. fits \in SUBSET Nat
  OBVIOUS
<1>3. best \subseteq fits /\ (best = {} => fits = {})
  <2> HIDE DEF fits
  <2> QED BY <1>2, FirstFits
<1>4. best \in SUBSET (DOMAIN txns)
  BY <1>3
<1> HIDE DEF best, fits
<1>5. /\ new \in [1..(m + 1) -> SUBSET (DOMAIN txns)]
      /\ \A i \in 1..m : new[i] = rows[i]
      /\ new[m + 1] = best
  <2> PICK T : T = SUBSET (DOMAIN txns)
    OBVIOUS
  <2>1. rows \in [1..m -> T] /\ best \in T
    BY <1>4
  <2>2. rows \in Seq(T) /\ Len(rows) = m
    BY <2>1
  <2>3. /\ new \in Seq(T) /\ Len(new) = m + 1
        /\ \A i \in 1..m : new[i] = rows[i]
        /\ new[m + 1] = best
    BY <1>1, <2>1, <2>2
  <2>4. new \in [1..(m + 1) -> T]
    BY <2>3
  <2> QED BY <2>3, <2>4
<1>6. fits = Fitting(ps, txns, new, m + 1)
  <2>1. {new[j] : j \in 1..((m + 1) - 1)} = {rows[i] : i \in DOMAIN rows}
    BY <1>5
  <2> QED BY <2>1 DEF fits, Fitting, Left
<1> QED BY <1>3, <1>5, <1>6 DEF Placed, IsNext

\* What reconcile finds: every payout gets what fits it and no earlier one took.
LEMMA EachIsPlaced ==
    ASSUME NEW n \in Nat, NEW ps, DOMAIN ps = 1..n, NEW txns, DOMAIN txns \subseteq Nat
    PROVE  /\ Reconciliation!Matches(ps, txns) \in [1..n -> SUBSET (DOMAIN txns)]
           /\ \A i \in 1..n : Placed(ps, txns, Reconciliation!Matches(ps, txns), i)
<1> DEFINE V == UNION {[1..m -> SUBSET (DOMAIN txns)] : m \in Nat}
           step == [i \in 1..n |-> [rows \in V |-> Reconciliation!Matched(rows, ps[i], txns)]]
<1>1. <<>> \in V
  <2>1. <<>> \in [1..0 -> SUBSET (DOMAIN txns)]
    OBVIOUS
  <2> QED BY <2>1
<1>2. ASSUME NEW i \in 1..n, NEW rows \in V PROVE Reconciliation!Matched(rows, ps[i], txns) \in V
  <2>1. PICK m \in Nat : rows \in [1..m -> SUBSET (DOMAIN txns)]
    OBVIOUS
  <2>2. Reconciliation!Matched(rows, ps[i], txns) \in [1..(m + 1) -> SUBSET (DOMAIN txns)]
    <3> DEFINE qs == [k \in {m + 1} |-> ps[i]]
    <3>1. qs[m + 1] = ps[i]
      OBVIOUS
    <3>2. Reconciliation!Matched(rows, qs[m + 1], txns) \in [1..(m + 1) -> SUBSET (DOMAIN txns)]
      <4> HIDE DEF qs
      <4> QED BY <2>1, MatchedAdds DEF IsNext
    <3> QED BY <3>1, <3>2
  <2> QED BY <2>2
<1> HIDE DEF V
<1>3. step \in [1..n -> [V -> V]]
  BY <1>2
<1>4. PICK g \in [SUBSET (1..n) -> V] : IsFolding(g, n, <<>>, step)
  <2> HIDE DEF step
  <2> QED BY <1>1, <1>3, FoldsPlaces
<1>5. g = MatchFold(ps, txns, g)
  <2>1. ASSUME NEW s \in SUBSET (1..n), s # {}
        PROVE  step[Max(s)][g[s \ {Max(s)}]] = Reconciliation!Matched(g[s \ {Max(s)}], ps[Max(s)], txns)
    <3>1. Max(s) \in 1..n /\ s \ {Max(s)} \in SUBSET (1..n)
      BY <2>1, LargestPlace
    <3>2. g[s \ {Max(s)}] \in V
      BY <3>1
    <3> QED BY <3>1, <3>2
  <2>2. g = [s \in SUBSET (1..n) |-> IF s = {} THEN <<>> ELSE step[Max(s)][g[s \ {Max(s)}]]]
    BY <1>4 DEF IsFolding
  <2> HIDE DEF step
  <2>3. \A s \in SUBSET (1..n) : g[s] = IF s = {} THEN <<>> ELSE step[Max(s)][g[s \ {Max(s)}]]
    BY <2>2
  <2>4. \A s \in SUBSET (1..n) : g[s] = MatchFold(ps, txns, g)[s]
    BY <2>1, <2>3 DEF MatchFold
  <2>5. MatchFold(ps, txns, g) = [s \in SUBSET (1..n) |-> MatchFold(ps, txns, g)[s]]
    BY DEF MatchFold
  <2>6. g = [s \in SUBSET (1..n) |-> g[s]]
    OBVIOUS
  <2> QED BY <2>4, <2>5, <2>6
<1>6. PICK h : h = MatchFold(ps, txns, h) /\ Reconciliation!Matches(ps, txns) = h[1..n]
  <2>1. \E h : h = MatchFold(ps, txns, h)
    BY <1>5
  <2> QED BY <2>1, MatchesIsFold
<1> DEFINE P == {m \in 0..n : /\ h[1..m] \in [1..m -> SUBSET (DOMAIN txns)]
                              /\ \A i \in 1..m : Placed(ps, txns, h[1..m], i)}
<1>7. 0 \in P
  <2>1. h[{}] = <<>>
    <3>1. {} \in SUBSET (DOMAIN ps)
      OBVIOUS
    <3>2. MatchFold(ps, txns, h)[{}] = <<>>
      BY <3>1 DEF MatchFold
    <3> QED BY <1>6, <3>2
  <2>2. 1..0 = {} /\ 0 \in 0..n
    OBVIOUS
  <2>3. <<>> \in [1..0 -> SUBSET (DOMAIN txns)]
    OBVIOUS
  <2>4. h[1..0] = <<>>
    BY <2>1, <2>2
  <2>5. \A i \in 1..0 : FALSE
    OBVIOUS
  <2> QED BY <2>2, <2>3, <2>4, <2>5
<1>8. ASSUME NEW m \in 0..(n - 1), m \in P PROVE m + 1 \in P
  <2>1. Max(1..(m + 1)) = m + 1 /\ (1..(m + 1)) \ {m + 1} = 1..m /\ 1..(m + 1) # {}
    BY LastPlace
  <2>2. h[1..(m + 1)] = Reconciliation!Matched(h[1..m], ps[m + 1], txns)
    <3>1. 1..(m + 1) \in SUBSET (DOMAIN ps)
      OBVIOUS
    <3> QED BY <1>6, <2>1, <3>1 DEF MatchFold
  <2> PICK a, b : a = h[1..m] /\ b = h[1..(m + 1)]
    OBVIOUS
  <2>a. a \in [1..m -> SUBSET (DOMAIN txns)] /\ b = Reconciliation!Matched(a, ps[m + 1], txns) /\ m \in Nat
    BY <1>8, <2>2
  <2>b. /\ b \in [1..(m + 1) -> SUBSET (DOMAIN txns)]
        /\ \A i \in 1..m : b[i] = a[i]
        /\ Placed(ps, txns, b, m + 1)
    <3>1. IsNext(ps, txns, m, a, b)
      BY <2>a, MatchedAdds
    <3> QED BY <3>1 DEF IsNext
  <2>3. /\ h[1..(m + 1)] \in [1..(m + 1) -> SUBSET (DOMAIN txns)]
        /\ \A i \in 1..m : h[1..(m + 1)][i] = h[1..m][i]
        /\ Placed(ps, txns, h[1..(m + 1)], m + 1)
    BY <2>b
  <2>4. ASSUME NEW i \in 1..m PROVE Placed(ps, txns, h[1..(m + 1)], i)
    <3>1. Placed(ps, txns, a, i)
      BY <1>8
    <3>2. \A j \in 1..(i - 1) : j \in 1..m /\ b[j] = a[j]
      BY <2>b
    <3>3. {b[j] : j \in 1..(i - 1)} = {a[j] : j \in 1..(i - 1)} /\ b[i] = a[i]
      BY <2>b, <3>2
    <3>4. Fitting(ps, txns, b, i) = Fitting(ps, txns, a, i)
      BY <3>3 DEF Fitting, Left
    <3> QED BY <3>1, <3>3, <3>4 DEF Placed
  <2>5. \A i \in 1..(m + 1) : i \in 1..m \/ i = m + 1
    OBVIOUS
  <2> QED BY <2>3, <2>4, <2>5
<1>9. n \in P
  <2> HIDE DEF P
  <2> QED BY <1>7, <1>8, CountingUp
<1> QED BY <1>6, <1>9

\* The sums of the module are sums of Sums.
LEMMA BankSums ==
    /\ \A rows, column, S : Reconciliation!SumOf(rows, column, S) = SumIn(rows, S, column)
    /\ \A f, S : Reconciliation!MapThenSumSet(LAMBDA x : f[x], S) = Total(f, S)
BY DEF Reconciliation!SumOf, Reconciliation!MapThenSumSet, Reconciliation!MapThenFoldSet,
       SumIn, Total, MapThenSumSet, MapThenFoldSet

Statuses == {"MATCHED", "PENDING", "UNMATCHED", "DISCREPANCY"}

\* What a view is right about, whatever has happened since.
GoodView(v) ==
    /\ DOMAIN v = {"rows", "orphans", "alerts"}
    /\ Len(v.rows) \in Nat /\ DOMAIN v.rows = 1..Len(v.rows)
    /\ \A i \in DOMAIN v.rows : v.rows[i].status \in Statuses
    /\ \A i, j \in DOMAIN v.rows :
          /\ i # j => v.rows[i].with \cap v.rows[j].with = {}
          /\ v.rows[i].with \cap v.orphans = {}
    /\ v.alerts = {i \in DOMAIN v.rows : v.rows[i].status = "UNMATCHED"}

\* What a run has loaded: payouts that were sent by then, if they were.
Loaded(ps, now) ==
    /\ ps \in Seq(BankPayouts)
    /\ now \in 0..BankMaxDay
    /\ \A i \in DOMAIN ps : ps[i].sentAt # Reconciliation!NotSent => ps[i].sentAt <= now

\* The row of a payout.
LEMMA RowFacts ==
    ASSUME NEW ps, NEW txns, NEW now, Loaded(ps, now), DOMAIN txns \subseteq Nat, NEW i \in DOMAIN ps
    PROVE  LET row == Reconciliation!Rows(ps, txns, now)[i]
           IN  /\ row.with = Reconciliation!Matches(ps, txns)[i]
               /\ row.status \in Statuses
               /\ row.status = "UNMATCHED" <=>
                     /\ Reconciliation!Matches(ps, txns)[i] = {}
                     /\ ps[i].sentAt # Reconciliation!NotSent
                     /\ now - ps[i].sentAt > StaleAfter
<1> DEFINE found == Reconciliation!Matches(ps, txns)
           late == Reconciliation!ClassifyUnmatched(ps[i], now)
<1>1. ps[i] \in BankPayouts /\ now \in Nat
  BY DEF Loaded
<1>2. ps[i].sentAt \in Int /\ (ps[i].sentAt # Reconciliation!NotSent => ps[i].sentAt <= now)
  BY <1>1 DEF Loaded, BankPayouts, Reconciliation!NotSent
<1>3. /\ late \in {"UNMATCHED", "PENDING"}
      /\ late = "UNMATCHED" <=> ps[i].sentAt # Reconciliation!NotSent /\ now - ps[i].sentAt > StaleAfter
  BY <1>1, <1>2, BankConstants DEF Reconciliation!ClassifyUnmatched, Reconciliation!DaysBetween
<1> HIDE DEF late
<1>4. CASE found[i] = {}
  <2>1. Reconciliation!Rows(ps, txns, now)[i] = [status |-> late, with |-> {}, off |-> 0]
    BY <1>4 DEF Reconciliation!Rows, late
  <2> QED BY <1>3, <1>4, <2>1 DEF Statuses
<1>5. CASE found[i] # {}
  <2>1. PICK off : Reconciliation!Rows(ps, txns, now)[i]
                     = [status |-> IF off # 0 THEN "DISCREPANCY" ELSE "MATCHED", with |-> found[i], off |-> off]
    BY <1>5 DEF Reconciliation!Rows
  <2> QED BY <1>5, <2>1 DEF Statuses
<1> QED BY <1>4, <1>5

\* A view is right about the payouts and transactions it is made of.
LEMMA ViewIsGood ==
    ASSUME NEW ps, NEW txns, NEW now, Loaded(ps, now), DOMAIN txns \subseteq Nat
    PROVE  GoodView(Reconciliation!View(ps, txns, now))
<1> DEFINE found == Reconciliation!Matches(ps, txns)
           v == Reconciliation!View(ps, txns, now)
<1>n. PICK n \in Nat : DOMAIN ps = 1..n /\ Len(ps) = n
  BY DEF Loaded
<1>1. /\ DOMAIN v = {"rows", "orphans", "alerts"}
      /\ v.rows = Reconciliation!Rows(ps, txns, now)
      /\ v.orphans = DOMAIN txns \ UNION {found[i] : i \in DOMAIN ps}
      /\ v.alerts = Reconciliation!Alerts(ps, v.rows, now)
  BY DEF Reconciliation!View, Reconciliation!Orphans
<1> HIDE DEF v
<1>2. DOMAIN v.rows = 1..n /\ Len(v.rows) = n
  <2>1. DOMAIN v.rows = 1..n /\ v.rows = [i \in 1..n |-> v.rows[i]]
    BY <1>1, <1>n DEF Reconciliation!Rows
  <2> QED BY <2>1
<1>3. /\ found \in [1..n -> SUBSET (DOMAIN txns)]
      /\ \A i \in 1..n : Placed(ps, txns, found, i)
  BY <1>n, EachIsPlaced
<1> HIDE DEF found
<1>4. \A i \in 1..n : v.rows[i].with = found[i] /\ v.rows[i].status \in Statuses
  BY <1>1, <1>n, RowFacts DEF found
<1>5. ASSUME NEW i \in 1..n, NEW j \in 1..n
      PROVE  /\ i # j => found[i] \cap found[j] = {}
             /\ found[i] \cap v.orphans = {}
  <2>1. ASSUME NEW a \in 1..n, NEW b \in 1..n, a < b PROVE found[a] \cap found[b] = {}
    <3>1. found[b] \subseteq DOMAIN txns \ UNION {found[k] : k \in 1..(b - 1)}
      BY <1>3 DEF Placed, Fitting, Left
    <3>2. a \in 1..(b - 1)
      BY <2>1
    <3> QED BY <3>1, <3>2
  <2>2. i # j => i < j \/ j < i
    OBVIOUS
  <2>3. found[i] \cap v.orphans = {}
    BY <1>1, <1>n
  <2> QED BY <2>1, <2>2, <2>3
<1>6. v.alerts = {i \in 1..n : v.rows[i].status = "UNMATCHED"}
  <2>1. ASSUME NEW i \in 1..n
        PROVE  (v.rows[i].status = "UNMATCHED" /\ ps[i].sentAt # Reconciliation!NotSent
                  /\ Reconciliation!IsStale(ps[i], now))
               <=> v.rows[i].status = "UNMATCHED"
    <3>1. ps[i] \in BankPayouts /\ now \in Nat
      BY <1>n DEF Loaded
    <3>2. v.rows[i].status = "UNMATCHED" =>
             ps[i].sentAt # Reconciliation!NotSent /\ now - ps[i].sentAt > StaleAfter
      BY <1>1, <1>n, RowFacts
    <3> QED BY <3>1, <3>2, BankConstants DEF BankPayouts, Reconciliation!IsStale, Reconciliation!NotSent
  <2> QED BY <1>1, <1>n, <2>1 DEF Reconciliation!Alerts
<1> QED BY <1>1, <1>2, <1>4, <1>5, <1>6 DEF GoodView, v

\* A payout that waits has no transaction that fits and is left over.
LEMMA FittingIsTaken ==
    ASSUME NEW ps, NEW txns, NEW now, Loaded(ps, now), DOMAIN txns \subseteq Nat,
           NEW t \in Reconciliation!Orphans(ps, txns), NEW i \in DOMAIN ps,
           Reconciliation!IsMatch(ps[i], txns[t])
    PROVE  Reconciliation!Rows(ps, txns, now)[i].with # {}
<1> DEFINE found == Reconciliation!Matches(ps, txns)
<1>n. PICK n \in Nat : DOMAIN ps = 1..n
  BY DEF Loaded
<1>1. Placed(ps, txns, found, i)
  BY <1>n, EachIsPlaced
<1>2. t \in DOMAIN txns \ UNION {found[j] : j \in 1..n}
  BY <1>n DEF Reconciliation!Orphans
<1> HIDE DEF found
<1>3. t \in Left(txns, found, i)
  <2>1. \A j \in 1..(i - 1) : j \in 1..n
    BY <1>n
  <2> QED BY <1>2, <2>1 DEF Left
<1>4. found[i] # {}
  BY <1>1, <1>3 DEF Placed, Fitting
<1> QED BY <1>4, RowFacts DEF found

\* The summary of a view counts every payout once.
LEMMA SummaryCounts ==
    ASSUME NEW v, GoodView(v)
    PROVE  LET counts == Reconciliation!Summary(v)
           IN  Len(v.rows) = Reconciliation!MapThenSumSet(LAMBDA x : counts[x], DOMAIN counts)
<1> PICK counts : counts = Reconciliation!Summary(v)
  OBVIOUS
<1> PICK n \in Nat : n = Len(v.rows) /\ DOMAIN v.rows = 1..n
  BY DEF GoodView
<1> DEFINE ones == [i \in 1..n |-> 1]
           c == [i \in 1..n |-> v.rows[i].status]
<1>1. /\ DOMAIN counts = Statuses
      /\ \A k \in Statuses : counts[k] = Cardinality({i \in 1..n : v.rows[i].status = k})
  BY DEF Reconciliation!Summary, Statuses, Reconciliation!Cardinality, Cardinality
<1>2. InClasses(ones, counts, 1..n, Statuses, c)
  <2>1. IsFiniteSet(1..n) /\ c \in [1..n -> Statuses]
    BY PlacesAreCounted DEF GoodView
  <2>2. IsFiniteSet(Statuses)
    <3>1. IsFiniteSet({"MATCHED"} \cup {"PENDING"}) /\ IsFiniteSet({"UNMATCHED"} \cup {"DISCREPANCY"})
      BY FS_Singleton, FS_Union
    <3>2. IsFiniteSet(({"MATCHED"} \cup {"PENDING"}) \cup ({"UNMATCHED"} \cup {"DISCREPANCY"}))
      BY <3>1, FS_Union
    <3>3. Statuses = ({"MATCHED"} \cup {"PENDING"}) \cup ({"UNMATCHED"} \cup {"DISCREPANCY"})
      BY DEF Statuses
    <3> QED BY <3>2, <3>3
  <2>3. ASSUME NEW k \in Statuses
        PROVE  \E T \in SUBSET (1..n) : (\A x \in 1..n : x \in T <=> c[x] = k) /\ counts[k] = Total(ones, T)
    <3> DEFINE T == {i \in 1..n : v.rows[i].status = k}
    <3>1. T \in SUBSET (1..n) /\ \A x \in 1..n : x \in T <=> c[x] = k
      OBVIOUS
    <3>2. IsFiniteSet(T) /\ Cardinality(T) \in Nat /\ \A x \in T : ones[x] = 1
      BY PlacesAreCounted
    <3>3. Total(ones, T) = 1 * Cardinality(T)
      <4> HIDE DEF T, ones
      <4> QED BY <3>2, TotalOfConstant
    <3>4. counts[k] = Total(ones, T)
      BY <1>1, <3>2, <3>3
    <3> HIDE DEF T
    <3> QED BY <3>1, <3>4
  <2>4. \A x \in 1..n : ones[x] \in Int
    OBVIOUS
  <2> HIDE DEF ones, c
  <2> QED BY <2>1, <2>2, <2>3, <2>4 DEF InClasses
<1>3. Total(counts, Statuses) = Total(ones, 1..n)
  BY <1>2, TotalOfClasses
<1>4. Total(ones, 1..n) = n
  <2>1. IsFiniteSet(1..n) /\ Cardinality(1..n) = n /\ \A x \in 1..n : ones[x] = 1
    BY PlacesAreCounted
  <2>2. Total(ones, 1..n) = 1 * Cardinality(1..n)
    <3> HIDE DEF ones
    <3> QED BY <2>1, TotalOfConstant
  <2> QED BY <2>1, <2>2
<1> QED BY <1>1, <1>3, <1>4, BankSums

\* The sum over one place more.
IsNumbered(f, i) == \A k \in 1..i : f[k] \in Int

LEMMA OnePlaceMore ==
    ASSUME NEW f, NEW i \in Nat \ {0}, IsNumbered(f, i)
    PROVE  Total(f, 1..i) = Total(f, 1..(i - 1)) + f[i]
<1>1. IsFiniteSet(1..i) /\ i \in 1..i /\ (1..i) \ {i} = 1..(i - 1)
  BY PlacesAreCounted
<1>2. Total(f, 1..i) = f[i] + Total(f, (1..i) \ {i})
  BY <1>1, TotalSplits DEF IsNumbered
<1>3. f[i] \in Int
  BY DEF IsNumbered
<1>4. Total(f, 1..(i - 1)) \in Int
  <2>1. IsFiniteSet(1..(i - 1))
    BY PlacesAreCounted
  <2>2. \A k \in 1..(i - 1) : f[k] \in Int
    BY DEF IsNumbered
  <2> QED BY <2>1, <2>2, TotalSplits
<1>5. Total(f, (1..i) \ {i}) = Total(f, 1..(i - 1))
  <2>1. (1..i) \ {i} = 1..(i - 1)
    BY <1>1
  <2> QED BY <2>1, Zenon
<1> PICK rest : rest = Total(f, 1..(i - 1))
  OBVIOUS
<1>6. Total(f, 1..i) = f[i] + rest /\ rest \in Int
  BY <1>2, <1>4, <1>5
<1> QED BY <1>3, <1>6

\* The journal has a debit and a credit of every payout.
LEMMA JournalAdds ==
    ASSUME NEW ps \in Seq(BankPayouts)
    PROVE  /\ Reconciliation!Total(Reconciliation!Journal(ps), "debit") = SumIn(ps, DOMAIN ps, "amount")
           /\ Reconciliation!Total(Reconciliation!Journal(ps), "credit") = SumIn(ps, DOMAIN ps, "amount")
<1>n. PICK n \in Nat : Len(ps) = n /\ DOMAIN ps = 1..n
  OBVIOUS
<1> PICK lines : lines = Reconciliation!Journal(ps)
  OBVIOUS
<1> DEFINE d == [k \in 1..(2 * n) |-> lines[k]["debit"]]
           c == [k \in 1..(2 * n) |-> lines[k]["credit"]]
           a == [i \in 1..n |-> ps[i]["amount"]]
<1>1. DOMAIN lines = 1..(2 * n)
  BY <1>n DEF Reconciliation!Journal
<1>2. \A i \in 1..n : a[i] \in Nat
  <2>1. \A i \in 1..n : ps[i] \in BankPayouts
    BY <1>n
  <2> QED BY <2>1, BankConstants DEF BankPayouts
<1>3. ASSUME NEW i \in 1..n
      PROVE  /\ 2 * i - 1 \in 1..(2 * n) /\ 2 * i \in 1..(2 * n)
             /\ d[2 * i - 1] = a[i] /\ d[2 * i] = 0
             /\ c[2 * i - 1] = 0 /\ c[2 * i] = a[i]
  <2>1. /\ 2 * i - 1 \in 1..(2 * n) /\ 2 * i \in 1..(2 * n)
        /\ ((2 * i - 1) + 1) \div 2 = i /\ (2 * i - 1) % 2 = 1
        /\ (2 * i + 1) \div 2 = i /\ (2 * i) % 2 = 0
    OBVIOUS
  <2>2. lines[2 * i - 1] = [account |-> "5000", debit |-> ps[i].amount, credit |-> 0]
    BY <1>n, <2>1 DEF Reconciliation!Journal
  <2>3. lines[2 * i] = [account |-> "1000", debit |-> 0, credit |-> ps[i].amount]
    BY <1>n, <2>1 DEF Reconciliation!Journal
  <2>4. d[2 * i - 1] = lines[2 * i - 1]["debit"] /\ c[2 * i - 1] = lines[2 * i - 1]["credit"]
    BY <2>1
  <2>5. d[2 * i] = lines[2 * i]["debit"] /\ c[2 * i] = lines[2 * i]["credit"]
    BY <2>1
  <2>6. a[i] = ps[i]["amount"]
    OBVIOUS
  <2> HIDE DEF d, c, a
  <2> QED BY <2>1, <2>2, <2>3, <2>4, <2>5, <2>6
<1> DEFINE P == {m \in 0..n : /\ Total(d, 1..(2 * m)) = Total(a, 1..m)
                              /\ Total(c, 1..(2 * m)) = Total(a, 1..m)}
<1> HIDE DEF d, c, a
<1>4. 0 \in P
  <2>1. 1..(2 * 0) = {} /\ 1..0 = {}
    OBVIOUS
  <2> QED BY <2>1, TotalOfNone
<1>5. ASSUME NEW m \in 0..(n - 1), m \in P PROVE m + 1 \in P
  <2> PICK i \in 1..n : i = m + 1
    OBVIOUS
  <2>2. IsFiniteSet(1..m)
    BY PlacesAreCounted
  <2>3. \A k \in 1..(2 * n) : d[k] \in Int /\ c[k] \in Int
    <3> SUFFICES ASSUME NEW k \in 1..(2 * n) PROVE d[k] \in Int /\ c[k] \in Int
      OBVIOUS
    <3>1. \E j \in 1..n : k = 2 * j \/ k = 2 * j - 1
      <4>1. (k + 1) \div 2 \in 1..n /\ (k = 2 * ((k + 1) \div 2) \/ k = 2 * ((k + 1) \div 2) - 1)
        OBVIOUS
      <4> QED BY <4>1
    <3>2. PICK j \in 1..n : k = 2 * j \/ k = 2 * j - 1
      BY <3>1
    <3>3. a[j] \in Int
      BY <1>2
    <3>4. CASE k = 2 * j
      BY <1>3, <3>3, <3>4
    <3>5. CASE k = 2 * j - 1
      BY <1>3, <3>3, <3>5
    <3> QED BY <3>2, <3>4, <3>5
  <2>4. Total(a, 1..i) = Total(a, 1..m) + a[i]
    <3>1. IsNumbered(a, i)
      BY <1>2 DEF IsNumbered
    <3>2. i - 1 = m
      OBVIOUS
    <3> QED BY <3>1, <3>2, OnePlaceMore
  <2>5. ASSUME NEW f, \A k \in 1..(2 * n) : f[k] \in Int
        PROVE  Total(f, 1..(2 * i)) = Total(f, 1..(2 * m)) + f[2 * i - 1] + f[2 * i]
    <3>1. IsNumbered(f, 2 * i) /\ IsNumbered(f, 2 * i - 1)
      BY <2>5 DEF IsNumbered
    <3>2. 2 * i \in Nat \ {0} /\ 2 * i - 1 \in Nat \ {0} /\ (2 * i - 1) - 1 = 2 * m
      OBVIOUS
    <3>3. Total(f, 1..(2 * i)) = Total(f, 1..(2 * i - 1)) + f[2 * i]
      BY <3>1, <3>2, OnePlaceMore
    <3> DEFINE j == 2 * i - 1
    <3>4. j \in Nat \ {0} /\ IsNumbered(f, j) /\ j - 1 = 2 * m
      BY <3>1, <3>2
    <3> HIDE DEF j
    <3>5. Total(f, 1..j) = Total(f, 1..(j - 1)) + f[j]
      BY <3>4, OnePlaceMore
    <3> QED BY <3>3, <3>4, <3>5 DEF j
  <2>6. /\ Total(d, 1..(2 * i)) = Total(d, 1..(2 * m)) + d[2 * i - 1] + d[2 * i]
        /\ Total(c, 1..(2 * i)) = Total(c, 1..(2 * m)) + c[2 * i - 1] + c[2 * i]
    BY <2>3, <2>5
  <2>7. Total(a, 1..m) \in Nat
    BY <1>2, <2>2, TotalIsNatural
  <2>8. Total(d, 1..(2 * i)) = Total(a, 1..i) /\ Total(c, 1..(2 * i)) = Total(a, 1..i)
    BY <1>2, <1>3, <1>5, <2>4, <2>6, <2>7
  <2> QED BY <2>8
<1>6. n \in P
  <2> HIDE DEF P
  <2>1. \A m \in 0..n : m \in P
    BY <1>4, <1>5, CountingUp
  <2> QED BY <2>1
<1>7. /\ SumIn(lines, DOMAIN lines, "debit") = Total(d, 1..(2 * n))
      /\ SumIn(lines, DOMAIN lines, "credit") = Total(c, 1..(2 * n))
      /\ SumIn(ps, DOMAIN ps, "amount") = Total(a, 1..n)
  BY <1>1, <1>n DEF SumIn, d, c, a
<1> QED BY <1>6, <1>7, BankSums DEF Reconciliation!Total

\* What was raised is what was raised country by country.
LEMMA CountriesAdd ==
    ASSUME NEW ps
    PROVE  LET page == Reconciliation!Transparency(CountedGifts, ps)
           IN  page.raised = Reconciliation!SumOf(page.geography, "amount", DOMAIN page.geography)
<1> DEFINE gifts == CountedGifts
           S == DOMAIN CountedGifts
           g == [x \in S |-> gifts[x]["amount"]]
           c == [x \in S |-> gifts[x].country]
           C == {gifts[x].country : x \in S}
           T(k) == {x \in S : gifts[x].country = k}
<1> PICK map : map = Reconciliation!Transparency(CountedGifts, ps).geography
  OBVIOUS
<1> DEFINE h == [k \in C |-> map[k]["amount"]]
<1>1. /\ DOMAIN map = C
      /\ \A k \in C : map[k].amount = Reconciliation!SumOf(gifts, "amount", T(k))
      /\ Reconciliation!Transparency(CountedGifts, ps).raised = Reconciliation!SumOf(gifts, "amount", S)
  BY DEF Reconciliation!Transparency
<1>2. IsFiniteSet(S) /\ \A x \in S : g[x] \in Int
  BY BankConstants
<1>3. IsFiniteSet(C)
  <2>1. c \in Surjection(S, C)
    BY DEF Surjection
  <2> HIDE DEF c, C
  <2> QED BY <1>2, <2>1, FS_Surjection
<1>4. ASSUME NEW k \in C
      PROVE  \E U \in SUBSET S : (\A x \in S : x \in U <=> c[x] = k) /\ h[k] = Total(g, U)
  <2>1. T(k) \in SUBSET S /\ \A x \in S : x \in T(k) <=> c[x] = k
    OBVIOUS
  <2>2. h[k] = Total([x \in T(k) |-> gifts[x]["amount"]], T(k))
    BY <1>1, BankSums DEF SumIn
  <2>3. Total([x \in T(k) |-> gifts[x]["amount"]], T(k)) = Total(g, T(k))
    <3> PICK U \in SUBSET S : U = T(k)
      OBVIOUS
    <3> DEFINE f == [x \in U |-> gifts[x]["amount"]]
    <3>1. IsFiniteSet(U) /\ \A x \in U : f[x] = g[x]
      BY <1>2, FS_Subset
    <3> HIDE DEF f, g
    <3>2. Total(f, U) = Total(g, U)
      BY <3>1, TotalsAgree
    <3> QED BY <3>2 DEF f
  <2> HIDE DEF h, g, c, T, S
  <2> QED BY <2>1, <2>2, <2>3
<1>5. InClasses(g, h, S, C, c)
  <2>1. c \in [S -> C]
    OBVIOUS
  <2> HIDE DEF g, h, c, C, S
  <2> QED BY <1>2, <1>3, <1>4, <2>1 DEF InClasses
<1>6. Total(h, C) = Total(g, S)
  <2> HIDE DEF g, h, c, C, S
  <2> QED BY <1>5, TotalOfClasses
<1>7. SumIn(map, DOMAIN map, "amount") = Total(h, C) /\ SumIn(gifts, S, "amount") = Total(g, S)
  BY <1>1 DEF SumIn
<1> QED BY <1>1, <1>6, <1>7, BankSums

\* All exports of a school add the same payouts up.
LEMMA ExportsAdd ==
    ASSUME bankPayouts \in Seq(BankPayouts), GoodView(bankViews)
    PROVE  Reconciliation!ExportsAgree
<1> PICK page : page = Reconciliation!Transparency(CountedGifts, bankPayouts)
  OBVIOUS
<1>1. page.paid = SumIn(bankPayouts, DOMAIN bankPayouts, "amount")
  BY BankSums DEF Reconciliation!Transparency
<1>2. \A eu \in BOOLEAN :
         Reconciliation!TaxReport(bankPayouts, eu).total = SumIn(bankPayouts, DOMAIN bankPayouts, "amount")
  BY BankSums DEF Reconciliation!TaxReport
<1>3. page.raised = Reconciliation!SumOf(page.geography, "amount", DOMAIN page.geography)
  BY CountriesAdd
<1>4. /\ Reconciliation!Total(Reconciliation!Journal(bankPayouts), "debit") = page.paid
      /\ Reconciliation!Total(Reconciliation!Journal(bankPayouts), "credit") = page.paid
  BY <1>1, JournalAdds
<1> QED BY <1>1, <1>2, <1>3, <1>4, SummaryCounts DEF Reconciliation!ExportsAgree

\* Payouts that are sent are sent by now, a run has loaded what there was, and the
\* last view is right about what it was made of.
BankInv ==
    /\ Reconciliation!TypeOK
    /\ \A i \in DOMAIN bankPayouts :
          bankPayouts[i].sentAt # Reconciliation!NotSent => bankPayouts[i].sentAt <= bankDay
    /\ DOMAIN bankRun = Reconciler
    /\ \A r \in Reconciler :
          /\ bankRun[r].step # "idle" => Loaded(bankRun[r].payouts, bankRun[r].now)
          /\ bankRun[r].step = "fetched" => DOMAIN bankRun[r].bank \subseteq Nat
    /\ GoodView(bankViews)

LEMMA BankInit == Reconciliation!Init => BankInv
<1> SUFFICES ASSUME Reconciliation!Init PROVE BankInv
  OBVIOUS
<1>1. bankPayouts = <<>> /\ bankBank = <<>> /\ bankStored = <<>>
  BY DEF Reconciliation!Init
<1>2. GoodView(bankViews)
  <2>1. bankViews = [rows |-> <<>>, orphans |-> {}, alerts |-> {}]
    BY DEF Reconciliation!Init, Reconciliation!NoViews
  <2>2. DOMAIN bankViews.rows = {} /\ Len(bankViews.rows) = 0 /\ DOMAIN bankViews = {"rows", "orphans", "alerts"}
        /\ bankViews.alerts = {} /\ 1..0 = {}
    BY <2>1
  <2> QED BY <2>2 DEF GoodView
<1>3. bankDay \in 0..BankMaxDay
  BY BankConstants DEF Reconciliation!Init
<1>4. \A r \in Reconciler : bankRun[r].step = "idle"
  BY DEF Reconciliation!Init, Reconciliation!Idle
<1>5. Reconciliation!TypeOK
  BY <1>1, <1>2, <1>3, <1>4 DEF Reconciliation!TypeOK, GoodView
<1> QED BY <1>1, <1>2, <1>4, <1>5 DEF BankInv, Reconciliation!Init

\* A run goes on: what the other runs have read stays.
LEMMA RunGoesOn ==
    ASSUME BankInv, NEW r \in Reconciler, NEW next,
           bankRun' = [bankRun EXCEPT ![r] = next],
           next.step \in {"idle", "loaded", "fetched"},
           next.step # "idle" => Loaded(next.payouts, next.now),
           next.step = "fetched" => DOMAIN next.bank \subseteq Nat
    PROVE  /\ DOMAIN bankRun' = Reconciler
           /\ \A s \in Reconciler :
                 /\ bankRun'[s].step \in {"idle", "loaded", "fetched"}
                 /\ bankRun'[s].step # "idle" => Loaded(bankRun'[s].payouts, bankRun'[s].now)
                 /\ bankRun'[s].step = "fetched" => DOMAIN bankRun'[s].bank \subseteq Nat
<1> SUFFICES ASSUME NEW s \in Reconciler
             PROVE  /\ DOMAIN bankRun' = Reconciler
                    /\ bankRun'[s].step \in {"idle", "loaded", "fetched"}
                    /\ bankRun'[s].step # "idle" => Loaded(bankRun'[s].payouts, bankRun'[s].now)
                    /\ bankRun'[s].step = "fetched" => DOMAIN bankRun'[s].bank \subseteq Nat
  BY DEF BankInv
<1>1. CASE s = r
  BY <1>1 DEF BankInv
<1>2. CASE s # r
  BY <1>2 DEF BankInv, Reconciliation!TypeOK
<1> QED BY <1>1, <1>2

\* Payouts are made and sent, and the bank posts, while runs go on.
LEMMA BankMoves ==
    ASSUME BankInv,
           \/ \E amount \in BankAmount, reference \in BankReference : Reconciliation!CreatePayout(amount, reference)
           \/ \E i \in DOMAIN bankPayouts : Reconciliation!SendPayout(i)
           \/ \E amount \in BankAmount, reference \in BankReference \cup {NoReference} :
                 Reconciliation!Post(amount, reference)
           \/ Reconciliation!Tick
    PROVE  BankInv'
<1>a. /\ bankPayouts \in Seq(BankPayouts) /\ bankBank \in Seq(BankPosts) /\ bankDay \in 0..BankMaxDay
      /\ DOMAIN bankStored \subseteq DOMAIN bankBank /\ \A t \in DOMAIN bankStored : bankStored[t] \in BankAmount
  BY DEF BankInv, Reconciliation!TypeOK, BankPayouts, BankPosts
<1>b. UNCHANGED <<bankStored, bankViews, bankRun>>
  BY DEF Reconciliation!CreatePayout, Reconciliation!SendPayout, Reconciliation!Post, Reconciliation!Tick
<1>c. ASSUME bankPayouts' \in Seq(BankPayouts), bankBank' \in Seq(BankPosts), bankDay' \in 0..BankMaxDay,
             DOMAIN bankBank \subseteq DOMAIN bankBank',
             \A i \in DOMAIN bankPayouts' :
                bankPayouts'[i].sentAt # Reconciliation!NotSent => bankPayouts'[i].sentAt <= bankDay'
      PROVE  BankInv'
  BY <1>a, <1>b, <1>c DEF BankInv, Reconciliation!TypeOK, BankPayouts, BankPosts
<1>1. ASSUME NEW amount \in BankAmount, NEW reference \in BankReference,
             Reconciliation!CreatePayout(amount, reference)
      PROVE  BankInv'
  <2> DEFINE new == [amount |-> amount, reference |-> reference, sentAt |-> Reconciliation!NotSent]
  <2>1. bankPayouts' = <<new>> \o bankPayouts /\ UNCHANGED <<bankBank, bankDay>>
    BY <1>1 DEF Reconciliation!CreatePayout
  <2>2. new \in BankPayouts /\ new.sentAt = Reconciliation!NotSent
    BY DEF BankPayouts
  <2> HIDE DEF new
  <2>3. /\ bankPayouts' \in Seq(BankPayouts)
        /\ \A i \in DOMAIN bankPayouts' :
              bankPayouts'[i] = new \/ (i - 1 \in DOMAIN bankPayouts /\ bankPayouts'[i] = bankPayouts[i - 1])
    BY <1>a, <2>1, <2>2
  <2>4. \A i \in DOMAIN bankPayouts' :
           bankPayouts'[i].sentAt # Reconciliation!NotSent => bankPayouts'[i].sentAt <= bankDay'
    BY <2>1, <2>2, <2>3 DEF BankInv
  <2> QED BY <1>a, <1>c, <2>1, <2>3, <2>4
<1>2. ASSUME NEW i \in DOMAIN bankPayouts, Reconciliation!SendPayout(i) PROVE BankInv'
  <2>1. bankPayouts' = [bankPayouts EXCEPT ![i].sentAt = bankDay] /\ UNCHANGED <<bankBank, bankDay>>
    BY <1>2 DEF Reconciliation!SendPayout
  <2>2. bankPayouts[i] \in BankPayouts
    BY <1>a
  <2>3. [bankPayouts[i] EXCEPT !.sentAt = bankDay] \in BankPayouts
    BY <1>a, <2>2 DEF BankPayouts
  <2>4. bankPayouts' = [bankPayouts EXCEPT ![i] = [bankPayouts[i] EXCEPT !.sentAt = bankDay]]
    BY <2>1
  <2>5. bankPayouts' \in Seq(BankPayouts)
    BY <1>a, <2>3, <2>4
  <2>6. \A j \in DOMAIN bankPayouts' :
           bankPayouts'[j].sentAt # Reconciliation!NotSent => bankPayouts'[j].sentAt <= bankDay'
    <3> SUFFICES ASSUME NEW j \in DOMAIN bankPayouts, bankPayouts'[j].sentAt # Reconciliation!NotSent
                 PROVE  bankPayouts'[j].sentAt <= bankDay
      BY <1>a, <2>1
    <3>1. CASE j = i
      <4>1. bankPayouts'[i].sentAt = bankDay
        BY <2>2, <2>4 DEF BankPayouts
      <4> QED BY <1>a, <3>1, <4>1
    <3>2. CASE j # i
      BY <1>a, <2>4, <3>2 DEF BankInv
    <3> QED BY <3>1, <3>2
  <2> QED BY <1>a, <1>c, <2>1, <2>5, <2>6
<1>3. ASSUME NEW amount \in BankAmount, NEW reference \in BankReference \cup {NoReference},
             Reconciliation!Post(amount, reference)
      PROVE  BankInv'
  <2> DEFINE new == [amount |-> amount, reference |-> reference, at |-> bankDay]
  <2>1. bankBank' = Append(bankBank, new) /\ UNCHANGED <<bankPayouts, bankDay>>
    BY <1>3 DEF Reconciliation!Post
  <2>2. new \in BankPosts
    BY <1>a DEF BankPosts
  <2> HIDE DEF new
  <2>3. bankBank' \in Seq(BankPosts) /\ DOMAIN bankBank \subseteq DOMAIN bankBank'
    BY <1>a, <2>1, <2>2
  <2> QED BY <1>a, <1>c, <2>1, <2>3 DEF BankInv
<1>4. ASSUME Reconciliation!Tick PROVE BankInv'
  <2>1. bankDay' = bankDay + 1 /\ bankDay' \in 0..BankMaxDay /\ UNCHANGED <<bankPayouts, bankBank>>
    BY <1>4, <1>a, BankConstants DEF Reconciliation!Tick
  <2>2. \A i \in DOMAIN bankPayouts :
           bankPayouts[i].sentAt # Reconciliation!NotSent => bankPayouts[i].sentAt <= bankDay'
    <3> SUFFICES ASSUME NEW i \in DOMAIN bankPayouts, bankPayouts[i].sentAt # Reconciliation!NotSent
                 PROVE  bankPayouts[i].sentAt <= bankDay'
      OBVIOUS
    <3>1. bankPayouts[i] \in BankPayouts /\ bankPayouts[i].sentAt <= bankDay
      BY <1>a DEF BankInv
    <3> QED BY <1>a, <2>1, <3>1 DEF BankPayouts, Reconciliation!NotSent
  <2> QED BY <1>a, <1>c, <2>1, <2>2
<1> QED BY <1>1, <1>2, <1>3, <1>4

\* A run loads, fetches and answers.
LEMMA BankRuns == ASSUME BankInv, NEW r \in Reconciler, Reconciliation!ReconciliationStep(r) PROVE BankInv'
<1>a. /\ bankPayouts \in Seq(BankPayouts) /\ bankBank \in Seq(BankPosts) /\ bankDay \in 0..BankMaxDay
      /\ DOMAIN bankStored \subseteq DOMAIN bankBank /\ \A t \in DOMAIN bankStored : bankStored[t] \in BankAmount
  BY DEF BankInv, Reconciliation!TypeOK, BankPayouts, BankPosts
<1>1. CASE Reconciliation!Load(r)
  <2> DEFINE next == [step |-> "loaded", payouts |-> bankPayouts, now |-> bankDay]
  <2>1. /\ bankRun' = [bankRun EXCEPT ![r] = next]
        /\ UNCHANGED <<bankPayouts, bankBank, bankStored, bankViews, bankDay>>
    BY <1>1 DEF Reconciliation!Load
  <2>2. next.step = "loaded" /\ Loaded(next.payouts, next.now)
    BY <1>a DEF Loaded, BankInv
  <2> HIDE DEF next
  <2>3. /\ DOMAIN bankRun' = Reconciler
        /\ \A s \in Reconciler :
              /\ bankRun'[s].step \in {"idle", "loaded", "fetched"}
              /\ bankRun'[s].step # "idle" => Loaded(bankRun'[s].payouts, bankRun'[s].now)
              /\ bankRun'[s].step = "fetched" => DOMAIN bankRun'[s].bank \subseteq Nat
    BY <2>1, <2>2, RunGoesOn
  <2> QED BY <2>1, <2>3 DEF BankInv, Reconciliation!TypeOK
<1>2. CASE Reconciliation!Fetch(r)
  <2> DEFINE next == [step |-> "fetched", payouts |-> bankRun[r].payouts, now |-> bankRun[r].now,
                      bank |-> bankBank]
  <2>1. /\ bankRun' = [bankRun EXCEPT ![r] = next]
        /\ bankRun[r].step = "loaded"
        /\ bankStored' = [t \in DOMAIN bankBank |-> IF t \in DOMAIN bankStored THEN bankStored[t]
                                                   ELSE bankBank[t].amount]
        /\ UNCHANGED <<bankPayouts, bankBank, bankViews, bankDay>>
    BY <1>2 DEF Reconciliation!Fetch
  <2>2. /\ next.step = "fetched" /\ Loaded(next.payouts, next.now)
        /\ DOMAIN next.bank \subseteq Nat
    BY <1>a, <2>1 DEF BankInv
  <2> HIDE DEF next
  <2>3. /\ DOMAIN bankRun' = Reconciler
        /\ \A s \in Reconciler :
              /\ bankRun'[s].step \in {"idle", "loaded", "fetched"}
              /\ bankRun'[s].step # "idle" => Loaded(bankRun'[s].payouts, bankRun'[s].now)
              /\ bankRun'[s].step = "fetched" => DOMAIN bankRun'[s].bank \subseteq Nat
    BY <2>1, <2>2, RunGoesOn
  <2>4. \A t \in DOMAIN bankBank : bankBank[t].amount \in BankAmount
    <3>1. \A t \in DOMAIN bankBank : bankBank[t] \in BankPosts
      BY <1>a
    <3> QED BY <3>1 DEF BankPosts
  <2>5. DOMAIN bankStored' \subseteq DOMAIN bankBank /\ \A t \in DOMAIN bankStored' : bankStored'[t] \in BankAmount
    BY <1>a, <2>1, <2>4
  <2> QED BY <2>1, <2>3, <2>5 DEF BankInv, Reconciliation!TypeOK
<1>3. CASE Reconciliation!Reconcile(r)
  <2> DEFINE next == Reconciliation!Idle
  <2>1. /\ bankRun' = [bankRun EXCEPT ![r] = next]
        /\ bankRun[r].step = "fetched"
        /\ bankViews' = Reconciliation!View(bankRun[r].payouts, bankRun[r].bank, bankRun[r].now)
        /\ UNCHANGED <<bankPayouts, bankBank, bankStored, bankDay>>
    BY <1>3 DEF Reconciliation!Reconcile
  <2>2. next.step = "idle"
    BY DEF Reconciliation!Idle
  <2> HIDE DEF next
  <2>3. /\ DOMAIN bankRun' = Reconciler
        /\ \A s \in Reconciler :
              /\ bankRun'[s].step \in {"idle", "loaded", "fetched"}
              /\ bankRun'[s].step # "idle" => Loaded(bankRun'[s].payouts, bankRun'[s].now)
              /\ bankRun'[s].step = "fetched" => DOMAIN bankRun'[s].bank \subseteq Nat
    BY <2>1, <2>2, RunGoesOn
  <2>4. Loaded(bankRun[r].payouts, bankRun[r].now) /\ DOMAIN bankRun[r].bank \subseteq Nat
    BY <2>1 DEF BankInv
  <2>5. GoodView(bankViews')
    BY <2>1, <2>4, ViewIsGood
  <2> QED BY <2>1, <2>3, <2>5 DEF BankInv, Reconciliation!TypeOK, GoodView
<1> QED BY <1>1, <1>2, <1>3 DEF Reconciliation!ReconciliationStep

LEMMA BankNext == BankInv /\ [Reconciliation!Next]_(Reconciliation!vars) => BankInv'
<1> SUFFICES ASSUME BankInv, [Reconciliation!Next]_(Reconciliation!vars) PROVE BankInv'
  OBVIOUS
<1>1. CASE UNCHANGED Reconciliation!vars
  BY <1>1 DEF Reconciliation!vars, BankInv, Reconciliation!TypeOK
<1> QED BY <1>1, BankMoves, BankRuns DEF Reconciliation!Next

\* What the invariant says of the bank is what the check is for.
LEMMA BankImplies ==
    ASSUME BankInv
    PROVE  /\ Reconciliation!TypeOK
           /\ Reconciliation!EachTransactionOnce
           /\ Reconciliation!UnmatchedIsAlerted
           /\ Reconciliation!ExportsAgree
           /\ Reconciliation!NothingLeftOver
<1>1. Reconciliation!EachTransactionOnce /\ Reconciliation!UnmatchedIsAlerted
  BY DEF BankInv, GoodView, Reconciliation!EachTransactionOnce, Reconciliation!UnmatchedIsAlerted
<1>2. Reconciliation!ExportsAgree
  <2>1. bankPayouts \in Seq(BankPayouts) /\ GoodView(bankViews)
    BY DEF BankInv, Reconciliation!TypeOK, BankPayouts
  <2> QED BY <2>1, ExportsAdd
<1>3. Reconciliation!NothingLeftOver
  <2> SUFFICES ASSUME NEW r \in Reconciler, bankRun[r].step = "fetched",
                      NEW t \in Reconciliation!Orphans(bankRun[r].payouts, bankRun[r].bank),
                      NEW i \in DOMAIN bankRun[r].payouts,
                      Reconciliation!IsMatch(bankRun[r].payouts[i], bankRun[r].bank[t])
               PROVE  Reconciliation!Rows(bankRun[r].payouts, bankRun[r].bank, bankRun[r].now)[i].with # {}
    BY DEF Reconciliation!NothingLeftOver
  <2>1. Loaded(bankRun[r].payouts, bankRun[r].now) /\ DOMAIN bankRun[r].bank \subseteq Nat
    BY DEF BankInv
  <2> QED BY <2>1, FittingIsTaken
<1> QED BY <1>1, <1>2, <1>3 DEF BankInv
-----------------------------------------------------------------------------
(* The IBANs of schools: what mod97 makes of a sequence of characters.     *)

Characters == 0..35
IbanDigits == 0..9

\* The remainder with one character more.
NextRest(x, c) == IF c < 10 THEN (10 * x + c) % 97 ELSE (100 * x + c) % 97

\* Appending is linear, digit by digit.
LEMMA RestOfRest ==
    ASSUME NEW w \in Nat, NEW d \in IbanDigits
    PROVE  (w * 10 + d) % 97 = (10 * (w % 97) + d) % 97 /\ (w * 10 + d) % 97 \in 0..96 /\ w * 10 + d \in Nat
<1> DEFINE q == w \div 97
           r == w % 97
<1>1. w = 97 * q + r /\ q \in Nat /\ r \in 0..96
  OBVIOUS
<1> HIDE DEF q, r
<1>2. w * 10 + d = 97 * (10 * q) + (10 * r + d)
  BY <1>1 DEF IbanDigits
<1>3. \A m \in Nat, k \in Nat : (97 * k + m) % 97 = m % 97
  OBVIOUS
<1>4. (w * 10 + d) % 97 = (10 * r + d) % 97
  <2>1. 10 * q \in Nat /\ 10 * r + d \in Nat
    BY <1>1 DEF IbanDigits
  <2> QED BY <1>2, <1>3, <2>1
<1> QED BY <1>4 DEF r, IbanDigits

\* Different remainders stay different, and so do different characters of a kind.
LEMMA SlipsShow ==
    /\ \A x, y \in 0..96, c \in Characters : x # y => NextRest(x, c) # NextRest(y, c)
    /\ \A x \in 0..96, c, d \in Characters :
          c # d /\ (c < 10 <=> d < 10) => NextRest(x, c) # NextRest(x, d)
    /\ \A x \in 0..96, c \in Characters : NextRest(x, c) \in 0..96
<1>1. \A x, y \in 0..96, c \in Characters : x # y => NextRest(x, c) # NextRest(y, c)
  <2> SUFFICES ASSUME NEW x \in 0..96, NEW y \in 0..96, NEW c \in Characters, x # y
               PROVE  NextRest(x, c) # NextRest(y, c)
    OBVIOUS
  <2>1. (10 * x + c) % 97 # (10 * y + c) % 97
    BY SMTT(60) DEF Characters
  <2>2. (100 * x + c) % 97 # (100 * y + c) % 97
    BY SMTT(60) DEF Characters
  <2> QED BY <2>1, <2>2 DEF NextRest
<1>2. \A x \in 0..96, c, d \in Characters :
          c # d /\ (c < 10 <=> d < 10) => NextRest(x, c) # NextRest(x, d)
  <2> SUFFICES ASSUME NEW x \in 0..96, NEW c \in Characters, NEW d \in Characters,
                      c # d, c < 10 <=> d < 10
               PROVE  NextRest(x, c) # NextRest(x, d)
    OBVIOUS
  <2>1. (10 * x + c) % 97 # (10 * x + d) % 97
    BY SMTT(60) DEF Characters
  <2>2. (100 * x + c) % 97 # (100 * x + d) % 97
    BY SMTT(60) DEF Characters
  <2> QED BY <2>1, <2>2 DEF NextRest
<1>3. \A x \in 0..96, c \in Characters : NextRest(x, c) \in 0..96
  BY DEF NextRest, Characters
<1> QED BY <1>1, <1>2, <1>3

\* A character of two digits is appended as one after the other.
LEMMA TwoDigits ==
    ASSUME NEW x \in 0..96, NEW c \in Characters, c >= 10
    PROVE  /\ c \div 10 \in IbanDigits /\ c % 10 \in IbanDigits
           /\ (10 * ((10 * x + (c \div 10)) % 97) + (c % 10)) % 97 = NextRest(x, c)
<1> DEFINE t == c \div 10
           e == c % 10
<1>1. c = 10 * t + e /\ t \in IbanDigits /\ e \in IbanDigits
  BY DEF Characters, IbanDigits
<1> HIDE DEF t, e
<1>2. 10 * x + t \in Nat
  BY <1>1 DEF IbanDigits
<1>3. ((10 * x + t) * 10 + e) % 97 = (10 * ((10 * x + t) % 97) + e) % 97
  BY <1>1, <1>2, RestOfRest
<1>4. (10 * x + t) * 10 + e = 100 * x + c
  BY <1>1 DEF IbanDigits, Characters
<1>5. NextRest(x, c) = (100 * x + c) % 97
  BY DEF NextRest, Characters
<1>6. (10 * ((10 * x + t) % 97) + e) % 97 = NextRest(x, c)
  BY <1>3, <1>4, <1>5
<1> QED BY <1>1, <1>6 DEF t, e

\* Digits that leave the remainder x.
IsRest(v, digits) ==
    /\ v \in [0..Len(digits) -> 0..96]
    /\ v[0] = 0
    /\ \A i \in 1..Len(digits) : v[i] = (10 * v[i - 1] + digits[i]) % 97
HasRest(digits, x) == \E v : IsRest(v, digits) /\ v[Len(digits)] = x

LEMMA RestOfNone == HasRest(<<>>, 0)
<1> DEFINE v == [i \in 0..0 |-> 0]
<1>1. IsRest(v, <<>>) /\ v[Len(<<>>)] = 0
  BY DEF IsRest
<1> HIDE DEF v
<1> QED BY <1>1 DEF HasRest

LEMMA RestOfMore ==
    ASSUME NEW digits \in Seq(IbanDigits), NEW x, HasRest(digits, x), NEW d \in IbanDigits
    PROVE  /\ Append(digits, d) \in Seq(IbanDigits)
           /\ x \in 0..96
           /\ HasRest(Append(digits, d), (10 * x + d) % 97)
<1> PICK n \in Nat : n = Len(digits)
  OBVIOUS
<1> PICK v : IsRest(v, digits) /\ v[n] = x
  BY DEF HasRest
<1> PICK more : more = Append(digits, d)
  OBVIOUS
<1> DEFINE w == [i \in 0..(n + 1) |-> IF i = n + 1 THEN (10 * x + d) % 97 ELSE v[i]]
<1>1. /\ more \in Seq(IbanDigits) /\ Len(more) = n + 1 /\ more[n + 1] = d
      /\ \A i \in 1..n : more[i] = digits[i]
  OBVIOUS
<1>2. v \in [0..n -> 0..96] /\ v[0] = 0 /\ \A i \in 1..n : v[i] = (10 * v[i - 1] + digits[i]) % 97
  BY DEF IsRest
<1>3. x \in 0..96 /\ (10 * x + d) % 97 \in 0..96
  <2>1. n \in 0..n /\ x = v[n]
    OBVIOUS
  <2>2. x \in 0..96
    BY <1>2, <2>1
  <2>3. 10 * x + d \in Nat
    BY <2>2 DEF IbanDigits
  <2>4. \A m \in Nat : m % 97 \in 0..96
    OBVIOUS
  <2> QED BY <2>2, <2>3, <2>4
<1>4. w \in [0..(n + 1) -> 0..96] /\ w[0] = 0 /\ w[n + 1] = (10 * x + d) % 97
  <2> PICK r \in 0..96 : r = (10 * x + d) % 97
    BY <1>3
  <2>1. w = [i \in 0..(n + 1) |-> IF i = n + 1 THEN r ELSE v[i]]
    OBVIOUS
  <2>2. \A i \in 0..(n + 1) : i # n + 1 => i \in 0..n
    OBVIOUS
  <2> HIDE DEF w
  <2> QED BY <1>2, <2>1, <2>2
<1>5. ASSUME NEW i \in 1..(n + 1) PROVE w[i] = (10 * w[i - 1] + more[i]) % 97
  <2>1. CASE i = n + 1
    BY <1>1, <1>2, <2>1
  <2>2. CASE i # n + 1
    <3>1. i \in 1..n /\ i - 1 \in 0..n /\ w[i] = v[i] /\ w[i - 1] = v[i - 1]
      BY <2>2
    <3> QED BY <1>1, <1>2, <3>1
  <2> QED BY <2>1, <2>2
<1> HIDE DEF w
<1>6. IsRest(w, more) /\ w[Len(more)] = (10 * x + d) % 97
  BY <1>1, <1>4, <1>5 DEF IsRest
<1> QED BY <1>1, <1>3, <1>6 DEF HasRest

\* The fold over a block of digits, which CHOOSE finds.
DigitFold(r, digits, h) ==
    [s \in SUBSET (DOMAIN digits) |->
        IF s = {} THEN r ELSE h[s \ {Max(s)}] * 10 + digits[Max(s)]]

LEMMA Append7IsFold ==
    \A r, digits : Ibans!Append7(r, digits) = (CHOOSE h : h = DigitFold(r, digits, h))[DOMAIN digits]
BY DEF Ibans!Append7, Ibans!FoldLeft, Ibans!MapThenFoldSet, DigitFold, Ibans!Max, Max

\* A block that goes on where the digits have left x leaves what they leave with it.
LEMMA BlockRest ==
    ASSUME NEW n \in Nat, NEW digits, DOMAIN digits = 1..n, \A i \in 1..n : digits[i] \in IbanDigits,
           NEW r \in Nat, NEW v \in [0..n -> 0..96], v[0] = r % 97,
           \A i \in 1..n : v[i] = (10 * v[i - 1] + digits[i]) % 97
    PROVE  Ibans!Append7(r, digits) \in Nat /\ Ibans!Append7(r, digits) % 97 = v[n]
<1> DEFINE step == [i \in 1..n |-> [w \in Nat |-> w * 10 + digits[i]]]
<1>1. step \in [1..n -> [Nat -> Nat]]
  <2>1. \A d \in IbanDigits, w \in Nat : w * 10 + d \in Nat
    BY DEF IbanDigits
  <2>2. \A i \in 1..n : [w \in Nat |-> w * 10 + digits[i]] \in [Nat -> Nat]
    BY <2>1
  <2> QED BY <2>2
<1>2. PICK g \in [SUBSET (1..n) -> Nat] : IsFolding(g, n, r, step)
  <2> HIDE DEF step
  <2> QED BY <1>1, FoldsPlaces
<1>3. g = DigitFold(r, digits, g)
  <2>1. ASSUME NEW s \in SUBSET (1..n), s # {}
        PROVE  step[Max(s)][g[s \ {Max(s)}]] = g[s \ {Max(s)}] * 10 + digits[Max(s)]
    <3>1. Max(s) \in 1..n /\ s \ {Max(s)} \in SUBSET (1..n)
      BY <2>1, LargestPlace
    <3> QED BY <3>1
  <2>2. g = [s \in SUBSET (1..n) |-> IF s = {} THEN r ELSE step[Max(s)][g[s \ {Max(s)}]]]
    BY <1>2 DEF IsFolding
  <2> HIDE DEF step
  <2>3. \A s \in SUBSET (1..n) : g[s] = IF s = {} THEN r ELSE step[Max(s)][g[s \ {Max(s)}]]
    BY <2>2
  <2>4. \A s \in SUBSET (1..n) : g[s] = DigitFold(r, digits, g)[s]
    BY <2>1, <2>3 DEF DigitFold
  <2>5. DigitFold(r, digits, g) = [s \in SUBSET (1..n) |-> DigitFold(r, digits, g)[s]]
    BY DEF DigitFold
  <2>6. g = [s \in SUBSET (1..n) |-> g[s]]
    OBVIOUS
  <2> QED BY <2>4, <2>5, <2>6
<1>4. PICK h : h = DigitFold(r, digits, h) /\ Ibans!Append7(r, digits) = h[1..n]
  <2>1. \E h : h = DigitFold(r, digits, h)
    BY <1>3
  <2> QED BY <2>1, Append7IsFold
<1> DEFINE P == {m \in 0..n : h[1..m] \in Nat /\ h[1..m] % 97 = v[m]}
<1>5. 0 \in P
  <2>1. {} \in SUBSET (DOMAIN digits) /\ 1..0 = {} /\ 0 \in 0..n
    OBVIOUS
  <2>2. DigitFold(r, digits, h)[{}] = r
    BY <2>1 DEF DigitFold
  <2>3. h[1..0] = r
    BY <1>4, <2>1, <2>2
  <2> QED BY <2>1, <2>3
<1>6. ASSUME NEW m \in 0..(n - 1), m \in P PROVE m + 1 \in P
  <2>1. Max(1..(m + 1)) = m + 1 /\ (1..(m + 1)) \ {m + 1} = 1..m /\ 1..(m + 1) # {}
    <3>1. m \in Nat
      OBVIOUS
    <3> QED BY <3>1, LastOfPlaces, Zenon
  <2> PICK a, b : a = h[1..m] /\ b = h[1..(m + 1)]
    OBVIOUS
  <2>2. b = a * 10 + digits[m + 1]
    <3>1. 1..(m + 1) \in SUBSET (DOMAIN digits)
      OBVIOUS
    <3>2. DigitFold(r, digits, h)[1..(m + 1)] = h[(1..(m + 1)) \ {m + 1}] * 10 + digits[m + 1]
      BY <2>1, <3>1 DEF DigitFold
    <3>3. h[(1..(m + 1)) \ {m + 1}] = a
      BY <2>1
    <3> QED BY <1>4, <3>2, <3>3
  <2>3. a \in Nat /\ a % 97 = v[m] /\ digits[m + 1] \in IbanDigits
    BY <1>6
  <2>4. b \in Nat /\ b % 97 = (10 * (a % 97) + digits[m + 1]) % 97
    BY <2>2, <2>3, RestOfRest
  <2>5. m + 1 \in 1..n /\ (m + 1) - 1 = m /\ m + 1 \in 0..n
    OBVIOUS
  <2>6. v[m + 1] = (10 * v[m] + digits[m + 1]) % 97
    BY <2>5
  <2> QED BY <2>3, <2>4, <2>5, <2>6
<1>7. \A m \in 0..n : m \in P
  <2> HIDE DEF P
  <2> QED BY <1>5, <1>6, CountingUp
<1> QED BY <1>4, <1>7

\* The fold over the blocks, which CHOOSE finds.
BlockFold(blocks, h) ==
    [s \in SUBSET (DOMAIN blocks) |->
        IF s = {} THEN 0 ELSE Ibans!Append7(h[s \ {Max(s)}], blocks[Max(s)]) % 97]

LEMMA Mod97IsFold ==
    \A word : LET blocks == Ibans!Blocks(Ibans!Numeric(word))
              IN  Ibans!Mod97(word) = (CHOOSE h : h = BlockFold(blocks, h))[DOMAIN blocks]
BY DEF Ibans!Mod97, Ibans!FoldLeft, Ibans!MapThenFoldSet, BlockFold, Ibans!Max, Max

\* Whatever the remainder, a block makes a number of it.
LEMMA BlockIsNumber ==
    ASSUME NEW n \in Nat, NEW digits, DOMAIN digits = 1..n, \A i \in 1..n : digits[i] \in IbanDigits,
           NEW r \in 0..96
    PROVE  Ibans!Append7(r, digits) % 97 \in 0..96
<1> DEFINE step == [i \in 1..n |-> [x \in 0..96 |-> (10 * x + digits[i]) % 97]]
<1>1. step \in [1..n -> [0..96 -> 0..96]]
  <2>1. \A d \in IbanDigits, x \in 0..96 : (10 * x + d) % 97 \in 0..96
    BY DEF IbanDigits
  <2>2. \A i \in 1..n : [x \in 0..96 |-> (10 * x + digits[i]) % 97] \in [0..96 -> 0..96]
    BY <2>1
  <2> QED BY <2>2
<1>2. PICK v \in [0..n -> 0..96] : IsIteration(v, n, r, step)
  <2> HIDE DEF step
  <2> QED BY <1>1, Iterates
<1>3. \A i \in 0..n : v[i] = IF i = 0 THEN r ELSE step[i][v[i - 1]]
  <2> HIDE DEF step
  <2> DEFINE k == [i \in 0..n |-> IF i = 0 THEN r ELSE step[i][v[i - 1]]]
  <2>1. v = k
    BY <1>2 DEF IsIteration
  <2>2. \A i \in 0..n : k[i] = IF i = 0 THEN r ELSE step[i][v[i - 1]]
    OBVIOUS
  <2> HIDE DEF k
  <2> QED BY <2>1, <2>2
<1>4. v[0] = r % 97 /\ r \in Nat
  <2>1. r % 97 = r /\ r \in Nat
    OBVIOUS
  <2> HIDE DEF step
  <2>2. 0 \in 0..n
    OBVIOUS
  <2> QED BY <1>3, <2>1, <2>2
<1>5. ASSUME NEW i \in 1..n PROVE v[i] = (10 * v[i - 1] + digits[i]) % 97
  <2>1. i \in 0..n /\ i # 0 /\ i - 1 \in 0..n
    OBVIOUS
  <2>2. v[i - 1] \in 0..96
    BY <2>1
  <2>3. step[i][v[i - 1]] = (10 * v[i - 1] + digits[i]) % 97
    BY <2>2
  <2> HIDE DEF step
  <2> QED BY <1>3, <2>1, <2>3
<1> HIDE DEF step
<1>6. Ibans!Append7(r, digits) % 97 = v[n]
  BY <1>4, <1>5, BlockRest
<1> QED BY <1>6

\* Where the blocks of a number of L digits end.
BlockEnd(L, k) == IF 7 * k < L THEN 7 * k ELSE L
LEMMA BlockEnds ==
    ASSUME NEW L \in Nat, NEW K, K = (L + 6) \div 7
    PROVE  /\ K \in Nat /\ BlockEnd(L, 0) = 0 /\ BlockEnd(L, K) = L
           /\ \A k \in 0..K : BlockEnd(L, k) \in 0..L
           /\ \A k \in 0..(K - 1) : BlockEnd(L, k) = 7 * k /\ BlockEnd(L, k + 1) \in (7 * k + 1)..L
<1>1. K \in Nat /\ 7 * K <= L + 6 /\ L <= 7 * K
  OBVIOUS
<1>2. BlockEnd(L, 0) = 0 /\ BlockEnd(L, K) = L
  BY <1>1 DEF BlockEnd
<1>3. ASSUME NEW k \in 0..K PROVE BlockEnd(L, k) \in 0..L
  BY <1>1 DEF BlockEnd
<1>4. ASSUME NEW k \in 0..(K - 1)
      PROVE  BlockEnd(L, k) = 7 * k /\ BlockEnd(L, k + 1) \in (7 * k + 1)..L
  BY <1>1 DEF BlockEnd
<1> QED BY <1>1, <1>2, <1>3, <1>4

\* A block of a number.
BlockAt(digits, k) == SubSeq(digits, 7 * k - 6, BlockEnd(Len(digits), k))
LEMMA BlockDigits ==
    ASSUME NEW digits \in Seq(IbanDigits), NEW k \in 0..(((Len(digits) + 6) \div 7) - 1)
    PROVE  LET from == BlockEnd(Len(digits), k)
               to == BlockEnd(Len(digits), k + 1)
               b == BlockAt(digits, k + 1)
           IN  /\ to - from \in Nat
               /\ DOMAIN b = 1..(to - from)
               /\ \A i \in 1..(to - from) : b[i] = digits[from + i] /\ b[i] \in IbanDigits
<1> PICK L \in Nat : L = Len(digits)
  OBVIOUS
<1> PICK to : to = BlockEnd(L, k + 1)
  OBVIOUS
<1> PICK from : from = 7 * k
  OBVIOUS
<1>1. BlockEnd(L, k) = from /\ to \in (from + 1)..L /\ from \in Nat
  <2> PICK K : K = (L + 6) \div 7
    OBVIOUS
  <2>1. k \in 0..(K - 1)
    OBVIOUS
  <2>2. \A j \in 0..(K - 1) : BlockEnd(L, j) = 7 * j /\ BlockEnd(L, j + 1) \in (7 * j + 1)..L
    BY BlockEnds
  <2>3. k \in Nat
    BY <2>1
  <2> QED BY <2>1, <2>2, <2>3
<1>2. 7 * (k + 1) - 6 = from + 1
  OBVIOUS
<1>3. BlockAt(digits, k + 1) = SubSeq(digits, from + 1, to)
  BY <1>2 DEF BlockAt
<1>4. \A i \in (from + 1)..to : digits[i] \in IbanDigits
  <2>1. \A i \in 1..L : digits[i] \in IbanDigits
    OBVIOUS
  <2> QED BY <1>1, <2>1
<1> PICK b : b = SubSeq(digits, from + 1, to)
  OBVIOUS
<1>5. /\ b \in Seq(IbanDigits)
      /\ Len(b) = IF from + 1 <= to THEN to - (from + 1) + 1 ELSE 0
      /\ \A i \in 1..(to - (from + 1) + 1) : b[i] = digits[(from + 1) + i - 1]
  <2>1. from + 1 \in Int /\ to \in Int
    BY <1>1
  <2> QED BY <1>4, <2>1, SubSeqProperties
<1>6. to - (from + 1) + 1 = to - from /\ from + 1 <= to /\ to - from \in Nat
  BY <1>1
<1>7. DOMAIN b = 1..(to - from)
  BY <1>5, <1>6
<1>8. ASSUME NEW i \in 1..(to - from) PROVE b[i] = digits[from + i] /\ b[i] \in IbanDigits
  <2>1. (from + 1) + i - 1 = from + i /\ from + i \in (from + 1)..to
    BY <1>1
  <2> QED BY <1>4, <1>5, <1>6, <2>1
<1> QED BY <1>1, <1>3, <1>6, <1>7, <1>8

\* The blocks, one by one, leave what the digits leave.
LEMMA BlocksRest ==
    ASSUME NEW word, NEW digits \in Seq(IbanDigits), digits = Ibans!Numeric(word), NEW x, HasRest(digits, x)
    PROVE  Ibans!Mod97(word) = x
<1> PICK L \in Nat : L = Len(digits)
  OBVIOUS
<1> PICK K : K = (L + 6) \div 7
  OBVIOUS
<1> PICK blocks : blocks = Ibans!Blocks(digits)
  OBVIOUS
<1>1. /\ K \in Nat /\ BlockEnd(L, 0) = 0 /\ BlockEnd(L, K) = L
      /\ \A k \in 0..K : BlockEnd(L, k) \in 0..L
      /\ \A k \in 0..(K - 1) : BlockEnd(L, k) = 7 * k /\ BlockEnd(L, k + 1) \in (7 * k + 1)..L
  BY BlockEnds
<1>2. DOMAIN blocks = 1..K /\ \A k \in 1..K : blocks[k] = BlockAt(digits, k)
  BY DEF Ibans!Blocks, BlockAt, BlockEnd
<1>3. PICK v : IsRest(v, digits) /\ v[L] = x
  BY DEF HasRest
<1>4. v \in [0..L -> 0..96] /\ v[0] = 0 /\ \A i \in 1..L : v[i] = (10 * v[i - 1] + digits[i]) % 97
  BY <1>3 DEF IsRest
<1>5. ASSUME NEW k \in 1..K, NEW w \in 0..96 PROVE Ibans!Append7(w, blocks[k]) % 97 \in 0..96
  <2> PICK j \in 0..(K - 1) : k = j + 1
    BY <1>1
  <2> PICK b, n : b = BlockAt(digits, j + 1) /\ n = BlockEnd(L, j + 1) - BlockEnd(L, j)
    OBVIOUS
  <2>1. n \in Nat /\ DOMAIN b = 1..n /\ \A i \in 1..n : b[i] \in IbanDigits
    BY BlockDigits
  <2>2. Ibans!Append7(w, b) % 97 \in 0..96
    BY <2>1, BlockIsNumber
  <2> QED BY <1>2, <2>2
<1> DEFINE step == [k \in 1..K |-> [w \in 0..96 |-> Ibans!Append7(w, blocks[k]) % 97]]
<1>6. step \in [1..K -> [0..96 -> 0..96]]
  <2>1. \A k \in 1..K : [w \in 0..96 |-> Ibans!Append7(w, blocks[k]) % 97] \in [0..96 -> 0..96]
    BY <1>5
  <2> QED BY <2>1
<1>7. PICK g \in [SUBSET (1..K) -> 0..96] : IsFolding(g, K, 0, step)
  <2> HIDE DEF step
  <2>1. 0 \in 0..96 /\ K \in Nat
    BY <1>1
  <2> PICK zero, V : zero = 0 /\ V = 0..96
    OBVIOUS
  <2>2. zero \in V /\ step \in [1..K -> [V -> V]]
    BY <1>6, <2>1
  <2>3. \E g \in [SUBSET (1..K) -> V] : IsFolding(g, K, zero, step)
    BY <2>1, <2>2, FoldsPlaces
  <2> QED BY <2>3
<1>8. g = BlockFold(blocks, g)
  <2>1. ASSUME NEW s \in SUBSET (1..K), s # {}
        PROVE  step[Max(s)][g[s \ {Max(s)}]] = Ibans!Append7(g[s \ {Max(s)}], blocks[Max(s)]) % 97
    <3>1. Max(s) \in 1..K /\ s \ {Max(s)} \in SUBSET (1..K)
      BY <1>1, <2>1, LargestPlace
    <3> QED BY <3>1
  <2>2. g = [s \in SUBSET (1..K) |-> IF s = {} THEN 0 ELSE step[Max(s)][g[s \ {Max(s)}]]]
    BY <1>7 DEF IsFolding
  <2> HIDE DEF step
  <2>3. \A s \in SUBSET (1..K) : g[s] = IF s = {} THEN 0 ELSE step[Max(s)][g[s \ {Max(s)}]]
    BY <2>2
  <2>4. \A s \in SUBSET (1..K) : g[s] = BlockFold(blocks, g)[s]
    BY <1>2, <2>1, <2>3 DEF BlockFold
  <2>5. BlockFold(blocks, g) = [s \in SUBSET (1..K) |-> BlockFold(blocks, g)[s]]
    BY <1>2 DEF BlockFold
  <2>6. g = [s \in SUBSET (1..K) |-> g[s]]
    OBVIOUS
  <2> QED BY <2>4, <2>5, <2>6
<1>9. PICK h : h = BlockFold(blocks, h) /\ Ibans!Mod97(word) = h[1..K]
  <2>1. \E h : h = BlockFold(blocks, h)
    BY <1>8
  <2>2. Ibans!Mod97(word) = (CHOOSE h : h = BlockFold(blocks, h))[DOMAIN blocks]
    BY Mod97IsFold
  <2> QED BY <1>2, <2>1, <2>2
<1> HIDE DEF step
<1> DEFINE P == {k \in 0..K : h[1..k] = v[BlockEnd(L, k)]}
<1>10. 0 \in P
  <2>1. {} \in SUBSET (DOMAIN blocks) /\ 1..0 = {} /\ 0 \in 0..K
    BY <1>1
  <2>2. BlockFold(blocks, h)[{}] = 0
    BY <2>1 DEF BlockFold
  <2>3. h[1..0] = 0
    BY <1>9, <2>1, <2>2
  <2> QED BY <1>1, <1>4, <2>1, <2>3
<1>11. ASSUME NEW k \in 0..(K - 1), k \in P PROVE k + 1 \in P
  <2>1. Max(1..(k + 1)) = k + 1 /\ (1..(k + 1)) \ {k + 1} = 1..k /\ 1..(k + 1) # {}
    <3>1. k \in Nat
      BY <1>1
    <3> QED BY <3>1, LastOfPlaces, Zenon
  <2>2. h[1..(k + 1)] = Ibans!Append7(h[1..k], blocks[k + 1]) % 97
    <3>1. 1..(k + 1) \in SUBSET (DOMAIN blocks)
      BY <1>1, <1>2
    <3>2. BlockFold(blocks, h)[1..(k + 1)]
              = Ibans!Append7(h[(1..(k + 1)) \ {k + 1}], blocks[k + 1]) % 97
      BY <2>1, <3>1 DEF BlockFold
    <3>3. Ibans!Append7(h[(1..(k + 1)) \ {k + 1}], blocks[k + 1]) % 97
              = Ibans!Append7(h[1..k], blocks[k + 1]) % 97
      BY <2>1, Zenon
    <3>4. h[1..(k + 1)] = BlockFold(blocks, h)[1..(k + 1)]
      BY <1>9, Zenon
    <3> QED BY <3>2, <3>3, <3>4, Zenon
  <2> PICK from, to, n, b : /\ from = BlockEnd(L, k) /\ to = BlockEnd(L, k + 1) /\ n = to - from
                            /\ b = BlockAt(digits, k + 1)
    OBVIOUS
  <2>3. n \in Nat /\ DOMAIN b = 1..n /\ \A i \in 1..n : b[i] = digits[from + i] /\ b[i] \in IbanDigits
    BY BlockDigits
  <2>4. from \in Nat /\ to \in from..L /\ from + n = to
    BY <1>1
  <2> PICK u : u = [i \in 0..n |-> v[from + i]]
    OBVIOUS
  <2>5. u \in [0..n -> 0..96] /\ u[0] = v[from] /\ u[n] = v[to]
    <3>1. \A i \in 0..n : from + i \in 0..L
      BY <2>3, <2>4
    <3>2. \A i \in 0..n : v[from + i] \in 0..96
      BY <1>4, <3>1
    <3>3. from + 0 = from /\ 0 \in 0..n /\ n \in 0..n
      BY <2>3, <2>4
    <3> QED BY <2>4, <3>2, <3>3
  <2>6. ASSUME NEW i \in 1..n PROVE u[i] = (10 * u[i - 1] + b[i]) % 97
    <3>1. /\ from + i \in 1..L /\ (from + i) - 1 = from + (i - 1) /\ i \in 0..n /\ i - 1 \in 0..n
      BY <2>3, <2>4
    <3>2. v[from + i] = (10 * v[(from + i) - 1] + digits[from + i]) % 97
      BY <1>4, <3>1
    <3>3. u[i] = v[from + i] /\ u[i - 1] = v[from + (i - 1)] /\ b[i] = digits[from + i]
      BY <2>3, <3>1
    <3> QED BY <3>1, <3>2, <3>3
  <2>7. u[0] \in 0..96 /\ u[0] \in Nat /\ u[0] = u[0] % 97
    <3>1. u[0] \in 0..96
      <4>1. 0 \in 0..n
        BY <2>3
      <4> QED BY <2>5, <4>1
    <3>2. \A y \in 0..96 : y \in Nat /\ y = y % 97
      OBVIOUS
    <3> QED BY <3>1, <3>2
  <2>8. Ibans!Append7(u[0], b) % 97 = u[n]
    <3> PICK r : r = u[0]
      OBVIOUS
    <3>1. r \in Nat /\ u \in [0..n -> 0..96] /\ u[0] = r % 97
      BY <2>5, <2>7, Zenon
    <3>2. /\ n \in Nat /\ DOMAIN b = 1..n /\ \A i \in 1..n : b[i] \in IbanDigits
          /\ \A i \in 1..n : u[i] = (10 * u[i - 1] + b[i]) % 97
      BY <2>3, <2>6
    <3>3. Ibans!Append7(r, b) % 97 = u[n]
      BY ONLY <3>1, <3>2, BlockRest
    <3> QED BY <3>3
  <2>9. h[1..k] = u[0] /\ blocks[k + 1] = b /\ k + 1 \in 0..K
    BY <1>1, <1>2, <1>11, <2>5
  <2>10. h[1..(k + 1)] = v[to]
    BY <2>2, <2>5, <2>8, <2>9, Zenon
  <2> QED BY <2>9, <2>10
<1>12. \A k \in 0..K : k \in P
  <2> HIDE DEF P
  <2> QED BY <1>1, <1>10, <1>11, CountingUp
<1>13. h[1..K] = v[L]
  <2>1. K \in P
    BY <1>1, <1>12
  <2> QED BY <1>1, <2>1
<1> QED BY <1>3, <1>9, <1>13

\* One character more, as its digits.
LEMMA DigitsRest ==
    ASSUME NEW s \in Seq(IbanDigits), NEW x, HasRest(s, x), NEW c \in Characters
    PROVE  s \o Ibans!Digits(c) \in Seq(IbanDigits) /\ HasRest(s \o Ibans!Digits(c), NextRest(x, c))
<1>1. CASE c < 10
  <2>1. c \in IbanDigits
    BY <1>1 DEF Characters, IbanDigits
  <2>2. s \o Ibans!Digits(c) = Append(s, c)
    BY <1>1, <2>1 DEF Ibans!Digits
  <2>3. Append(s, c) \in Seq(IbanDigits) /\ HasRest(Append(s, c), (10 * x + c) % 97)
    BY <2>1, RestOfMore
  <2>4. NextRest(x, c) = (10 * x + c) % 97
    BY <1>1 DEF NextRest
  <2> QED BY <2>2, <2>3, <2>4
<1>2. CASE ~(c < 10)
  <2> PICK t, e : t = c \div 10 /\ e = c % 10
    OBVIOUS
  <2>1. c >= 10
    BY <1>2 DEF Characters
  <2>2. t \in IbanDigits /\ e \in IbanDigits
    BY <2>1 DEF Characters, IbanDigits
  <2>3. s \o Ibans!Digits(c) = s \o <<t, e>>
    BY <1>2 DEF Ibans!Digits
  <2>4. s \o <<t, e>> = Append(Append(s, t), e)
    BY <2>2
  <2> PICK m, y : m = Append(s, t) /\ y = (10 * x + t) % 97
    OBVIOUS
  <2>5. x \in 0..96 /\ m \in Seq(IbanDigits) /\ HasRest(m, y)
    BY <2>2, RestOfMore
  <2>6. Append(m, e) \in Seq(IbanDigits) /\ HasRest(Append(m, e), (10 * y + e) % 97)
    BY <2>2, <2>5, RestOfMore
  <2>7. (10 * y + e) % 97 = NextRest(x, c)
    BY <2>1, <2>5, TwoDigits
  <2> QED BY <2>3, <2>4, <2>6, <2>7
<1> QED BY <1>1, <1>2

\* The first four characters go to the end.
Turned(iban_) == SubSeq(iban_, 5, Len(iban_)) \o SubSeq(iban_, 1, 4)
LEMMA TurnedIsWord ==
    ASSUME NEW a \in Seq(Characters), NEW n, n = Len(a), n >= 4
    PROVE  /\ n \in Nat /\ Turned(a) \in Seq(Characters) /\ Len(Turned(a)) = n
           /\ \A i \in 1..n : Turned(a)[i] = IF i <= n - 4 THEN a[i + 4] ELSE a[i - (n - 4)]
<1> PICK s, t : s = SubSeq(a, 5, n) /\ t = SubSeq(a, 1, 4)
  OBVIOUS
<1>1. n \in Nat /\ \A i \in 1..n : a[i] \in Characters
  OBVIOUS
<1>2. /\ s \in Seq(Characters) /\ Len(s) = IF 5 <= n THEN n - 5 + 1 ELSE 0
      /\ \A i \in 1..(n - 5 + 1) : s[i] = a[5 + i - 1]
  <2>1. \A i \in 5..n : a[i] \in Characters
    BY <1>1
  <2> QED BY <1>1, <2>1, SubSeqProperties
<1>3. /\ t \in Seq(Characters) /\ Len(t) = IF 1 <= 4 THEN 4 - 1 + 1 ELSE 0
      /\ \A i \in 1..(4 - 1 + 1) : t[i] = a[1 + i - 1]
  <2>1. \A i \in 1..4 : a[i] \in Characters
    BY <1>1
  <2> QED BY <2>1, SubSeqProperties
<1>4. Len(s) = n - 4 /\ \A i \in 1..(n - 4) : s[i] = a[i + 4]
  <2>1. n - 5 + 1 = n - 4 /\ \A i \in 1..(n - 4) : 5 + i - 1 = i + 4
    BY <1>1
  <2>2. Len(s) = n - 4
    BY <1>1, <1>2
  <2>3. \A i \in 1..(n - 4) : s[i] = a[i + 4]
    BY <1>2, <2>1
  <2> QED BY <2>2, <2>3
<1>5. Len(t) = 4 /\ \A i \in 1..4 : t[i] = a[i]
  <2>1. \A i \in 1..4 : 1 + i - 1 = i
    OBVIOUS
  <2> QED BY <1>3, <2>1
<1>6. /\ s \o t \in Seq(Characters) /\ Len(s \o t) = Len(s) + Len(t)
      /\ \A i \in 1..Len(s) + Len(t) : (s \o t)[i] = IF i <= Len(s) THEN s[i] ELSE t[i - Len(s)]
  <2>1. s \in Seq(Characters) /\ t \in Seq(Characters)
    BY <1>2, <1>3
  <2> QED BY ONLY <2>1, ConcatProperties
<1>7. Turned(a) = s \o t
  BY DEF Turned
<1> PICK w : w = s \o t
  OBVIOUS
<1>8. w \in Seq(Characters) /\ Len(w) = n
  BY <1>1, <1>4, <1>5, <1>6
<1>9. ASSUME NEW i \in 1..n PROVE w[i] = IF i <= n - 4 THEN a[i + 4] ELSE a[i - (n - 4)]
  <2>1. i \in 1..Len(s) + Len(t)
    BY <1>1, <1>4, <1>5
  <2>2. w[i] = IF i <= n - 4 THEN s[i] ELSE t[i - (n - 4)]
    BY <1>4, <1>6, <2>1
  <2>3. i <= n - 4 => i \in 1..(n - 4)
    BY <1>1
  <2>4. ~(i <= n - 4) => i - (n - 4) \in 1..4
    BY <1>1
  <2> QED BY <1>4, <1>5, <2>2, <2>3, <2>4
<1> QED BY <1>1, <1>7, <1>8, <1>9

\* The remainders that the characters of a word leave, one after the other.
IsTrail(u, w) ==
    /\ u \in [0..Len(w) -> 0..96]
    /\ u[0] = 0
    /\ \A i \in 1..Len(w) : u[i] = NextRest(u[i - 1], w[i])

LEMMA TrailExists ==
    ASSUME NEW w \in Seq(Characters)
    PROVE  \E u : IsTrail(u, w)
<1> PICK n \in Nat : n = Len(w)
  OBVIOUS
<1>1. \A i \in 1..n : w[i] \in Characters
  OBVIOUS
<1> DEFINE step == [i \in 1..n |-> [x \in 0..96 |-> NextRest(x, w[i])]]
<1>2. step \in [1..n -> [0..96 -> 0..96]]
  <2>1. \A i \in 1..n : [x \in 0..96 |-> NextRest(x, w[i])] \in [0..96 -> 0..96]
    BY <1>1, SlipsShow
  <2> QED BY <2>1
<1>3. PICK v \in [0..n -> 0..96] : IsIteration(v, n, 0, step)
  <2> HIDE DEF step
  <2> PICK zero, V : zero = 0 /\ V = 0..96
    OBVIOUS
  <2>1. zero \in V /\ step \in [1..n -> [V -> V]]
    BY <1>2
  <2>2. \E v \in [0..n -> V] : IsIteration(v, n, zero, step)
    BY <2>1, Iterates
  <2> QED BY <2>2
<1>4. \A i \in 0..n : v[i] = IF i = 0 THEN 0 ELSE step[i][v[i - 1]]
  <2> HIDE DEF step
  <2> DEFINE k == [i \in 0..n |-> IF i = 0 THEN 0 ELSE step[i][v[i - 1]]]
  <2>1. v = k
    BY <1>3 DEF IsIteration
  <2>2. \A i \in 0..n : k[i] = IF i = 0 THEN 0 ELSE step[i][v[i - 1]]
    OBVIOUS
  <2> HIDE DEF k
  <2> QED BY <2>1, <2>2
<1>5. v[0] = 0
  <2> HIDE DEF step
  <2>1. 0 \in 0..n
    OBVIOUS
  <2> QED BY <1>4, <2>1
<1>6. ASSUME NEW i \in 1..n PROVE v[i] = NextRest(v[i - 1], w[i])
  <2>1. i \in 0..n /\ i # 0 /\ i - 1 \in 0..n
    OBVIOUS
  <2>2. v[i - 1] \in 0..96
    BY <2>1
  <2>3. step[i][v[i - 1]] = NextRest(v[i - 1], w[i])
    BY <2>2
  <2> HIDE DEF step
  <2> QED BY <1>4, <2>1, <2>3
<1> HIDE DEF step
<1> QED BY <1>5, <1>6 DEF IsTrail

\* The rows of digits, one behind the other, which CHOOSE finds.
Flattened(seqs, n, f) == [i \in 1..n |-> IF i = 1 THEN seqs[i] ELSE f[i - 1] \o seqs[i]]
LEMMA FlattenIsChosen ==
    \A seqs : Len(seqs) # 0 =>
        Ibans!FlattenSeq(seqs) = (CHOOSE f : f = Flattened(seqs, Len(seqs), f))[Len(seqs)]
BY DEF Ibans!FlattenSeq, Flattened

\* What the digits of an IBAN leave is what its characters leave.
LEMMA NumericRest ==
    ASSUME NEW a \in Seq(Characters), Len(a) >= 4, NEW u, IsTrail(u, Turned(a))
    PROVE  Ibans!Numeric(a) \in Seq(IbanDigits) /\ HasRest(Ibans!Numeric(a), u[Len(a)])
<1> PICK n, w : n = Len(a) /\ w = Turned(a)
  OBVIOUS
<1>1. n \in Nat /\ n >= 4 /\ w \in Seq(Characters) /\ Len(w) = n
  BY TurnedIsWord
<1>2. u \in [0..n -> 0..96] /\ u[0] = 0 /\ \A i \in 1..n : u[i] = NextRest(u[i - 1], w[i])
  BY <1>1 DEF IsTrail
<1>3. \A i \in 1..n : w[i] \in Characters
  BY <1>1
<1> DEFINE row == [i \in 1..n |-> Ibans!Digits(w[i])]
<1> PICK seqs : seqs = row
  OBVIOUS
<1>4. Ibans!Numeric(a) = Ibans!FlattenSeq(seqs)
  BY DEF Ibans!Numeric, Turned
<1>5. DOMAIN seqs = 1..n /\ Len(seqs) = n /\ \A i \in 1..n : seqs[i] = Ibans!Digits(w[i])
  BY <1>1
<1> HIDE DEF row
<1>6. \A i \in 1..n : seqs[i] \in Seq(IbanDigits)
  <2> SUFFICES ASSUME NEW i \in 1..n PROVE Ibans!Digits(w[i]) \in Seq(IbanDigits)
    BY <1>5
  <2>1. <<>> \in Seq(IbanDigits) /\ HasRest(<<>>, 0)
    BY RestOfNone
  <2>2. <<>> \o Ibans!Digits(w[i]) \in Seq(IbanDigits)
    BY <1>3, <2>1, DigitsRest
  <2>3. <<>> \o Ibans!Digits(w[i]) = Ibans!Digits(w[i])
    BY DEF Ibans!Digits
  <2> QED BY <2>2, <2>3
<1>7. PICK f : f = Flattened(seqs, n, f) /\ Ibans!Numeric(a) = f[n]
  <2> DEFINE step == [i \in 1..n |-> [s \in Seq(IbanDigits) |-> s \o seqs[i]]]
  <2>1. step \in [1..n -> [Seq(IbanDigits) -> Seq(IbanDigits)]]
    <3>1. \A i \in 1..n : [s \in Seq(IbanDigits) |-> s \o seqs[i]] \in [Seq(IbanDigits) -> Seq(IbanDigits)]
      BY <1>6
    <3> QED BY <3>1
  <2>2. PICK h \in [0..n -> Seq(IbanDigits)] : IsIteration(h, n, <<>>, step)
    <3> HIDE DEF step
    <3> PICK none, V : none = <<>> /\ V = Seq(IbanDigits)
      OBVIOUS
    <3>1. none \in V /\ step \in [1..n -> [V -> V]]
      BY <2>1
    <3>2. \E h \in [0..n -> V] : IsIteration(h, n, none, step)
      BY <1>1, <3>1, Iterates
    <3> QED BY <3>2
  <2>3. \A i \in 0..n : h[i] = IF i = 0 THEN <<>> ELSE step[i][h[i - 1]]
    <3> HIDE DEF step
    <3> DEFINE k == [i \in 0..n |-> IF i = 0 THEN <<>> ELSE step[i][h[i - 1]]]
    <3>1. h = k
      BY <2>2 DEF IsIteration
    <3>2. \A i \in 0..n : k[i] = IF i = 0 THEN <<>> ELSE step[i][h[i - 1]]
      OBVIOUS
    <3> HIDE DEF k
    <3> QED BY <3>1, <3>2
  <2>4. ASSUME NEW i \in 1..n PROVE h[i] = h[i - 1] \o seqs[i]
    <3>1. i \in 0..n /\ i # 0 /\ i - 1 \in 0..n
      BY <1>1
    <3>2. h[i - 1] \in Seq(IbanDigits)
      BY <3>1
    <3>3. step[i][h[i - 1]] = h[i - 1] \o seqs[i]
      BY <3>2
    <3> HIDE DEF step
    <3> QED BY <2>3, <3>1, <3>3
  <2> HIDE DEF step
  <2>5. h[0] = <<>>
    <3>1. 0 \in 0..n
      BY <1>1
    <3> QED BY <2>3, <3>1
  <2> PICK f : f = [i \in 1..n |-> h[i]]
    OBVIOUS
  <2>6. ASSUME NEW i \in 1..n PROVE f[i] = IF i = 1 THEN seqs[i] ELSE f[i - 1] \o seqs[i]
    <3>1. CASE i = 1
      <4>1. f[i] = h[i] /\ h[i] = h[i - 1] \o seqs[i]
        BY <2>4
      <4>2. h[i - 1] = <<>>
        <5>1. i - 1 = 0
          BY <3>1
        <5> QED BY <2>5, <5>1
      <4>3. <<>> \o seqs[i] = seqs[i]
        <5>1. seqs[i] \in Seq(IbanDigits)
          BY <1>6
        <5> QED BY <5>1, ConcatEmptySeq
      <4> QED BY <3>1, <4>1, <4>2, <4>3
    <3>2. CASE i # 1
      <4>1. i - 1 \in 1..n
        BY <1>1, <3>2
      <4>2. f[i] = h[i] /\ f[i - 1] = h[i - 1]
        BY <4>1
      <4> QED BY <2>4, <3>2, <4>2
    <3> QED BY <3>1, <3>2
  <2>7. f = Flattened(seqs, n, f)
    <3>1. \A i \in 1..n : f[i] = Flattened(seqs, n, f)[i]
      BY <2>6 DEF Flattened
    <3>2. Flattened(seqs, n, f) = [i \in 1..n |-> Flattened(seqs, n, f)[i]]
      BY DEF Flattened
    <3>3. f = [i \in 1..n |-> f[i]]
      OBVIOUS
    <3> QED BY <3>1, <3>2, <3>3
  <2>8. \E g : g = Flattened(seqs, n, g)
    BY <2>7
  <2>9. Ibans!FlattenSeq(seqs) = (CHOOSE g : g = Flattened(seqs, n, g))[n]
    <3>1. Len(seqs) # 0
      BY <1>1, <1>5
    <3> QED BY <1>5, <3>1, FlattenIsChosen
  <2> QED BY <1>4, <2>8, <2>9
<1>8. ASSUME NEW i \in 1..n PROVE f[i] = IF i = 1 THEN seqs[i] ELSE f[i - 1] \o seqs[i]
  <2>1. Flattened(seqs, n, f)[i] = IF i = 1 THEN seqs[i] ELSE f[i - 1] \o seqs[i]
    BY DEF Flattened
  <2> QED BY <1>7, <2>1
<1> DEFINE P == {m \in 0..n : m = 0 \/ (f[m] \in Seq(IbanDigits) /\ HasRest(f[m], u[m]))}
<1>9. 0 \in P
  BY <1>1
<1>10. ASSUME NEW m \in 0..(n - 1), m \in P PROVE m + 1 \in P
  <2>1. /\ m + 1 \in 1..n /\ (m + 1) - 1 = m /\ m + 1 \in 0..n
        /\ m + 1 = 1 <=> m = 0
    BY <1>1
  <2>2. u[m + 1] = NextRest(u[m], w[m + 1]) /\ w[m + 1] \in Characters
        /\ seqs[m + 1] = Ibans!Digits(w[m + 1])
    BY <1>2, <1>3, <1>5, <2>1
  <2>3. PICK s \in Seq(IbanDigits) : HasRest(s, u[m]) /\ f[m + 1] = s \o seqs[m + 1]
    <3>1. CASE m = 0
      <4>1. <<>> \in Seq(IbanDigits) /\ HasRest(<<>>, u[m])
        BY <1>2, <3>1, RestOfNone
      <4>2. seqs[m + 1] \in Seq(IbanDigits)
        BY <1>6, <2>1
      <4>3. <<>> \o seqs[m + 1] = seqs[m + 1]
        BY <4>2, ConcatEmptySeq
      <4>4. f[m + 1] = seqs[m + 1]
        BY <1>8, <2>1, <3>1
      <4> QED BY <4>1, <4>3, <4>4
    <3>2. CASE m # 0
      <4>1. f[m] \in Seq(IbanDigits) /\ HasRest(f[m], u[m])
        BY <1>10, <3>2
      <4>2. f[m + 1] = f[m] \o seqs[m + 1]
        BY <1>8, <2>1, <3>2
      <4> QED BY <4>1, <4>2
    <3> QED BY <3>1, <3>2
  <2>4. f[m + 1] \in Seq(IbanDigits) /\ HasRest(f[m + 1], u[m + 1])
    BY <2>2, <2>3, DigitsRest
  <2> QED BY <2>1, <2>4
<1>11. n \in P
  <2>1. \A m \in 0..n : m \in P
    <3> HIDE DEF P
    <3> QED BY <1>1, <1>9, <1>10, CountingUp
  <2>2. n \in 0..n
    BY <1>1
  <2> QED BY <2>1, <2>2
<1>12. f[n] \in Seq(IbanDigits) /\ HasRest(f[n], u[n])
  <2>1. n # 0
    BY <1>1
  <2> QED BY <1>11, <2>1
<1> QED BY <1>7, <1>12

\* What mod97 makes of an IBAN is what its characters leave.
LEMMA TrailsEnd ==
    ASSUME NEW a \in Seq(Characters), Len(a) >= 4, NEW u, IsTrail(u, Turned(a))
    PROVE  Ibans!Mod97(a) = u[Len(a)]
BY NumericRest, BlocksRest

\* Words of the same length that differ in one place, by a character of the same kind,
\* leave different remainders: whatever follows keeps them apart.
LEMMA WordsLeaveMore ==
    ASSUME NEW n \in Nat, NEW w \in Seq(Characters), NEW z \in Seq(Characters),
           Len(w) = n, Len(z) = n, NEW j \in 1..n,
           w[j] # z[j], w[j] < 10 <=> z[j] < 10,
           \A i \in (1..n) \ {j} : w[i] = z[i],
           NEW u, IsTrail(u, w), NEW v, IsTrail(v, z)
    PROVE  u[n] # v[n]
<1>1. /\ u \in [0..n -> 0..96] /\ u[0] = 0 /\ \A i \in 1..n : u[i] = NextRest(u[i - 1], w[i])
      /\ v \in [0..n -> 0..96] /\ v[0] = 0 /\ \A i \in 1..n : v[i] = NextRest(v[i - 1], z[i])
  BY DEF IsTrail
<1>2. \A i \in 1..n : w[i] \in Characters /\ z[i] \in Characters
  OBVIOUS
<1> DEFINE P == {m \in 0..n : (m < j => u[m] = v[m]) /\ (m >= j => u[m] # v[m])}
<1>3. 0 \in P
  BY <1>1
<1>4. ASSUME NEW m \in 0..(n - 1), m \in P PROVE m + 1 \in P
  <2> PICK i : i = m + 1
    OBVIOUS
  <2>1. i \in 1..n /\ i - 1 = m /\ i \in 0..n /\ u[m] \in 0..96 /\ v[m] \in 0..96
    BY <1>1
  <2>2. u[i] = NextRest(u[m], w[i]) /\ v[i] = NextRest(v[m], z[i])
    BY <1>1, <2>1
  <2>3. w[i] \in Characters /\ z[i] \in Characters
    BY <1>2, <2>1
  <2>4. CASE i < j
    <3>1. m < j /\ i # j
      BY <2>1, <2>4
    <3>2. u[m] = v[m] /\ w[i] = z[i]
      BY <1>4, <2>1, <3>1
    <3> QED BY <2>1, <2>2, <2>4, <3>2
  <2>5. CASE i = j
    <3>1. m < j
      BY <2>1, <2>5
    <3>2. u[m] = v[m] /\ w[i] # z[i] /\ (w[i] < 10 <=> z[i] < 10)
      BY <1>4, <2>5, <3>1
    <3>3. u[i] # v[i]
      BY <2>1, <2>2, <2>3, <3>2, SlipsShow
    <3> QED BY <2>1, <2>5, <3>3
  <2>6. CASE i > j
    <3>1. m >= j /\ i # j
      BY <2>1, <2>6
    <3>2. u[m] # v[m] /\ w[i] = z[i]
      BY <1>4, <2>1, <3>1
    <3>3. u[i] # v[i]
      BY <2>1, <2>2, <2>3, <3>2, SlipsShow
    <3> QED BY <2>1, <2>6, <3>3
  <2> QED BY <2>1, <2>4, <2>5, <2>6
<1>5. \A m \in 0..n : m \in P
  <2> HIDE DEF P
  <2> QED BY <1>3, <1>4, CountingUp
<1>6. n \in P /\ n >= j
  <2>1. n \in 0..n
    OBVIOUS
  <2> QED BY <1>5, <2>1
<1> QED BY <1>6

\* A slip of the pen changes what mod97 makes of an IBAN.
LEMMA SlipsDiffer ==
    ASSUME NEW a \in Seq(Characters), NEW b \in Seq(Characters), Len(a) >= 4,
           NEW i \in DOMAIN a, Ibans!Slip(a, b, i)
    PROVE  Ibans!Mod97(a) # Ibans!Mod97(b)
<1> PICK n \in Nat : n = Len(a)
  OBVIOUS
<1>1. /\ Len(b) = n /\ n >= 4 /\ i \in 1..n /\ a[i] # b[i] /\ (a[i] < 10 <=> b[i] < 10)
      /\ \A k \in (1..n) \ {i} : a[k] = b[k]
  BY DEF Ibans!Slip
<1> PICK w, z : w = Turned(a) /\ z = Turned(b)
  OBVIOUS
<1>2. /\ w \in Seq(Characters) /\ Len(w) = n
      /\ \A k \in 1..n : w[k] = IF k <= n - 4 THEN a[k + 4] ELSE a[k - (n - 4)]
  BY <1>1, TurnedIsWord
<1>3. /\ z \in Seq(Characters) /\ Len(z) = n
      /\ \A k \in 1..n : z[k] = IF k <= n - 4 THEN b[k + 4] ELSE b[k - (n - 4)]
  BY <1>1, TurnedIsWord
<1> PICK j : j = IF i <= 4 THEN i + (n - 4) ELSE i - 4
  OBVIOUS
<1>4. j \in 1..n /\ w[j] = a[i] /\ z[j] = b[i]
  <2>1. CASE i <= 4
    <3>1. j \in 1..n /\ ~(j <= n - 4) /\ j - (n - 4) = i
      BY <1>1, <2>1
    <3> QED BY <1>2, <1>3, <3>1
  <2>2. CASE ~(i <= 4)
    <3>1. j \in 1..n /\ j <= n - 4 /\ j + 4 = i
      BY <1>1, <2>2
    <3> QED BY <1>2, <1>3, <3>1
  <2> QED BY <2>1, <2>2
<1>5. ASSUME NEW k \in (1..n) \ {j} PROVE w[k] = z[k]
  <2>1. CASE k <= n - 4
    <3>1. k + 4 \in (1..n) \ {i}
      BY <1>1, <2>1
    <3> QED BY <1>1, <1>2, <1>3, <2>1, <3>1
  <2>2. CASE ~(k <= n - 4)
    <3>1. k - (n - 4) \in (1..n) \ {i}
      BY <1>1, <2>2
    <3> QED BY <1>1, <1>2, <1>3, <2>2, <3>1
  <2> QED BY <2>1, <2>2
<1> PICK u, v : IsTrail(u, w) /\ IsTrail(v, z)
  BY <1>2, <1>3, TrailExists
<1>6. u[n] # v[n]
  <2>1. w[j] # z[j] /\ (w[j] < 10 <=> z[j] < 10)
    BY <1>1, <1>4
  <2>2. w \in Seq(Characters) /\ z \in Seq(Characters) /\ Len(w) = n /\ Len(z) = n /\ j \in 1..n
    BY <1>2, <1>3, <1>4
  <2>3. IsTrail(u, w) /\ IsTrail(v, z) /\ n \in Nat
    OBVIOUS
  <2> QED BY ONLY <2>1, <2>2, <2>3, <1>5, WordsLeaveMore
<1>7. Ibans!Mod97(a) = u[n]
  BY <1>1, TrailsEnd
<1>8. Ibans!Mod97(b) = v[n]
  BY <1>1, TrailsEnd
<1> QED BY <1>6, <1>7, <1>8

\* What is stored, and what a request is about to store, has been found valid.
IbanInv ==
    /\ Ibans!TypeOK
    /\ DOMAIN ibanTask = Hand
    /\ \A key \in DOMAIN ibanAccounts : ibanAccounts[key] \in Iban /\ Ibans!ValidIban(ibanAccounts[key])
    /\ \A h \in Hand : ibanTask[h].step = "account" =>
          /\ ibanTask[h].key \in IbanSchool \X Ibans!Countries \X IbanCurrency
          /\ ibanTask[h].iban \in Iban /\ Ibans!ValidIban(ibanTask[h].iban)
    /\ ibanDeposits = <<>> /\ ibanSent = {} /\ ibanNow = 0
    /\ \A h \in Hand : ibanTask[h].step \in {"idle", "account"}

LEMMA IbanInit == Ibans!Init => IbanInv
<1> SUFFICES ASSUME Ibans!Init PROVE IbanInv
  OBVIOUS
<1>1. /\ DOMAIN ibanAccounts = {} /\ DOMAIN ibanDeposits = {} /\ ibanSent = {} /\ ibanNow = 0
      /\ ibanDeposits = <<>> /\ ibanRate \in {<<259, 2>>}
      /\ ibanTask = [h \in Hand |-> Ibans!Idle] /\ Ibans!Idle.step = "idle"
  BY DEF Ibans!Init, Ibans!Idle
<1> QED BY <1>1 DEF IbanInv, Ibans!TypeOK

\* A request goes on.
LEMMA IbanGoesOn ==
    ASSUME IbanInv, NEW h \in Hand, NEW next, ibanTask' = [ibanTask EXCEPT ![h] = next],
           next.step \in {"idle", "account"},
           next.step = "account" => /\ next.key \in IbanSchool \X Ibans!Countries \X IbanCurrency
                                    /\ next.iban \in Iban /\ Ibans!ValidIban(next.iban)
    PROVE  /\ DOMAIN ibanTask' = Hand
           /\ \A g \in Hand :
                 /\ ibanTask'[g].step \in {"idle", "account"}
                 /\ ibanTask'[g].step = "account" =>
                       /\ ibanTask'[g].key \in IbanSchool \X Ibans!Countries \X IbanCurrency
                       /\ ibanTask'[g].iban \in Iban /\ Ibans!ValidIban(ibanTask'[g].iban)
<1>1. DOMAIN ibanTask' = Hand /\ ibanTask'[h] = next
  BY DEF IbanInv
<1>2. \A g \in Hand \ {h} : ibanTask'[g] = ibanTask[g]
  BY DEF IbanInv
<1>3. ASSUME NEW g \in Hand
      PROVE  /\ ibanTask'[g].step \in {"idle", "account"}
             /\ ibanTask'[g].step = "account" =>
                   /\ ibanTask'[g].key \in IbanSchool \X Ibans!Countries \X IbanCurrency
                   /\ ibanTask'[g].iban \in Iban /\ Ibans!ValidIban(ibanTask'[g].iban)
  <2>1. CASE g = h
    BY <1>1, <2>1, Zenon
  <2>2. CASE g # h
    <3>1. ibanTask'[g] = ibanTask[g]
      BY <1>2, <2>2
    <3>2. /\ ibanTask[g].step \in {"idle", "account"}
          /\ ibanTask[g].step = "account" =>
                /\ ibanTask[g].key \in IbanSchool \X Ibans!Countries \X IbanCurrency
                /\ ibanTask[g].iban \in Iban /\ Ibans!ValidIban(ibanTask[g].iban)
      BY DEF IbanInv
    <3> QED BY <3>1, <3>2, Zenon
  <2> QED BY <2>1, <2>2
<1> QED BY <1>1, <1>3

LEMMA OpenKeepsIbans ==
    ASSUME IbanInv, NEW h \in Hand, NEW s \in IbanSchool, NEW country \in Ibans!Countries,
           NEW currency \in IbanCurrency, NEW given \in Iban,
           Ibans!OpenAccount(h, s, country, currency, given)
    PROVE  IbanInv'
<1> DEFINE next == [step |-> "account", key |-> <<s, country, currency>>, iban |-> given]
<1>1. /\ ibanTask' = [ibanTask EXCEPT ![h] = next] /\ Ibans!ValidIban(given)
      /\ UNCHANGED <<ibanRate, ibanDeposits, ibanSent, ibanAccounts, ibanNow>>
  BY DEF Ibans!OpenAccount, Ibans!Continue
<1>2. /\ next.step = "account" /\ next.key \in IbanSchool \X Ibans!Countries \X IbanCurrency
      /\ next.iban = given
  OBVIOUS
<1> HIDE DEF next
<1>3. /\ DOMAIN ibanTask' = Hand
      /\ \A g \in Hand :
            /\ ibanTask'[g].step \in {"idle", "account"}
            /\ ibanTask'[g].step = "account" =>
                  /\ ibanTask'[g].key \in IbanSchool \X Ibans!Countries \X IbanCurrency
                  /\ ibanTask'[g].iban \in Iban /\ Ibans!ValidIban(ibanTask'[g].iban)
  BY <1>1, <1>2, IbanGoesOn
<1>4. Ibans!TypeOK'
  BY <1>1, <1>3 DEF IbanInv, Ibans!TypeOK
<1>5. \A key \in DOMAIN ibanAccounts' :
          ibanAccounts'[key] \in Iban /\ Ibans!ValidIban(ibanAccounts'[key])
  BY <1>1, Zenon DEF IbanInv
<1>6. ibanDeposits' = <<>> /\ ibanSent' = {} /\ ibanNow' = 0
  BY <1>1 DEF IbanInv
<1> QED BY <1>3, <1>4, <1>5, <1>6, Zenon DEF IbanInv, Ibans!ValidIban, Ibans!Countries

LEMMA StoreKeepsIbans ==
    ASSUME IbanInv, NEW h \in Hand, Ibans!StoreAccount(h)
    PROVE  IbanInv'
<1> PICK key, given : key = ibanTask[h].key /\ given = ibanTask[h].iban
  OBVIOUS
<1> DEFINE next == Ibans!Idle
<1>1. /\ ibanTask' = [ibanTask EXCEPT ![h] = next]
      /\ ibanTask[h].step = "account"
      /\ ibanAccounts' = IF key \in DOMAIN ibanAccounts THEN ibanAccounts
                         ELSE [k \in DOMAIN ibanAccounts \cup {key} |->
                                  IF k = key THEN given ELSE ibanAccounts[k]]
      /\ UNCHANGED <<ibanRate, ibanDeposits, ibanSent, ibanNow>>
  BY DEF Ibans!StoreAccount, Ibans!Continue, Ibans!With
<1>2. next.step = "idle"
  BY DEF Ibans!Idle
<1> HIDE DEF next
<1>3. /\ DOMAIN ibanTask' = Hand
      /\ \A g \in Hand :
            /\ ibanTask'[g].step \in {"idle", "account"}
            /\ ibanTask'[g].step = "account" =>
                  /\ ibanTask'[g].key \in IbanSchool \X Ibans!Countries \X IbanCurrency
                  /\ ibanTask'[g].iban \in Iban /\ Ibans!ValidIban(ibanTask'[g].iban)
  BY <1>1, <1>2, IbanGoesOn
<1>4. /\ key \in IbanSchool \X Ibans!Countries \X IbanCurrency
      /\ given \in Iban /\ Ibans!ValidIban(given)
  BY <1>1 DEF IbanInv
<1>5. ASSUME NEW k \in DOMAIN ibanAccounts'
      PROVE  /\ ibanAccounts'[k] \in Iban /\ Ibans!ValidIban(ibanAccounts'[k])
             /\ k \in IbanSchool \X Ibans!Countries \X IbanCurrency
  <2>1. CASE k = key /\ key \notin DOMAIN ibanAccounts
    <3>1. ibanAccounts'[k] = given
      BY <1>1, <2>1
    <3> QED BY <1>4, <2>1, <3>1, Zenon
  <2>2. CASE k # key \/ key \in DOMAIN ibanAccounts
    <3>1. k \in DOMAIN ibanAccounts /\ ibanAccounts'[k] = ibanAccounts[k]
      BY <1>1, <2>2
    <3>2. /\ ibanAccounts[k] \in Iban /\ Ibans!ValidIban(ibanAccounts[k])
          /\ k \in IbanSchool \X Ibans!Countries \X IbanCurrency
      BY <3>1 DEF IbanInv, Ibans!TypeOK
    <3> QED BY <3>1, <3>2, Zenon
  <2> QED BY <2>1, <2>2
<1>6. Ibans!TypeOK'
  BY <1>1, <1>3, <1>5 DEF IbanInv, Ibans!TypeOK
<1>7. ibanDeposits' = <<>> /\ ibanSent' = {} /\ ibanNow' = 0
  BY <1>1 DEF IbanInv
<1> QED BY <1>3, <1>5, <1>6, <1>7, Zenon DEF IbanInv, Ibans!ValidIban, Ibans!Countries

LEMMA IbanNext == IbanInv /\ [Ibans!Next]_(Ibans!vars) => IbanInv'
<1> SUFFICES ASSUME IbanInv, [Ibans!Next]_(Ibans!vars) PROVE IbanInv'
  OBVIOUS
<1>1. CASE UNCHANGED Ibans!vars
  <2>1. Ibans!TypeOK'
    BY <1>1 DEF Ibans!vars, IbanInv, Ibans!TypeOK
  <2> QED BY <1>1, <2>1 DEF Ibans!vars, IbanInv, Ibans!ValidIban
<1>2. DOMAIN ibanDeposits = {} /\ ibanSent = {} /\ ibanNow = 0 /\ ibanRate \in {<<259, 2>>}
  BY DEF IbanInv, Ibans!TypeOK
<1>3. ~Ibans!RateMoves /\ ~Ibans!Tick
  BY <1>2 DEF Ibans!RateMoves, Ibans!Tick
<1>4. ASSUME NEW h \in Hand, Ibans!FxStep(h) \/ Ibans!WebhookStep(h)
      PROVE  IbanInv'
  <2>1. ibanTask[h].step \in {"idle", "account"}
    BY DEF IbanInv
  <2>2. ~Ibans!StoreDeposit(h) /\ ~Ibans!WebhookStep(h)
    BY <1>2, <2>1 DEF Ibans!StoreDeposit, Ibans!WebhookStep, Ibans!ApplyWebhook
  <2>3. \/ \E s \in IbanSchool, country \in Ibans!Countries, currency \in IbanCurrency, given \in Iban :
              Ibans!OpenAccount(h, s, country, currency, given)
        \/ Ibans!StoreAccount(h)
    BY <1>4, <2>2, Zenon DEF Ibans!FxStep
  <2> QED BY <2>3, OpenKeepsIbans, StoreKeepsIbans
<1> QED BY <1>1, <1>2, <1>3, <1>4 DEF Ibans!Next

\* Two accounts that were found valid do not differ by a slip of the pen.
LEMMA IbanImplies == IbanInv => Ibans!TypeOK /\ Ibans!SlipsAreCaught
<1> SUFFICES ASSUME IbanInv, NEW k \in DOMAIN ibanAccounts, NEW l \in DOMAIN ibanAccounts,
                    NEW i \in DOMAIN ibanAccounts[k], Ibans!Slip(ibanAccounts[k], ibanAccounts[l], i)
             PROVE  FALSE
  BY DEF IbanInv, Ibans!SlipsAreCaught
<1> PICK a, b : a = ibanAccounts[k] /\ b = ibanAccounts[l]
  OBVIOUS
<1>1. a \in Iban /\ b \in Iban /\ Ibans!ValidIban(a) /\ Ibans!ValidIban(b)
  BY DEF IbanInv
<1>2. a \in Seq(Characters) /\ b \in Seq(Characters)
  BY <1>1, MoneyAssumption DEF Ibans!FxAssumption, Characters
<1>3. Len(a) >= 4 /\ Ibans!Mod97(a) = 1 /\ Ibans!Mod97(b) = 1
  BY <1>1 DEF Ibans!ValidIban
<1>4. i \in DOMAIN a /\ Ibans!Slip(a, b, i)
  OBVIOUS
<1>5. Ibans!Mod97(a) # Ibans!Mod97(b)
  BY <1>2, <1>3, <1>4, SlipsDiffer
<1> QED BY <1>3, <1>5

\* Every bank transaction has one place, every payout that lacks one an alert, what fits
\* is not left over, and all exports agree; and the IBANs that schools are paid on never
\* differ by a slip of the pen: for any payouts, gifts, posts and IBANs, and any requests.
THEOREM BankAlwaysAgrees == AllSpec => []BankAgrees
<1>1. AllInit => BankInv /\ IbanInv
  BY BankInit, IbanInit DEF AllInit
<1>2. BankInv /\ IbanInv /\ [AllNext]_allVars => BankInv' /\ IbanInv'
  BY BankSteps, BankNext, FxSteps, IbanNext
<1>3. BankInv /\ IbanInv => BankAgrees
  BY BankImplies, IbanImplies DEF BankAgrees
<1> QED BY <1>1, <1>2, <1>3, PTL DEF AllSpec
===============================================================================
