---------------------------------- MODULE Esg ----------------------------------
(***************************************************************************)
(* ESG reports (esg.service.ts and its cores): annual reports are taken    *)
(* from the ledger, which grows on, and kept; entries are tagged; auditors *)
(* get access for a time.  A year has Ticks moments, of which the last is  *)
(* what follows its second 23:59:59.                                       *)
(***************************************************************************)
EXTENDS Integers, Sequences, FiniteSets, FiniteSetsExt, TLC

CONSTANTS
    Request,        \* the requests that run at the same time
    Report, Grant,  \* the reports and grants that can be made
    Amount, Ttl,    \* amounts of entries; hours an admin asks for
    MinTtl, MaxTtl, \* MIN_TTL_MS, MAX_TTL_MS
    Ticks,          \* moments of a year
    Person,         \* Person[p]: gender, country, birth year, first of the family
    Batch,          \* how many entries may be made in one moment
    PageLines,      \* lines that fit on the page of a PDF
    MaxEntries, MaxTime     \* bounds

EsgAssumption ==
    /\ {Ticks, MinTtl, MaxTtl, PageLines, MaxEntries, MaxTime} \subseteq Nat /\ Ticks > 0
    /\ Batch \subseteq Nat \ {0}
    /\ Amount \subseteq Nat /\ Ttl \subseteq Nat /\ MinTtl <= MaxTtl
    /\ IsFiniteSet(DOMAIN Person)

VARIABLES
    ledger,         \* the entries, as far as reports read them
    tags,           \* tags[e]: the category of entry e
    profiles,       \* the students who have registered
    reports,        \* the reports that are kept
    grants,         \* the grants of auditors
    seen,           \* seen[g]: how often the auditor of grant g was shown the ledger
    now,
    request         \* what each request has read

vars == <<ledger, tags, profiles, reports, grants, seen, now, request>>

Types == {"DONATION", "PAYOUT", "DISBURSEMENT"}
Invested == {"PAYOUT", "DISBURSEMENT"}
Categories == {"QUALITY_EDUCATION", "GENDER_EQUALITY"}
Standards == {"GRI_2024", "CSRD_ESRS", "SASB", "UN_SDG"}
Idle == [step |-> "idle"]
Year(t) == t \div Ticks

TypeOK ==
    /\ ledger \in Seq([type : Types, amount : Amount, at : 0..MaxTime])
    /\ DOMAIN tags \subseteq DOMAIN ledger /\ \A e \in DOMAIN tags : tags[e] \in Categories
    /\ DOMAIN profiles \subseteq DOMAIN Person
    /\ DOMAIN reports \subseteq Report
    /\ DOMAIN grants \subseteq Grant
    /\ \A g \in DOMAIN grants : grants[g] \in [expires : Nat, revoked : BOOLEAN]
    /\ seen \in [Grant -> Nat] /\ now \in 0..MaxTime
    /\ \A r \in Request : request[r].step \in {"idle", "report", "portal"}

Init ==
    /\ ledger = <<>> /\ tags = <<>> /\ profiles = <<>> /\ reports = <<>> /\ grants = <<>>
    /\ seen = [g \in Grant |-> 0]
    /\ now = 0
    /\ request = [r \in Request |-> Idle]

Continue(r, next) == request' = [request EXCEPT ![r] = next]
With(table, key, row) ==
    [k \in DOMAIN table \cup {key} |-> IF k = key THEN row ELSE table[k]]
-----------------------------------------------------------------------------
(* Figures.                                                                *)

SumOf(es) ==
    LET amounts == [e \in es |-> ledger[e].amount]
    IN  MapThenSumSet(LAMBDA e : amounts[e], es)
\* In tenths of a percent, rounded.
Share(part, whole) == IF whole = 0 THEN 0 ELSE (2000 * part + whole) \div (2 * whole)

\* yearPeriod: up to the second 23:59:59.
InPeriod(year, t) == Year(t) = year /\ t % Ticks < Ticks - 1
\* listAllForReporting
EntriesIn(year) == {e \in DOMAIN ledger : InPeriod(year, ledger[e].at)}

\* ageBand
AgeBand(birthYear, refYear) ==
    LET age == refYear - birthYear
    IN  CASE birthYear <= 0 \/ birthYear > refYear -> "UNKNOWN"
          [] birthYear > 0 /\ age \in 0..24 -> "UNDER_25"
          [] birthYear > 0 /\ age \in 25..29 -> "25_29"
          [] birthYear > 0 /\ age \in 30..34 -> "30_34"
          [] OTHER -> "35_PLUS"

\* aggregateDiversity: a field that is missing is a person's choice.
Having(field) == {p \in DOMAIN profiles : field \in DOMAIN Person[p]}
Diversity(refYear) ==
    LET female == {p \in Having("gender") : Person[p].gender = "FEMALE"}
    IN  [scholars |-> Cardinality(DOMAIN profiles),
         female |-> Share(Cardinality(female), Cardinality(Having("gender"))),
         countries |-> Cardinality({Person[p].country : p \in Having("country")}),
         firstGen |-> Share(Cardinality({p \in Having("firstGen") : Person[p].firstGen}),
                            Cardinality(Having("firstGen"))),
         bands |-> {AgeBand(Person[p].birthYear, refYear) : p \in Having("birthYear")}]

\* computeDataQuality: fields are collected until 80 percent have them.
DataQuality ==
    LET total == Cardinality(DOMAIN profiles)
        Pct(field) == Share(Cardinality(Having(field)), total)
    IN  [field \in {"gender", "birthYear", "country", "firstGen"} |->
            [pct |-> Pct(field), collectMore |-> Pct(field) < 800]]

\* Mutant: donations count as invested.
AllEntries(es) == es
InvestedEntries(es) == {e \in es : ledger[e].type \in Invested}

\* categoryDistribution: of the tags of every year.
Tagged == [c \in Categories |-> Cardinality({e \in DOMAIN tags : tags[e] = c})]

\* buildEsgAggregate
Aggregate(es, refYear) ==
    [invested |-> SumOf(InvestedEntries(es)),
     donated |-> SumOf({e \in es : ledger[e].type = "DONATION"}),
     payments |-> Cardinality(InvestedEntries(es)),
     diversity |-> Diversity(refYear), tagged |-> Tagged]

\* mapToStandard: what each standard asks for.
MapToStandard(standard, a) ==
    LET figures == [GRI_2024 |-> <<a.invested, a.diversity.female, a.diversity.countries>>,
                    CSRD_ESRS |-> <<a.diversity.female, a.diversity.countries, a.invested>>,
                    SASB |-> <<a.invested, a.diversity.female>>,
                    UN_SDG |-> <<a.invested, a.diversity.scholars, a.diversity.female,
                                 a.diversity.firstGen>>]
    IN  figures[standard]

\* buildAnnotations: the entries the figures come from.
Annotations(es) == {[sequence |-> e, amount |-> ledger[e].amount] : e \in {e \in es : ledger[e].type \in Invested}}

\* buildTrend: invested and registered, year by year.
Trend ==
    LET Made(y) == {p \in DOMAIN profiles : Year(profiles[p]) = y}
        Female(y) == {p \in Made(y) \cap Having("gender") : Person[p].gender = "FEMALE"}
    IN  [y \in {Year(ledger[e].at) : e \in InvestedEntries(DOMAIN ledger)}
               \cup {Year(profiles[p]) : p \in DOMAIN profiles} |->
            [invested |-> SumOf({e \in InvestedEntries(DOMAIN ledger) : Year(ledger[e].at) = y}),
             scholars |-> Cardinality(Made(y)),
             female |-> Share(Cardinality(Female(y)), Cardinality(Made(y) \cap Having("gender")))]]
-----------------------------------------------------------------------------
(* What happens.                                                           *)

\* The ledger grows, and students register.
AppendEntries(type, amount, n) ==
    /\ Len(ledger) + n <= MaxEntries
    /\ ledger' = ledger \o [i \in 1..n |-> [type |-> type, amount |-> amount, at |-> now]]
    /\ UNCHANGED <<tags, profiles, reports, grants, seen, now, request>>

\* setDiversity, of a student who is registered; here both at once.
SetDiversity(p) ==
    /\ p \notin DOMAIN profiles
    /\ profiles' = With(profiles, p, now)
    /\ UNCHANGED <<ledger, tags, reports, grants, seen, now, request>>

\* tagEntry: one tag for each entry, the last one.
TagEntry(e, category) ==
    /\ tags' = With(tags, e, category)
    /\ UNCHANGED <<ledger, profiles, reports, grants, seen, now, request>>

\* buildReport
BuildReport(standard, year) ==
    [year |-> year,
     invested |-> SumOf(InvestedEntries(EntriesIn(year))),
     figures |-> MapToStandard(standard, Aggregate(EntriesIn(year), year)),
     annotations |-> Annotations(EntriesIn(year))]

\* createReport builds ...
CreateReport(r, standard, year) ==
    /\ request[r] = Idle
    /\ Continue(r, [step |-> "report", view |-> BuildReport(standard, year)])
    /\ UNCHANGED <<ledger, tags, profiles, reports, grants, seen, now>>

\* ... and keeps.
KeepReport(r, id) ==
    /\ request[r].step = "report"
    /\ id \notin DOMAIN reports
    /\ reports' = With(reports, id, request[r].view)
    /\ Continue(r, Idle)
    /\ UNCHANGED <<ledger, tags, profiles, grants, seen, now>>

\* reportCsv: the figures and every annotation.
ReportCsv(id) == [figures |-> reports[id].figures, rows |-> reports[id].annotations]
\* reportPdf: one page, on which eight lines and two for each figure come first.
ReportPdf(id) ==
    LET a == reports[id].annotations
        Line(x) == 8 + 2 * Len(reports[id].figures) + Cardinality({y \in a : y.sequence <= x.sequence})
    IN  [figures |-> reports[id].figures, rows |-> {x \in a : Line(x) <= PageLines}]

\* resolveTtlMs
ResolveTtl(ttl) == Max({MinTtl, Min({ttl, MaxTtl})})

\* createGrant
CreateGrant(g, ttl) ==
    /\ g \notin DOMAIN grants
    /\ grants' = With(grants, g, [expires |-> now + ResolveTtl(ttl), revoked |-> FALSE])
    /\ UNCHANGED <<ledger, tags, profiles, reports, seen, now, request>>

\* revokeGrant
RevokeGrant(g) ==
    /\ grants' = [grants EXCEPT ![g].revoked = TRUE]
    /\ UNCHANGED <<ledger, tags, profiles, reports, seen, now, request>>

\* validateAuditorToken
ValidateAuditorToken(g) == ~grants[g].revoked /\ grants[g].expires > now

\* openAuditPortal looks the grant up ...
OpenPortal(r, g) ==
    /\ request[r] = Idle
    /\ ValidateAuditorToken(g)
    /\ Continue(r, [step |-> "portal", grant |-> g])
    /\ UNCHANGED <<ledger, tags, profiles, reports, grants, seen, now>>

\* ... and shows every entry.
ShowLedger(r) ==
    /\ request[r].step = "portal"
    /\ seen' = [seen EXCEPT ![request[r].grant] = Len(ledger)]
    /\ Continue(r, Idle)
    /\ UNCHANGED <<ledger, tags, profiles, reports, grants, now>>

\* listGrants
GrantStatus(g) ==
    IF grants[g].revoked THEN "REVOKED" ELSE IF grants[g].expires <= now THEN "EXPIRED" ELSE "ACTIVE"

Tick ==
    /\ now < MaxTime
    /\ now' = now + 1
    /\ UNCHANGED <<ledger, tags, profiles, reports, grants, seen, request>>

\* The routes of admins.
AdminStep(r) ==
    \/ \E standard \in Standards, year \in 0..Year(now) : CreateReport(r, standard, year)
    \/ \E id \in Report : KeepReport(r, id)
    \/ \E e \in DOMAIN ledger, c \in Categories : TagEntry(e, c)
    \/ \E p \in DOMAIN Person : SetDiversity(p)
    \/ \E g \in Grant, ttl \in Ttl : CreateGrant(g, ttl)
    \/ \E g \in DOMAIN grants : RevokeGrant(g)
\* The route of auditors.
PortalStep(r) ==
    \/ \E g \in DOMAIN grants : OpenPortal(r, g)
    \/ ShowLedger(r)

Next ==
    \/ \E type \in Types, amount \in Amount, n \in Batch : AppendEntries(type, amount, n)
    \/ Tick
    \/ \E r \in Request : AdminStep(r) \/ PortalStep(r)

Spec == Init /\ [][Next]_vars
-----------------------------------------------------------------------------
(* What the checks are for.                                                *)

\* The amount of a report that is kept is what the rows of its export add up to,
\* each of them an entry of the ledger, whatever happened to the ledger meanwhile
\* (createReport stores the view, reportCsv exports what was stored).
ReportsAddUp ==
    \A id \in DOMAIN reports :
        LET rows == ReportCsv(id).rows
        IN  /\ reports[id].invested = SumOf({x.sequence : x \in rows})
            /\ \A x \in rows : x.amount = ledger[x.sequence].amount

\* The page of a report shows the first of its sources, those that fit, and the trend
\* counts all that the report of a year counts ("tie each reported figure back to
\* concrete, immutable ledger entries"; reportPdf, buildTrend).
ExcerptsAreHonest ==
    /\ \A id \in DOMAIN reports :
          LET page == ReportPdf(id).rows
              all == ReportCsv(id).rows
          IN  /\ page \subseteq all
              /\ \A x \in page, y \in all : y.sequence < x.sequence => y \in page
    /\ \A year \in DOMAIN Trend : Trend[year].invested >= BuildReport("SASB", year).invested

\* A grant that is listed as active opens the portal, and no other does (listGrants,
\* validateAuditorToken: the two are decided apart).
ListedGrantsOpen ==
    \A g \in DOMAIN grants : GrantStatus(g) = "ACTIVE" <=> ValidateAuditorToken(g)

\* Only what some students have not said is asked for, and what nobody has said is
\* (computeDataQuality).
MissingFieldsAreAskedFor ==
    \A field \in DOMAIN DataQuality :
        /\ DataQuality[field].collectMore => profiles = <<>> \/ Having(field) # DOMAIN profiles
        /\ Having(field) = {} => DataQuality[field].collectMore

=============================================================================
