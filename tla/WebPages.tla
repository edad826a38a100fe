------------------------------- MODULE WebPages -------------------------------
(***************************************************************************)
(* The pages of the web client that open an item or a search, load what    *)
(* belongs to it into panes of their own, and load some panes again after  *)
(* what the user does: groups.page.ts, scholarship-admin.page.ts,          *)
(* donor.page.ts, sponsor.page.ts, gallery.page.ts and                     *)
(* payroll-dashboard.page.ts.  The donor's page opens once, for its user.  *)
(*                                                                         *)
(* Answers arrive in any order, or not at all, and no page asks whether an *)
(* answer still belongs to what is selected.  What the server holds for a  *)
(* pane is a version number.                                               *)
(***************************************************************************)
EXTENDS Naturals, FiniteSets

CONSTANTS
    Page,       \* the pages looked at: a subset of DOMAIN Panes
    Item,       \* groups, programs, receipts or searches
    MaxActs     \* bound: what the user does

None == "none"

-----------------------------------------------------------------------------
(* What each page loads when an item is opened, and what it does           *)

GroupPanes == {"detail", "chat"}
ProgramPanes == {"applications", "scholars"}
DonorPanes == {"history", "feed", "recurring"}
SponsorPanes == {"receipt"}
GalleryPanes == {"campaigns"}
PayrollPanes == {"employees"}

Panes == [groups |-> GroupPanes, programs |-> ProgramPanes, donor |-> DonorPanes,
    sponsor |-> SponsorPanes, gallery |-> GalleryPanes, payroll |-> PayrollPanes]

\* An operation: what it changes at the server, and the panes loaded again.
Op(name, changes, reloads) == [name |-> name, changes |-> changes, reloads |-> reloads]

GroupOps == {Op("postMessage", {"chat"}, {"chat"})}

ProgramOps == {
    Op("decide", {"applications", "scholars"}, {"applications", "scholars"}),
    Op("advance", {"scholars"}, {"applications", "scholars"})}

DonorOps == {
    Op("markRead", {"feed"}, {"feed"}),
    Op("setStatus", {"recurring", "history"}, {"recurring", "history"}),
    Op("runRecurring", {"recurring", "history", "feed"}, {"recurring", "history", "feed"})}

Ops == [groups |-> GroupOps, programs |-> ProgramOps, donor |-> DonorOps, sponsor |-> {},
    gallery |-> {}, payroll |-> {}]

\* Pages that select before the answer is there; on the others it selects.
SelectsAtOnce == {"programs", "donor", "gallery", "payroll"}
Selecting(pane) == pane \in {"detail", "receipt"}

\* scholarship-admin.page.ts loads what is selected when the answer comes,
\* groups.page.ts what was selected at the click.
RefreshesSelected == {"programs"}

PagesAssumption == Page \subseteq DOMAIN Panes /\ None \notin Item /\ MaxActs \in Nat

-----------------------------------------------------------------------------

AllPanes == UNION {Panes[p] : p \in Page}

VARIABLES
    page,       \* the page that is open
    selected,   \* the item that is shown
    pane,       \* pane[x]: whose data a pane shows, and of which version
    version,    \* the server's data: version[item][pane]
    calls,      \* the requests under way
    acts,       \* what the user did
    single      \* history: the user always waited for the answers, and got them

vars == <<page, selected, pane, version, calls, acts, single>>

Empty == <<None, 0>>
Load(item, x) == [load |-> TRUE, no |-> acts, of |-> item, what |-> x, served |-> FALSE, shows |-> 0]
Request(item, op) == [load |-> FALSE, no |-> acts, of |-> item, what |-> op, served |-> FALSE, shows |-> 0]

TypeOK ==
    /\ page \in Page
    /\ selected \in Item \cup {None}
    /\ pane \in [AllPanes -> (Item \cup {None}) \X (0 .. MaxActs)]
    /\ version \in [Item -> [AllPanes -> 0 .. MaxActs]]
    /\ \A q \in calls : q.of \in Item /\ q.no \in 0 .. MaxActs /\ q.served \in BOOLEAN
    /\ acts \in 0 .. MaxActs /\ single \in BOOLEAN

Init ==
    /\ page \in Page
    /\ selected = None
    /\ pane = [x \in AllPanes |-> Empty]
    /\ version = [i \in Item |-> [x \in AllPanes |-> 0]]
    /\ calls = {} /\ acts = 0 /\ single = TRUE

Acts ==
    /\ acts < MaxActs
    /\ acts' = acts + 1
    /\ single' = (single /\ calls = {})

Loads(item) == {Load(item, x) : x \in Panes[page]}

\* open, viewReceipt, search, loadEmployees, ngOnInit.  The panes are not cleared.
Open(item) ==
    /\ Acts
    /\ page = "donor" => acts = 0
    /\ selected' = IF page \in SelectsAtOnce THEN item ELSE selected
    /\ calls' = calls \cup Loads(item)
    /\ UNCHANGED <<page, pane, version>>

\* back, closeReceipt, "All programs".
Back ==
    /\ page \in {"groups", "programs", "sponsor"} /\ selected # None
    /\ selected' = None
    /\ single' = (single /\ calls = {})
    /\ UNCHANGED <<page, pane, version, calls, acts>>

\* What the user does with the item shown.
Do(op) ==
    /\ Acts /\ selected # None
    /\ calls' = calls \cup {Request(selected, op)}
    /\ UNCHANGED <<page, selected, pane, version>>

\* The server answers a request: it does what is asked, or reads the data.
Serve(q) ==
    /\ q \in calls /\ ~q.served
    /\ version' = IF q.load THEN version
        ELSE [version EXCEPT ![q.of] = [x \in AllPanes |->
            version[q.of][x] + (IF x \in q.what.changes THEN 1 ELSE 0)]]
    /\ calls' = (calls \ {q}) \cup {[q EXCEPT !.served = TRUE,
        !.shows = IF q.load THEN version[q.of][q.what] ELSE 0]}
    /\ UNCHANGED <<page, selected, pane, acts, single>>

\* The data arrive and are shown, whatever is selected now.
Loaded(q) ==
    /\ q \in calls /\ q.load /\ q.served
    /\ pane' = [pane EXCEPT ![q.what] = <<q.of, q.shows>>]
    /\ selected' = IF Selecting(q.what) THEN q.of ELSE selected
    /\ calls' = calls \ {q}
    /\ UNCHANGED <<page, version, acts, single>>

\* It is done: the panes of the operation are loaded again.
Done(q) ==
    /\ q \in calls /\ ~q.load /\ q.served
    /\ LET item == IF page \in RefreshesSelected THEN selected ELSE q.of IN
        calls' = (calls \ {q}) \cup
            (IF item = None THEN {} ELSE {[Load(item, x) EXCEPT !.no = q.no] : x \in q.what.reloads})
    /\ UNCHANGED <<page, selected, pane, version, acts, single>>

\* The request fails, before or after the server saw it; the panes stay.
Lost(q) ==
    /\ q \in calls
    /\ calls' = calls \ {q}
    /\ single' = FALSE
    /\ UNCHANGED <<page, selected, pane, version, acts>>

Next ==
    \/ \E item \in Item : Open(item)
    \/ Back
    \/ \E op \in Ops[page] : Do(op)
    \/ \E q \in calls : Serve(q) \/ Loaded(q) \/ Done(q) \/ Lost(q)

Spec == Init /\ [][Next]_vars

-----------------------------------------------------------------------------

\* A page that waits for nothing shows, in every pane, what is selected, as
\* the server holds it after all the user did.  It needs a user who waits for
\* the answers: of two groups opened one after the other the chat of the
\* first can end under the second, and a search that is answered late shows
\* its cards under a newer query (groups.page.ts 192-196, gallery.page.ts
\* 155-170, scholarship-admin.page.ts 187-209).
QuietPagesAreCurrent ==
    single /\ calls = {} /\ selected # None =>
        \A x \in Panes[page] : pane[x] = <<selected, version[selected][x]>>

=============================================================================
