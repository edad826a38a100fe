----------------------------- MODULE WebSession -----------------------------
(***************************************************************************)
(* The session of the web client: the token and the user that the browser  *)
(* keeps in localStorage for all its tabs, the copy of the user each tab   *)
(* holds in a signal, the forms that open a session, the route guard and   *)
(* the pages behind it.                                                    *)
(*                                                                         *)
(* A navigation has two steps: the guard checks the user, and the page is  *)
(* shown once its code has been fetched.  The session can change between   *)
(* the two, and the answer of a login can arrive on a page that is no      *)
(* longer the login page.  A tab reads localStorage only when it is loaded *)
(* and when it sends a request.                                            *)
(***************************************************************************)
EXTENDS Naturals, FiniteSets

CONSTANTS
  Tab,        \* the tabs of one browser
  Account,    \* the accounts that can be used in it
  RoleOf,     \* the role of each account
  Known,      \* the accounts that exist when the browser is opened
  Nobody,     \* no account
  NoPage,     \* nothing shown, or no navigation under way
  MaxCalls    \* bound on the forms sent

\* The pages: for everybody, and behind the guard.
Public == {"campaigns", "login", "register"}
Guarded == {"student", "sponsor", "payroll", "donor", "admin", "school", "groups", "account"}

SessionAssumption ==
  /\ RoleOf \in [Account -> {"STUDENT", "SPONSOR", "ADMIN", "SCHOOL_ADMIN", "DONOR"}]
  /\ Known \subseteq Account /\ Nobody \notin Account
  /\ NoPage \notin Public \union Guarded
  /\ IsFiniteSet(Tab) /\ MaxCalls \in Nat

VARIABLES
  stored,     \* the session in localStorage
  user,       \* the user signal of each tab
  page,       \* the page each tab shows
  going,      \* where a tab is navigating to, and whether the guard has passed
  form,       \* the call the form on the page waits for, 0 when it waits for none
  calls,      \* the forms sent and not answered: [tab, nr, kind, account]
  sent,       \* how many forms were sent
  leaving,    \* tabs in which an erased account is about to be signed out
  known,      \* accounts the server knows
  erased      \* accounts the server has anonymised

vars == <<stored, user, page, going, form, calls, sent, leaving, known, erased>>

AllRoles == {"STUDENT", "SPONSOR", "ADMIN", "SCHOOL_ADMIN", "DONOR"}

\* The routes: who may open a page.  Nobody is the visitor without a session.
RolesOf(p) ==
  CASE p = "student" -> {"STUDENT"}
    [] p \in {"sponsor", "payroll", "scholarship"} -> {"SPONSOR"}
    [] p = "donor" -> {"DONOR"}
    [] p = "admin" -> {"ADMIN"}
    [] p = "school" -> {"SCHOOL_ADMIN"}
    [] OTHER -> AllRoles

HomeForRole(u) ==
  IF u = Nobody THEN "campaigns"
  ELSE [STUDENT |-> "student", SPONSOR |-> "sponsor", ADMIN |-> "admin",
        SCHOOL_ADMIN |-> "school", DONOR |-> "donor"][RoleOf[u]]

HasRole(u, roles) == u # Nobody /\ RoleOf[u] \in roles

\* Mutant: the guard asks only whether there is a session.
LoggedInOnly(p, u) == IF p \notin Public /\ u = Nobody THEN "login" ELSE p

\* What the guard makes of a navigation: the page itself or another one.
AuthGuard(p, u) ==
  IF p \in Public THEN p
  ELSE IF u = Nobody THEN "login"
  ELSE IF HasRole(u, RolesOf(p)) THEN p
  ELSE HomeForRole(u)

To(p) == [to |-> p, checked |-> FALSE]
Nowhere == [to |-> NoPage, checked |-> FALSE]

\* The links the navigation bar shows.
Links(u) ==
  {"campaigns"} \union
  (IF u = Nobody THEN {"login", "register"} ELSE {HomeForRole(u), "groups", "account"})

Init ==
  /\ stored = Nobody
  /\ user = [t \in Tab |-> Nobody]
  /\ page = [t \in Tab |-> "campaigns"]
  /\ going = [t \in Tab |-> Nowhere]
  /\ form = [t \in Tab |-> 0]
  /\ calls = {}
  /\ sent = 0
  /\ leaving = {}
  /\ known = Known
  /\ erased = {}

\* A link is followed inside the application.
Follow(t, p) ==
  /\ p \in Links(user[t])
  /\ going' = [going EXCEPT ![t] = To(p)]
  /\ UNCHANGED <<stored, user, page, form, calls, sent, leaving, known, erased>>

\* An address is opened: the application starts anew, the user is read from
\* localStorage, and what the tab was waiting for is gone.  The server still
\* registers the account of a form that was already on its way.
Open(t, p) ==
  /\ user' = [user EXCEPT ![t] = stored]
  /\ page' = [page EXCEPT ![t] = NoPage]
  /\ going' = [going EXCEPT ![t] = To(p)]
  /\ form' = [form EXCEPT ![t] = 0]
  /\ \E arrived \in SUBSET {c \in calls : c.tab = t /\ c.kind = "register"} :
       known' = known \union {c.account : c \in arrived}
  /\ calls' = {c \in calls : c.tab # t}
  /\ leaving' = leaving \ {t}
  /\ UNCHANGED <<stored, sent, erased>>

\* The guard lets a navigation pass or sends it elsewhere.
Check(t) ==
  /\ going[t].to # NoPage /\ ~going[t].checked
  /\ LET p == AuthGuard(going[t].to, user[t])
     IN  going' = [going EXCEPT ![t] = [to |-> p, checked |-> p = going[t].to]]
  /\ UNCHANGED <<stored, user, page, form, calls, sent, leaving, known, erased>>

\* The code of the page is there and the page is shown.  A page that is shown
\* already is kept with its form; another one starts with a fresh form.
Show(t) ==
  /\ going[t].checked
  /\ page' = [page EXCEPT ![t] = going[t].to]
  /\ form' = [form EXCEPT ![t] = IF page[t] = going[t].to THEN @ ELSE 0]
  /\ going' = [going EXCEPT ![t] = Nowhere]
  /\ UNCHANGED <<stored, user, calls, sent, leaving, known, erased>>

\* A form goes out once: it is locked until its own call is answered.
Submit(t, kind, a) ==
  /\ page[t] = kind /\ form[t] = 0 /\ sent < MaxCalls
  /\ sent' = sent + 1
  /\ form' = [form EXCEPT ![t] = sent + 1]
  /\ calls' = calls \union {[tab |-> t, nr |-> sent + 1, kind |-> kind, account |-> a]}
  /\ UNCHANGED <<stored, user, page, going, leaving, known, erased>>

Login(t, a) == Submit(t, "login", a)
Register(t, a) == Submit(t, "register", a)

Done(c) == /\ calls' = calls \ {c}
           /\ form' = [form EXCEPT ![c.tab] = IF @ = c.nr THEN 0 ELSE @]

\* The session is written to localStorage and to the signal of the tab.
Persist(t, a) == /\ stored' = a
                 /\ user' = [user EXCEPT ![t] = a]

Accepted(c) ==
  /\ c.account \notin erased
  /\ (c.kind = "login") <=> (c.account \in known)
  /\ known' = known \union {c.account}
  /\ Persist(c.tab, c.account)
  /\ going' = [going EXCEPT ![c.tab] = To(HomeForRole(c.account))]
  /\ Done(c)
  /\ UNCHANGED <<page, sent, leaving, erased>>

\* The credentials are wrong, the address is taken, or the call fails on its way.
Refused(c) ==
  /\ Done(c)
  /\ UNCHANGED <<stored, user, page, going, sent, leaving, known, erased>>

SignOut(t) ==
  /\ stored' = Nobody
  /\ user' = [user EXCEPT ![t] = Nobody]
  /\ going' = [going EXCEPT ![t] = To("campaigns")]

Logout(t) ==
  /\ user[t] # Nobody
  /\ SignOut(t)
  /\ UNCHANGED <<page, form, calls, sent, leaving, known, erased>>

\* The account page erases an account: the one whose token is in localStorage.
\* The tab signs out a moment later.
DeleteMyAccount(t) ==
  /\ page[t] = "account" /\ t \notin leaving
  /\ stored # Nobody /\ stored \notin erased
  /\ erased' = erased \union {stored}
  /\ leaving' = leaving \union {t}
  /\ UNCHANGED <<stored, user, page, going, form, calls, sent, known>>

SignOutLater(t) ==
  /\ t \in leaving
  /\ leaving' = leaving \ {t}
  /\ SignOut(t)
  /\ UNCHANGED <<page, form, calls, sent, known, erased>>

Next ==
  \/ \E t \in Tab :
       \/ \E p \in Public \union Guarded : Follow(t, p) \/ Open(t, p)
       \/ Check(t) \/ Show(t) \/ Logout(t) \/ DeleteMyAccount(t) \/ SignOutLater(t)
       \/ \E a \in Account : Login(t, a) \/ Register(t, a)
  \/ \E c \in calls : Accepted(c) \/ Refused(c)

Spec == Init /\ [][Next]_vars

TypeOK ==
  /\ stored \in Account \union {Nobody}
  /\ user \in [Tab -> Account \union {Nobody}]
  /\ page \in [Tab -> Public \union Guarded \union {NoPage}]
  /\ going \in [Tab -> [to : Public \union Guarded \union {NoPage}, checked : BOOLEAN]]
  /\ form \in [Tab -> 0..MaxCalls]
  /\ \A c \in calls : c.tab \in Tab /\ c.nr \in 1..sent
  /\ sent \in 0..MaxCalls
  /\ leaving \subseteq Tab
  /\ known \subseteq Account /\ erased \subseteq known

\* A tab that is at rest shows a page its user may see, whatever happened
\* between the check of the guard and the moment the page came up: a session
\* never changes under a page without a navigation that leaves it.
PagesFitTheUser ==
  \A t \in Tab :
    going[t].to = NoPage /\ page[t] \in Guarded => HasRole(user[t], RolesOf(page[t]))

\* Only in a browser with one tab: the account whose token goes with the next
\* request is the account whose pages are shown.  Another tab that signs in as
\* somebody else changes the token under a tab that goes on showing the first.
TabSpeaksForItsUser == Cardinality(Tab) = 1 => \A t \in Tab : user[t] = stored
=============================================================================
