-------------------------------- MODULE Accounts --------------------------------
(***************************************************************************)
(* Accounts (auth.service.ts, account.service.ts): registering with a      *)
(* password both the form and the server accept, logging in, giving under  *)
(* one's name, and the erasure of an account and of the name on its        *)
(* donations.                                                              *)
(***************************************************************************)
EXTENDS Integers, FiniteSets

CONSTANTS
    Request,        \* the requests that run at the same time
    User,
    Email,
    Donation,
    Length          \* lengths of passwords

\* The email of an erased account, which nobody can have.
Deleted == "deleted"

AccountsAssumption == Length \subseteq Nat /\ Deleted \notin Email

VARIABLES
    users,          \* users[u]: email and erasure of a user
    tokens,         \* users with a session; a token outlives the erasure
    donations,      \* donations[d]: who gave it, and whether the name shows
    request         \* what each request is about to store

vars == <<users, tokens, donations, request>>

Idle == [step |-> "idle"]
\* What the rules look at in a password.
Password == [length : Length, lower : BOOLEAN, upper : BOOLEAN, digit : BOOLEAN,
             symbol : BOOLEAN, common : BOOLEAN, pattern : BOOLEAN]

TypeOK ==
    /\ DOMAIN users \subseteq User
    /\ \A u \in DOMAIN users : users[u] \in [email : Email \cup {Deleted}, erased : BOOLEAN]
    /\ tokens \subseteq DOMAIN users
    /\ DOMAIN donations \subseteq Donation
    /\ \A d \in DOMAIN donations :
          donations[d] \in [by : User, named : BOOLEAN, late : BOOLEAN]
    /\ \A r \in Request : request[r].step \in {"idle", "register", "give", "erase"}

Init ==
    /\ users = <<>>
    /\ tokens = {}
    /\ donations = <<>>
    /\ request = [r \in Request |-> Idle]

Continue(r, next) == request' = [request EXCEPT ![r] = next]
With(table, key, row) ==
    [k \in DOMAIN table \cup {key} |-> IF k = key THEN row ELSE table[k]]
Taken(e) == \E u \in DOMAIN users : users[u].email = e
-----------------------------------------------------------------------------
(* Passwords, on the server and in the form.                               *)

Count(conditions) == Cardinality({c \in DOMAIN conditions : conditions[c]})

\* assessPassword: score and validity.
AssessPassword(p) ==
    LET valid == /\ p.length >= 10 /\ p.lower /\ p.upper /\ p.digit /\ ~p.common
                 /\ ~(p.length >= 10 /\ p.pattern)
        points == Count(<<p.length >= 10, p.length >= 14, p.lower /\ p.upper,
                          p.digit, p.symbol>>)
        score == IF points > 4 THEN 4 ELSE points
    IN  [valid |-> valid, score |-> IF valid \/ score < 1 THEN score ELSE 1]

\* assessPasswordStrength: the meter of the form has the rules written again.
AssessPasswordStrength(p) ==
    LET issues == {i \in {"length", "lower", "upper", "digit", "common", "pattern"} :
                      CASE i = "length" -> p.length < 10
                        [] i = "common" -> p.common
                        [] i = "pattern" -> p.length >= 10 /\ p.pattern
                        [] OTHER -> ~p[i]}
        points == Count(<<p.length >= 10, p.length >= 14, p.lower /\ p.upper,
                          p.digit, p.symbol>>)
        most == IF issues = {} THEN 4 ELSE 1
    IN  [valid |-> issues = {}, score |-> IF points > most THEN most ELSE points]
-----------------------------------------------------------------------------
\* register looks for the email ...
Register(r, e) ==
    /\ request[r] = Idle
    /\ ~Taken(e)
    /\ Continue(r, [step |-> "register", email |-> e])
    /\ UNCHANGED <<users, tokens, donations>>

\* ... and creates the user after hashing the password: emails are unique.
CreateUser(r, u) ==
    /\ request[r].step = "register"
    /\ u \notin DOMAIN users
    /\ IF Taken(request[r].email) THEN UNCHANGED <<users, tokens>>
       ELSE /\ users' = With(users, u, [email |-> request[r].email, erased |-> FALSE])
            /\ tokens' = tokens \cup {u}
    /\ Continue(r, Idle)
    /\ UNCHANGED donations

\* login: the password of an erased account is gone.
Login(u) ==
    /\ u \in DOMAIN users \ tokens
    /\ ~users[u].erased
    /\ tokens' = tokens \cup {u}
    /\ UNCHANGED <<users, donations, request>>

\* The token is forgotten, or runs out.
Logout(u) ==
    /\ u \in tokens
    /\ tokens' = tokens \ {u}
    /\ UNCHANGED <<users, donations, request>>

\* A donation under the donor's name is on its way to the provider ...
Give(r, u, d) ==
    /\ request[r] = Idle
    /\ u \in tokens
    /\ d \notin DOMAIN donations
    /\ Continue(r, [step |-> "give", user |-> u, donation |-> d])
    /\ UNCHANGED <<users, tokens, donations>>

\* ... and is stored.
CreateDonation(r) ==
    /\ request[r].step = "give"
    /\ donations' = IF request[r].donation \in DOMAIN donations THEN donations
                    ELSE With(donations, request[r].donation,
                              [by |-> request[r].user, named |-> TRUE,
                               late |-> users[request[r].user].erased])
    /\ Continue(r, Idle)
    /\ UNCHANGED <<users, tokens>>

\* anonymize: a second time changes nothing ...
Anonymize(r, u) ==
    /\ request[r] = Idle
    /\ u \in tokens
    /\ ~users[u].erased
    /\ Continue(r, [step |-> "erase", user |-> u])
    /\ UNCHANGED <<users, tokens, donations>>

\* Mutant: donations of others are anonymous, the user's are not.
OthersOf(u) == {d \in DOMAIN donations : donations[d].by # u}

DonationsOf(u) == {d \in DOMAIN donations : donations[d].by = u}

\* ... and one transaction takes the name from the user and from what is stored.
Erase(r) ==
    /\ request[r].step = "erase"
    /\ LET u == request[r].user
       IN  /\ users' = [users EXCEPT ![u] = [email |-> Deleted, erased |-> TRUE]]
           /\ donations' = [d \in DOMAIN donations |->
                  IF d \in DonationsOf(u) THEN [donations[d] EXCEPT !.named = FALSE]
                  ELSE donations[d]]
    /\ Continue(r, Idle)
    /\ UNCHANGED tokens

Next ==
    \/ \E r \in Request :
          \/ \E e \in Email, p \in Password : AssessPassword(p).valid /\ Register(r, e)
          \/ \E u \in User : CreateUser(r, u) \/ Anonymize(r, u)
          \/ \E u \in User, d \in Donation : Give(r, u, d)
          \/ CreateDonation(r)
          \/ Erase(r)
    \/ \E u \in User : Login(u) \/ Logout(u)

Spec == Init /\ [][Next]_vars
-----------------------------------------------------------------------------
(* What the checks are for.                                                *)

\* After the erasure no donation stored before it carries the donor's name, and
\* two accounts never share an email, however requests overlap (anonymize,
\* register).  A donation under way then is stored with the name.
ErasedIsAnonymous ==
    /\ \A d \in DOMAIN donations :
          users[donations[d].by].erased /\ donations[d].named => donations[d].late
    /\ \A u, v \in DOMAIN users :
          users[u].email = users[v].email => u = v \/ users[u].erased

\* Form and server agree on every password, and both call a password that is
\* refused weak (password-policy.ts, password-strength.ts).
FormAgreesWithServer ==
    \A p \in Password :
        /\ AssessPassword(p) = AssessPasswordStrength(p)
        /\ ~AssessPassword(p).valid => AssessPassword(p).score <= 1

=============================================================================
