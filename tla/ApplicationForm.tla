--------------------------- MODULE ApplicationForm ---------------------------
(***************************************************************************)
(* The application form of a scholarship program: the owner sets it        *)
(* (scholarship.service.ts setForm), opens a slot for each candidate, and  *)
(* a candidate fills the page in behind the slot's link (apply.page.ts)    *)
(* and submits it.  The page and the server each decide, from the answers  *)
(* they hold, which conditional fields are asked: the page from all that   *)
(* was ever typed, the server from what the page sent.                     *)
(*                                                                         *)
(* A field names another one whose answer must be a given value for it to  *)
(* be shown.  Answers, labels and keys are members of small sets.          *)
(***************************************************************************)
EXTENDS Integers, Sequences

CONSTANTS
    Slot,           \* the applications that candidates may be invited to
    Key,            \* the well-formed field keys
    Fields,         \* the fields the owner chooses from
    MaxFields,      \* bound: the length of a form
    Value,          \* what is typed or chosen
    Blank,          \* the empty answer
    Fits(_),        \* the values that are of a type: NUMBER, BOOLEAN, EMAIL
    MaxForms,       \* bound: how often the form is set
    MaxSubmits      \* bound: how many submissions are sent

None == "none"
FieldType == {"TEXT", "LONG_TEXT", "NUMBER", "SELECT", "BOOLEAN", "EMAIL"}

\* FormFieldSpec.
FieldSpec == [
    key : Key \cup {"1st"}, labelled : BOOLEAN, type : FieldType, required : BOOLEAN,
    options : SUBSET Value, weight : {-1, 0, 5}, showIf : Key \cup {None}, showIfValue : Value]

FormAssumption ==
    /\ Fields \subseteq FieldSpec
    /\ Blank \in Value
    /\ {"1st", None} \cap Key = {}
    /\ {MaxFields, MaxForms, MaxSubmits} \subseteq Nat
    /\ \A type \in {"NUMBER", "BOOLEAN", "EMAIL"} : Fits(type) \subseteq Value

VARIABLES
    form,       \* the form's fields, in order; <<>> until it is first set
    formsSet,   \* how often the form was set
    slots,      \* the slots that were opened, by application
    page,       \* the page behind each slot's link
    sent,       \* the submissions under way
    submits     \* how many were sent

vars == <<form, formsSet, slots, page, sent, submits>>

Elements(s) == {s[i] : i \in DOMAIN s}
NoAnswers == [k \in {} |-> Blank]
Keep(answers, keys) == [k \in DOMAIN answers \cap keys |-> answers[k]]

-----------------------------------------------------------------------------
(* The rules the server applies                                            *)

\* validateFormSchema: the form is accepted when no field is in error.
ValidSchema(fields) ==
    /\ fields # <<>>
    /\ \A i \in DOMAIN fields :
        LET field == fields[i] IN
        /\ field.key \in Key
        /\ \A j \in DOMAIN fields : fields[j].key = field.key => j = i
        /\ field.labelled
        /\ field.type = "SELECT" => field.options # {}
        /\ field.weight >= 0
        /\ field.showIf # None =>
            /\ \E j \in DOMAIN fields : fields[j].key = field.showIf
            /\ field.showIf # field.key

\* evaluateVisibility: one field; a missing answer hides what depends on it.
Asked(field, answers) ==
    \/ field.showIf = None
    \/ field.showIf \in DOMAIN answers /\ answers[field.showIf] = field.showIfValue

\* The keys the server hides; a key that is no field's is not hidden.
Hidden(fields, answers) == {f.key : f \in {g \in Elements(fields) : ~Asked(g, answers)}}

\* typeError: whether a value is of the field's type.
TypeFits(field, value) ==
    CASE field.type \in {"NUMBER", "BOOLEAN", "EMAIL"} -> value \in Fits(field.type)
      [] field.type = "SELECT" -> value \in field.options
      [] OTHER -> TRUE

IsBlank(answers, key) == key \notin DOMAIN answers \/ answers[key] = Blank

\* validateAnswers.
ValidAnswers(fields, answers) ==
    \A field \in Elements(fields) : Asked(field, answers) =>
        IF IsBlank(answers, field.key) THEN ~field.required
        ELSE TypeFits(field, answers[field.key])

-----------------------------------------------------------------------------
(* What the page shows                                                     *)

\* Mutant: the page shows, and sends, every field.
ShowAll(fields, answers) == {f.key : f \in Elements(fields)}

\* computeVisibility, visibleFields: the same rule, of all that was typed.
Shown(fields, answers) == {f.key : f \in {g \in Elements(fields) : Asked(g, answers)}}

Closed == [step |-> "closed"]
LoadError == [step |-> "loadError"]
Received == [step |-> "submitted"]
OpenPage(fields) == [step |-> "open", fields |-> fields, answers |-> NoAnswers, error |-> FALSE]

IsOpen(a) == page[a].step = "open"

Unwritten == [status |-> "SUBMITTED", answers |-> NoAnswers, meant |-> NoAnswers,
    shown |-> <<>>, judged |-> <<>>]

-----------------------------------------------------------------------------

TypeOK ==
    /\ Elements(form) \subseteq Fields /\ Len(form) <= MaxFields
    /\ formsSet \in 0 .. MaxForms /\ submits \in 0 .. MaxSubmits
    /\ DOMAIN slots \subseteq Slot
    /\ \A a \in DOMAIN slots :
        /\ slots[a].status = "SUBMITTED"
        /\ slots[a].answers \in UNION {[K -> Value] : K \in SUBSET Key}
    /\ \A a \in Slot :
        page[a] \in {Closed, LoadError, Received} \/ page[a].step = "open"
    /\ \A s \in sent : s.of \in DOMAIN slots

Init ==
    /\ form = <<>> /\ formsSet = 0
    /\ slots = [a \in {} |-> Unwritten]
    /\ page = [a \in Slot |-> Closed]
    /\ sent = {} /\ submits = 0

\* setForm: the old fields are deleted and the new ones stored, in one transaction.
SetForm(fields) ==
    /\ formsSet < MaxForms
    /\ formsSet' = formsSet + 1
    /\ form' = IF ValidSchema(fields) THEN fields ELSE form
    /\ UNCHANGED <<slots, page, sent, submits>>

\* createApplicationSlot.
CreateSlot(a) ==
    /\ a \notin DOMAIN slots
    /\ slots' = [b \in DOMAIN slots \cup {a} |-> IF b = a THEN Unwritten ELSE slots[b]]
    /\ UNCHANGED <<form, formsSet, page, sent, submits>>

\* The link is opened: findByToken, publicForm.
Visit(a) ==
    /\ page[a].step \in {"closed", "loadError"}
    /\ page' = [page EXCEPT ![a] =
        IF a \in DOMAIN slots /\ form # <<>> THEN OpenPage(form) ELSE LoadError]
    /\ UNCHANGED <<form, formsSet, slots, sent, submits>>

\* One of the fields shown is filled in; a choice is one of the options, or none.
Answer(a, field, value) ==
    /\ IsOpen(a)
    /\ field \in Elements(page[a].fields) /\ field.key \in Shown(page[a].fields, page[a].answers)
    /\ field.type = "SELECT" => value \in field.options \cup {Blank}
    /\ page' = [page EXCEPT ![a].answers =
        [k \in DOMAIN page[a].answers \cup {field.key} |->
            IF k = field.key THEN value ELSE page[a].answers[k]]]
    /\ UNCHANGED <<form, formsSet, slots, sent, submits>>

\* submit: the answers of the fields shown are sent; the button stays usable.
Submit(a) ==
    /\ IsOpen(a) /\ submits < MaxSubmits
    /\ LET p == page[a]
           filtered == Keep(p.answers, Shown(p.fields, p.answers)) IN
        /\ page' = [page EXCEPT ![a].error = FALSE]
        /\ sent' = sent \cup {[of |-> a, no |-> submits, answers |-> filtered,
                shown |-> p.fields, judged |-> <<>>]}
    /\ submits' = submits + 1
    /\ UNCHANGED <<form, formsSet, slots>>

\* submitApplication reads the slot and the form and judges the answers.
Judge(s) ==
    /\ s \in sent /\ s.judged = <<>>
    /\ IF ValidAnswers(form, s.answers)
       THEN sent' = (sent \ {s}) \cup {[s EXCEPT !.judged = form]} /\ page' = page
       ELSE /\ sent' = sent \ {s}
            /\ page' = [page EXCEPT ![s.of] = IF IsOpen(s.of) THEN [@ EXCEPT !.error = TRUE] ELSE @]
    /\ UNCHANGED <<form, formsSet, slots, submits>>

\* Its transaction: the answers are replaced by those that are not hidden.
Store(s) ==
    /\ s \in sent /\ s.judged # <<>>
    /\ slots' = [slots EXCEPT ![s.of] = [
        status  |-> "SUBMITTED",
        answers |-> Keep(s.answers, Key \ Hidden(s.judged, s.answers)),
        meant   |-> s.answers, shown |-> s.shown, judged |-> s.judged]]
    /\ page' = [page EXCEPT ![s.of] = Received]
    /\ sent' = sent \ {s}
    /\ UNCHANGED <<form, formsSet, submits>>

Next ==
    \/ \E n \in 0 .. MaxFields : \E fields \in [1 .. n -> Fields] : SetForm(fields)
    \/ \E a \in Slot : CreateSlot(a) \/ Visit(a) \/ Submit(a)
    \/ \E a \in Slot, field \in Fields, value \in Value : Answer(a, field, value)
    \/ \E s \in sent : Judge(s) \/ Store(s)

Spec == Init /\ [][Next]_vars

-----------------------------------------------------------------------------

\* No condition depends on a field that has a condition itself.
Flat(fields) ==
    \A f, g \in Elements(fields) : f.showIf = g.key => g.showIf = None

\* What the candidate saw and filled in is what the reviewers get: as long as
\* the form is not set anew while the page is open and no condition hangs on
\* a conditional field, the server stores every answer the page sent.  With a
\* chain of conditions it drops an answer the page asked for: the page shows
\* the last field because of an answer in between that is hidden by now and
\* no longer sent (apply.page.ts 133-138, conditional-logic.ts 22-36).
NothingShownIsDropped ==
    \A a \in DOMAIN slots :
        slots[a].shown = slots[a].judged /\ Flat(slots[a].judged) =>
            slots[a].answers = slots[a].meant

\* An application that was stored answers every question its form asks of
\* it: judged again, from the stored answers alone and by the form it was
\* judged by, it is complete and of the right types, although what is hidden
\* was left out of it.
StoredAnswersAreComplete ==
    \A a \in DOMAIN slots : LET stored == slots[a] IN
        \A field \in Elements(stored.judged) :
            /\ field.required /\ Asked(field, stored.answers) =>
                ~IsBlank(stored.answers, field.key)
            /\ ~IsBlank(stored.answers, field.key) => TypeFits(field, stored.answers[field.key])

=============================================================================
