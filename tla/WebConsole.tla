----------------------------- MODULE WebConsole -----------------------------
(***************************************************************************)
(* The queues of the web client in which an operator decides row by row:   *)
(* campaigns to verify, schools to verify, funded campaigns to pay out,    *)
(* campaigns and admissions a school approves, moderation cases and        *)
(* identity checks.                                                        *)
(*                                                                         *)
(* All of them load a list, send a decision and load the list again.  They *)
(* differ in three ways: whether the row that is being decided is locked,  *)
(* whether the list is hidden while it is loaded, and where the note of a  *)
(* rejection is kept: one field for all rows, cleared or not when another  *)
(* row is opened, or one field per row.  The lock is a single row id, so   *)
(* the answer for one row also unlocks another.                            *)
(***************************************************************************)
EXTENDS Naturals, FiniteSets

CONSTANTS
  Row,         \* what is to be decided
  Panel,       \* the queues looked at
  None,        \* no row
  MaxCalls     \* bound on the calls of the console

ConsoleAssumption ==
  /\ Panel \subseteq {"verification", "schools", "payouts", "approval", "students",
                      "moderation", "kyc"}
  /\ None \notin Row /\ MaxCalls \in Nat

VARIABLES
  panel,       \* the queue on the screen
  pending,     \* rows the server has still to be told about
  items,       \* rows the panel shows
  loading,     \* the panel waits for a list
  busyId,      \* the row that is locked
  rejectingId, \* the row whose rejection is being written
  rejectNote,  \* for which row the text in the shared field was written
  calls,       \* in flight: [kind, nr, row, note, at, list]
  sent,
  notes,       \* rejections sent: [row, note]
  calm         \* one operator, no call sent while another one was in flight, none failed

vars == <<panel, pending, items, loading, busyId, rejectingId, rejectNote, calls,
          sent, notes, calm>>

Locks == panel \notin {"moderation", "kyc"}
Hides == panel \in {"verification", "schools", "payouts"}
Rejects == panel \notin {"schools", "payouts"}
SharedNote == panel \in {"verification", "approval", "students"}

Shown == IF Hides /\ loading THEN {} ELSE items

Load(nr) == [kind |-> "load", nr |-> nr, row |-> None, note |-> None, at |-> "sent", list |-> {}]

Decision(kind, r, note) ==
  [kind |-> kind, nr |-> sent + 1, row |-> r, note |-> note, at |-> "sent", list |-> {}]

Init ==
  /\ panel \in Panel
  /\ pending \in SUBSET Row
  /\ items = {}
  /\ loading = TRUE
  /\ busyId = None /\ rejectingId = None /\ rejectNote = None
  /\ calls = {Load(1)}
  /\ sent = 1
  /\ notes = {}
  /\ calm = TRUE

\* The first load is made when the panel comes up, later ones by Refresh.
Refresh ==
  /\ sent < MaxCalls
  /\ sent' = sent + 1
  /\ calls' = calls \union {Load(sent + 1)}
  /\ loading' = TRUE
  /\ calm' = (calm /\ calls = {})
  /\ UNCHANGED <<panel, pending, items, busyId, rejectingId, rejectNote, notes>>

\* A decision locks its row and goes out.
Send(kind, r, note) ==
  /\ r \in Shown /\ sent < MaxCalls
  /\ sent' = sent + 1
  /\ calls' = calls \union {Decision(kind, r, note)}
  /\ busyId' = IF Locks THEN r ELSE busyId
  /\ calm' = (calm /\ calls = {})
  /\ UNCHANGED <<panel, pending, items, loading, rejectingId, rejectNote>>

\* The verification queue hides the other buttons of a row while its rejection
\* is written.
Unopened(r) == panel = "verification" => rejectingId # r

Verify(r) ==
  /\ Unopened(r) /\ (Locks => busyId # r)
  /\ Send("verify", r, None)
  /\ UNCHANGED notes

\* Mutant: no queue empties the field.
StartRejectAsLeft(r) ==
  /\ Rejects /\ SharedNote /\ r \in Shown /\ Unopened(r) /\ busyId # r
  /\ rejectingId' = r
  /\ UNCHANGED <<panel, pending, items, loading, busyId, rejectNote, calls, sent, notes, calm>>

\* The verification queue empties the field when another row is opened; the
\* lists of a school leave it as it is.
StartReject(r) ==
  /\ Rejects /\ SharedNote /\ r \in Shown /\ Unopened(r) /\ busyId # r
  /\ rejectingId' = r
  /\ rejectNote' = IF panel = "verification" THEN None ELSE rejectNote
  /\ UNCHANGED <<panel, pending, items, loading, busyId, calls, sent, notes, calm>>

WriteNote ==
  /\ rejectingId \in Shown
  /\ rejectNote' = rejectingId
  /\ UNCHANGED <<panel, pending, items, loading, busyId, rejectingId, calls, sent, notes, calm>>

CancelReject ==
  /\ rejectingId \in Shown /\ (panel = "verification" => busyId # rejectingId)
  /\ rejectingId' = None /\ rejectNote' = None
  /\ UNCHANGED <<panel, pending, items, loading, busyId, calls, sent, notes, calm>>

\* A rejection needs a note; in the queues with a field per row it is the note
\* of the row, or a stock phrase.  Only the verification queue looks at the lock.
Reject(r) ==
  /\ Rejects /\ (panel = "verification" => busyId # r)
  /\ IF SharedNote THEN rejectingId = r /\ rejectNote # None ELSE TRUE
  /\ LET note == IF SharedNote THEN rejectNote ELSE r
     IN  /\ Send("reject", r, note)
         /\ notes' = notes \union {[row |-> r, note |-> note]}

\* Another operator, or the owner of the row, changes the queue.
Elsewhere(r) ==
  /\ pending' = IF r \in pending THEN pending \ {r} ELSE pending \union {r}
  /\ calm' = FALSE
  /\ UNCHANGED <<panel, items, loading, busyId, rejectingId, rejectNote, calls, sent, notes>>

\* The server reads the list, or takes the decision about a pending row.
Served(c) ==
  /\ c.at = "sent" /\ (c.kind = "load" \/ c.row \in pending)
  /\ pending' = pending \ {c.row}
  /\ calls' = (calls \ {c}) \union {[c EXCEPT !.at = "done", !.list = pending]}
  /\ UNCHANGED <<panel, items, loading, busyId, rejectingId, rejectNote, sent, notes, calm>>

Loaded(c) ==
  /\ c.kind = "load" /\ c.at = "done"
  /\ items' = c.list
  /\ loading' = FALSE
  /\ calls' = calls \ {c}
  /\ UNCHANGED <<panel, pending, busyId, rejectingId, rejectNote, sent, notes, calm>>

\* A decision is acknowledged: the lock and the field are given up, whoever
\* holds them by now, and the list is loaded again.
Decided(c) ==
  /\ c.kind \in {"verify", "reject"} /\ c.at = "done"
  /\ busyId' = None
  /\ IF c.kind = "reject" THEN rejectingId' = None /\ rejectNote' = None
                          ELSE UNCHANGED <<rejectingId, rejectNote>>
  /\ sent' = sent + 1
  /\ calls' = (calls \ {c}) \union {Load(sent + 1)}
  /\ loading' = TRUE
  /\ UNCHANGED <<panel, pending, items, notes, calm>>

Failed(c) ==
  /\ calls' = calls \ {c}
  /\ IF c.kind = "load" THEN loading' = FALSE /\ UNCHANGED busyId
                        ELSE busyId' = None /\ UNCHANGED loading
  /\ calm' = FALSE
  /\ UNCHANGED <<panel, pending, items, rejectingId, rejectNote, sent, notes>>

Answer(c) == Served(c) \/ Loaded(c) \/ Decided(c) \/ Failed(c)

Next ==
  \/ \E c \in calls : Answer(c)
  \/ Refresh \/ WriteNote \/ CancelReject
  \/ \E r \in Row : Verify(r) \/ StartReject(r) \/ Reject(r) \/ Elsewhere(r)

Spec == Init /\ [][Next]_vars

TypeOK ==
  /\ panel \in Panel
  /\ pending \subseteq Row /\ items \subseteq Row
  /\ loading \in BOOLEAN
  /\ busyId \in Row \union {None} /\ rejectingId \in Row \union {None}
  /\ rejectNote \in Row \union {None}
  /\ \A c \in calls : c.kind \in {"load", "verify", "reject"} /\ c.nr <= sent
  /\ notes \subseteq [row : Row, note : Row \union {None}]
  /\ calm \in BOOLEAN

\* In the verification queue and in the queues with a field per row, a
\* rejection carries the note that was written for it, however the answers of
\* other rows fall between opening, writing and confirming.  The two lists of a
\* school show the note of the last row in the field of the next one.
NoteIsForItsRow ==
  panel \notin {"approval", "students"} => \A x \in notes : x.note = x.row

\* An operator who works alone and waits for every answer has the queue of the
\* server before him: nothing decided is left, nothing pending is missing.
ListCatchesUp == calm /\ calls = {} => items = pending
=============================================================================
