-------------------------------- MODULE Ledger --------------------------------
(***************************************************************************)
(* The append-only ledger (apps/api/src/ledger): one hash chain per school.*)
(*                                                                         *)
(* append() reads the school's last entry and creates the next one in one  *)
(* READ COMMITTED transaction; nothing is locked, so two appends may read  *)
(* the same last entry, and only the unique index on (schoolId, sequence)  *)
(* stops the second.  A hash is represented by what is hashed: SHA-256, and *)
(* the serialisation it is applied to, are taken to be free of collisions.  *)
(***************************************************************************)
EXTENDS Integers
LOCAL INSTANCE TLC

CONSTANTS
    Append,     \* calls of append()
    School,     \* the schools, each with a chain of its own
    Movement,   \* what is recorded: type, amount, reason, reference, time
    TamperedTo  \* the numbers a row may be given behind the service's back

ASSUME TamperedToAssumption == TamperedTo \subseteq Nat

VARIABLES
    rows,       \* rows[s]: the LedgerEntry rows of school s
    call,       \* local state of the calls
    tampered    \* the schools one of whose rows was changed

vars == <<rows, call, tampered>>

\* The prevHash of the first entry of a school: no hash.
Genesis == <<>>

\* Mutant: the hash leaves the movement out.
HashOfPosition(sequence, movement, prevHash) == <<sequence, prevHash>>

\* hashEntry: the hash of the canonical fields.
HashEntry(sequence, movement, prevHash) == <<sequence, movement, prevHash>>

Entry(sequence, movement, prevHash) ==
    [sequence |-> sequence, movement |-> movement, prevHash |-> prevHash,
     entryHash |-> HashEntry(sequence, movement, prevHash)]

\* No entry has a higher sequence number.
IsLast(e, entries) == \A f \in entries : f.sequence <= e.sequence

\* genesisPosition
FirstPosition == [sequence |-> 1, prevHash |-> Genesis]

\* nextPosition
NextPosition(e) == [sequence |-> e.sequence + 1, prevHash |-> e.entryHash]

-----------------------------------------------------------------------------
(* Verification of a chain, as verifyChain does it on the rows in order.   *)

\* The entry before e in the order of sequence numbers.
IsBefore(p, e, entries) ==
    /\ p.sequence < e.sequence
    /\ \A f \in entries : f.sequence < e.sequence => f.sequence <= p.sequence

\* The checks of verifyChain at entry e, given the entries before it passed.
EntryIsSound(e, entries) ==
    IF \A f \in entries : f.sequence >= e.sequence
    THEN /\ e.prevHash = Genesis
         /\ e.entryHash = HashEntry(e.sequence, e.movement, Genesis)
    ELSE \E p \in entries :
            /\ IsBefore(p, e, entries)
            /\ e.sequence = p.sequence + 1
            /\ e.prevHash = p.entryHash
            /\ e.entryHash = HashEntry(e.sequence, e.movement, p.entryHash)

\* The first break is the lowest entry that is not sound; without one the chain
\* is valid.
ChainIsValid(entries) == \A e \in entries : EntryIsSound(e, entries)

-----------------------------------------------------------------------------
\* Where the next entry of school s goes.
Positions(s) ==
    IF rows[s] = {} THEN {FirstPosition}
    ELSE {NextPosition(e) : e \in {last \in rows[s] : IsLast(last, rows[s])}}

Init ==
    /\ rows = [s \in School |-> {}]
    /\ call = [a \in Append |-> [pc |-> "idle"]]
    /\ tampered = {}

\* Read the last entry of school s and build the next one, for movement m.
ReadLast(a, s, m) ==
    /\ call[a].pc = "idle"
    /\ \E position \in Positions(s) :
          call' = [call EXCEPT ![a] =
                     [pc |-> "create", school |-> s,
                      entry |-> Entry(position.sequence, m, position.prevHash)]]
    /\ UNCHANGED <<rows, tampered>>

\* Mutant: no unique index.
NeverTaken(s, sequence) == FALSE

\* The unique index on (schoolId, sequence).
IsTaken(s, sequence) == \E e \in rows[s] : e.sequence = sequence

\* Create the row; the loser of a race gets an exception, and nobody retries.
Create(a) ==
    /\ call[a].pc = "create"
    /\ LET s == call[a].school
           e == call[a].entry
       IN  IF IsTaken(s, e.sequence)
           THEN /\ call' = [call EXCEPT ![a].pc = "failed"]
                /\ UNCHANGED rows
           ELSE /\ call' = [call EXCEPT ![a].pc = "done"]
                /\ rows' = [rows EXCEPT ![s] = @ \cup {e}]
    /\ UNCHANGED tampered

\* The process stops inside the transaction: it is rolled back.
Stop(a) ==
    /\ call[a].pc = "create"
    /\ call' = [call EXCEPT ![a].pc = "stopped"]
    /\ UNCHANGED <<rows, tampered>>

\* One field of e set to another value.
Changes(e, sequence, movement, hash) ==
    {[e EXCEPT !.sequence = sequence], [e EXCEPT !.movement = movement],
     [e EXCEPT !.prevHash = hash], [e EXCEPT !.entryHash = hash]}

\* Somebody with access to the database changes one field of one row, once per
\* school.
Tamper(s) ==
    /\ s \notin tampered
    /\ \E e \in rows[s], sequence \in TamperedTo, movement \in Movement,
          hash \in {f.entryHash : f \in rows[s]} \cup {Genesis} :
          \E changed \in Changes(e, sequence, movement, hash) \ {e} :
             /\ \A f \in rows[s] \ {e} : f.sequence # changed.sequence
             /\ rows' = [rows EXCEPT ![s] = (@ \ {e}) \cup {changed}]
    /\ tampered' = tampered \cup {s}
    /\ UNCHANGED call

Next ==
    \/ \E a \in Append, s \in School, m \in Movement : ReadLast(a, s, m)
    \/ \E a \in Append : Create(a) \/ Stop(a)
    \/ \E s \in School : Tamper(s)

Spec == Init /\ [][Next]_vars

-----------------------------------------------------------------------------
(* Properties.                                                             *)

\* The shape of the calls and of the set of schools that were tampered with.
TypeOK ==
    /\ DOMAIN rows = School
    /\ \A s \in School : \A e \in rows[s] : e.sequence \in Nat /\ e.movement \in Movement
    /\ \A a \in Append :
          /\ call[a].pc \in {"idle", "create", "done", "failed", "stopped"}
          /\ call[a].pc # "idle" => /\ call[a].school \in School
                                    /\ call[a].entry.sequence \in Nat
                                    /\ call[a].entry.movement \in Movement
    /\ tampered \subseteq School

\* append() keeps "the hash chain intact under concurrent appends": the chain of
\* a school that nobody tampered with always verifies.
ChainsVerify == \A s \in School : s \notin tampered => ChainIsValid(rows[s])

\* ... and numbers its entries 1, 2, 3, ... without a gap or a fork.
NumbersAreGapless ==
    \A s \in School : s \notin tampered =>
        /\ \A e, f \in rows[s] : e.sequence = f.sequence => e = f
        /\ \A e \in rows[s] : \A n \in 1 .. e.sequence :
              \E f \in rows[s] : f.sequence = n

\* The ledger is tamper-evident: any change of a stored field breaks the chain,
\* and no later append repairs it.
TamperingShows == \A s \in tampered : ~ChainIsValid(rows[s])

\* An append that returned is in the ledger for good, as it was built.
AppendedStays ==
    \A a \in Append :
        call[a].pc = "done" /\ call[a].school \notin tampered
            => call[a].entry \in rows[call[a].school]

\* An append is refused only because another one took its number: whoever loses
\* a race, the ledger went on.
LosersLoseToAWinner ==
    \A a \in Append :
        call[a].pc = "failed" /\ call[a].school \notin tampered
            => \E b \in Append \ {a} :
                  /\ call[b].pc = "done"
                  /\ call[b].school = call[a].school
                  /\ call[b].entry.sequence = call[a].entry.sequence

\* Racing appends leave one sound chain per school: what was returned is in it,
\* and what was refused lost its number to one that is (append).
ChainsAreSound ==
    TypeOK /\ ChainsVerify /\ NumbersAreGapless /\ AppendedStays /\ LosersLoseToAWinner

\* Calls, schools and movements are interchangeable (TLC).
Symmetry == Permutations(Append) \cup Permutations(School) \cup Permutations(Movement)
=============================================================================
