----------------------------- MODULE LedgerProofs -----------------------------
(***************************************************************************)
(* What Ledger promises, for any number of calls, schools and movements.   *)
(*                                                                         *)
(* The properties are not inductive.  What is: the shape of the state; an  *)
(* entry, stored or about to be, continues the chain of its school (Fits); *)
(* the numbers of a chain are distinct and leave no gap; every stored      *)
(* entry is the work of an append that returned.  All this is about the    *)
(* schools nobody tampered with; in the others one entry carries a hash    *)
(* that is not that of its fields, which no append can change.             *)
(***************************************************************************)
EXTENDS Ledger, TLAPS

IsEntry(e) ==
    /\ e = [sequence |-> e.sequence, movement |-> e.movement,
            prevHash |-> e.prevHash, entryHash |-> e.entryHash]
    /\ e.sequence \in Nat
    /\ e.movement \in Movement

IsCall(c) ==
    \/ c = [pc |-> "idle"]
    \/ /\ c = [pc |-> c.pc, school |-> c.school, entry |-> c.entry]
       /\ c.pc \in {"create", "done", "failed", "stopped"}
       /\ c.school \in School
       /\ IsEntry(c.entry)

Shape ==
    /\ rows = [s \in School |-> rows[s]]
    /\ \A s \in School : \A e \in rows[s] : IsEntry(e)
    /\ call = [a \in Append |-> call[a]]
    /\ \A a \in Append : IsCall(call[a])
    /\ tampered \subseteq School

HashIsOwn(e) == e.entryHash = HashEntry(e.sequence, e.movement, e.prevHash)

\* e is the first entry of a chain, or follows one of entries.
Fits(e, entries) ==
    /\ HashIsOwn(e)
    /\ e.sequence >= 1
    /\ \/ e.sequence = 1 /\ e.prevHash = Genesis
       \/ \E p \in entries : e.sequence = p.sequence + 1 /\ e.prevHash = p.entryHash

Intact == School \ tampered

PendingFits ==
    \A a \in Append :
        call[a].pc = "create" /\ call[a].school \in Intact
            => Fits(call[a].entry, rows[call[a].school])

StoredFits == \A s \in Intact : \A e \in rows[s] : Fits(e, rows[s])

Returned ==
    \A s \in Intact : \A e \in rows[s] :
        \E b \in Append : call[b] = [pc |-> "done", school |-> s, entry |-> e]

\* An entry whose hash is not that of its fields cannot be repaired.
ScarStays == \A s \in tampered : \E e \in rows[s] : ~HashIsOwn(e)

Inv ==
    /\ Shape
    /\ PendingFits
    /\ StoredFits
    /\ NumbersAreGapless
    /\ Returned
    /\ ScarStays
    /\ AppendedStays
    /\ LosersLoseToAWinner

-----------------------------------------------------------------------------
(* The operators.                                                          *)

\* Any change of one field of an entry that carries its own hash shows in that
\* entry alone.
LEMMA ChangeScars ==
    ASSUME NEW e, IsEntry(e), HashIsOwn(e), NEW changed, changed # e,
           NEW sequence \in Nat, NEW movement \in Movement, NEW hash,
           changed \in Changes(e, sequence, movement, hash)
    PROVE  ~HashIsOwn(changed) /\ IsEntry(changed)
<1>1. CASE changed = [e EXCEPT !.sequence = sequence]
  BY <1>1 DEF IsEntry, HashIsOwn, HashEntry
<1>2. CASE changed = [e EXCEPT !.movement = movement]
  BY <1>2 DEF IsEntry, HashIsOwn, HashEntry
<1>3. CASE changed = [e EXCEPT !.prevHash = hash]
  BY <1>3 DEF IsEntry, HashIsOwn, HashEntry
<1>4. CASE changed = [e EXCEPT !.entryHash = hash]
  BY <1>4 DEF IsEntry, HashIsOwn, HashEntry
<1> QED BY <1>1, <1>2, <1>3, <1>4 DEF Changes

\* verifyChain accepts no entry that does not carry the hash of its fields.
LEMMA SoundEntriesOwnTheirHash ==
    ASSUME NEW entries, NEW e \in entries, EntryIsSound(e, entries)
    PROVE  HashIsOwn(e)
BY DEF EntryIsSound, HashIsOwn

\* A chain of entries that fit, numbered without a gap, passes verifyChain.
LEMMA FittingChainIsValid ==
    ASSUME NEW entries,
           \A e \in entries : IsEntry(e) /\ Fits(e, entries),
           \A e \in entries : \A n \in 1 .. e.sequence : \E f \in entries : f.sequence = n
    PROVE  ChainIsValid(entries)
<1> SUFFICES ASSUME NEW e \in entries
             PROVE  EntryIsSound(e, entries)
  BY DEF ChainIsValid
<1>1. e.sequence \in Nat /\ Fits(e, entries)
  BY DEF IsEntry
<1>2. CASE \A f \in entries : f.sequence >= e.sequence
  <2>1. e.sequence = 1
    <3>1. PICK f \in entries : f.sequence = 1
      BY <1>1 DEF Fits
    <3> QED BY <3>1, <1>1, <1>2 DEF Fits
  <2>2. ~ \E p \in entries : e.sequence = p.sequence + 1
    BY <2>1 DEF Fits, IsEntry
  <2> QED BY <1>1, <1>2, <2>1, <2>2 DEF Fits, HashIsOwn, EntryIsSound
<1>3. CASE ~ \A f \in entries : f.sequence >= e.sequence
  <2>1. PICK f \in entries : ~(f.sequence >= e.sequence)
    BY <1>3
  <2>2. e.sequence # 1
    BY <2>1, <1>1 DEF Fits, IsEntry
  <2>3. PICK p \in entries : e.sequence = p.sequence + 1 /\ e.prevHash = p.entryHash
    BY <1>1, <2>2 DEF Fits
  <2>4. IsBefore(p, e, entries)
    BY <2>3, <1>1 DEF IsBefore, IsEntry
  <2> QED BY <1>1, <1>3, <2>3, <2>4 DEF Fits, HashIsOwn, EntryIsSound
<1> QED BY <1>2, <1>3

\* The position append() computes continues the chain it was read from.
LEMMA PositionFits ==
    ASSUME Shape, NEW s \in School, NEW m \in Movement, NEW position \in Positions(s)
    PROVE  /\ IsEntry(Entry(position.sequence, m, position.prevHash))
           /\ Fits(Entry(position.sequence, m, position.prevHash), rows[s])
<1>1. CASE rows[s] = {}
  <2>1. position = [sequence |-> 1, prevHash |-> Genesis]
    BY <1>1 DEF Positions, FirstPosition
  <2> QED BY <2>1 DEF IsEntry, Entry, Fits, HashIsOwn
<1>2. CASE rows[s] # {}
  <2>1. PICK p \in rows[s] :
            position = [sequence |-> p.sequence + 1, prevHash |-> p.entryHash]
    BY <1>2 DEF Positions, NextPosition
  <2>2. p.sequence \in Nat
    BY DEF Shape, IsEntry
  <2> QED BY <2>1, <2>2 DEF IsEntry, Entry, Fits, HashIsOwn
<1> QED BY <1>1, <1>2

-----------------------------------------------------------------------------
(* The invariant.                                                          *)

LEMMA InitEstablishes == Init => Inv
<1> SUFFICES ASSUME Init PROVE Inv
  OBVIOUS
<1>1. /\ rows = [s \in School |-> {}] /\ tampered = {}
      /\ call = [a \in Append |-> [pc |-> "idle"]]
  BY DEF Init
<1>2. Shape
  BY <1>1 DEF Shape, IsCall
<1>3. \A a \in Append : call[a].pc = "idle"
  BY <1>1
<1>4. \A s \in School : rows[s] = {}
  BY <1>1
<1> QED
  BY <1>1, <1>2, <1>3, <1>4
  DEF Inv, PendingFits, StoredFits, NumbersAreGapless, Returned, ScarStays,
      AppendedStays, LosersLoseToAWinner, Intact

\* A step that only moves a call which has no row yet to a state that needs no
\* proof but that of its pending entry, or of its winner.
LEMMA CallStep ==
    ASSUME Inv, UNCHANGED <<rows, tampered>>,
           NEW a \in Append, NEW c, call' = [call EXCEPT ![a] = c], IsCall(c),
           call[a].pc # "done", c.pc # "done",
           c.pc = "create" => Fits(c.entry, rows[c.school]),
           c.pc = "failed" /\ c.school \in Intact =>
              \E b \in Append : /\ call[b].pc = "done"
                               /\ call[b].school = c.school
                               /\ call[b].entry.sequence = c.entry.sequence
    PROVE  Inv'
<1>1. \A b \in Append : call'[b] = IF b = a THEN c ELSE call[b]
  BY DEF Inv, Shape
<1>2. Shape'
  BY <1>1 DEF Inv, Shape, IsCall, IsEntry
<1>3. PendingFits'
  BY <1>1 DEF Inv, PendingFits, Intact, Fits, HashIsOwn
<1>4. StoredFits' /\ NumbersAreGapless' /\ ScarStays'
  BY DEF Inv, StoredFits, NumbersAreGapless, ScarStays, Intact, Fits, HashIsOwn
<1>5. Returned'
  BY <1>1 DEF Inv, Returned, Intact
<1>6. AppendedStays'
  BY <1>1 DEF Inv, AppendedStays
<1>7. LosersLoseToAWinner'
  <2> SUFFICES ASSUME NEW loser \in Append,
                      call'[loser].pc = "failed", call'[loser].school \notin tampered
               PROVE  \E b \in Append \ {loser} :
                         /\ call'[b].pc = "done"
                         /\ call'[b].school = call'[loser].school
                         /\ call'[b].entry.sequence = call'[loser].entry.sequence
    BY DEF LosersLoseToAWinner
  <2>1. call'[loser].school \in Intact
    BY <1>1 DEF Inv, Shape, IsCall, Intact
  <2>2. \E b \in Append : /\ call[b].pc = "done"
                         /\ call[b].school = call'[loser].school
                         /\ call[b].entry.sequence = call'[loser].entry.sequence
    BY <1>1, <2>1 DEF Inv, LosersLoseToAWinner
  <2> QED BY <1>1, <2>2
<1> QED BY <1>2, <1>3, <1>4, <1>5, <1>6, <1>7 DEF Inv

LEMMA ReadLastPreserves ==
    ASSUME Inv, NEW a \in Append, NEW s \in School, NEW m \in Movement,
           ReadLast(a, s, m)
    PROVE  Inv'
<1>1. PICK position \in Positions(s) :
          call' = [call EXCEPT ![a] =
                     [pc |-> "create", school |-> s,
                      entry |-> Entry(position.sequence, m, position.prevHash)]]
  BY DEF ReadLast
<1> DEFINE new == Entry(position.sequence, m, position.prevHash)
           c == [pc |-> "create", school |-> s, entry |-> new]
<1>2. IsEntry(new) /\ Fits(new, rows[s])
  BY PositionFits DEF Inv
<1> HIDE DEF new
<1>3. IsCall(c)
  BY <1>2 DEF IsCall
<1>4. call[a].pc # "done" /\ UNCHANGED <<rows, tampered>>
  BY DEF ReadLast
<1>5. call' = [call EXCEPT ![a] = c]
  BY <1>1 DEF new
<1> QED BY <1>2, <1>3, <1>4, <1>5, CallStep

LEMMA StopPreserves ==
    ASSUME Inv, NEW a \in Append, Stop(a) PROVE Inv'
<1> DEFINE c == [call[a] EXCEPT !.pc = "stopped"]
<1>1. IsCall(c) /\ c.pc = "stopped"
  BY DEF Stop, Inv, Shape, IsCall
<1>2. call' = [call EXCEPT ![a] = c] /\ UNCHANGED <<rows, tampered>> /\ call[a].pc # "done"
  BY DEF Stop
<1> HIDE DEF c
<1> QED BY <1>1, <1>2, CallStep

\* The row that is created carries on the chain, and nothing that was there is
\* touched.
LEMMA CreatePreserves ==
    ASSUME Inv, NEW a \in Append, Create(a) PROVE Inv'
<1> DEFINE s == call[a].school
           e == call[a].entry
<1>1. /\ call[a] = [pc |-> "create", school |-> s, entry |-> e]
      /\ s \in School /\ IsEntry(e)
  BY DEF Create, Inv, Shape, IsCall
<1>2. CASE IsTaken(s, e.sequence)
  <2> DEFINE c == [call[a] EXCEPT !.pc = "failed"]
  <2>1. c = [pc |-> "failed", school |-> s, entry |-> e]
    BY <1>1
  <2>2. IsCall(c) /\ c.pc = "failed" /\ c.school = s /\ c.entry = e
    BY <1>1, <2>1 DEF IsCall
  <2>3. call' = [call EXCEPT ![a] = c] /\ UNCHANGED <<rows, tampered>> /\ call[a].pc = "create"
    BY <1>2 DEF Create
  <2>4. s \in Intact => \E b \in Append : /\ call[b].pc = "done"
                                          /\ call[b].school = s
                                          /\ call[b].entry.sequence = e.sequence
    <3>1. PICK f \in rows[s] : f.sequence = e.sequence
      BY <1>2 DEF IsTaken
    <3>2. s \in Intact =>
             \E b \in Append : call[b] = [pc |-> "done", school |-> s, entry |-> f]
      BY <3>1 DEF Inv, Returned
    <3> HIDE DEF s, e
    <3> QED BY <3>1, <3>2
  <2> HIDE DEF c
  <2> QED BY <2>2, <2>3, <2>4, CallStep
<1>3. CASE ~IsTaken(s, e.sequence)
  <2> DEFINE c == [pc |-> "done", school |-> s, entry |-> e]
  <2>1. /\ call' = [call EXCEPT ![a] = c]
        /\ rows' = [rows EXCEPT ![s] = @ \cup {e}]
        /\ UNCHANGED tampered
    BY <1>1, <1>3 DEF Create
  <2>2. \A b \in Append : call'[b] = IF b = a THEN c ELSE call[b]
    BY <2>1 DEF Inv, Shape
  <2>3. \A t \in School : rows'[t] = IF t = s THEN rows[s] \cup {e} ELSE rows[t]
    BY <1>1, <2>1 DEF Inv, Shape
  <2>4. s \in Intact => Fits(e, rows[s])
    BY <1>1 DEF Inv, PendingFits
  <2>5. \A t \in School : rows[t] \subseteq rows'[t]
    BY <2>3
  <2>6. \A f, t : t \in School /\ Fits(f, rows[t]) => Fits(f, rows'[t])
    BY <2>5 DEF Fits
  <2> HIDE DEF s, e
  <2>7. Shape'
    <3>1. rows' = [t \in School |-> rows'[t]] /\ call' = [b \in Append |-> call'[b]]
      BY <2>1 DEF Inv, Shape
    <3>2. \A t \in School : \A f \in rows'[t] : IsEntry(f)
      BY <1>1, <2>3 DEF Inv, Shape
    <3>3. \A b \in Append : IsCall(call'[b])
      BY <1>1, <2>2 DEF Inv, Shape, IsCall
    <3> QED BY <2>1, <3>1, <3>2, <3>3 DEF Inv, Shape, IsEntry, IsCall
  <2>8. PendingFits'
    BY <1>1, <2>1, <2>2, <2>6 DEF Inv, PendingFits, Intact
  <2>9. StoredFits'
    BY <2>1, <2>3, <2>4, <2>6 DEF Inv, StoredFits, Intact
  <2>10. NumbersAreGapless'
    <3> SUFFICES ASSUME s \notin tampered
                 PROVE  /\ \A f, g \in rows'[s] : f.sequence = g.sequence => f = g
                        /\ \A f \in rows'[s] : \A n \in 1 .. f.sequence :
                              \E g \in rows'[s] : g.sequence = n
      BY <2>1, <2>3 DEF Inv, NumbersAreGapless
    <3>1. \A f, g \in rows'[s] : f.sequence = g.sequence => f = g
      BY <1>1, <1>3, <2>3 DEF Inv, NumbersAreGapless, IsTaken
    <3>2. \A n \in 1 .. e.sequence : n = e.sequence \/ \E g \in rows[s] : g.sequence = n
      <4>1. \/ e.sequence = 1
            \/ \E p \in rows[s] : e.sequence = p.sequence + 1 /\ p.sequence \in Nat
        BY <1>1, <2>4 DEF Fits, Intact, Inv, Shape, IsEntry
      <4> QED BY <1>1, <4>1 DEF Inv, NumbersAreGapless, IsEntry
    <3>3. \A f \in rows'[s] : \A n \in 1 .. f.sequence : \E g \in rows'[s] : g.sequence = n
      BY <1>1, <2>3, <3>2 DEF Inv, NumbersAreGapless
    <3> QED BY <3>1, <3>3
  <2>11. Returned'
    BY <1>1, <2>1, <2>2, <2>3 DEF Inv, Returned, Intact
  <2>12. ScarStays'
    BY <2>1, <2>5 DEF Inv, Shape, ScarStays
  <2>13. AppendedStays'
    BY <1>1, <2>1, <2>2, <2>3, <2>5 DEF Inv, AppendedStays, Shape, IsCall
  <2>14. LosersLoseToAWinner'
    BY <1>1, <2>1, <2>2 DEF Inv, LosersLoseToAWinner
  <2> QED BY <2>7, <2>8, <2>9, <2>10, <2>11, <2>12, <2>13, <2>14 DEF Inv
<1> QED BY <1>2, <1>3

\* Tampering takes a school out of the first promises, and leaves a scar.
LEMMA TamperPreserves ==
    ASSUME Inv, NEW s \in School, Tamper(s) PROVE Inv'
<1>1. PICK e \in rows[s], sequence \in TamperedTo, movement \in Movement,
           hash \in {f.entryHash : f \in rows[s]} \cup {Genesis} :
          \E changed \in Changes(e, sequence, movement, hash) \ {e} :
             rows' = [rows EXCEPT ![s] = (@ \ {e}) \cup {changed}]
  BY DEF Tamper
<1>2. PICK changed \in Changes(e, sequence, movement, hash) \ {e} :
             rows' = [rows EXCEPT ![s] = (@ \ {e}) \cup {changed}]
  BY <1>1
<1>3. s \notin tampered /\ tampered' = tampered \cup {s} /\ call' = call
  BY DEF Tamper
<1>4. IsEntry(e) /\ HashIsOwn(e)
  BY <1>3 DEF Inv, Shape, StoredFits, Fits, Intact
<1>5. sequence \in Nat
  BY TamperedToAssumption
<1>6. ~HashIsOwn(changed) /\ IsEntry(changed)
  BY <1>2, <1>4, <1>5, ChangeScars
<1>7. \A t \in School : rows'[t] = IF t = s THEN (rows[s] \ {e}) \cup {changed} ELSE rows[t]
  BY <1>2 DEF Inv, Shape
<1>8. Shape'
  <2>1. rows' = [t \in School |-> rows'[t]]
    BY <1>2 DEF Inv, Shape
  <2>2. \A t \in School : \A f \in rows'[t] : IsEntry(f)
    BY <1>6, <1>7 DEF Inv, Shape
  <2> QED BY <1>3, <2>1, <2>2 DEF Inv, Shape, IsEntry, IsCall
<1>9. \A t : t \in Intact' => t \in Intact /\ t # s /\ t \in School
  BY <1>3 DEF Intact
<1>10. PendingFits'
  BY <1>3, <1>7, <1>9 DEF Inv, PendingFits, Fits, HashIsOwn
<1>11. StoredFits'
  BY <1>7, <1>9 DEF Inv, StoredFits, Fits, HashIsOwn
<1>12. NumbersAreGapless'
  BY <1>3, <1>7 DEF Inv, NumbersAreGapless
<1>13. Returned'
  BY <1>3, <1>7, <1>9 DEF Inv, Returned
<1>14. ScarStays'
  BY <1>3, <1>6, <1>7 DEF Inv, Shape, ScarStays, HashIsOwn
<1>15. AppendedStays'
  BY <1>3, <1>7 DEF Inv, Shape, IsCall, AppendedStays
<1>16. LosersLoseToAWinner'
  BY <1>3 DEF Inv, LosersLoseToAWinner
<1> QED
  BY <1>8, <1>10, <1>11, <1>12, <1>13, <1>14, <1>15, <1>16 DEF Inv

LEMMA InvHolds == Spec => []Inv
<1>1. Inv /\ [Next]_vars => Inv'
  <2> SUFFICES ASSUME Inv, [Next]_vars PROVE Inv'
    OBVIOUS
  <2>1. CASE UNCHANGED vars
    BY <2>1
    DEF vars, Inv, Shape, IsEntry, IsCall, PendingFits, StoredFits, NumbersAreGapless,
        Returned, ScarStays, AppendedStays, LosersLoseToAWinner, Fits, HashIsOwn, Intact
  <2>2. ASSUME NEW a \in Append, NEW s \in School, NEW m \in Movement, ReadLast(a, s, m)
        PROVE  Inv'
    BY <2>2, ReadLastPreserves
  <2>3. ASSUME NEW a \in Append, Create(a) PROVE Inv'
    BY <2>3, CreatePreserves
  <2>4. ASSUME NEW a \in Append, Stop(a) PROVE Inv'
    BY <2>4, StopPreserves
  <2>5. ASSUME NEW s \in School, Tamper(s) PROVE Inv'
    BY <2>5, TamperPreserves
  <2> QED BY <2>1, <2>2, <2>3, <2>4, <2>5 DEF Next
<1> QED BY <1>1, InitEstablishes, PTL DEF Spec

-----------------------------------------------------------------------------
(* What follows from it.                                                   *)

\* The chain of a school nobody tampered with verifies, however many appends
\* race for its next number (ledger.service.ts, append).
THEOREM ChainsAlwaysVerify == Spec => []ChainsVerify
<1>1. Inv => ChainsVerify
  <2> SUFFICES ASSUME Inv, NEW s \in School, s \notin tampered
               PROVE  ChainIsValid(rows[s])
    BY DEF ChainsVerify
  <2>1. \A e \in rows[s] : IsEntry(e) /\ Fits(e, rows[s])
    BY DEF Inv, Shape, StoredFits, Intact
  <2>2. \A e \in rows[s] : \A n \in 1 .. e.sequence : \E f \in rows[s] : f.sequence = n
    BY DEF Inv, NumbersAreGapless
  <2> QED BY <2>1, <2>2, FittingChainIsValid
<1> QED BY <1>1, InvHolds, PTL

\* Its numbers are 1, 2, 3, ... without a gap and without a fork.
THEOREM NumbersAreAlwaysGapless == Spec => []NumbersAreGapless
<1>1. Inv => NumbersAreGapless
  BY DEF Inv
<1> QED BY <1>1, InvHolds, PTL

\* After one field of one row was changed, verifyChain fails for ever, whatever
\* is appended before or after (ledger-hash.ts, verifyChain).
THEOREM TamperingAlwaysShows == Spec => []TamperingShows
<1>1. Inv => TamperingShows
  BY SoundEntriesOwnTheirHash DEF Inv, ScarStays, Shape, TamperingShows, ChainIsValid
<1> QED BY <1>1, InvHolds, PTL

\* What append() returned is never lost or overwritten.
THEOREM AppendedAlwaysStays == Spec => []AppendedStays
<1>1. Inv => AppendedStays
  BY DEF Inv
<1> QED BY <1>1, InvHolds, PTL

\* A refused append lost its number to one that succeeded.
THEOREM SomeAppendAlwaysWins == Spec => []LosersLoseToAWinner
<1>1. Inv => LosersLoseToAWinner
  BY DEF Inv
<1> QED BY <1>1, InvHolds, PTL

\* Rows and calls keep their types.
THEOREM LedgerTypes == Spec => []TypeOK
<1>1. Inv => TypeOK
  <2> SUFFICES ASSUME Inv PROVE TypeOK
    OBVIOUS
  <2>1. DOMAIN rows = School
    <3>1. rows = [s \in School |-> rows[s]]
      BY DEF Inv, Shape
    <3> QED BY <3>1
  <2>2. ASSUME NEW s \in School, NEW e \in rows[s]
        PROVE  e.sequence \in Nat /\ e.movement \in Movement
    BY <2>2 DEF Inv, Shape, IsEntry
  <2>3. ASSUME NEW a \in Append
        PROVE  /\ call[a].pc \in {"idle", "create", "done", "failed", "stopped"}
               /\ call[a].pc # "idle" => /\ call[a].school \in School
                                         /\ call[a].entry.sequence \in Nat
                                         /\ call[a].entry.movement \in Movement
    <3>1. CASE call[a] = [pc |-> "idle"]
      <4>1. call[a].pc = "idle"
        BY <3>1
      <4> QED BY <4>1
    <3>2. CASE call[a] # [pc |-> "idle"]
      <4>1. /\ call[a].pc \in {"create", "done", "failed", "stopped"}
            /\ call[a].school \in School
            /\ IsEntry(call[a].entry)
        BY <2>3, <3>2 DEF Inv, Shape, IsCall
      <4> QED BY <4>1 DEF IsEntry
    <3> QED BY <3>1, <3>2
  <2>4. tampered \subseteq School
    BY DEF Inv, Shape
  <2> QED BY <2>1, <2>2, <2>3, <2>4 DEF TypeOK
<1> QED BY <1>1, InvHolds, PTL

\* The chain of every school nobody tampered with is sound: it verifies, it has no
\* gap, it holds what append() returned, and a refused append lost to one in it.
THEOREM ChainsAreAlwaysSound == Spec => []ChainsAreSound
<1>1. TypeOK /\ ChainsVerify /\ NumbersAreGapless /\ AppendedStays /\ LosersLoseToAWinner
        => ChainsAreSound
  BY DEF ChainsAreSound
<1> QED
  BY <1>1, LedgerTypes, ChainsAlwaysVerify, NumbersAreAlwaysGapless, AppendedAlwaysStays,
     SomeAppendAlwaysWins, PTL
===============================================================================
