------------------------ MODULE AccessHistoryProofs ------------------------
(***************************************************************************)
(* Proofs about AccessHistory, for every set of dags, whatever Precedes    *)
(* misses, and any number of strands and accesses: every report is of a    *)
(* race or of an order that a query missed, and races are found unless     *)
(* their checks overlap.                                                   *)
(*                                                                         *)
(* Reports: an entry of the history is of a strand that has started, and a *)
(* strand starts only when all strands before it have finished.  A strand  *)
(* that makes a query has not finished, so that it is not before the       *)
(* strand of the entry; and of the two accesses one is a write.            *)
(*                                                                         *)
(* Races found: while no race is reported the writers form a chain that    *)
(* ends with the recorded one.  When no two checks overlap, every reader   *)
(* since the last write is in the list or before the last writer, and a    *)
(* write that walks the list compares itself with all of them.  A query    *)
(* that answers TRUE has found an order of the dag; one that misses an     *)
(* order reports it, which does no harm here.                              *)
(***************************************************************************)
EXTENDS AccessHistory, SequenceTheorems, TLAPS

Started(s) == at[s] > 1 \/ pc[s] # "idle"

(* A strand inside a check has not finished. *)
ActiveOK == \A s \in Strands : pc[s] # "idle" => ~Finished(s)

(* Where a strand is while it checks a write, and while it checks a read. *)
WritePoints == {"write", "installwriter", "checkwriter", "replacewriter",
                "loadreaders", "walk"}
ReadPoints  == {"read", "loadreader", "install", "store", "compare", "link", "push",
                "dedup", "search"}

(* A check follows the kind of its access. *)
KindOK == \A s \in Strands : /\ pc[s] \in WritePoints => prog[s][at[s]] = "write"
                             /\ pc[s] \in ReadPoints => prog[s][at[s]] = "read"

(* The scheduler starts a strand after all strands before it. *)
StartOK == \A s, t \in Strands : Started(s) /\ Before(t, s) => Finished(t)

(* An entry of the readers, and the last writer, have done what they are   *)
(* recorded for.                                                           *)
Recorded(p)       == p # NULL => Started(Accessor(p)) /\ Accesses(Accessor(p), "read")
RecordedWriter(w) == w # Nobody => Started(w) /\ Accesses(w, "write")

(* The history and the pointers into it are of strands that have started. *)
RecordOK ==
  /\ RecordedWriter(writer)
  /\ \A s \in Strands : pc[s] = "checkwriter" => writer # Nobody
  /\ Recorded(head)
  /\ \A e \in Entries : Recorded(next[e])
  /\ \A s \in Strands : Recorded(reader[s])

HistoryInv == TypeOK /\ ActiveOK /\ KindOK /\ StartOK /\ RecordOK /\ ReportsAreRaces

-----------------------------------------------------------------------------
(* A strand makes between one and MaxOps accesses. *)
LEMMA ProgramLength ==
  ASSUME NEW p \in Programs
  PROVE  Len(p) \in 1 .. MaxOps /\ p \in [1 .. Len(p) -> {"read", "write"}]
PROOF
<1>1. PICK n \in 1 .. MaxOps : p \in [1 .. n -> {"read", "write"}]
  BY DEF Programs
<1>2. n \in Nat
  BY <1>1, BoundAssumption
<1>3. p \in Seq({"read", "write"})
  BY <1>1, <1>2
<1>4. Len(p) = n
  BY <1>1, <1>2, <1>3
<1> QED
  BY <1>1, <1>4

(* What a step does to the control state of its strand. *)
Moves(s) ==
  \/ /\ at' = at
     /\ \E to \in Points \ {"idle"} : pc' = [pc EXCEPT ![s] = to]
  \/ /\ pc[s] # "idle"
     /\ pc' = [pc EXCEPT ![s] = "idle"]
     /\ at' = [at EXCEPT ![s] = @ + 1]

Starts(s) == pc[s] = "idle" => /\ ~Finished(s)
                               /\ \A t \in Strands : Before(t, s) => Finished(t)

(* Every step leaves the program alone and moves its strand as above. *)
LEMMA StepControl ==
  ASSUME TypeOK, ActiveOK, NEW s \in Strands, Step(s)
  PROVE  UNCHANGED program /\ Moves(s) /\ Starts(s)
PROOF
<1>1. pc \in [Strands -> Points]
  BY DEF TypeOK
<1>2. CASE Find(s)
  <2>1. prog[s][at[s]] \in {"read", "write"}
    <3>1. at[s] \in Nat \ {0} /\ at[s] <= Len(prog[s]) /\ prog[s] \in Programs
      BY <1>2, ProgramLength DEF Find, Finished, TypeOK
    <3> QED
      BY <3>1, ProgramLength
  <2> QED
    BY <1>1, <1>2, <2>1 DEF Find, Goto, Moves, Starts, Points
<1>3. CASE InsertSlot(s)
  <2>1. prog[s][at[s]] \in {"read", "write"}
    <3>1. pc[s] # "idle"
      BY <1>3 DEF InsertSlot, Done, Goto
    <3>2. at[s] \in Nat \ {0} /\ at[s] <= Len(prog[s]) /\ prog[s] \in Programs
      BY <3>1, ProgramLength DEF ActiveOK, Finished, TypeOK
    <3> QED
      BY <3>2, ProgramLength
  <2> QED
    BY <1>1, <1>3, <2>1 DEF InsertSlot, Done, Goto, Moves, Starts, Points
<1>4. CASE LoadWriter(s)
  BY <1>1, <1>4 DEF LoadWriter, Goto, Moves, Starts, Points
<1>5. CASE InstallWriter(s)
  BY <1>1, <1>5 DEF InstallWriter, Goto, Moves, Starts, Points
<1>6. CASE CheckWriter(s)
  BY <1>1, <1>6 DEF CheckWriter, Goto, Moves, Starts, Points
<1>7. CASE ReplaceWriter(s)
  BY <1>1, <1>7 DEF ReplaceWriter, Goto, Moves, Starts, Points
<1>8. CASE LoadReaders(s)
  BY <1>1, <1>8 DEF LoadReaders, Goto, Moves, Starts, Points
<1>9. CASE WalkReaders(s)
  BY <1>1, <1>9 DEF WalkReaders, Goto, Moves, Starts, Points
<1>10. CASE ClearReaders(s)
  BY <1>1, <1>10 DEF ClearReaders, Done, Goto, Moves, Starts, Points
<1>11. CASE CheckWriterOfRead(s)
  BY <1>1, <1>11 DEF CheckWriterOfRead, Goto, Moves, Starts, Points
<1>12. CASE LoadReader(s)
  BY <1>1, <1>12 DEF LoadReader, Goto, Moves, Starts, Points
<1>13. CASE LockInstall(s)
  BY <1>1, <1>13 DEF LockInstall, Goto, Moves, Starts, Points
<1>14. CASE StoreReader(s)
  BY <1>1, <1>14 DEF StoreReader, Goto, Moves, Starts, Points
<1>15. CASE CompareReader(s)
  BY <1>1, <1>15 DEF CompareReader, Done, Goto, Moves, Starts, Points
<1>16. CASE LinkReader(s)
  BY <1>1, <1>16 DEF LinkReader, Goto, Moves, Starts, Points
<1>17. CASE PushReader(s)
  BY <1>1, <1>17 DEF PushReader, Done, Goto, Moves, Starts, Points
<1>18. CASE LockDedup(s)
  BY <1>1, <1>18 DEF LockDedup, Goto, Moves, Starts, Points
<1>19. CASE SearchReaders(s)
  BY <1>1, <1>19 DEF SearchReaders, Done, Goto, Moves, Starts, Points
<1>20. CASE AddReader(s)
  BY <1>1, <1>20 DEF AddReader, Done, Goto, Moves, Starts, Points
<1> QED
  BY <1>2, <1>3, <1>4, <1>5, <1>6, <1>7, <1>8, <1>9, <1>10, <1>11, <1>12, <1>13,
     <1>14, <1>15, <1>16, <1>17, <1>18, <1>19, <1>20 DEF Step, Write, Read

(* Such a step keeps the control part of the invariant, and no strand that *)
(* has started or finished is undone.                                      *)
LEMMA ControlStep ==
  ASSUME TypeOK, ActiveOK, StartOK, NEW s \in Strands,
         before' = before, prog' = prog, Moves(s), Starts(s)
  PROVE  /\ pc' \in [Strands -> Points]
         /\ at' \in [Strands -> 1 .. (MaxOps + 1)]
         /\ ActiveOK'
         /\ StartOK'
         /\ \A t \in Strands : Started(t) => Started(t)'
         /\ Started(s)'
PROOF
<1>1. \A t \in Strands : Len(prog[t]) \in 1 .. MaxOps
  BY ProgramLength DEF TypeOK
<1>2. ~Finished(s)
  BY DEF Moves, Starts, ActiveOK
<1>3. at \in [Strands -> 1 .. (MaxOps + 1)] /\ pc \in [Strands -> Points] /\ MaxOps \in Nat
  BY BoundAssumption DEF TypeOK
<1>4. pc' \in [Strands -> Points]
  BY <1>3 DEF Moves, Points
<1>5. at' \in [Strands -> 1 .. (MaxOps + 1)]
  <2>1. at[s] \in 1 .. MaxOps
    BY <1>1, <1>2, <1>3 DEF Finished
  <2> QED
    BY <1>3, <2>1 DEF Moves
<1>6. ActiveOK'
  BY <1>2, <1>3 DEF Moves, ActiveOK, Finished
<1>7. \A t \in Strands : (Started(t) => Started(t)') /\ (Finished(t) => Finished(t)')
  BY <1>1, <1>3 DEF Moves, Started, Finished
<1>8. Started(s)'
  BY <1>3 DEF Moves, Started
<1>9. StartOK'
  <2> SUFFICES ASSUME NEW x \in Strands, NEW t \in Strands, Started(x)', Before(t, x)'
               PROVE  Finished(t)'
    BY DEF StartOK
  <2>1. Before(t, x)
    BY DEF Before
  <2>2. CASE x = s
    BY <1>7, <2>1, <2>2 DEF StartOK, Starts, Started
  <2>3. CASE x # s
    <3>1. Started(x)
      BY <1>3, <2>3 DEF Moves, Started
    <3> QED
      BY <1>7, <2>1, <3>1 DEF StartOK
  <2> QED
    BY <2>2, <2>3
<1> QED
  BY <1>4, <1>5, <1>6, <1>7, <1>8, <1>9

(* The entry a strand allocates during a check is one of Entries. *)
LEMMA NewEntry ==
  ASSUME TypeOK, ActiveOK, NEW s \in Strands, pc[s] # "idle"
  PROVE  New(s) \in Entries /\ Accessor(New(s)) = s
PROOF
<1>1. Len(prog[s]) \in 1 .. MaxOps /\ at[s] \in 1 .. (MaxOps + 1) /\ MaxOps \in Nat
  BY ProgramLength, BoundAssumption DEF TypeOK
<1>2. at[s] \in 1 .. MaxOps
  BY <1>1 DEF ActiveOK, Finished
<1> QED
  BY <1>2 DEF New, Entries, Accessor

(* Entries are no null pointers, and their accessors are strands. *)
LEMMA EntryAccessor ==
  ASSUME NEW e \in Entries
  PROVE  e # NULL /\ Accessor(e) \in Strands
PROOF
  BY BoundAssumption DEF Entries, NULL, Accessor, Strands

(* The access that a check under way is for. *)
LEMMA CurrentAccess ==
  ASSUME TypeOK, ActiveOK, NEW s \in Strands, pc[s] # "idle"
  PROVE  at[s] \in 1 .. Len(prog[s]) /\ prog[s][at[s]] \in {"read", "write"}
PROOF
<1>1. prog[s] \in Programs /\ at[s] \in 1 .. (MaxOps + 1) /\ MaxOps \in Nat
  BY BoundAssumption DEF TypeOK
<1>2. Len(prog[s]) \in 1 .. MaxOps /\ prog[s] \in [1 .. Len(prog[s]) -> {"read", "write"}]
  BY <1>1, ProgramLength
<1>3. at[s] \in 1 .. Len(prog[s])
  BY <1>1, <1>2 DEF ActiveOK, Finished
<1> QED
  BY <1>2, <1>3

(* A check starts with shadow_mem.insert, or as its access says. *)
LEMMA EntryPoint ==
  ASSUME TypeOK, ActiveOK, NEW s \in Strands, Find(s) \/ InsertSlot(s)
  PROVE  /\ prog[s][at[s]] \in {"read", "write"}
         /\ pc'[s] \in {prog[s][at[s]], "insert", "idle"}
         /\ Find(s) \/ slot => pc'[s] # "idle"
PROOF
<1>1. ~Finished(s)
  BY DEF Find, InsertSlot, Done, Goto, ActiveOK
<1>2. prog[s] \in Programs /\ at[s] \in 1 .. (MaxOps + 1) /\ MaxOps \in Nat
  BY BoundAssumption DEF TypeOK
<1>3. Len(prog[s]) \in 1 .. MaxOps /\ prog[s] \in [1 .. Len(prog[s]) -> {"read", "write"}]
  BY <1>2, ProgramLength
<1>4. at[s] \in 1 .. Len(prog[s])
  BY <1>1, <1>2, <1>3 DEF Finished
<1>5. prog[s][at[s]] \in {"read", "write"}
  BY <1>3, <1>4
<1>6. pc \in [Strands -> Points]
  BY DEF TypeOK
<1> QED
  BY <1>5, <1>6 DEF Find, InsertSlot, Done, Goto

(* A step goes on with the check of its access. *)
LEMMA KindStep ==
  ASSUME TypeOK, ActiveOK, KindOK, NEW s \in Strands, Step(s), prog' = prog, Moves(s)
  PROVE  KindOK'
PROOF
<1>1. pc \in [Strands -> Points] /\ at \in [Strands -> 1 .. (MaxOps + 1)]
  BY DEF TypeOK
<1>2. /\ \A t \in Strands : t # s => pc'[t] = pc[t] /\ at'[t] = at[t]
      /\ IF pc'[s] = "idle" THEN at'[s] = at[s] + 1 ELSE at'[s] = at[s]
  BY <1>1 DEF Moves
<1> SUFFICES ASSUME pc'[s] # "idle"
             PROVE  /\ pc'[s] \in WritePoints => prog[s][at[s]] = "write"
                    /\ pc'[s] \in ReadPoints => prog[s][at[s]] = "read"
  BY <1>1, <1>2 DEF KindOK, WritePoints, ReadPoints
<1>3. CASE Find(s) \/ InsertSlot(s)
  BY <1>1, <1>3, EntryPoint DEF WritePoints, ReadPoints
<1>4. CASE Write(s)
  <2>1. pc[s] \in WritePoints /\ pc'[s] \in WritePoints
    BY <1>1, <1>4 DEF Write, LoadWriter, InstallWriter, CheckWriter, ReplaceWriter,
       LoadReaders, WalkReaders, ClearReaders, Done, Goto, WritePoints
  <2> QED
    BY <1>1, <2>1 DEF KindOK, WritePoints, ReadPoints
<1>5. CASE Read(s)
  <2>1. pc[s] \in ReadPoints /\ pc'[s] \in ReadPoints
    BY <1>1, <1>5 DEF Read, CheckWriterOfRead, LoadReader, LockInstall, StoreReader,
       CompareReader, LinkReader, PushReader, LockDedup, SearchReaders, AddReader,
       Done, Goto, ReadPoints
  <2> QED
    BY <1>1, <2>1 DEF KindOK, WritePoints, ReadPoints
<1> QED
  BY <1>3, <1>4, <1>5 DEF Step

(* What depends on the program only, a step leaves as it is. *)
LEMMA SameProgram ==
  ASSUME UNCHANGED program
  PROVE  /\ before' = before /\ prog' = prog /\ known' = known /\ node' = node
         /\ Races' = Races
         /\ \A x, y : Missed(x, y)' <=> Missed(x, y)
         /\ \A x, k : Accesses(x, k)' <=> Accesses(x, k)
PROOF
<1>1. before' = before /\ prog' = prog /\ known' = known /\ node' = node
  BY DEF program
<1>2. Races' = Races
  BY <1>1 DEF Races, WriteRaces, Parallel, Before, Accesses
<1>3. \A x, y : Missed(x, y)' <=> Missed(x, y)
  BY <1>1 DEF Missed, Before, Precedes
<1>4. \A x, k : Accesses(x, k)' <=> Accesses(x, k)
  BY <1>1 DEF Accesses
<1> QED
  BY <1>1, <1>2, <1>3, <1>4

(* What a query adds to the reports: with one access a write, a race or an *)
(* order that the query missed.                                            *)
LEMMA ReportIsRace ==
  ASSUME TypeOK, ActiveOK, StartOK, ReportsAreRaces, UNCHANGED program,
         NEW s \in Strands, pc[s] # "idle", NEW a \in Strands, Started(a), Report(a, s),
         \/ Accesses(a, "write") /\ (Accesses(s, "write") \/ Accesses(s, "read"))
         \/ Accesses(a, "read") /\ Accesses(s, "write")
  PROVE  ReportsAreRaces' /\ reports' \in SUBSET (Strands \X Strands)
PROOF
<1>1. ~Before(s, a)
  BY DEF StartOK, ActiveOK
<1>2. reports' = reports \/ (reports' = reports \cup {<<a, s>>} /\ ~Precedes(a, s))
  BY DEF Report
<1>3. \A p \in reports' : p \in reports \/ (p = <<a, s>> /\ ~Precedes(a, s))
  BY <1>2
<1>4. Races' = Races /\ \A x, y : Missed(x, y)' <=> Missed(x, y)
  BY SameProgram
<1>5. ~Precedes(a, s) => <<a, s>> \in Races \/ Missed(a, s)
  BY <1>1 DEF Races, WriteRaces, Parallel, Missed
<1>6. ReportsAreRaces'
  <2> SUFFICES ASSUME NEW p \in reports' PROVE p \in Races \/ Missed(p[1], p[2])
    BY <1>4 DEF ReportsAreRaces
  <2> QED
    BY <1>3, <1>5 DEF ReportsAreRaces
<1> QED
  BY <1>2, <1>6 DEF TypeOK

(* The steps of check_access and handle_write keep the history's part. *)
LEMMA WriteStep ==
  ASSUME HistoryInv, NEW s \in Strands, Find(s) \/ InsertSlot(s) \/ Write(s),
         UNCHANGED program,
         pc' \in [Strands -> Points], at' \in [Strands -> 1 .. (MaxOps + 1)],
         \A t \in Strands : Started(t) => Started(t)', Started(s)'
  PROVE  TypeOK' /\ RecordOK' /\ ReportsAreRaces'
PROOF
<1> USE DEF HistoryInv
<1> DEFINE Same == reports' = reports
<1>0. /\ \A x, k : Accesses(x, k)' <=> Accesses(x, k)
      /\ Races' = Races
      /\ \A x, y : Missed(x, y)' <=> Missed(x, y)
  BY SameProgram
<1>1. Same => ReportsAreRaces'
  BY <1>0 DEF ReportsAreRaces
<1>2. \A p \in Pointers : Recorded(p) =>
        (p # NULL => Started(Accessor(p))' /\ Accesses(Accessor(p), "read")')
  BY <1>0, EntryAccessor DEF Recorded, Pointers
<1>3. \A p \in Pointers : Recorded(p) => Recorded(p)'
  BY <1>2 DEF Recorded, Accessor
<1>4. writer' = writer => RecordedWriter(writer)'
  BY <1>0 DEF RecordOK, TypeOK, RecordedWriter
<1>5. Nobody \notin Strands /\ pc \in [Strands -> Points]
  BY DEF Nobody, Strands, TypeOK
<1>k. /\ pc[s] \in WritePoints => Accesses(s, "write")
      /\ pc[s] \in ReadPoints => Accesses(s, "read")
  BY CurrentAccess DEF KindOK, Accesses, WritePoints, ReadPoints
<1>6. CASE Find(s)
  <2>1. TypeOK'
    BY <1>6 DEF Find, program, shared, locals, TypeOK
  <2>2. \A t \in Strands : pc'[t] = "checkwriter" => pc[t] = "checkwriter"
    <3>1. prog[s][at[s]] \in {"read", "write"}
      <4>1. at[s] \in Nat \ {0} /\ at[s] <= Len(prog[s]) /\ prog[s] \in Programs
        BY <1>6, ProgramLength DEF Find, Finished, TypeOK
      <4> QED
        BY <4>1, ProgramLength
    <3> QED
      BY <1>5, <1>6, <3>1 DEF Find, Goto
  <2> QED
    BY <1>1, <1>3, <1>4, <1>6, <2>1, <2>2 DEF Find, shared, locals, RecordOK, TypeOK
<1>7. CASE InsertSlot(s)
  <2>1. pc[s] # "idle"
    BY <1>7 DEF InsertSlot, Done, Goto
  <2>2. New(s) \in Entries /\ Accessor(New(s)) = s
    BY <2>1, NewEntry
  <2>3. TypeOK'
    BY <1>7, <2>2 DEF InsertSlot, program, shared, locals, TypeOK, Pointers
  <2>4. Recorded(head)'
    <3>1. prog[s][at[s]] = "read" => Accesses(s, "read")
      BY <2>1, CurrentAccess DEF Accesses
    <3> QED
      BY <1>0, <1>3, <1>7, <2>2, <3>1 DEF InsertSlot, shared, Recorded, RecordOK, TypeOK, Accessor
  <2>5. \A t \in Strands : pc'[t] = "checkwriter" => pc[t] = "checkwriter"
    <3>1. prog[s][at[s]] \in {"read", "write"}
      <4>1. at[s] \in Nat \ {0} /\ at[s] <= Len(prog[s]) /\ prog[s] \in Programs
        BY <2>1, ProgramLength DEF ActiveOK, Finished, TypeOK
      <4> QED
        BY <4>1, ProgramLength
    <3> QED
      BY <1>5, <1>7, <3>1 DEF InsertSlot, Done, Goto
  <2>6. RecordedWriter(writer)'
    <3>1. prog[s][at[s]] = "write" => Accesses(s, "write")
      BY <2>1, CurrentAccess DEF Accesses
    <3> QED
      BY <1>0, <1>4, <1>7, <3>1 DEF InsertSlot, shared, RecordedWriter
  <2>7. writer # Nobody => writer' # Nobody
    BY <1>5, <1>7 DEF InsertSlot, shared
  <2> QED
    BY <1>1, <1>3, <1>7, <2>3, <2>4, <2>5, <2>6, <2>7
    DEF InsertSlot, shared, locals, RecordOK, TypeOK
<1>8. CASE LoadWriter(s)
  <2>1. TypeOK'
    BY <1>8 DEF LoadWriter, program, shared, locals, TypeOK
  <2> QED
    BY <1>1, <1>3, <1>4, <1>5, <1>8, <2>1 DEF LoadWriter, Goto, shared, locals, RecordOK, TypeOK
<1>9. CASE InstallWriter(s)
  <2>0. RecordedWriter(writer)'
    BY <1>0, <1>k, <1>4, <1>9 DEF InstallWriter, Goto, WritePoints, RecordedWriter
  <2>1. TypeOK'
    BY <1>9 DEF InstallWriter, program, locals, TypeOK
  <2> QED
    BY <1>1, <1>3, <1>5, <1>9, <2>0, <2>1 DEF InstallWriter, Goto, locals, RecordOK, TypeOK
<1>10. CASE CheckWriter(s)
  <2>1. /\ pc[s] # "idle" /\ writer \in Strands /\ Started(writer)
        /\ Accesses(writer, "write") /\ Accesses(s, "write")
    BY <1>k, <1>10 DEF CheckWriter, Goto, RecordOK, RecordedWriter, TypeOK, WritePoints
  <2>2. ReportsAreRaces' /\ reports' \in SUBSET (Strands \X Strands)
    <3>1. CASE reports' = reports
      BY <1>1, <3>1 DEF TypeOK
    <3>2. CASE Report(writer, s)
      BY <2>1, <3>2, ReportIsRace
    <3> QED
      BY <1>10, <3>1, <3>2 DEF CheckWriter
  <2>3. TypeOK'
    BY <1>10, <2>2 DEF CheckWriter, program, shared, locals, TypeOK
  <2> QED
    BY <1>3, <1>4, <1>5, <1>10, <2>2, <2>3
    DEF CheckWriter, Goto, shared, locals, RecordOK, TypeOK
<1>11. CASE ReplaceWriter(s)
  <2>0. RecordedWriter(writer)'
    BY <1>0, <1>k, <1>11 DEF ReplaceWriter, Goto, WritePoints, RecordedWriter
  <2>1. TypeOK'
    BY <1>11 DEF ReplaceWriter, program, locals, TypeOK
  <2> QED
    BY <1>1, <1>3, <1>5, <1>11, <2>0, <2>1 DEF ReplaceWriter, Goto, locals, RecordOK, TypeOK
<1>12. CASE LoadReaders(s)
  <2>1. TypeOK'
    BY <1>12 DEF LoadReaders, program, shared, TypeOK
  <2> QED
    BY <1>1, <1>3, <1>4, <1>5, <1>12, <2>1 DEF LoadReaders, Goto, shared, RecordOK, TypeOK
<1>13. CASE WalkReaders(s)
  <2>1. reader[s] \in Entries /\ Accessor(reader[s]) \in Strands /\ pc[s] # "idle"
    BY <1>13, EntryAccessor DEF WalkReaders, TypeOK, Pointers
  <2>2. /\ Started(Accessor(reader[s])) /\ Accesses(Accessor(reader[s]), "read")
        /\ Accesses(s, "write")
    BY <1>k, <1>13 DEF WalkReaders, RecordOK, Recorded, WritePoints
  <2>3. ReportsAreRaces' /\ reports' \in SUBSET (Strands \X Strands)
    <3>1. CASE reports' = reports
      BY <1>1, <3>1 DEF TypeOK
    <3>2. CASE Report(Accessor(reader[s]), s)
      BY <2>1, <2>2, <3>2, ReportIsRace
    <3> QED
      BY <1>13, <3>1, <3>2 DEF WalkReaders
  <2>4. TypeOK'
    <3>1. /\ freed' \in SUBSET Entries /\ undefined' \in BOOLEAN
          /\ reader' \in [Strands -> Pointers]
      <4>1. /\ next[reader[s]] \in Pointers /\ reader \in [Strands -> Pointers]
            /\ freed \in SUBSET Entries /\ undefined \in BOOLEAN
        BY <2>1 DEF TypeOK
      <4>2. /\ freed' = freed \/ freed' = freed \cup {reader[s]}
            /\ reader' = reader \/ reader' = [reader EXCEPT ![s] = next[reader[s]]]
            /\ undefined' = undefined \/ undefined' = TRUE
        BY <1>13 DEF WalkReaders
      <4> QED
        BY <2>1, <4>1, <4>2
    <3>2. /\ UNCHANGED <<before, prog, known, node, at, pc, slot>>
          /\ UNCHANGED <<writer, head, next, rlock, tmp, overlap>>
      BY <1>13 DEF WalkReaders, program
    <3> QED
      BY <2>3, <3>1, <3>2 DEF TypeOK
  <2> QED
    BY <1>3, <1>4, <1>5, <1>13, <2>1, <2>3, <2>4 DEF WalkReaders, RecordOK, TypeOK
<1>14. CASE ClearReaders(s)
  <2>1. TypeOK'
    BY <1>14 DEF ClearReaders, program, locals, TypeOK, Pointers
  <2>2. Recorded(head)'
    BY <1>14 DEF ClearReaders, Recorded
  <2> QED
    BY <1>1, <1>3, <1>4, <1>5, <1>14, <2>1, <2>2
    DEF ClearReaders, Done, Goto, locals, RecordOK, TypeOK
<1> QED
  BY <1>6, <1>7, <1>8, <1>9, <1>10, <1>11, <1>12, <1>13, <1>14 DEF Write

(* The steps of handle_read keep the history's part. *)
LEMMA ReadStep ==
  ASSUME HistoryInv, NEW s \in Strands, Read(s),
         UNCHANGED program,
         pc' \in [Strands -> Points], at' \in [Strands -> 1 .. (MaxOps + 1)],
         \A t \in Strands : Started(t) => Started(t)', Started(s)'
  PROVE  TypeOK' /\ RecordOK' /\ ReportsAreRaces'
PROOF
<1> USE DEF HistoryInv
<1>0. /\ \A x, k : Accesses(x, k)' <=> Accesses(x, k)
      /\ Races' = Races
      /\ \A x, y : Missed(x, y)' <=> Missed(x, y)
  BY SameProgram
<1>1. reports' = reports => ReportsAreRaces'
  BY <1>0 DEF ReportsAreRaces
<1>2. \A p \in Pointers : Recorded(p) =>
        (p # NULL => Started(Accessor(p))' /\ Accesses(Accessor(p), "read")')
  BY <1>0, EntryAccessor DEF Recorded, Pointers
<1>3. \A p \in Pointers : Recorded(p) => Recorded(p)'
  BY <1>2 DEF Recorded, Accessor
<1>4. writer' = writer => RecordedWriter(writer)'
  BY <1>0 DEF RecordOK, TypeOK, RecordedWriter
<1>5. pc \in [Strands -> Points]
  BY DEF TypeOK
<1>k. /\ pc[s] \in WritePoints => Accesses(s, "write")
      /\ pc[s] \in ReadPoints => Accesses(s, "read")
  BY CurrentAccess DEF KindOK, Accesses, WritePoints, ReadPoints
<1>6. pc[s] # "idle" => New(s) \in Entries /\ Accessor(New(s)) = s
  BY NewEntry
<1>7. CASE CheckWriterOfRead(s)
  <2>1. ReportsAreRaces' /\ reports' \in SUBSET (Strands \X Strands)
    <3>1. CASE writer = Nobody
      BY <1>1, <1>7, <3>1 DEF CheckWriterOfRead, TypeOK
    <3>2. CASE writer # Nobody
      <4>1. /\ writer \in Strands /\ Started(writer) /\ pc[s] # "idle" /\ Report(writer, s)
            /\ Accesses(writer, "write") /\ Accesses(s, "read")
        BY <1>k, <1>7, <3>2
        DEF CheckWriterOfRead, Goto, RecordOK, RecordedWriter, TypeOK, ReadPoints
      <4> QED
        BY <4>1, ReportIsRace
    <3> QED
      BY <3>1, <3>2
  <2>2. TypeOK'
    BY <1>7, <2>1 DEF CheckWriterOfRead, program, shared, locals, TypeOK
  <2> QED
    BY <1>3, <1>4, <1>5, <1>7, <2>1, <2>2
    DEF CheckWriterOfRead, Goto, shared, locals, RecordOK, TypeOK
<1>8. CASE LoadReader(s)
  <2>1. TypeOK'
    BY <1>8 DEF LoadReader, program, shared, TypeOK
  <2> QED
    BY <1>1, <1>3, <1>4, <1>5, <1>8, <2>1 DEF LoadReader, Goto, shared, RecordOK, TypeOK
<1>9. CASE LockInstall(s)
  <2>1. TypeOK'
    BY <1>9 DEF LockInstall, program, locals, TypeOK
  <2> QED
    BY <1>1, <1>3, <1>4, <1>5, <1>9, <2>1 DEF LockInstall, Goto, locals, RecordOK, TypeOK
<1>10. CASE StoreReader(s)
  <2>1. New(s) \in Entries /\ Accessor(New(s)) = s
    BY <1>6, <1>10 DEF StoreReader, Goto
  <2>2. TypeOK'
    BY <1>10, <2>1 DEF StoreReader, program, locals, TypeOK, Pointers
  <2>3. Recorded(head)'
    BY <1>0, <1>k, <1>10, <2>1 DEF StoreReader, Goto, Recorded, Accessor, ReadPoints
  <2> QED
    BY <1>1, <1>3, <1>4, <1>5, <1>10, <2>2, <2>3
    DEF StoreReader, Goto, locals, RecordOK, TypeOK
<1>11. CASE CompareReader(s)
  <2>1. TypeOK'
    BY <1>11 DEF CompareReader, program, shared, locals, TypeOK
  <2> QED
    BY <1>1, <1>3, <1>4, <1>5, <1>11, <2>1
    DEF CompareReader, Done, Goto, shared, locals, RecordOK, TypeOK
<1>12. CASE LinkReader(s)
  <2>1. New(s) \in Entries /\ pc[s] = "link"
    BY <1>6, <1>12 DEF LinkReader, Goto
  <2>2. TypeOK'
    <3>1. next' \in [Entries -> Pointers] /\ undefined' \in BOOLEAN
      BY <1>12, <2>1 DEF LinkReader, TypeOK
    <3> QED
      BY <1>12, <3>1 DEF LinkReader, program, locals, TypeOK
  <2>3. \A e \in Entries : next'[e] = next[e] \/ next'[e] = head
    BY <1>12, <2>1 DEF LinkReader, TypeOK
  <2>4. \A e \in Entries : Recorded(next[e])'
    BY <1>3, <1>12, <2>3 DEF LinkReader, RecordOK, TypeOK, Recorded
  <2> QED
    BY <1>1, <1>3, <1>4, <1>5, <1>12, <2>2, <2>4
    DEF LinkReader, Goto, locals, RecordOK, TypeOK
<1>13. CASE PushReader(s)
  <2>1. New(s) \in Entries /\ Accessor(New(s)) = s
    BY <1>6, <1>13 DEF PushReader, Done, Goto
  <2>2. TypeOK'
    BY <1>13, <2>1 DEF PushReader, program, locals, TypeOK, Pointers
  <2>3. Recorded(head)'
    BY <1>0, <1>k, <1>13, <2>1 DEF PushReader, Done, Goto, Recorded, Accessor, ReadPoints
  <2> QED
    BY <1>1, <1>3, <1>4, <1>5, <1>13, <2>2, <2>3
    DEF PushReader, Done, Goto, locals, RecordOK, TypeOK
<1>14. CASE LockDedup(s)
  <2>1. TypeOK'
    BY <1>14 DEF LockDedup, program, TypeOK
  <2> QED
    BY <1>1, <1>3, <1>4, <1>5, <1>14, <2>1 DEF LockDedup, Goto, RecordOK, TypeOK
<1>15. CASE SearchReaders(s)
  <2>1. tmp[s] \in Entries
    BY <1>15 DEF SearchReaders, TypeOK, Pointers
  <2>2. TypeOK'
    <3>1. /\ rlock' \in Strands \cup {Nobody} /\ undefined' \in BOOLEAN
          /\ tmp' \in [Strands -> Pointers]
      <4>1. /\ next[tmp[s]] \in Pointers /\ tmp \in [Strands -> Pointers]
            /\ rlock \in Strands \cup {Nobody} /\ undefined \in BOOLEAN
        BY <2>1 DEF TypeOK
      <4>2. /\ rlock' = rlock \/ rlock' = Nobody
            /\ tmp' = tmp \/ tmp' = [tmp EXCEPT ![s] = next[tmp[s]]]
            /\ undefined' = undefined \/ undefined' = TRUE
        BY <1>15 DEF SearchReaders
      <4> QED
        BY <2>1, <4>1, <4>2
    <3>2. /\ UNCHANGED <<before, prog, known, node, slot, writer, head, next, freed>>
          /\ UNCHANGED <<reader, reports, overlap>>
      BY <1>15 DEF SearchReaders, program
    <3> QED
      BY <3>1, <3>2 DEF TypeOK
  <2> QED
    BY <1>1, <1>3, <1>4, <1>5, <1>15, <2>2
    DEF SearchReaders, Done, Goto, RecordOK, TypeOK
<1>16. CASE AddReader(s)
  <2>1. New(s) \in Entries /\ Accessor(New(s)) = s
    BY <1>6, <1>16 DEF AddReader, Done, Goto
  <2>2. TypeOK'
    BY <1>16, <2>1 DEF AddReader, program, locals, TypeOK, Pointers
  <2>3. Recorded(head)'
    BY <1>0, <1>k, <1>16, <2>1 DEF AddReader, Done, Goto, Recorded, Accessor, ReadPoints
  <2>4. \A e \in Entries : next'[e] = next[e] \/ next'[e] = reader[s]
    BY <1>16, <2>1 DEF AddReader, TypeOK
  <2>5. \A e \in Entries : Recorded(next[e])'
    BY <1>3, <1>16, <2>4 DEF AddReader, RecordOK, TypeOK, Recorded
  <2> QED
    BY <1>1, <1>3, <1>4, <1>5, <1>16, <2>2, <2>3, <2>5
    DEF AddReader, Done, Goto, locals, RecordOK, TypeOK
<1> QED
  BY <1>7, <1>8, <1>9, <1>10, <1>11, <1>12, <1>13, <1>14, <1>15, <1>16 DEF Read

-----------------------------------------------------------------------------
(* The history starts empty. *)
LEMMA HistoryInit == Init => HistoryInv
PROOF
<1> SUFFICES ASSUME Init PROVE HistoryInv
  OBVIOUS
<1>1. TypeOK
  <2>1. /\ before \in SUBSET (Strands \X Strands) /\ prog \in [Strands -> Programs]
        /\ known \in SUBSET (Strands \X Strands) /\ node \in [Strands -> Strands]
    BY CaseAssumption DEF Init
  <2>2. at \in [Strands -> 1 .. (MaxOps + 1)]
    BY BoundAssumption DEF Init
  <2>3. /\ pc \in [Strands -> Points]
        /\ head \in Pointers /\ next \in [Entries -> Pointers]
        /\ reader \in [Strands -> Pointers] /\ tmp \in [Strands -> Pointers]
    BY DEF Init, Points, Pointers
  <2> QED
    BY <2>1, <2>2, <2>3 DEF Init, TypeOK
<1>2. ActiveOK /\ KindOK /\ StartOK /\ RecordOK /\ ReportsAreRaces
  BY DEF Init, ActiveOK, KindOK, WritePoints, ReadPoints, StartOK, RecordOK, ReportsAreRaces,
         Started, Recorded, RecordedWriter
<1> QED
  BY <1>1, <1>2 DEF HistoryInv

(* Every step keeps the invariant. *)
LEMMA HistoryNext == HistoryInv /\ [Next]_vars => HistoryInv'
PROOF
<1> SUFFICES ASSUME HistoryInv, [Next]_vars PROVE HistoryInv'
  OBVIOUS
<1>1. CASE UNCHANGED vars
  <2>1. /\ UNCHANGED program /\ UNCHANGED <<before, prog, known, node, at, pc, slot, writer>>
        /\ UNCHANGED <<head, next, freed, rlock, reader, tmp, reports, undefined, overlap>>
    BY <1>1 DEF vars, program, shared, locals
  <2>2. /\ \A x, k : Accesses(x, k)' <=> Accesses(x, k)
        /\ \A x, y : Missed(x, y)' <=> Missed(x, y)
        /\ Races' = Races
    BY <2>1, SameProgram
  <2>3. TypeOK' /\ ActiveOK' /\ KindOK' /\ StartOK'
    BY <2>1 DEF HistoryInv, TypeOK, ActiveOK, KindOK, StartOK, Started, Finished, Before
  <2>4. RecordOK' /\ ReportsAreRaces'
    BY <2>1, <2>2 DEF HistoryInv, RecordOK, ReportsAreRaces, Recorded, RecordedWriter, Started,
       Accessor
  <2> QED
    BY <2>3, <2>4 DEF HistoryInv
<1>2. ASSUME NEW s \in Strands, Step(s) PROVE HistoryInv'
  <2>1. TypeOK /\ ActiveOK /\ StartOK /\ KindOK
    BY DEF HistoryInv
  <2>2. UNCHANGED program /\ before' = before /\ prog' = prog /\ Moves(s) /\ Starts(s)
    BY <1>2, <2>1, StepControl, SameProgram
  <2>3. /\ pc' \in [Strands -> Points]
        /\ at' \in [Strands -> 1 .. (MaxOps + 1)]
        /\ ActiveOK'
        /\ KindOK'
        /\ StartOK'
        /\ \A t \in Strands : Started(t) => Started(t)'
        /\ Started(s)'
    BY <1>2, <2>1, <2>2, ControlStep, KindStep
  <2>4. TypeOK' /\ RecordOK' /\ ReportsAreRaces'
    <3>1. CASE Find(s) \/ InsertSlot(s) \/ Write(s)
      BY <2>2, <2>3, <3>1, WriteStep
    <3>2. CASE Read(s)
      BY <2>2, <2>3, <3>2, ReadStep
    <3> QED
      BY <1>2, <3>1, <3>2 DEF Step
  <2> QED
    BY <2>3, <2>4 DEF HistoryInv
<1> QED
  BY <1>1, <1>2 DEF Next, Stopped

(* The fields of the access history keep their types: no check queries or  *)
(* walks anything but entries that a strand made.                          *)
THEOREM HistoryTypeCorrect == Spec => []TypeOK
PROOF
<1>1. HistoryInv => TypeOK
  BY DEF HistoryInv
<1> QED
  BY <1>1, HistoryInit, HistoryNext, PTL DEF Spec

(* handle_read and handle_write report nothing but races and strands whose *)
(* order a query missed, however the checks of parallel strands            *)
(* interleave: the recorded strand never comes after the current one, and  *)
(* one of the two accesses is a write.                                     *)
THEOREM OnlyRacesReported == Spec => []ReportsAreRaces
PROOF
<1>1. HistoryInv => ReportsAreRaces
  BY DEF HistoryInv
<1> QED
  BY <1>1, HistoryInit, HistoryNext, PTL DEF Spec

-----------------------------------------------------------------------------
(* The order is strict and transitive, a query never finds one that is not *)
(* there, and strands with the same node are ordered.                      *)
DagOK == /\ \A s \in Strands : ~Before(s, s)
         /\ \A s, t, u \in Strands : Before(s, t) /\ Before(t, u) => Before(s, u)
         /\ \A s, t \in Strands : Precedes(s, t) => Before(s, t)
         /\ \A s, t \in Strands : s # t /\ node[s] = node[t] => Before(s, t) \/ Before(t, s)

(* Two checks under way at the same time have been recorded. *)
OverlapOK == \A s, t \in Strands :
  s # t /\ pc[s] # "idle" /\ pc[t] # "idle" => <<s, t>> \in overlap \/ <<t, s>> \in overlap

(* Until the MemAccessList_t is there, nothing was recorded. *)
SlotOK == ~slot => /\ writer = Nobody /\ head = NULL
                   /\ \A s \in Strands : at[s] = 1 /\ pc[s] \in {"idle", "insert"}

(* What a strand has done to the location. *)
Did(s, kind) == \E i \in 1 .. (at[s] - 1) : prog[s][i] = kind
Wrote(s)     == Did(s, "write") \/ pc[s] \in {"loadreaders", "walk"}

UpTo(a, b) == a = b \/ Before(a, b)

(* No two racing checks overlapped, and no race was reported. *)
Silent == RacingOverlap = {} /\ ~Found

(* As long as nothing is reported, the writers form a chain that ends with *)
(* the recorded one.                                                       *)
LastWriterOK == Silent =>
  /\ \A s \in Strands : Wrote(s) => writer # Nobody /\ UpTo(s, writer)
  /\ \A s \in Strands : pc[s] = "replacewriter" => UpTo(writer, s)
  /\ \A s, t \in Strands : Wrote(s) /\ Wrote(t) => UpTo(s, t) \/ UpTo(t, s)


RaceInv == HistoryInv /\ DagOK /\ OverlapOK /\ SlotOK

(* Nothing recorded is lost, and only a strand that starts a check is      *)
(* recorded as overlapping.                                                *)
LEMMA StepGrows ==
  ASSUME NEW s \in Strands, Step(s)
  PROVE  /\ overlap \subseteq overlap' /\ reports \subseteq reports'
         /\ Find(s) \/ overlap' = overlap
PROOF
<1>1. CASE Find(s) \/ InsertSlot(s)
  BY <1>1 DEF Find, InsertSlot
<1>2. CASE Write(s)
  BY <1>2 DEF Write, LoadWriter, InstallWriter, CheckWriter, ReplaceWriter, LoadReaders,
     WalkReaders, ClearReaders, Report
<1>3. CASE Read(s)
  BY <1>3 DEF Read, CheckWriterOfRead, LoadReader, LockInstall, StoreReader, CompareReader,
     LinkReader, PushReader, LockDedup, SearchReaders, AddReader, Report
<1> QED
  BY <1>1, <1>2, <1>3 DEF Step

(* What was not reported or did not overlap before a step is still not so  *)
(* if it is not after the step.                                            *)
LEMMA SilentBefore ==
  ASSUME NEW s \in Strands, Step(s), before' = before, prog' = prog
  PROVE  /\ Found => Found'
         /\ Silent' => Silent
         /\ overlap' = {} => overlap = {}
PROOF
<1>1. overlap \subseteq overlap' /\ reports \subseteq reports'
  BY StepGrows
<1>2. Races' = Races
  BY DEF Races, WriteRaces, Parallel, Before, Accesses
<1>3. Found => Found'
  BY <1>1 DEF Found, Parallel, Before
<1>4. RacingOverlap \subseteq RacingOverlap'
  BY <1>1, <1>2 DEF RacingOverlap
<1> QED
  BY <1>1, <1>3, <1>4 DEF Silent

(* While a strand checks a write, any other check races with it. *)
LEMMA Exclusive ==
  ASSUME RaceInv, NEW s \in Strands, NEW t \in Strands, s # t,
         pc[s] \in WritePoints, pc[t] # "idle"
  PROVE  RacingOverlap # {}
PROOF
<1>1. pc[s] # "idle" /\ TypeOK /\ ActiveOK /\ StartOK
  BY DEF WritePoints, RaceInv, HistoryInv
<1>2. <<s, t>> \in overlap \/ <<t, s>> \in overlap
  BY <1>1 DEF RaceInv, OverlapOK
<1>3. ~Before(s, t) /\ ~Before(t, s)
  BY <1>1 DEF StartOK, ActiveOK, Started
<1>4. Accesses(s, "write")
  BY <1>1, CurrentAccess DEF RaceInv, HistoryInv, KindOK, Accesses
<1>5. Accesses(t, "read") \/ Accesses(t, "write")
  BY <1>1, CurrentAccess DEF Accesses
<1>6. <<s, t>> \in Races /\ <<t, s>> \in Races
  BY <1>3, <1>4, <1>5 DEF Races, WriteRaces, Parallel
<1> QED
  BY <1>2, <1>6 DEF RacingOverlap

(* A step changes the control state of its strand only, and what a strand  *)
(* did grows by the access it has finished checking.                       *)
LEMMA DidStep ==
  ASSUME TypeOK, NEW s \in Strands, prog' = prog, Moves(s)
  PROVE  /\ \A t \in Strands : t # s => pc'[t] = pc[t] /\ at'[t] = at[t]
         /\ \A t \in Strands, k \in {"read", "write"} :
              t # s \/ pc'[s] # "idle" => (Did(t, k)' <=> Did(t, k))
         /\ \A k \in {"read", "write"} :
              pc'[s] = "idle" => (Did(s, k)' <=> Did(s, k) \/ prog[s][at[s]] = k)
         /\ IF pc'[s] = "idle" THEN at'[s] = at[s] + 1 ELSE at'[s] = at[s]
PROOF
<1>1. at \in [Strands -> 1 .. (MaxOps + 1)] /\ pc \in [Strands -> Points] /\ MaxOps \in Nat
  BY BoundAssumption DEF TypeOK
<1>2. \A t \in Strands : t # s => pc'[t] = pc[t] /\ at'[t] = at[t]
  BY <1>1 DEF Moves
<1>3. IF pc'[s] = "idle" THEN at'[s] = at[s] + 1 ELSE at'[s] = at[s]
  BY <1>1 DEF Moves
<1>4. \A t \in Strands, k \in {"read", "write"} :
        t # s \/ pc'[s] # "idle" => (Did(t, k)' <=> Did(t, k))
  BY <1>2, <1>3 DEF Did
<1>5. ASSUME pc'[s] = "idle", NEW k \in {"read", "write"}
      PROVE  Did(s, k)' <=> Did(s, k) \/ prog[s][at[s]] = k
  <2>1. at[s] \in Nat \ {0} /\ at'[s] = at[s] + 1
    BY <1>1, <1>3, <1>5
  <2>2. \A i : i \in 1 .. (at'[s] - 1) <=> i \in 1 .. (at[s] - 1) \/ i = at[s]
    BY <2>1
  <2> QED
    BY <2>2 DEF Did
<1> QED
  BY <1>2, <1>3, <1>4, <1>5

(* The program is a dag, and the order of its strands does not change. *)
LEMMA DagInit == Init => DagOK
PROOF
<1> SUFFICES ASSUME Init PROVE DagOK
  OBVIOUS
<1>1. PICK c \in Cases : before = c.before /\ known = c.known /\ node = c.node
  BY DEF Init
<1>2. /\ \A s \in Strands : <<s, s>> \notin before
      /\ \A p, q \in before : p[2] = q[1] => <<p[1], q[2]>> \in before
      /\ known \subseteq before
      /\ \A s, t \in Strands : s # t /\ node[s] = node[t] => <<s, t>> \in before \/ <<t, s>> \in before
  BY <1>1, CaseAssumption
<1>3. ASSUME NEW s \in Strands, NEW t \in Strands, NEW u \in Strands,
             <<s, t>> \in before, <<t, u>> \in before
      PROVE  <<s, u>> \in before
  <2>1. <<s, t>>[2] = <<t, u>>[1]
    OBVIOUS
  <2>2. << <<s, t>>[1], <<t, u>>[2] >> \in before
    BY <1>2, <1>3, <2>1
  <2> QED
    BY <2>2
<1> QED
  BY <1>2, <1>3 DEF DagOK, Before, Precedes


(* A strand that starts a check is recorded with all that are checking. *)
LEMMA OverlapStep ==
  ASSUME RaceInv, NEW s \in Strands, Step(s), prog' = prog, Moves(s)
  PROVE  OverlapOK'
PROOF
<1>1. TypeOK /\ OverlapOK
  BY DEF RaceInv, HistoryInv
<1>2. \A t \in Strands : t # s => pc'[t] = pc[t]
  BY <1>1, DidStep
<1>3. overlap \subseteq overlap'
  BY StepGrows
<1>4. ASSUME NEW t \in Strands, t # s, pc'[s] # "idle", pc[t] # "idle"
      PROVE  <<s, t>> \in overlap' \/ <<t, s>> \in overlap'
  <2>1. CASE pc[s] # "idle"
    BY <1>1, <1>3, <1>4, <2>1 DEF OverlapOK
  <2>2. CASE pc[s] = "idle"
    <3>1. Find(s)
      BY <2>2 DEF Step, InsertSlot, Write, LoadWriter, InstallWriter, CheckWriter,
         ReplaceWriter, LoadReaders, WalkReaders, ClearReaders, Read, CheckWriterOfRead,
         LoadReader, LockInstall, StoreReader, CompareReader, LinkReader, PushReader,
         LockDedup, SearchReaders, AddReader, Done, Goto
    <3>2. overlap' = overlap \cup {<<s, x>> : x \in {u \in Strands \ {s} : pc[u] # "idle"}}
      BY <3>1 DEF Find
    <3> QED
      BY <1>4, <3>2
  <2> QED
    BY <2>1, <2>2
<1> QED
  BY <1>1, <1>2, <1>3, <1>4 DEF OverlapOK

(* Nothing is recorded before the slot is there. *)
LEMMA SlotStep ==
  ASSUME RaceInv, NEW s \in Strands, Step(s), prog' = prog, Moves(s)
  PROVE  SlotOK'
PROOF
<1>1. TypeOK /\ SlotOK /\ pc \in [Strands -> Points]
  BY DEF RaceInv, HistoryInv, TypeOK
<1>2. /\ \A t \in Strands : t # s => pc'[t] = pc[t] /\ at'[t] = at[t]
      /\ IF pc'[s] = "idle" THEN at'[s] = at[s] + 1 ELSE at'[s] = at[s]
  BY <1>1, DidStep
<1> SUFFICES ASSUME ~slot'
             PROVE  /\ writer' = Nobody /\ head' = NULL
                    /\ \A t \in Strands : at'[t] = 1 /\ pc'[t] \in {"idle", "insert"}
  BY DEF SlotOK
<1>3. ~slot
  BY DEF Step, Find, InsertSlot, Write, LoadWriter, InstallWriter, CheckWriter,
     ReplaceWriter, LoadReaders, WalkReaders, ClearReaders, Read, CheckWriterOfRead,
     LoadReader, LockInstall, StoreReader, CompareReader, LinkReader, PushReader,
     LockDedup, SearchReaders, AddReader, shared
<1>4. writer = Nobody /\ head = NULL /\ \A t \in Strands : at[t] = 1 /\ pc[t] \in {"idle", "insert"}
  BY <1>1, <1>3 DEF SlotOK
<1>5. Find(s)
  BY <1>3, <1>4 DEF Step, InsertSlot, Write, LoadWriter, InstallWriter, CheckWriter,
     ReplaceWriter, LoadReaders, WalkReaders, ClearReaders, Read, CheckWriterOfRead,
     LoadReader, LockInstall, StoreReader, CompareReader, LinkReader, PushReader,
     LockDedup, SearchReaders, AddReader, Done, Goto
<1>6. writer' = writer /\ head' = head /\ at' = at /\ pc'[s] = "insert"
  BY <1>1, <1>3, <1>5 DEF Find, Goto, shared
<1> QED
  BY <1>2, <1>4, <1>6


(* The invariant holds from the start, and every step keeps it. *)
LEMMA RaceInit == Init => RaceInv
PROOF
<1> SUFFICES ASSUME Init PROVE RaceInv
  OBVIOUS
<1>1. \A s \in Strands : pc[s] = "idle" /\ at[s] = 1
  BY DEF Init
<1>2. OverlapOK
  BY <1>1 DEF OverlapOK
<1>3. SlotOK
  BY <1>1 DEF Init, SlotOK
<1> QED
  BY <1>2, <1>3, HistoryInit, DagInit DEF RaceInv

(* The same for every step, with what a step leaves alone. *)
LEMMA RaceNext ==
  ASSUME RaceInv, NEW s \in Strands, Step(s)
  PROVE  RaceInv' /\ before' = before /\ prog' = prog /\ Moves(s)
PROOF
<1>1. HistoryInv'
  BY HistoryNext DEF RaceInv, Next
<1>2. /\ before' = before /\ prog' = prog /\ known' = known /\ node' = node
      /\ Moves(s)
  BY StepControl, SameProgram DEF RaceInv, HistoryInv
<1>3. DagOK'
  BY <1>2 DEF RaceInv, DagOK, Before, Precedes
<1>4. OverlapOK' /\ SlotOK'
  BY <1>2, OverlapStep, SlotStep
<1> QED
  BY <1>1, <1>2, <1>3, <1>4 DEF RaceInv

(* In a dag, what is up to the middle is up to the end. *)
LEMMA UpToTransitive ==
  ASSUME DagOK, NEW a \in Strands, NEW b \in Strands, NEW c \in Strands,
         UpTo(a, b), UpTo(b, c)
  PROVE  UpTo(a, c)
PROOF
  BY DEF DagOK, UpTo

(* A query of a strand in the history that reports no race: the two are    *)
(* the same, or the strand of the history comes first.                     *)
LEMMA UnreportedUpTo ==
  ASSUME DagOK, StartOK, ActiveOK, before' = before,
         NEW s \in Strands, pc[s] # "idle", NEW a \in Strands, Started(a),
         Report(a, s), ~Found'
  PROVE  UpTo(a, s)
PROOF
<1>1. CASE Precedes(a, s)
  BY <1>1 DEF DagOK, UpTo
<1>2. CASE ~Precedes(a, s)
  <2>1. <<a, s>> \in reports'
    BY <1>2 DEF Report
  <2>2. ~Parallel(a, s)
    BY <2>1 DEF Found, Parallel, Before
  <2>3. ~Before(s, a)
    BY DEF StartOK, ActiveOK
  <2> QED
    BY <2>2, <2>3 DEF Parallel, UpTo
<1> QED
  BY <1>1, <1>2

(* A write that does not overlap a racing check is alone. *)
LEMMA AloneInWrite ==
  ASSUME RaceInv, Silent, NEW s \in Strands, pc[s] \in WritePoints
  PROVE  \A t \in Strands : t # s => pc[t] = "idle"
PROOF
  BY Exclusive DEF Silent

(* A step that leaves the last writer. *)
LEMMA WriterKept ==
  ASSUME LastWriterOK, Silent, NEW s \in Strands, UNCHANGED <<before, writer>>,
         \A t \in Strands : Wrote(t)' => Wrote(t),
         \A t \in Strands : pc'[t] = "replacewriter" => pc[t] = "replacewriter" \/ UpTo(writer, t)
  PROVE  LastWriterOK'
PROOF
<1>1. \A a, b : UpTo(a, b)' <=> UpTo(a, b)
  BY DEF UpTo, Before
<1> QED
  BY <1>1 DEF LastWriterOK

(* A step with which strand s, which comes after all writers so far,       *)
(* becomes the last writer.                                                *)
LEMMA WriterReplaced ==
  ASSUME DagOK, LastWriterOK, Silent, NEW s \in Strands, before' = before, writer' = s,
         Nobody \notin Strands, writer \in Strands \cup {Nobody},
         \A t \in Strands : Wrote(t)' => Wrote(t) \/ t = s,
         \A t \in Strands : pc'[t] # "replacewriter",
         writer = Nobody \/ UpTo(writer, s)
  PROVE  LastWriterOK'
PROOF
<1>1. \A a, b : UpTo(a, b)' <=> UpTo(a, b)
  BY DEF UpTo, Before
<1>2. \A t \in Strands : Wrote(t) => UpTo(t, s)
  BY UpToTransitive DEF LastWriterOK
<1>3. UpTo(s, s)
  BY DEF UpTo
<1>4. \A t \in Strands : Wrote(t)' => UpTo(t, s)
  BY <1>2, <1>3
<1>5. \A t, u \in Strands : Wrote(t)' /\ Wrote(u)' => UpTo(t, u) \/ UpTo(u, t)
  BY <1>4 DEF LastWriterOK
<1> QED
  BY <1>1, <1>4, <1>5 DEF LastWriterOK

(* Every step keeps the chain of writers. *)
LEMMA LastWriterStep ==
  ASSUME RaceInv, RaceInv', LastWriterOK, NEW s \in Strands, Step(s),
         before' = before, prog' = prog, Moves(s)
  PROVE  LastWriterOK'
PROOF
<1> SUFFICES ASSUME Silent' PROVE LastWriterOK'
  BY DEF LastWriterOK
<1>1. Silent /\ ~Found'
  BY SilentBefore DEF Silent
<1>2. /\ TypeOK /\ ActiveOK /\ StartOK /\ RecordOK /\ KindOK /\ DagOK /\ SlotOK
      /\ pc \in [Strands -> Points] /\ writer \in Strands \cup {Nobody}
  BY DEF RaceInv, HistoryInv, TypeOK
<1>3. /\ \A t \in Strands : t # s => pc'[t] = pc[t] /\ at'[t] = at[t]
      /\ \A t \in Strands : t # s \/ pc'[s] # "idle" => (Did(t, "write")' <=> Did(t, "write"))
      /\ pc'[s] = "idle" => (Did(s, "write")' <=> Did(s, "write") \/ prog[s][at[s]] = "write")
  BY <1>2, DidStep
<1>4. \A t \in Strands : t # s => (Wrote(t)' <=> Wrote(t))
  BY <1>3 DEF Wrote
<1>5. Nobody \notin Strands
  BY DEF Nobody, Strands
<1>6. CASE Find(s) \/ (InsertSlot(s) /\ slot)
  <2>1. writer' = writer /\ pc'[s] \in {"read", "write", "insert"}
    BY <1>2, <1>6, EntryPoint DEF Find, InsertSlot, shared
  <2>2. Wrote(s)' => Wrote(s)
    BY <1>3, <2>1 DEF Wrote
  <2> QED
    BY <1>1, <1>3, <1>4, <2>1, <2>2, WriterKept
<1>7. CASE InsertSlot(s) /\ ~slot
  <2>1. pc'[s] = "idle" /\ pc[s] = "insert"
    BY <1>2, <1>7 DEF InsertSlot, Done, Goto
  <2>2. writer = Nobody /\ \A t \in Strands : pc[t] # "replacewriter"
    BY <1>2, <1>7 DEF SlotOK
  <2>3. CASE writer' = s
    BY <1>1, <1>2, <1>3, <1>4, <1>5, <2>1, <2>2, <2>3, WriterReplaced
  <2>4. CASE writer' = writer /\ prog[s][at[s]] = "read"
    <3>1. Wrote(s)' => Wrote(s)
      BY <1>3, <2>1, <2>4 DEF Wrote
    <3> QED
      BY <1>1, <1>3, <1>4, <2>1, <2>4, <3>1, WriterKept
  <2> QED
    BY <1>7, <2>3, <2>4 DEF InsertSlot
<1>8. CASE Read(s)
  <2>1. /\ pc[s] \in ReadPoints /\ pc'[s] \in ReadPoints \cup {"idle"} /\ writer' = writer
    BY <1>2, <1>8 DEF Read, CheckWriterOfRead, LoadReader, LockInstall, StoreReader,
       CompareReader, LinkReader, PushReader, LockDedup, SearchReaders, AddReader,
       Done, Goto, ReadPoints, shared
  <2>2. prog[s][at[s]] = "read"
    BY <1>2, <2>1 DEF KindOK
  <2>3. pc'[s] \notin {"loadreaders", "walk", "replacewriter"}
    BY <2>1 DEF ReadPoints
  <2>4. Wrote(s)' => Wrote(s)
    BY <1>3, <2>2, <2>3 DEF Wrote
  <2> QED
    BY <1>1, <1>3, <1>4, <2>1, <2>3, <2>4, WriterKept
<1>9. CASE Write(s)
  <2>1. pc[s] \in WritePoints
    BY <1>9 DEF Write, LoadWriter, InstallWriter, CheckWriter, ReplaceWriter,
       LoadReaders, WalkReaders, ClearReaders, Done, Goto, WritePoints
  <2>2. \A t \in Strands : t # s => pc[t] = "idle"
    BY <1>1, <2>1, AloneInWrite
  <2>3. CASE LoadWriter(s) \/ (InstallWriter(s) /\ writer # Nobody)
    <3>1. writer' = writer /\ pc'[s] \in {"installwriter", "checkwriter"}
      BY <1>2, <2>3 DEF LoadWriter, InstallWriter, Goto, shared
    <3>2. Wrote(s)' => Wrote(s)
      BY <1>3, <3>1 DEF Wrote
    <3> QED
      BY <1>1, <1>3, <1>4, <3>1, <3>2, WriterKept
  <2>4. CASE (InstallWriter(s) /\ writer = Nobody) \/ ReplaceWriter(s)
    <3>1. writer' = s /\ pc'[s] = "loadreaders"
      BY <1>2, <2>4 DEF InstallWriter, ReplaceWriter, Goto
    <3>2. writer = Nobody \/ UpTo(writer, s)
      BY <1>1, <2>4 DEF ReplaceWriter, Goto, LastWriterOK
    <3>3. \A t \in Strands : pc'[t] # "replacewriter"
      BY <1>3, <2>2, <3>1
    <3> QED
      BY <1>1, <1>2, <1>4, <1>5, <3>1, <3>2, <3>3, WriterReplaced
  <2>5. CASE CheckWriter(s)
    <3>1. writer' = writer /\ pc'[s] = "replacewriter" /\ pc[s] = "checkwriter"
      BY <1>2, <2>5 DEF CheckWriter, Goto, shared
    <3>2. UpTo(writer, s)
      <4>1. writer \in Strands /\ Started(writer) /\ pc[s] # "idle"
        BY <1>2, <3>1 DEF RecordOK, RecordedWriter
      <4>2. CASE node[writer] = node[s]
        <5>1. ~Before(s, writer)
          BY <1>2, <4>1 DEF StartOK, ActiveOK
        <5> QED
          BY <1>2, <4>1, <4>2, <5>1 DEF DagOK, UpTo
      <4>3. CASE node[writer] # node[s]
        BY <1>1, <1>2, <2>5, <4>1, <4>3, UnreportedUpTo DEF CheckWriter
      <4> QED
        BY <4>2, <4>3
    <3>3. Wrote(s)' => Wrote(s)
      BY <1>3, <3>1 DEF Wrote
    <3> QED
      BY <1>1, <1>3, <1>4, <3>1, <3>2, <3>3, WriterKept
  <2>6. CASE LoadReaders(s) \/ WalkReaders(s) \/ ClearReaders(s)
    <3>1. writer' = writer /\ pc'[s] \in {"walk", "idle"} /\ pc[s] \in {"loadreaders", "walk"}
      BY <1>2, <2>6 DEF LoadReaders, WalkReaders, ClearReaders, Done, Goto, shared
    <3>2. Wrote(s)
      BY <3>1 DEF Wrote
    <3> QED
      BY <1>1, <1>3, <1>4, <3>1, <3>2, WriterKept
  <2> QED
    BY <1>9, <2>3, <2>4, <2>5, <2>6 DEF Write, InstallWriter
<1> QED
  BY <1>6, <1>7, <1>8, <1>9 DEF Step

(* When all accesses are checked, a strand has done what is in its program. *)
LEMMA DoneAll ==
  ASSUME TypeOK, AllDone, NEW s \in Strands, NEW k, Accesses(s, k)
  PROVE  Did(s, k)
PROOF
<1>1. Len(prog[s]) \in 1 .. MaxOps /\ at[s] \in 1 .. (MaxOps + 1) /\ at[s] > Len(prog[s])
      /\ MaxOps \in Nat
  BY ProgramLength, BoundAssumption DEF TypeOK, AllDone, Finished
<1>2. PICK i \in 1 .. Len(prog[s]) : prog[s][i] = k
  BY DEF Accesses
<1>3. i \in 1 .. (at[s] - 1)
  BY <1>1, <1>2
<1> QED
  BY <1>2, <1>3 DEF Did

(* The chain of writers holds in every state. *)
LEMMA WriterChain == Spec => [](RaceInv /\ LastWriterOK)
PROOF
<1>1. Init => RaceInv /\ LastWriterOK
  <2> SUFFICES ASSUME Init PROVE LastWriterOK
    BY RaceInit
  <2>1. \A s \in Strands : pc[s] = "idle" /\ at[s] = 1
    BY DEF Init
  <2>2. \A s \in Strands : ~Wrote(s) /\ pc[s] # "replacewriter"
    BY <2>1 DEF Wrote, Did
  <2> QED
    BY <2>2 DEF LastWriterOK
<1>2. ASSUME RaceInv, LastWriterOK, [Next]_vars PROVE (RaceInv /\ LastWriterOK)'
  <2>1. CASE UNCHANGED vars
    <3>1. UNCHANGED <<before, prog, known, node, at, pc, slot, writer, head, reports, overlap>>
      BY <2>1 DEF vars, program, shared
    <3>2. HistoryInv'
      BY <1>2, HistoryNext DEF RaceInv
    <3>3. (DagOK /\ OverlapOK /\ SlotOK)'
      BY <1>2, <3>1 DEF RaceInv, DagOK, OverlapOK, SlotOK, Before, Precedes
    <3>4. \A s \in Strands : Wrote(s)' <=> Wrote(s)
      BY <3>1 DEF Wrote, Did
    <3>5. Races' = Races
      BY <3>1 DEF Races, WriteRaces, Parallel, Before, Accesses
    <3>6. Silent' <=> Silent
      BY <3>1, <3>5 DEF Silent, RacingOverlap, Found, Parallel, Before
    <3>7. \A a, b : UpTo(a, b)' <=> UpTo(a, b)
      BY <3>1 DEF UpTo, Before
    <3>8. LastWriterOK'
      BY <1>2, <3>1, <3>4, <3>6, <3>7 DEF LastWriterOK
    <3> QED
      BY <3>2, <3>3, <3>8 DEF RaceInv
  <2>2. ASSUME NEW s \in Strands, Step(s) PROVE (RaceInv /\ LastWriterOK)'
    BY <1>2, <2>2, RaceNext, LastWriterStep
  <2> QED
    BY <1>2, <2>1, <2>2 DEF Next, Stopped
<1> QED
  BY <1>1, <1>2, PTL DEF Spec

(* Two parallel writes are reported once all accesses are checked, if no   *)
(* two racing checks overlapped: whatever reads do, the last writer that   *)
(* handle_write records comes after every writer before it, or a race was  *)
(* reported.                                                               *)
THEOREM WriteRacesFound == Spec => []WriteRaceFound
PROOF
<1>1. RaceInv /\ LastWriterOK => WriteRaceFound
  <2> SUFFICES ASSUME RaceInv, LastWriterOK, AllDone, RacingOverlap = {}, ~Found,
                      NEW p \in WriteRaces
               PROVE  FALSE
    BY DEF WriteRaceFound
  <2>1. p[1] \in Strands /\ p[2] \in Strands /\ Parallel(p[1], p[2])
        /\ Accesses(p[1], "write") /\ Accesses(p[2], "write")
    BY DEF WriteRaces
  <2>2. Did(p[1], "write") /\ Did(p[2], "write")
    BY <2>1, DoneAll DEF RaceInv, HistoryInv
  <2>3. UpTo(p[1], p[2]) \/ UpTo(p[2], p[1])
    BY <2>1, <2>2 DEF LastWriterOK, Silent, Wrote
  <2> QED
    BY <2>1, <2>3 DEF UpTo, Parallel
<1> QED
  BY <1>1, WriterChain, PTL


-----------------------------------------------------------------------------
(* The readers.  *)

(* An entry that has been put into the list of readers. *)
Used(e) == \/ e[2] < at[Accessor(e)]
           \/ e[2] = at[Accessor(e)] /\ pc[Accessor(e)] = "compare"

UnusedOK == \A e \in Entries : ~Used(e) => next[e] = NULL /\ e \notin freed

(* The pointer to the k-th entry of a list, counted from its end. *)
Entry(L, k) == IF k = 0 THEN NULL ELSE L[k]

(* The n entries of L are the list of readers, the head last. *)
Chain(n, L) ==
  /\ \A i, j \in 1 .. n : L[i] = L[j] => i = j
  /\ head = Entry(L, n)
  /\ \A i \in 1 .. n : Used(L[i]) /\ next[L[i]] = Entry(L, i - 1)

(* A walk has queried and deleted the entries before the one it is at. *)
WalkAt(n, L, s, k) ==
  /\ reader[s] = Entry(L, k)
  /\ \A i \in 1 .. n : /\ L[i] \in freed <=> i > k
                       /\ i > k /\ ~Found => UpTo(Accessor(L[i]), s)

WalksOK(n, L)    == \A s \in Strands : pc[s] = "walk" => \E k \in 0 .. n : WalkAt(n, L, s, k)
SearchesOK(n, L) == \A s \in Strands : pc[s] = "search" => \E k \in 0 .. n : tmp[s] = Entry(L, k)
NoneFreed(n, L)  == (\A s \in Strands : pc[s] # "walk") => \A i \in 1 .. n : L[i] \notin freed

Listed(n, L, t) == \E i \in 1 .. n : Accessor(L[i]) = t

(* As long as nothing is reported, a strand that has read is in the list   *)
(* or before the last writer.                                              *)
ReadersHeld(n, L) == ~Found => \A t \in Strands : Did(t, "read") =>
  Listed(n, L, t) \/ (writer # Nobody /\ UpTo(t, writer))

ReadersAre(n, L) == /\ Chain(n, L) /\ WalksOK(n, L) /\ SearchesOK(n, L)
                    /\ NoneFreed(n, L) /\ ReadersHeld(n, L)

HasReaders == \E n \in Nat : \E L \in [1 .. n -> Entries] : ReadersAre(n, L)

(* What a check that no other overlaps knows of the history. *)
CheckOK(s) ==
  /\ pc[s] \in {"loadreaders", "walk"} => writer = s
  /\ pc[s] \in {"dedup", "search"} => reader[s] = head
  /\ pc[s] \in {"install", "store"} => head = NULL
  /\ pc[s] = "compare" => head = New(s)
  /\ pc[s] \notin {"link", "push"}
  /\ pc[s] \in ReadPoints \ {"read"} /\ ~Found => writer = Nobody \/ UpTo(writer, s)

(* As long as nothing is reported, readers and writers are ordered. *)
PairsOK == ~Found => \A s, t \in Strands : Did(s, "read") /\ Did(t, "write") =>
                       UpTo(s, t) \/ UpTo(t, s)

SequentialInv == overlap = {} =>
  /\ ~undefined
  /\ UnusedOK
  /\ PairsOK
  /\ \A s \in Strands : CheckOK(s)
  /\ HasReaders

(* What a step is given and what it leaves when no other check is under    *)
(* way.                                                                    *)
Alone(s)  == \A t \in Strands : t # s => /\ pc[t] = "idle" /\ pc'[t] = "idle"
                                         /\ at'[t] = at[t]
UsedGrows == \A e \in Entries : Used(e) => Used(e)'
Links(e, p) == next' = [next EXCEPT ![e] = p]
WriterOn  == \/ writer' = writer \/ writer = Nobody
             \/ writer \in Strands /\ writer' \in Strands /\ UpTo(writer, writer')

(* A check overlaps no other if nothing is recorded as overlapping. *)
LEMMA AloneStep ==
  ASSUME RaceInv, RaceInv', NEW s \in Strands, Step(s), prog' = prog, Moves(s), overlap' = {}
  PROVE  Alone(s)
PROOF
<1>1. TypeOK /\ overlap = {} /\ OverlapOK /\ OverlapOK' /\ pc \in [Strands -> Points]
  BY StepGrows DEF RaceInv, HistoryInv, TypeOK
<1>2. \A t \in Strands : t # s => pc'[t] = pc[t] /\ at'[t] = at[t]
  BY <1>1, DidStep
<1>3. pc'[s] # "idle" \/ pc[s] # "idle"
  BY <1>1 DEF Moves
<1>4. \A t \in Strands : t # s => pc[t] = "idle"
  BY <1>1, <1>2, <1>3 DEF OverlapOK
<1> QED
  BY <1>2, <1>4 DEF Alone

(* Entries in the list stay used, unless a pushed entry goes back. *)
LEMMA UsedStep ==
  ASSUME TypeOK, NEW s \in Strands, prog' = prog, Moves(s), Alone(s),
         pc[s] = "compare" => pc'[s] \in {"idle", "compare"}
  PROVE  UsedGrows
PROOF
<1> SUFFICES ASSUME NEW e \in Entries, Used(e) PROVE Used(e)'
  BY DEF UsedGrows
<1>1. Accessor(e) \in Strands /\ e[2] \in Nat
  BY EntryAccessor, BoundAssumption DEF Entries
<1>2. \A t \in Strands : at[t] \in Nat
  BY BoundAssumption DEF TypeOK
<1>3. IF pc'[s] = "idle" THEN at'[s] = at[s] + 1 ELSE at'[s] = at[s]
  BY DidStep
<1>4. CASE Accessor(e) # s
  BY <1>1, <1>4 DEF Used, Alone, Accessor
<1>5. CASE Accessor(e) = s
  <2>1. at[s] \in Nat /\ e[2] \in Nat
    BY <1>1, <1>2
  <2>2. e[2] < at[s] \/ (e[2] = at[s] /\ pc[s] = "compare")
    BY <1>5 DEF Used
  <2>3. e[2] < at'[s] \/ (e[2] = at'[s] /\ pc'[s] = "compare")
    BY <1>3, <2>1, <2>2
  <2> QED
    BY <1>5, <2>3 DEF Used, Accessor
<1> QED
  BY <1>4, <1>5

(* The order of the strands is the program's. *)
LEMMA UpToSame ==
  ASSUME before' = before
  PROVE  \A a, b : UpTo(a, b)' <=> UpTo(a, b)
PROOF
  BY DEF UpTo, Before

(* A step that leaves the list of readers as it is. *)
LEMMA ListKept ==
  ASSUME DagOK, NEW n \in Nat, NEW L \in [1 .. n -> Entries], ReadersAre(n, L), UnusedOK,
         NEW s \in Strands, Alone(s), pc[s] # "walk", before' = before,
         UNCHANGED <<head, next, freed>>, UsedGrows, Found => Found',
         \A t \in Strands : Did(t, "read")' => Did(t, "read") \/ Listed(n, L, t),
         Found' \/ WriterOn,
         pc'[s] = "walk" => reader'[s] = head,
         pc'[s] = "search" => \E k \in 0 .. n : tmp'[s] = Entry(L, k)
  PROVE  UnusedOK' /\ HasReaders'
PROOF
<1>1. UnusedOK'
  BY DEF UnusedOK, UsedGrows
<1>2. Chain(n, L)'
  BY DEF ReadersAre, Chain, UsedGrows, Entry
<1>3. \A i \in 1 .. n : L[i] \notin freed
  BY DEF ReadersAre, NoneFreed, Alone
<1>4. WalksOK(n, L)'
  <2> SUFFICES ASSUME pc'[s] = "walk" PROVE WalkAt(n, L, s, n)'
    BY DEF WalksOK, Alone
  <2>1. reader'[s] = Entry(L, n)
    BY DEF ReadersAre, Chain
  <2>2. \A i \in 1 .. n : ~(i > n)
    OBVIOUS
  <2> QED
    BY <1>3, <2>1, <2>2 DEF WalkAt, Entry
<1>5. SearchesOK(n, L)'
  BY DEF SearchesOK, Alone, Entry
<1>6. NoneFreed(n, L)'
  BY <1>3 DEF NoneFreed
<1>7. ReadersHeld(n, L)'
  <2> SUFFICES ASSUME ~Found', NEW t \in Strands, Did(t, "read")', ~Listed(n, L, t)
               PROVE  writer' # Nobody /\ UpTo(t, writer)'
    BY DEF ReadersHeld, Listed, Accessor
  <2>1. writer # Nobody /\ UpTo(t, writer)
    BY DEF ReadersAre, ReadersHeld
  <2>2. CASE writer' = writer
    BY <2>1, <2>2, UpToSame
  <2>3. CASE writer \in Strands /\ writer' \in Strands /\ UpTo(writer, writer')
    <3>1. UpTo(t, writer')
      BY <2>1, <2>3, UpToTransitive
    <3>2. writer' # Nobody
      BY <2>3 DEF Nobody, Strands
    <3> QED
      BY <3>1, <3>2, UpToSame DEF UpTo, Before
  <2> QED
    BY <2>1, <2>2, <2>3 DEF WriterOn
<1>8. ReadersAre(n, L)'
  BY <1>2, <1>4, <1>5, <1>6, <1>7 DEF ReadersAre
<1> QED
  BY <1>1, <1>8 DEF HasReaders

(* A new entry is put before the head. *)
LEMMA ListAppended ==
  ASSUME NEW n \in Nat, NEW L \in [1 .. n -> Entries], ReadersAre(n, L), UnusedOK,
         NEW s \in Strands, Alone(s), pc[s] # "walk", pc'[s] \notin {"walk", "search"},
         before' = before, next \in [Entries -> Pointers],
         NEW e \in Entries, Accessor(e) = s, ~Used(e), Used(e)', UsedGrows,
         head' = e, Links(e, Entry(L, n)),
         UNCHANGED <<freed, writer>>, Found => Found',
         \A t \in Strands : Did(t, "read")' => Did(t, "read") \/ t = s
  PROVE  UnusedOK' /\ HasReaders'
PROOF
<1> USE DEF Links
<1> DEFINE m == n + 1
           M == [i \in 1 .. m |-> IF i = m THEN e ELSE L[i]]
<1>1. m \in Nat /\ M \in [1 .. m -> Entries] /\ M[m] = e
      /\ \A i \in 1 .. n : i \in 1 .. m /\ i # m /\ M[i] = L[i] /\ L[i] # e
  <2>1. \A i \in 1 .. n : Used(L[i])
    BY DEF ReadersAre, Chain
  <2> QED
    BY <2>1
<1>2. \A i \in 1 .. m : i = m \/ i \in 1 .. n
  OBVIOUS
<1> HIDE DEF M
<1>3. UnusedOK'
  <2>1. \A d \in Entries : d # e => next'[d] = next[d]
    OBVIOUS
  <2> QED
    BY <2>1 DEF UnusedOK, UsedGrows
<1>4. Chain(m, M)'
  <2>1. \A i, j \in 1 .. m : M[i] = M[j] => i = j
    BY <1>1, <1>2 DEF ReadersAre, Chain
  <2>2. head' = Entry(M, m)
    BY <1>1 DEF Entry
  <2>3. \A i \in 1 .. n : Used(L[i]) /\ next[L[i]] = Entry(L, i - 1)
    BY DEF ReadersAre, Chain
  <2>4. \A i \in 0 .. n : Entry(M, i) = Entry(L, i)
    <3>1. \A i \in 0 .. n : i = 0 \/ i \in 1 .. n
      OBVIOUS
    <3> QED
      BY <1>1, <3>1 DEF Entry
  <2>5. ASSUME NEW i \in 1 .. n PROVE Used(M[i])' /\ next'[M[i]] = Entry(M, i - 1)
    <3>1. M[i] = L[i] /\ L[i] # e /\ L[i] \in Entries /\ i - 1 \in 0 .. n
      BY <1>1
    <3>2. Entry(M, i - 1) = Entry(L, i - 1)
      BY <2>4, <3>1
    <3>3. next'[L[i]] = next[L[i]]
      BY <3>1
    <3>4. Used(L[i])'
      BY <2>3, <3>1 DEF UsedGrows
    <3>5. Used(M[i])'
      BY <3>1, <3>4 DEF Used
    <3> QED
      BY <2>3, <3>1, <3>2, <3>3, <3>5
  <2>6. Used(M[m])' /\ next'[M[m]] = Entry(M, m - 1)
    <3>1. m - 1 = n /\ n \in 0 .. n
      OBVIOUS
    <3>2. next'[e] = Entry(L, n)
      OBVIOUS
    <3>3. Used(M[m])'
      BY <1>1 DEF Used
    <3> QED
      BY <1>1, <2>4, <3>1, <3>2, <3>3
  <2> QED
    BY <1>2, <2>1, <2>2, <2>5, <2>6 DEF Chain, Entry
<1>5. WalksOK(m, M)' /\ SearchesOK(m, M)'
  BY DEF WalksOK, SearchesOK, Alone
<1>6. NoneFreed(m, M)'
  <2>1. \A i \in 1 .. n : L[i] \notin freed
    BY DEF ReadersAre, NoneFreed, Alone
  <2>2. e \notin freed
    BY DEF UnusedOK
  <2> QED
    BY <1>1, <1>2, <2>1, <2>2 DEF NoneFreed
<1>7. ReadersHeld(m, M)'
  <2> SUFFICES ASSUME ~Found', NEW t \in Strands, Did(t, "read")'
               PROVE  Listed(m, M, t) \/ (writer' # Nobody /\ UpTo(t, writer)')
    BY DEF ReadersHeld, Listed, Accessor
  <2>1. CASE t = s
    BY <1>1, <2>1 DEF Listed
  <2>2. CASE Listed(n, L, t)
    BY <1>1, <2>2 DEF Listed
  <2>3. CASE writer # Nobody /\ UpTo(t, writer)
    BY <2>3 DEF UpTo, Before
  <2> QED
    BY <2>1, <2>2, <2>3 DEF ReadersAre, ReadersHeld
<1>8. ReadersAre(m, M)'
  BY <1>4, <1>5, <1>6, <1>7 DEF ReadersAre
<1> QED
  BY <1>1, <1>3, <1>8 DEF HasReaders


(* A step of a check that overlaps no other. *)
SeqStep(s) == /\ RaceInv /\ RaceInv' /\ LastWriterOK /\ SequentialInv
              /\ Step(s) /\ before' = before /\ prog' = prog /\ Moves(s)
              /\ overlap' = {}

(* What is known before such a step. *)
LEMMA SeqFacts ==
  ASSUME NEW s \in Strands, SeqStep(s)
  PROVE  /\ TypeOK /\ ActiveOK /\ StartOK /\ RecordOK /\ DagOK /\ KindOK /\ SlotOK /\ LastWriterOK
         /\ ~undefined /\ UnusedOK /\ PairsOK /\ CheckOK(s) /\ Alone(s)
         /\ HasReaders
         /\ Found => Found'
         /\ ~Found => Silent
         /\ \A t \in Strands : t # s => at'[t] = at[t]
         /\ \A t \in Strands, k \in {"read", "write"} :
              t # s \/ pc'[s] # "idle" => (Did(t, k)' <=> Did(t, k))
         /\ \A k \in {"read", "write"} :
              pc'[s] = "idle" => (Did(s, k)' <=> Did(s, k) \/ prog[s][at[s]] = k)
         /\ IF pc'[s] = "idle" THEN at'[s] = at[s] + 1 ELSE at'[s] = at[s]
         /\ \/ pc[s] = "compare" /\ pc'[s] # "idle" /\ pc'[s] # "compare"
            \/ UsedGrows
PROOF
<1>1. TypeOK /\ ActiveOK /\ StartOK /\ RecordOK /\ DagOK /\ KindOK /\ SlotOK /\ LastWriterOK
  BY DEF SeqStep, RaceInv, HistoryInv
<1>2. Alone(s)
  BY AloneStep DEF SeqStep
<1>3. overlap = {} /\ (Found => Found')
  BY SilentBefore DEF SeqStep
<1>4. ~undefined /\ UnusedOK /\ PairsOK /\ CheckOK(s) /\ HasReaders
  BY <1>3 DEF SeqStep, SequentialInv
<1>5. ~Found => Silent
  BY <1>3 DEF Silent, RacingOverlap
<1>6. /\ \A t \in Strands : t # s => at'[t] = at[t]
      /\ \A t \in Strands, k \in {"read", "write"} :
           t # s \/ pc'[s] # "idle" => (Did(t, k)' <=> Did(t, k))
      /\ \A k \in {"read", "write"} :
           pc'[s] = "idle" => (Did(s, k)' <=> Did(s, k) \/ prog[s][at[s]] = k)
      /\ IF pc'[s] = "idle" THEN at'[s] = at[s] + 1 ELSE at'[s] = at[s]
  BY <1>1, DidStep DEF SeqStep
<1>7. (pc[s] = "compare" => pc'[s] \in {"idle", "compare"}) => UsedGrows
  BY <1>1, <1>2, UsedStep DEF SeqStep
<1> QED
  BY <1>1, <1>2, <1>3, <1>4, <1>5, <1>6, <1>7

(* The other strands are between two checks. *)
LEMMA SeqConclude ==
  ASSUME NEW s \in Strands, Alone(s), ~undefined', UnusedOK', PairsOK', CheckOK(s)',
         HasReaders'
  PROVE  SequentialInv'
PROOF
<1>1. ASSUME NEW t \in Strands PROVE CheckOK(t)'
  <2>1. CASE t = s
    BY <2>1
  <2>2. CASE t # s
    <3>1. pc'[t] = "idle"
      BY <2>2 DEF Alone
    <3> QED
      BY <3>1 DEF CheckOK, ReadPoints
  <2> QED
    BY <2>1, <2>2
<1> QED
  BY <1>1 DEF SequentialInv

(* A step that ends no check leaves the pairs of readers and writers. *)
LEMMA PairsKept ==
  ASSUME PairsOK, before' = before, Found => Found',
         \A t \in Strands, k \in {"read", "write"} : Did(t, k)' <=> Did(t, k)
  PROVE  PairsOK'
PROOF
<1>1. \A a, b : UpTo(a, b)' <=> UpTo(a, b)
  BY UpToSame
<1> QED
  BY <1>1 DEF PairsOK

(* A read that ends comes after all writers. *)
LEMMA ReadEnds ==
  ASSUME NEW s \in Strands, SeqStep(s), pc[s] \in ReadPoints \ {"read"}, pc'[s] = "idle"
  PROVE  /\ PairsOK'
         /\ \A t \in Strands : Did(t, "read")' => Did(t, "read") \/ t = s
PROOF
<1>1. /\ TypeOK /\ DagOK /\ KindOK /\ LastWriterOK /\ PairsOK /\ CheckOK(s)
      /\ (Found => Found') /\ (~Found => Silent) /\ before' = before
      /\ \A t \in Strands, k \in {"read", "write"} : t # s => (Did(t, k)' <=> Did(t, k))
      /\ \A k \in {"read", "write"} : Did(s, k)' <=> Did(s, k) \/ prog[s][at[s]] = k
  BY SeqFacts DEF SeqStep
<1>2. prog[s][at[s]] = "read"
  BY <1>1 DEF KindOK
<1>3. \A t \in Strands : /\ Did(t, "read")' => Did(t, "read") \/ t = s
                         /\ Did(t, "write")' => Did(t, "write")
  BY <1>1, <1>2
<1>4. \A a, b : UpTo(a, b)' <=> UpTo(a, b)
  BY <1>1, UpToSame
<1>5. PairsOK'
  <2> SUFFICES ASSUME ~Found', NEW t \in Strands, NEW u \in Strands,
                      Did(t, "read")', Did(u, "write")'
               PROVE  UpTo(t, u) \/ UpTo(u, t)
    BY <1>4 DEF PairsOK
  <2>1. CASE Did(t, "read")
    BY <1>1, <1>3, <2>1 DEF PairsOK
  <2>2. CASE t = s
    <3>1. Silent /\ Wrote(u)
      BY <1>1, <1>3 DEF Wrote
    <3>2. writer # Nobody /\ UpTo(u, writer) /\ writer \in Strands
      BY <1>1, <3>1 DEF LastWriterOK, TypeOK
    <3>3. UpTo(writer, s)
      BY <1>1, <3>2 DEF CheckOK
    <3> QED
      BY <1>1, <2>2, <3>2, <3>3, UpToTransitive
  <2> QED
    BY <1>3, <2>1, <2>2
<1> QED
  BY <1>3, <1>5

(* The entry of a check under way is not in the list, unless it was just   *)
(* stored.                                                                 *)
LEMMA NewUnused ==
  ASSUME TypeOK, ActiveOK, NEW s \in Strands, pc[s] # "idle", pc[s] # "compare"
  PROVE  New(s) \in Entries /\ Accessor(New(s)) = s /\ ~Used(New(s))
PROOF
<1>1. New(s) \in Entries /\ Accessor(New(s)) = s
  BY NewEntry
<1>2. New(s)[2] = at[s] /\ at[s] \in Nat
  BY BoundAssumption DEF New, TypeOK
<1> QED
  BY <1>1, <1>2 DEF Used

(* The end of the list is the only null pointer in it. *)
LEMMA EntryNull ==
  ASSUME NEW n \in Nat, NEW L \in [1 .. n -> Entries], NEW k \in 0 .. n
  PROVE  Entry(L, k) = NULL <=> k = 0
PROOF
<1>1. k = 0 \/ k \in 1 .. n
  OBVIOUS
<1> QED
  BY <1>1, EntryAccessor DEF Entry

(* The start of a check. *)
LEMMA SeqStart ==
  ASSUME NEW s \in Strands, SeqStep(s), Find(s) \/ InsertSlot(s)
  PROVE  SequentialInv'
PROOF
<1>1. /\ TypeOK /\ ActiveOK /\ DagOK /\ SlotOK
      /\ ~undefined /\ UnusedOK /\ PairsOK /\ CheckOK(s) /\ Alone(s)
      /\ (Found => Found') /\ before' = before
      /\ pc \in [Strands -> Points] /\ at \in [Strands -> 1 .. (MaxOps + 1)]
  BY SeqFacts DEF SeqStep, TypeOK
<1>2. PICK n \in Nat : \E L \in [1 .. n -> Entries] : ReadersAre(n, L)
  BY SeqFacts DEF HasReaders
<1>3. PICK L \in [1 .. n -> Entries] : ReadersAre(n, L)
  BY <1>2
<1>4. pc[s] \in {"idle", "insert"}
  BY DEF Find, InsertSlot, Done, Goto
<1>5. UsedGrows
  BY <1>4, SeqFacts
<1>6. ~undefined' /\ UNCHANGED freed
  BY <1>1 DEF Find, InsertSlot, shared
<1>7. CASE Find(s) \/ slot
  <2>1. /\ pc'[s] \in {"read", "write", "insert"} /\ UNCHANGED <<head, next, freed, writer>>
    BY <1>1, <1>7, EntryPoint DEF Find, InsertSlot, shared
  <2>2. \A t \in Strands, k \in {"read", "write"} : Did(t, k)' <=> Did(t, k)
    BY <2>1, SeqFacts
  <2>3. CheckOK(s)'
    BY <2>1 DEF CheckOK, ReadPoints
  <2>4. PairsOK'
    BY <1>1, <2>2, PairsKept
  <2>5. UnusedOK' /\ HasReaders'
    <3>1. WriterOn
      BY <2>1 DEF WriterOn
    <3> QED
      BY <1>1, <1>3, <1>4, <1>5, <2>1, <2>2, <3>1, ListKept
  <2> QED
    BY <1>1, <1>6, <2>3, <2>4, <2>5, SeqConclude
<1>8. CASE InsertSlot(s) /\ ~slot
  <2>1. pc[s] = "insert" /\ pc'[s] = "idle" /\ UNCHANGED next
    BY <1>1, <1>8 DEF InsertSlot, Done, Goto
  <2>2. /\ writer = Nobody /\ head = NULL
        /\ \A t \in Strands, k \in {"read", "write"} : ~Did(t, k)
    BY <1>1, <1>8 DEF SlotOK, Did
  <2>3. /\ \A t \in Strands, k \in {"read", "write"} : Did(t, k)' => t = s
        /\ Did(s, "read")' <=> prog[s][at[s]] = "read"
    BY <2>1, <2>2, SeqFacts
  <2>4. CheckOK(s)'
    BY <2>1 DEF CheckOK, ReadPoints
  <2>5. PairsOK'
    BY <2>3 DEF PairsOK, UpTo
  <2>6. n = 0
    <3>1. n \in 0 .. n /\ Entry(L, n) = NULL
      BY <1>3, <2>2 DEF ReadersAre, Chain
    <3> QED
      BY <3>1, EntryNull
  <2>7. CASE prog[s][at[s]] = "write" /\ writer' = s /\ UNCHANGED head
    <3>1. WriterOn
      BY <2>2 DEF WriterOn
    <3>2. \A t \in Strands : ~Did(t, "read")'
      BY <2>3, <2>7
    <3>3. UnusedOK' /\ HasReaders'
      BY <1>1, <1>3, <1>5, <1>6, <2>1, <2>7, <3>1, <3>2, ListKept
    <3> QED
      BY <1>1, <1>6, <2>4, <2>5, <3>3, SeqConclude
  <2>8. CASE prog[s][at[s]] = "read" /\ head' = New(s) /\ UNCHANGED writer
    <3>1. PICK e \in Entries : e = New(s) /\ Accessor(e) = s /\ ~Used(e)
      BY <1>1, <2>1, NewUnused
    <3>2. Used(e)'
      <4>1. at'[s] = at[s] + 1 /\ at[s] \in Nat /\ e[2] = at[s]
        BY <1>1, <2>1, <3>1, SeqFacts, BoundAssumption DEF New
      <4> QED
        BY <3>1, <4>1 DEF Used, Accessor
    <3>3. Links(e, Entry(L, n)) /\ next \in [Entries -> Pointers]
      BY <1>1, <2>1, <2>6, <3>1 DEF UnusedOK, Entry, TypeOK, Links
    <3>4. \A t \in Strands : Did(t, "read")' => Did(t, "read") \/ t = s
      BY <2>3
    <3>5. UnusedOK' /\ HasReaders'
      BY <1>1, <1>3, <1>5, <1>6, <2>1, <2>8, <3>1, <3>2, <3>3, <3>4, ListAppended
    <3> QED
      BY <1>1, <1>6, <2>4, <2>5, <3>5, SeqConclude
  <2> QED
    BY <1>8, <2>7, <2>8 DEF InsertSlot
<1> QED
  BY <1>7, <1>8


(* A step inside a check that leaves the list of readers. *)
LEMMA SeqInside ==
  ASSUME NEW s \in Strands, SeqStep(s), pc[s] \notin {"walk", "compare"},
         pc'[s] \notin {"idle", "compare", "search"}, pc'[s] = "walk" => reader'[s] = head,
         UNCHANGED <<head, next, freed, undefined>>, Found' \/ WriterOn, CheckOK(s)'
  PROVE  SequentialInv'
PROOF
<1>1. /\ DagOK /\ ~undefined /\ UnusedOK /\ PairsOK /\ Alone(s) /\ UsedGrows
      /\ (Found => Found') /\ before' = before
      /\ \A t \in Strands, k \in {"read", "write"} : Did(t, k)' <=> Did(t, k)
  BY SeqFacts DEF SeqStep
<1>2. PICK n \in Nat : \E L \in [1 .. n -> Entries] : ReadersAre(n, L)
  BY SeqFacts DEF HasReaders
<1>3. PICK L \in [1 .. n -> Entries] : ReadersAre(n, L)
  BY <1>2
<1>4. PairsOK'
  BY <1>1, PairsKept
<1>5. UnusedOK' /\ HasReaders'
  BY <1>1, <1>3, ListKept
<1> QED
  BY <1>1, <1>4, <1>5, SeqConclude

(* handle_write up to the walk. *)
LEMMA SeqWriter ==
  ASSUME NEW s \in Strands, SeqStep(s),
         LoadWriter(s) \/ InstallWriter(s) \/ CheckWriter(s) \/ ReplaceWriter(s) \/ LoadReaders(s)
  PROVE  SequentialInv'
PROOF
<1>1. /\ TypeOK /\ LastWriterOK /\ CheckOK(s) /\ (~Found => Silent) /\ (Found => Found')
      /\ pc \in [Strands -> Points] /\ writer \in Strands \cup {Nobody}
      /\ reader \in [Strands -> Pointers]
  BY SeqFacts DEF TypeOK
<1>2. UNCHANGED <<head, next, freed, undefined>>
  BY DEF LoadWriter, InstallWriter, CheckWriter, ReplaceWriter, LoadReaders, shared
<1>3. /\ pc[s] \in WritePoints \ {"walk"} /\ pc'[s] \in WritePoints
      /\ pc'[s] = "loadreaders" => writer' = s
      /\ pc'[s] = "walk" => reader'[s] = head /\ writer' = writer /\ pc[s] = "loadreaders"
  BY <1>1 DEF LoadWriter, InstallWriter, CheckWriter, ReplaceWriter, LoadReaders, Goto,
     WritePoints, shared
<1>4. \/ writer' = writer \/ writer = Nobody
      \/ writer' = s /\ pc[s] = "replacewriter"
  BY DEF LoadWriter, InstallWriter, CheckWriter, ReplaceWriter, LoadReaders, Goto, shared
<1>5. Found' \/ WriterOn
  <2>1. CASE writer' = writer \/ writer = Nobody
    BY <2>1 DEF WriterOn
  <2>2. CASE writer' = s /\ pc[s] = "replacewriter" /\ writer # Nobody
    BY <1>1, <2>2 DEF WriterOn, LastWriterOK
  <2> QED
    BY <1>4, <2>1, <2>2
<1>6. CheckOK(s)'
  BY <1>1, <1>3 DEF CheckOK, WritePoints, ReadPoints
<1>7. pc[s] \notin {"walk", "compare"} /\ pc'[s] \notin {"idle", "compare", "search"}
  BY <1>3 DEF WritePoints
<1> QED
  BY <1>2, <1>3, <1>5, <1>6, <1>7, SeqInside

(* One round of the walk: the entry was not deleted before. *)
LEMMA SeqWalk ==
  ASSUME NEW s \in Strands, SeqStep(s), WalkReaders(s)
  PROVE  SequentialInv'
PROOF
<1>1. /\ TypeOK /\ ActiveOK /\ StartOK /\ RecordOK /\ DagOK /\ ~undefined /\ UnusedOK /\ PairsOK /\ CheckOK(s) /\ Alone(s)
      /\ (Found => Found') /\ before' = before /\ reader \in [Strands -> Pointers]
  BY SeqFacts DEF SeqStep, TypeOK
<1>2. PICK n \in Nat : \E L \in [1 .. n -> Entries] : ReadersAre(n, L)
  BY SeqFacts DEF HasReaders
<1>3. PICK L \in [1 .. n -> Entries] : ReadersAre(n, L)
  BY <1>2
<1>4. pc[s] = "walk" /\ reader[s] # NULL /\ UNCHANGED <<at, pc, writer, head, next, prog>>
  BY DEF WalkReaders, program
<1>5. PICK k \in 0 .. n : WalkAt(n, L, s, k)
  BY <1>3, <1>4 DEF ReadersAre, WalksOK
<1>6. k \in 1 .. n /\ reader[s] = L[k]
  <2>1. k # 0 /\ reader[s] = Entry(L, k)
    BY <1>4, <1>5 DEF WalkAt, Entry
  <2> QED
    BY <2>1 DEF Entry
<1>7. PICK e \in Entries : e = L[k] /\ e = reader[s] /\ e \notin freed
  BY <1>5, <1>6 DEF WalkAt
<1>8. /\ ~undefined' /\ Report(Accessor(e), s)
      /\ reader' = [reader EXCEPT ![s] = next[e]] /\ freed' = freed \cup {e}
  BY <1>1, <1>7 DEF WalkReaders
<1>9. \A t \in Strands, j \in {"read", "write"} : Did(t, j)' <=> Did(t, j)
  BY <1>4 DEF Did
<1>10. PairsOK'
  BY <1>1, <1>9, PairsKept
<1>11. CheckOK(s)'
  BY <1>1, <1>4 DEF CheckOK, ReadPoints
<1>12. \A d : Used(d)' <=> Used(d)
  BY <1>4 DEF Used, Accessor
<1>13. UnusedOK'
  <2>1. Used(e)
    BY <1>3, <1>6, <1>7 DEF ReadersAre, Chain
  <2> QED
    BY <1>1, <1>4, <1>8, <1>12, <2>1 DEF UnusedOK
<1>14. Chain(n, L)'
  BY <1>3, <1>4, <1>12 DEF ReadersAre, Chain, Entry
<1>15. WalkAt(n, L, s, k - 1)'
  <2>1. reader'[s] = Entry(L, k - 1)
    BY <1>1, <1>3, <1>6, <1>7, <1>8 DEF ReadersAre, Chain
  <2>2. ASSUME NEW i \in 1 .. n PROVE L[i] \in freed' <=> i > k - 1
    <3>1. L[i] = e <=> i = k
      BY <1>3, <1>6, <1>7 DEF ReadersAre, Chain
    <3>2. L[i] \in freed <=> i > k
      BY <1>5 DEF WalkAt
    <3> QED
      BY <1>8, <3>1, <3>2
  <2>3. ASSUME NEW i \in 1 .. n, i > k - 1, ~Found' PROVE UpTo(Accessor(L[i]), s)
    <3>1. CASE i = k
      <4>1. Accessor(e) \in Strands /\ Started(Accessor(e)) /\ pc[s] # "idle"
        BY <1>1, <1>4, <1>7, EntryAccessor DEF RecordOK, Recorded
      <4> QED
        BY <1>1, <1>7, <1>8, <2>3, <3>1, <4>1, UnreportedUpTo
    <3>2. CASE i # k
      <4>1. i > k /\ ~Found
        BY <1>1, <2>3, <3>2
      <4> QED
        BY <1>5, <4>1 DEF WalkAt
    <3> QED
      BY <3>1, <3>2
  <2>4. ASSUME NEW i \in 1 .. n, i > k - 1, ~Found' PROVE UpTo(Accessor(L[i]), s)'
    BY <2>3, <2>4 DEF UpTo, Before, Accessor, SeqStep
  <2> QED
    BY <2>1, <2>2, <2>4 DEF WalkAt, Entry
<1>16. WalksOK(n, L)' /\ NoneFreed(n, L)' /\ SearchesOK(n, L)'
  <2>1. k - 1 \in 0 .. n
    BY <1>6
  <2> QED
    BY <1>1, <1>4, <1>15, <2>1 DEF WalksOK, NoneFreed, SearchesOK, Alone
<1>17. ReadersHeld(n, L)'
  <2>1. \A a, b : UpTo(a, b)' <=> UpTo(a, b)
    BY <1>1, UpToSame
  <2> QED
    BY <1>1, <1>3, <1>4, <1>9, <2>1 DEF ReadersAre, ReadersHeld, Listed, Accessor
<1>18. HasReaders'
  <2>1. ReadersAre(n, L)'
    BY <1>14, <1>16, <1>17 DEF ReadersAre
  <2> QED
    BY <2>1 DEF HasReaders
<1> QED
  BY <1>1, <1>8, <1>10, <1>11, <1>13, <1>18, SeqConclude

(* The walk is over: all readers are before the writer. *)
LEMMA SeqClear ==
  ASSUME NEW s \in Strands, SeqStep(s), ClearReaders(s)
  PROVE  SequentialInv'
PROOF
<1>1. /\ TypeOK /\ KindOK /\ ~undefined /\ UnusedOK /\ PairsOK /\ CheckOK(s) /\ Alone(s)
      /\ (Found => Found') /\ before' = before /\ pc \in [Strands -> Points]
  BY SeqFacts DEF SeqStep, TypeOK
<1>2. PICK n \in Nat : \E L \in [1 .. n -> Entries] : ReadersAre(n, L)
  BY SeqFacts DEF HasReaders
<1>3. PICK L \in [1 .. n -> Entries] : ReadersAre(n, L)
  BY <1>2
<1>4. /\ pc[s] = "walk" /\ pc'[s] = "idle" /\ reader[s] = NULL /\ head' = NULL
      /\ UNCHANGED <<writer, next, freed, undefined, reports>>
  BY <1>1 DEF ClearReaders, Done, Goto
<1>5. writer = s /\ prog[s][at[s]] = "write" /\ UsedGrows
  BY <1>1, <1>4, SeqFacts DEF CheckOK, KindOK, WritePoints
<1>6. PICK k \in 0 .. n : WalkAt(n, L, s, k)
  BY <1>3, <1>4 DEF ReadersAre, WalksOK
<1>7. k = 0
  BY <1>4, <1>6, EntryNull DEF WalkAt
<1>8. \A t \in Strands : /\ Did(t, "read")' => Did(t, "read")
                         /\ Did(t, "write")' => Did(t, "write") \/ t = s
  BY <1>4, <1>5, SeqFacts
<1>9. ~Found => \A t \in Strands : Did(t, "read") => UpTo(t, s)
  <2> SUFFICES ASSUME ~Found, NEW t \in Strands, Did(t, "read") PROVE UpTo(t, s)
    OBVIOUS
  <2>1. CASE Listed(n, L, t)
    <3>1. PICK i \in 1 .. n : Accessor(L[i]) = t
      BY <2>1 DEF Listed
    <3>2. i > k
      BY <1>7
    <3> QED
      BY <1>6, <3>1, <3>2 DEF WalkAt
  <2>2. CASE UpTo(t, writer)
    BY <1>5, <2>2
  <2> QED
    BY <1>3, <2>1, <2>2 DEF ReadersAre, ReadersHeld
<1>10. \A a, b : UpTo(a, b)' <=> UpTo(a, b)
  BY <1>1, UpToSame
<1>11. PairsOK'
  <2> SUFFICES ASSUME ~Found', NEW t \in Strands, NEW u \in Strands,
                      Did(t, "read")', Did(u, "write")'
               PROVE  UpTo(t, u) \/ UpTo(u, t)
    BY <1>10 DEF PairsOK
  <2>1. ~Found /\ Did(t, "read") /\ (Did(u, "write") \/ u = s)
    BY <1>1, <1>8
  <2> QED
    BY <1>1, <1>9, <2>1 DEF PairsOK
<1>12. CheckOK(s)'
  BY <1>4 DEF CheckOK, ReadPoints
<1>13. UnusedOK'
  BY <1>1, <1>4, <1>5 DEF UnusedOK, UsedGrows
<1>14. HasReaders'
  <2> PICK m \in Nat : m = 0
    OBVIOUS
  <2> PICK M \in [1 .. m -> Entries] : TRUE
    <3>1. [i \in 1 .. m |-> NULL] \in [1 .. m -> Entries]
      OBVIOUS
    <3> QED
      BY <3>1
  <2>1. \A i \in 1 .. m : FALSE
    OBVIOUS
  <2>2. Chain(m, M)'
    BY <1>4, <2>1 DEF Chain, Entry
  <2>3. WalksOK(m, M)' /\ SearchesOK(m, M)' /\ NoneFreed(m, M)'
    BY <1>1, <1>4, <2>1 DEF WalksOK, SearchesOK, NoneFreed, Alone
  <2>4. ReadersHeld(m, M)'
    <3>1. writer' # Nobody /\ writer' = s
      BY <1>4, <1>5 DEF Nobody, Strands
    <3>2. \A t \in Strands : UpTo(t, writer)' <=> UpTo(t, s)
      BY <1>1, <3>1 DEF UpTo, Before
    <3> QED
      BY <1>1, <1>8, <1>9, <3>1, <3>2 DEF ReadersHeld
  <2>5. ReadersAre(m, M)'
    BY <2>2, <2>3, <2>4 DEF ReadersAre
  <2> QED
    BY <2>5 DEF HasReaders
<1> QED
  BY <1>1, <1>4, <1>11, <1>12, <1>13, <1>14, SeqConclude


(* handle_read up to the lock; the push is not reached. *)
LEMMA SeqReader ==
  ASSUME NEW s \in Strands, SeqStep(s),
         CheckWriterOfRead(s) \/ LoadReader(s) \/ LockInstall(s)
  PROVE  SequentialInv'
PROOF
<1>1. /\ TypeOK /\ ActiveOK /\ StartOK /\ RecordOK /\ DagOK /\ CheckOK(s) /\ (Found => Found') /\ before' = before
      /\ pc \in [Strands -> Points] /\ reader \in [Strands -> Pointers]
  BY SeqFacts DEF SeqStep, TypeOK
<1>2. UNCHANGED <<head, next, freed, undefined, writer>>
  BY DEF CheckWriterOfRead, LoadReader, LockInstall, shared
<1>3. /\ pc[s] \in {"read", "loadreader", "install"}
      /\ pc'[s] \in {"loadreader", "install", "dedup", "store"}
      /\ pc'[s] \in {"install", "store"} => head = NULL
      /\ pc'[s] = "dedup" => reader'[s] = head
  BY <1>1 DEF CheckWriterOfRead, LoadReader, LockInstall, Goto, CheckOK
<1>4. ~Found' => writer = Nobody \/ UpTo(writer, s)
  <2> SUFFICES ASSUME ~Found', writer # Nobody PROVE UpTo(writer, s)
    OBVIOUS
  <2>1. CASE CheckWriterOfRead(s)
    <3>1. writer \in Strands /\ Started(writer) /\ pc[s] # "idle" /\ Report(writer, s)
      BY <1>1, <2>1 DEF CheckWriterOfRead, Goto, RecordOK, RecordedWriter, TypeOK
    <3> QED
      BY <1>1, <3>1, UnreportedUpTo
  <2>2. CASE LoadReader(s) \/ LockInstall(s)
    <3>1. pc[s] \in {"loadreader", "install"}
      BY <2>2 DEF LoadReader, LockInstall, Goto
    <3> QED
      BY <1>1, <3>1 DEF CheckOK, ReadPoints
  <2> QED
    BY <2>1, <2>2
<1>5. CheckOK(s)'
  <2>1. ~Found' => writer' = Nobody \/ UpTo(writer, s)'
    BY <1>1, <1>2, <1>4 DEF UpTo, Before
  <2> QED
    BY <1>2, <1>3, <2>1 DEF CheckOK
<1>6. pc[s] \notin {"walk", "compare"} /\ pc'[s] \notin {"idle", "compare", "search", "walk"}
  BY <1>3
<1>7. WriterOn
  BY <1>2 DEF WriterOn
<1> QED
  BY <1>2, <1>5, <1>6, <1>7, SeqInside

(* The steps after the lock that add an entry: the first one, or one       *)
(* before the head.                                                        *)
LEMMA SeqStore ==
  ASSUME NEW s \in Strands, SeqStep(s), StoreReader(s) \/ AddReader(s)
  PROVE  SequentialInv'
PROOF
<1>1. /\ TypeOK /\ ActiveOK /\ ~undefined /\ UnusedOK /\ PairsOK /\ CheckOK(s) /\ Alone(s)
      /\ (Found => Found') /\ before' = before /\ pc \in [Strands -> Points]
      /\ next \in [Entries -> Pointers] /\ at \in [Strands -> 1 .. (MaxOps + 1)]
  BY SeqFacts DEF SeqStep, TypeOK
<1>2. PICK n \in Nat : \E L \in [1 .. n -> Entries] : ReadersAre(n, L)
  BY SeqFacts DEF HasReaders
<1>3. PICK L \in [1 .. n -> Entries] : ReadersAre(n, L)
  BY <1>2
<1>4. /\ head' = New(s) /\ UNCHANGED <<freed, undefined, writer, reports>>
      /\ \/ pc[s] = "store" /\ pc'[s] = "compare" /\ next' = next
         \/ pc[s] = "search" /\ pc'[s] = "idle" /\ next' = [next EXCEPT ![New(s)] = reader[s]]
  BY <1>1 DEF StoreReader, AddReader, Done, Goto
<1>5. PICK e \in Entries : e = New(s) /\ Accessor(e) = s /\ ~Used(e)
  BY <1>1, <1>4, NewUnused
<1>6. UsedGrows
  BY <1>4, SeqFacts
<1>7. Used(e)'
  <2>1. at[s] \in Nat /\ e[2] = at[s]
    BY <1>1, <1>5, BoundAssumption DEF New
  <2>2. IF pc'[s] = "idle" THEN at'[s] = at[s] + 1 ELSE at'[s] = at[s]
    BY SeqFacts
  <2> QED
    BY <1>4, <1>5, <2>1, <2>2 DEF Used, Accessor
<1>8. head = Entry(L, n)
  BY <1>3 DEF ReadersAre, Chain
<1>9. Links(e, Entry(L, n))
  <2>1. CASE pc[s] = "store" /\ next' = next
    <3>1. head = NULL /\ next[e] = NULL
      BY <1>1, <1>5, <2>1 DEF CheckOK, UnusedOK
    <3> QED
      BY <1>1, <1>8, <2>1, <3>1 DEF Links
  <2>2. CASE pc[s] = "search" /\ next' = [next EXCEPT ![New(s)] = reader[s]]
    BY <1>1, <1>5, <1>8, <2>2 DEF CheckOK, Links
  <2> QED
    BY <1>4, <2>1, <2>2
<1>10. PairsOK' /\ \A t \in Strands : Did(t, "read")' => Did(t, "read") \/ t = s
  <2>1. CASE pc'[s] = "idle"
    BY <1>4, <2>1, ReadEnds DEF ReadPoints
  <2>2. CASE pc'[s] # "idle"
    <3>1. \A t \in Strands, k \in {"read", "write"} : Did(t, k)' <=> Did(t, k)
      BY <2>2, SeqFacts
    <3> QED
      BY <1>1, <3>1, PairsKept
  <2> QED
    BY <2>1, <2>2
<1>11. UnusedOK' /\ HasReaders'
  <2>1. pc[s] # "walk" /\ pc'[s] \notin {"walk", "search"}
    BY <1>4
  <2> QED
    BY <1>1, <1>3, <1>4, <1>5, <1>6, <1>7, <1>9, <1>10, <2>1, ListAppended
<1>12. CheckOK(s)'
  <2>1. CASE pc'[s] = "idle"
    BY <2>1 DEF CheckOK, ReadPoints
  <2>2. CASE pc'[s] = "compare" /\ pc[s] = "store"
    <3>1. at'[s] = at[s]
      BY <2>2, SeqFacts
    <3>2. head' = New(s)'
      BY <1>4, <3>1 DEF New
    <3>3. ~Found' => writer' = Nobody \/ UpTo(writer, s)'
      BY <1>1, <1>4, <2>2 DEF CheckOK, ReadPoints, UpTo, Before
    <3> QED
      BY <2>2, <3>2, <3>3 DEF CheckOK
  <2> QED
    BY <1>4, <2>1, <2>2
<1> QED
  BY <1>1, <1>4, <1>10, <1>11, <1>12, SeqConclude

(* The steps after the lock that find the strand's entry in the list, and  *)
(* the search for it.                                                      *)
LEMMA SeqSearch ==
  ASSUME NEW s \in Strands, SeqStep(s),
         CompareReader(s) \/ LockDedup(s) \/ SearchReaders(s)
  PROVE  SequentialInv'
PROOF
<1>1. /\ TypeOK /\ ActiveOK /\ DagOK /\ ~undefined /\ UnusedOK /\ PairsOK /\ CheckOK(s)
      /\ Alone(s) /\ (Found => Found') /\ before' = before /\ pc \in [Strands -> Points]
      /\ tmp \in [Strands -> Pointers]
  BY SeqFacts DEF SeqStep, TypeOK
<1>2. PICK n \in Nat : \E L \in [1 .. n -> Entries] : ReadersAre(n, L)
  BY SeqFacts DEF HasReaders
<1>3. PICK L \in [1 .. n -> Entries] : ReadersAre(n, L)
  BY <1>2
<1>4. head = Entry(L, n)
  BY <1>3 DEF ReadersAre, Chain
<1>5. UNCHANGED <<head, next, freed, writer, reader, reports>>
  BY DEF CompareReader, LockDedup, SearchReaders, shared, locals
<1>6. \/ /\ ~undefined' /\ pc'[s] = "idle" /\ pc[s] \in {"compare", "search"}
         /\ Listed(n, L, s)
      \/ /\ ~undefined' /\ pc'[s] = "search" /\ pc[s] \in {"dedup", "search"}
         /\ \E k \in 0 .. n : tmp'[s] = Entry(L, k)
  <2>1. CASE CompareReader(s)
    <3>1. pc[s] = "compare" /\ head = New(s)
      BY <1>1, <2>1 DEF CompareReader, Done, Goto, CheckOK
    <3>2. pc'[s] = "idle" /\ ~undefined'
      BY <1>1, <2>1, <3>1 DEF CompareReader, Done, Goto
    <3>3. New(s) \in Entries /\ Accessor(New(s)) = s /\ New(s) # NULL
      BY <1>1, <3>1, NewEntry, EntryAccessor
    <3>4. n \in 1 .. n /\ L[n] = New(s)
      BY <1>4, <3>1, <3>3 DEF Entry
    <3> QED
      BY <3>1, <3>2, <3>3, <3>4 DEF Listed
  <2>2. CASE LockDedup(s)
    <3>1. pc[s] = "dedup" /\ pc'[s] = "search" /\ tmp'[s] = head /\ ~undefined'
      BY <1>1, <2>2 DEF LockDedup, Goto
    <3>2. n \in 0 .. n
      OBVIOUS
    <3> QED
      BY <1>4, <3>1, <3>2
  <2>3. CASE SearchReaders(s)
    <3>1. pc[s] = "search" /\ tmp[s] # NULL
      BY <2>3 DEF SearchReaders, Done, Goto
    <3>2. PICK k \in 0 .. n : tmp[s] = Entry(L, k)
      BY <1>3, <3>1 DEF ReadersAre, SearchesOK
    <3>3. k \in 1 .. n /\ tmp[s] = L[k]
      BY <3>1, <3>2 DEF Entry
    <3>4. L[k] \notin freed /\ next[L[k]] = Entry(L, k - 1)
      BY <1>1, <1>3, <3>1, <3>3 DEF ReadersAre, NoneFreed, Chain, Alone
    <3>5. CASE Accessor(L[k]) = s
      <4>1. pc'[s] = "idle" /\ ~undefined'
        BY <1>1, <2>3, <3>3, <3>4, <3>5 DEF SearchReaders, Done, Goto
      <4> QED
        BY <3>1, <3>3, <3>5, <4>1 DEF Listed
    <3>6. CASE Accessor(L[k]) # s
      <4>1. pc'[s] = "search" /\ ~undefined' /\ tmp'[s] = Entry(L, k - 1)
        BY <1>1, <2>3, <3>1, <3>3, <3>4, <3>6 DEF SearchReaders, Done, Goto
      <4>2. k - 1 \in 0 .. n
        BY <3>3
      <4> QED
        BY <3>1, <4>1, <4>2
    <3> QED
      BY <3>5, <3>6
  <2> QED
    BY <2>1, <2>2, <2>3
<1>7. pc[s] # "walk" /\ pc'[s] # "walk" /\ UsedGrows /\ WriterOn
  BY <1>5, <1>6, SeqFacts DEF WriterOn
<1>8. /\ PairsOK'
      /\ \A t \in Strands : Did(t, "read")' => Did(t, "read") \/ Listed(n, L, t)
  <2>1. CASE pc'[s] = "idle"
    BY <1>6, <2>1, ReadEnds DEF ReadPoints
  <2>2. CASE pc'[s] # "idle"
    <3>1. \A t \in Strands, k \in {"read", "write"} : Did(t, k)' <=> Did(t, k)
      BY <2>2, SeqFacts
    <3> QED
      BY <1>1, <3>1, PairsKept
  <2> QED
    BY <2>1, <2>2
<1>9. UnusedOK' /\ HasReaders'
  <2>1. pc'[s] = "search" => \E k \in 0 .. n : tmp'[s] = Entry(L, k)
    BY <1>6
  <2> QED
    BY <1>1, <1>3, <1>5, <1>7, <1>8, <2>1, ListKept
<1>10. CheckOK(s)'
  <2>1. CASE pc'[s] = "idle"
    BY <2>1 DEF CheckOK, ReadPoints
  <2>2. CASE pc'[s] = "search" /\ pc[s] \in {"dedup", "search"}
    <3>1. ~Found' => writer' = Nobody \/ UpTo(writer, s)'
      BY <1>1, <1>5, <2>2 DEF CheckOK, ReadPoints, UpTo, Before
    <3>2. reader'[s] = head'
      BY <1>1, <1>5, <2>2 DEF CheckOK
    <3> QED
      BY <2>2, <3>1, <3>2 DEF CheckOK
  <2> QED
    BY <1>6, <2>1, <2>2
<1>11. ~undefined'
  BY <1>6
<1> QED
  BY <1>1, <1>8, <1>9, <1>10, <1>11, SeqConclude

(* Checks that do not overlap keep the list of readers since the last      *)
(* write.                                                                  *)
LEMMA SequentialStep ==
  ASSUME NEW s \in Strands, SeqStep(s)
  PROVE  SequentialInv'
PROOF
<1>1. Step(s) /\ pc[s] \notin {"link", "push"}
  BY SeqFacts DEF SeqStep, CheckOK
<1>2. ~LinkReader(s) /\ ~PushReader(s)
  BY <1>1 DEF LinkReader, PushReader, Done, Goto
<1> QED
  BY <1>1, <1>2, SeqStart, SeqWriter, SeqWalk, SeqClear, SeqReader, SeqStore, SeqSearch
  DEF Step, Write, Read

(* The history starts empty. *)
LEMMA SequentialInit == Init => SequentialInv
PROOF
<1> SUFFICES ASSUME Init PROVE SequentialInv
  OBVIOUS
<1>1. /\ \A s \in Strands : pc[s] = "idle" /\ at[s] = 1
      /\ head = NULL /\ freed = {} /\ ~undefined /\ \A e \in Entries : next[e] = NULL
  BY DEF Init
<1>2. UnusedOK
  BY <1>1 DEF UnusedOK
<1>3. \A s \in Strands, k \in {"read", "write"} : ~Did(s, k)
  BY <1>1 DEF Did
<1>4. PairsOK /\ \A s \in Strands : CheckOK(s)
  BY <1>1, <1>3 DEF PairsOK, CheckOK, ReadPoints
<1>5. HasReaders
  <2> PICK m \in Nat : m = 0
    OBVIOUS
  <2> PICK M \in [1 .. m -> Entries] : TRUE
    <3>1. [i \in 1 .. m |-> NULL] \in [1 .. m -> Entries]
      OBVIOUS
    <3> QED
      BY <3>1
  <2>1. \A i \in 1 .. m : FALSE
    OBVIOUS
  <2>2. Chain(m, M)
    BY <1>1, <2>1 DEF Chain, Entry
  <2>3. WalksOK(m, M) /\ SearchesOK(m, M) /\ NoneFreed(m, M) /\ ReadersHeld(m, M)
    BY <1>1, <1>3, <2>1 DEF WalksOK, SearchesOK, NoneFreed, ReadersHeld
  <2> QED
    BY <2>2, <2>3 DEF ReadersAre, HasReaders
<1> QED
  BY <1>1, <1>2, <1>4, <1>5 DEF SequentialInv

(* When no two checks overlap, no deleted entry is used, and a location    *)
(* with a race is reported once its accesses are checked: the last writer  *)
(* and the readers since it, which is what check_mem.cpp keeps, are enough *)
(* for every program and every order of its strands.                       *)
THEOREM SequentialRacesFound == Spec => []SequentialRaceFound
PROOF
<1>1. Init => SequentialInv
  BY SequentialInit
<1>2. ASSUME RaceInv, LastWriterOK, SequentialInv, [Next]_vars PROVE SequentialInv'
  <2>1. CASE UNCHANGED vars
    <3>1. UNCHANGED <<before, prog, known, node, at, pc, writer, head, next, freed, reader, tmp, reports,
                      undefined, overlap>>
      BY <2>1 DEF vars, program, shared, locals
    <3>2. \A t, k : Did(t, k)' <=> Did(t, k)
      BY <3>1 DEF Did
    <3>3. \A a, b : UpTo(a, b)' <=> UpTo(a, b)
      BY <3>1 DEF UpTo, Before
    <3>4. \A e : Used(e)' <=> Used(e)
      BY <3>1 DEF Used, Accessor
    <3>5. Found' <=> Found
      BY <3>1 DEF Found, Parallel, Before
    <3>6. HasReaders => HasReaders'
      <4> SUFFICES ASSUME NEW n \in Nat, NEW L \in [1 .. n -> Entries], ReadersAre(n, L)
                   PROVE  ReadersAre(n, L)'
        BY DEF HasReaders
      <4>1. Chain(n, L)'
        BY <3>1, <3>4 DEF ReadersAre, Chain, Entry
      <4>2. \A s, k : WalkAt(n, L, s, k)' <=> WalkAt(n, L, s, k)
        BY <3>1, <3>3, <3>5 DEF WalkAt, Entry, Accessor
      <4>3. WalksOK(n, L)' /\ SearchesOK(n, L)' /\ NoneFreed(n, L)'
        BY <3>1, <4>2 DEF ReadersAre, WalksOK, SearchesOK, NoneFreed, Entry
      <4>4. ReadersHeld(n, L)'
        BY <3>1, <3>2, <3>3, <3>5 DEF ReadersAre, ReadersHeld, Listed, Accessor
      <4> QED
        BY <4>1, <4>3, <4>4 DEF ReadersAre
    <3>7. \A s : CheckOK(s)' <=> CheckOK(s)
      BY <3>1, <3>3, <3>5 DEF CheckOK, New
    <3>8. (UnusedOK' <=> UnusedOK) /\ (PairsOK' <=> PairsOK)
      BY <3>1, <3>2, <3>3, <3>4, <3>5 DEF UnusedOK, PairsOK
    <3> QED
      BY <1>2, <3>1, <3>6, <3>7, <3>8 DEF SequentialInv
  <2>2. ASSUME NEW s \in Strands, Step(s) PROVE SequentialInv'
    <3>1. CASE overlap' = {}
      <4>1. SeqStep(s)
        BY <1>2, <2>2, <3>1, RaceNext DEF SeqStep
      <4> QED
        BY <4>1, SequentialStep
    <3>2. CASE overlap' # {}
      BY <3>2 DEF SequentialInv
    <3> QED
      BY <3>1, <3>2
  <2> QED
    BY <1>2, <2>1, <2>2 DEF Next, Stopped
<1>3. RaceInv /\ LastWriterOK /\ SequentialInv => SequentialRaceFound
  <2> SUFFICES ASSUME RaceInv, LastWriterOK, SequentialInv, overlap = {}
               PROVE  ~undefined /\ (AllDone /\ Races # {} => Found)
    BY DEF SequentialRaceFound
  <2>1. ~undefined /\ PairsOK
    BY DEF SequentialInv
  <2>2. ASSUME AllDone, ~Found, NEW p \in Races PROVE FALSE
    <3>1. Silent
      BY <2>2 DEF Silent, RacingOverlap
    <3>2. /\ p[1] \in Strands /\ p[2] \in Strands /\ Parallel(p[1], p[2])
          /\ \/ Accesses(p[1], "write") /\ Accesses(p[2], "write")
             \/ Accesses(p[1], "write") /\ Accesses(p[2], "read")
             \/ Accesses(p[1], "read") /\ Accesses(p[2], "write")
      BY <2>2 DEF Races, WriteRaces
    <3>3. \A k : /\ Accesses(p[1], k) => Did(p[1], k)
                 /\ Accesses(p[2], k) => Did(p[2], k)
      BY <2>2, <3>2, DoneAll DEF RaceInv, HistoryInv
    <3>4. UpTo(p[1], p[2]) \/ UpTo(p[2], p[1])
      BY <2>1, <2>2, <3>1, <3>2, <3>3 DEF LastWriterOK, PairsOK, Wrote
    <3> QED
      BY <3>2, <3>4 DEF UpTo, Parallel
  <2> QED
    BY <2>1, <2>2
<1> QED
  BY <1>1, <1>2, <1>3, WriterChain, PTL DEF Spec
=============================================================================
