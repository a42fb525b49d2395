--------------------------- MODULE AccessHistory ---------------------------
(***************************************************************************)
(* The access history of one memory location: check_access, handle_read    *)
(* and handle_write of rdtool/src/check_mem.cpp, run by concurrent strands *)
(* of the program under test.                                              *)
(*                                                                         *)
(* The program is a set of strands with a strict partial order, its dag; a *)
(* strand makes its accesses one after the other once all strands before   *)
(* it have ended.  Strands the dag does not order run concurrently.  The   *)
(* location is one grain of a MemAccessList_t.  Its last writer is an      *)
(* entry that is installed once and whose accessor is replaced; its        *)
(* readers are a linked list of entries that a write walks and deletes.    *)
(*                                                                         *)
(* A strand is a Current, a stretch of execution between two switches of   *)
(* shadow_stack.cpp; Currents that follow each other can have the same     *)
(* node of the English order.  A query of Precedes is one step, whose      *)
(* answer is part of the program under test: Precedes never orders         *)
(* parallel strands (ShadowStack, PrecedesSound), but it can miss that a   *)
(* strand is before another (ShadowStack, CreateOrdered), as it does for   *)
(* two with the same node.  Its answer does not change while the program   *)
(* runs: relabels change no order and queries answer with it (Relabel,     *)
(* QueryCorrect), and no list in use is written (ShadowStack, ListsFrozen). *)
(***************************************************************************)
EXTENDS Integers, Sequences

CONSTANTS N,       \* number of strands
          MaxOps,  \* bound: accesses a strand makes to the location
          Cases    \* the programs under test: dags with the accesses made

ASSUME BoundAssumption == N \in Nat \ {0} /\ MaxOps \in Nat \ {0}

Strands == 1 .. N
Nobody  == 0
Entries == Strands \X (1 .. MaxOps)
NULL    == <<0, 0>>

Programs == UNION {[1 .. n -> {"read", "write"}] : n \in 1 .. MaxOps}

ASSUME CaseAssumption ==
  \A c \in Cases :
    /\ c.before \in SUBSET (Strands \X Strands)
    /\ \A s \in Strands : <<s, s>> \notin c.before
    /\ \A p, q \in c.before : p[2] = q[1] => <<p[1], q[2]>> \in c.before
    /\ c.prog \in [Strands -> Programs]
    /\ c.known \subseteq c.before
    /\ c.node \in [Strands -> Strands]
    /\ \A s, t \in Strands :
         s # t /\ c.node[s] = c.node[t] => <<s, t>> \in c.before \/ <<t, s>> \in c.before

VARIABLES
  before,     \* the dag: pairs of strands, the first before the second
  prog,       \* per strand: its accesses to the location
  known,      \* the pairs of strands for which Precedes answers TRUE
  node,       \* per strand: Current::english
  at,         \* per strand: the access it makes now or next
  pc,         \* per strand: control point, "idle" between accesses
  slot,       \* the MemAccessList_t is in the shadow memory
  writer,     \* writers[i]->accessor, Nobody while writers[i] is NULL
  head,       \* readers[i]
  next,       \* per entry of the readers: its next field
  freed,      \* entries that were deleted
  rlock,      \* readers_lock: its holder
  reader,     \* per strand: the local variable reader
  tmp,        \* per strand: the local variable tmp
  reports,    \* calls of report_race: recorded accessor and current strand
  undefined,  \* a deleted entry was used
  overlap     \* history: pairs of strands whose checks overlapped in time

program == <<before, prog, known, node>>
shared  == <<slot, writer, head, next, freed, rlock>>
locals  == <<reader, tmp>>
vars    == <<program, at, pc, shared, locals, reports, undefined, overlap>>

Accessor(e) == e[1]

Before(a, b) == <<a, b>> \in before

Precedes(a, b) == <<a, b>> \in known

(* The entry that strand s allocates for its current access. *)
New(s) == <<s, at[s]>>

Finished(s) == at[s] > Len(prog[s])

Init ==
  /\ \E c \in Cases : /\ before = c.before /\ prog = c.prog
                       /\ known = c.known /\ node = c.node
  /\ at = [s \in Strands |-> 1]
  /\ pc = [s \in Strands |-> "idle"]
  /\ slot = FALSE
  /\ writer = Nobody
  /\ head = NULL
  /\ next = [e \in Entries |-> NULL]
  /\ freed = {}
  /\ rlock = Nobody
  /\ reader = [s \in Strands |-> NULL]
  /\ tmp = [s \in Strands |-> NULL]
  /\ reports = {}
  /\ undefined = FALSE
  /\ overlap = {}

Goto(s, from, to) == pc[s] = from /\ pc' = [pc EXCEPT ![s] = to]

Done(s, from) == Goto(s, from, "idle") /\ at' = [at EXCEPT ![s] = @ + 1]

Report(a, s) == reports' = IF Precedes(a, s) THEN reports ELSE reports \cup {<<a, s>>}

-----------------------------------------------------------------------------
(* check_access *)

(* A strand starts an access: shadow_mem.find. *)
Find(s) ==
  /\ ~Finished(s)
  /\ \A t \in Strands : Before(t, s) => Finished(t)
  /\ IF slot THEN Goto(s, "idle", prog[s][at[s]]) ELSE Goto(s, "idle", "insert")
  /\ overlap' = overlap \cup {<<s, t>> : t \in {u \in Strands \ {s} : pc[u] # "idle"}}
  /\ UNCHANGED <<program, at, shared, locals, reports, undefined>>

(* shadow_mem.insert: a compare-and-swap publishes a MemAccessList_t that  *)
(* already holds the access; the loser handles its access as usual.        *)
InsertSlot(s) ==
  \/ /\ ~slot
     /\ slot' = TRUE
     /\ \/ prog[s][at[s]] = "write" /\ writer' = s /\ UNCHANGED head
        \/ prog[s][at[s]] = "read" /\ head' = New(s) /\ UNCHANGED writer
     /\ Done(s, "insert")
     /\ UNCHANGED <<program, next, freed, rlock, locals, reports, undefined, overlap>>
  \/ /\ slot
     /\ Goto(s, "insert", prog[s][at[s]])
     /\ UNCHANGED <<program, at, shared, locals, reports, undefined, overlap>>

-----------------------------------------------------------------------------
(* handle_write: what is done under writers_lock is one step, since every  *)
(* such section makes a single store.                                      *)

LoadWriter(s) ==
  /\ \/ writer = Nobody /\ Goto(s, "write", "installwriter")
     \/ writer # Nobody /\ Goto(s, "write", "checkwriter")
  /\ UNCHANGED <<program, at, shared, locals, reports, undefined, overlap>>

(* The first writer installs its entry; one that comes second goes on with *)
(* the entry it finds.                                                     *)
InstallWriter(s) ==
  /\ \/ /\ writer = Nobody
        /\ writer' = s
        /\ Goto(s, "installwriter", "loadreaders")
     \/ /\ writer # Nobody
        /\ Goto(s, "installwriter", "checkwriter")
        /\ UNCHANGED writer
  /\ UNCHANGED <<program, at, slot, head, next, freed, rlock, locals, reports,
                 undefined, overlap>>

(* Mutant: the last writer is replaced without a query. *)
CheckWriterNot(s) ==
  /\ Goto(s, "checkwriter", "replacewriter")
  /\ UNCHANGED <<program, at, shared, locals, reports, undefined, overlap>>

(* The query against the last writer, unless it has the strand's node. *)
CheckWriter(s) ==
  /\ Goto(s, "checkwriter", "replacewriter")
  /\ \/ node[writer] = node[s] /\ UNCHANGED reports
     \/ node[writer] # node[s] /\ Report(writer, s)
  /\ UNCHANGED <<program, at, shared, locals, undefined, overlap>>

ReplaceWriter(s) ==
  /\ Goto(s, "replacewriter", "loadreaders")
  /\ writer' = s
  /\ UNCHANGED <<program, at, slot, head, next, freed, rlock, locals, reports,
                 undefined, overlap>>

LoadReaders(s) ==
  /\ Goto(s, "loadreaders", "walk")
  /\ reader' = [reader EXCEPT ![s] = head]
  /\ UNCHANGED <<program, at, shared, tmp, reports, undefined, overlap>>

(* Mutant: the query is made the wrong way round. *)
WalkReadersSwapped(s) ==
  LET e == reader[s] IN
  /\ pc[s] = "walk"
  /\ e # NULL
  /\ \/ /\ e \in freed
        /\ undefined' = TRUE
        /\ UNCHANGED <<reader, freed, reports>>
     \/ /\ e \notin freed
        /\ reports' = IF Precedes(s, Accessor(e)) THEN reports
                      ELSE reports \cup {<<Accessor(e), s>>}
        /\ reader' = [reader EXCEPT ![s] = next[e]]
        /\ freed' = freed \cup {e}
        /\ UNCHANGED undefined
  /\ UNCHANGED <<program, at, pc, slot, writer, head, next, rlock, tmp, overlap>>

(* One round of the walk over the readers, which holds no lock: query the  *)
(* entry, advance and delete it.                                           *)
WalkReaders(s) ==
  LET e == reader[s] IN
  /\ pc[s] = "walk"
  /\ e # NULL
  /\ \/ /\ e \in freed
        /\ undefined' = TRUE
        /\ UNCHANGED <<reader, freed, reports>>
     \/ /\ e \notin freed
        /\ Report(Accessor(e), s)
        /\ reader' = [reader EXCEPT ![s] = next[e]]
        /\ freed' = freed \cup {e}
        /\ UNCHANGED undefined
  /\ UNCHANGED <<program, at, pc, slot, writer, head, next, rlock, tmp, overlap>>

ClearReaders(s) ==
  /\ reader[s] = NULL
  /\ Done(s, "walk")
  /\ head' = NULL
  /\ UNCHANGED <<program, slot, writer, next, freed, rlock, locals, reports,
                 undefined, overlap>>

-----------------------------------------------------------------------------
(* handle_read *)

(* Mutant: no check that there is a last writer. *)
CheckWriterUnguarded(s) ==
  /\ Goto(s, "read", "loadreader")
  /\ Report(writer, s)
  /\ UNCHANGED <<program, at, shared, locals, undefined, overlap>>

(* The query against the last writer, the strand itself included. *)
CheckWriterOfRead(s) ==
  /\ Goto(s, "read", "loadreader")
  /\ \/ writer = Nobody /\ UNCHANGED reports
     \/ writer # Nobody /\ Report(writer, s)
  /\ UNCHANGED <<program, at, shared, locals, undefined, overlap>>

(* Outside any lock: NULL or an entry that the push below will point to. *)
LoadReader(s) ==
  /\ \/ head = NULL /\ Goto(s, "loadreader", "install")
     \/ head # NULL /\ Goto(s, "loadreader", "dedup")
  /\ reader' = [reader EXCEPT ![s] = head]
  /\ UNCHANGED <<program, at, shared, tmp, reports, undefined, overlap>>

(* Lock readers_lock and look whether the list is still empty; if it is    *)
(* not, the lock is released at once.                                      *)
LockInstall(s) ==
  /\ rlock = Nobody
  /\ \/ /\ head = NULL
        /\ Goto(s, "install", "store")
        /\ rlock' = s
     \/ /\ head # NULL
        /\ Goto(s, "install", "compare")
        /\ UNCHANGED rlock
  /\ UNCHANGED <<program, at, slot, writer, head, next, freed, locals, reports,
                 undefined, overlap>>

(* Store the first entry and unlock. *)
StoreReader(s) ==
  /\ Goto(s, "store", "compare")
  /\ head' = New(s)
  /\ rlock' = Nobody
  /\ UNCHANGED <<program, at, slot, writer, next, freed, locals, reports,
                 undefined, overlap>>

(* After the unlock: did the entry get in?  If it is not the head, push it. *)
CompareReader(s) ==
  /\ \/ head = New(s) /\ Done(s, "compare")
     \/ head # New(s) /\ Goto(s, "compare", "link") /\ UNCHANGED at
  /\ UNCHANGED <<program, shared, locals, reports, undefined, overlap>>

(* The push, two steps without the lock. *)
LinkReader(s) ==
  /\ \/ /\ New(s) \in freed
        /\ pc[s] = "link"
        /\ undefined' = TRUE
        /\ UNCHANGED <<pc, next>>
     \/ /\ New(s) \notin freed
        /\ Goto(s, "link", "push")
        /\ next' = [next EXCEPT ![New(s)] = head]
        /\ UNCHANGED undefined
  /\ UNCHANGED <<program, at, slot, writer, head, freed, rlock, locals, reports, overlap>>

PushReader(s) ==
  /\ Done(s, "push")
  /\ head' = New(s)
  /\ UNCHANGED <<program, slot, writer, next, freed, rlock, locals, reports,
                 undefined, overlap>>

(* The deduplication, under readers_lock. *)
LockDedup(s) ==
  /\ rlock = Nobody
  /\ rlock' = s
  /\ Goto(s, "dedup", "search")
  /\ tmp' = [tmp EXCEPT ![s] = head]
  /\ UNCHANGED <<program, at, slot, writer, head, next, freed, reader, reports,
                 undefined, overlap>>

(* Mutant: the search starts again instead of advancing. *)
SearchReadersAgain(s) ==
  LET e == tmp[s] IN
  /\ e # NULL
  /\ \/ /\ e \in freed
        /\ pc[s] = "search"
        /\ undefined' = TRUE
        /\ UNCHANGED <<pc, at, rlock, tmp>>
     \/ /\ e \notin freed /\ Accessor(e) = s
        /\ Done(s, "search")
        /\ rlock' = Nobody
        /\ UNCHANGED <<undefined, tmp>>
     \/ /\ e \notin freed /\ Accessor(e) # s
        /\ pc[s] = "search"
        /\ tmp' = [tmp EXCEPT ![s] = head]
        /\ UNCHANGED <<pc, at, undefined, rlock>>
  /\ UNCHANGED <<program, slot, writer, head, next, freed, reader, reports, overlap>>

(* One round of the search for an entry of the strand. *)
SearchReaders(s) ==
  LET e == tmp[s] IN
  /\ e # NULL
  /\ \/ /\ e \in freed
        /\ pc[s] = "search"
        /\ undefined' = TRUE
        /\ UNCHANGED <<pc, at, rlock, tmp>>
     \/ /\ e \notin freed /\ Accessor(e) = s
        /\ Done(s, "search")
        /\ rlock' = Nobody
        /\ UNCHANGED <<undefined, tmp>>
     \/ /\ e \notin freed /\ Accessor(e) # s
        /\ pc[s] = "search"
        /\ tmp' = [tmp EXCEPT ![s] = next[e]]
        /\ UNCHANGED <<pc, at, undefined, rlock>>
  /\ UNCHANGED <<program, slot, writer, head, next, freed, reader, reports, overlap>>

(* Mutant: the new entry replaces the list. *)
AddReaderAlone(s) ==
  /\ tmp[s] = NULL
  /\ Done(s, "search")
  /\ next' = [next EXCEPT ![New(s)] = NULL]
  /\ head' = New(s)
  /\ rlock' = Nobody
  /\ UNCHANGED <<program, slot, writer, freed, locals, reports, undefined, overlap>>

(* None was found: a new entry is put before the one that was the head     *)
(* when LoadReader read it.                                                *)
AddReader(s) ==
  /\ tmp[s] = NULL
  /\ Done(s, "search")
  /\ next' = [next EXCEPT ![New(s)] = reader[s]]
  /\ head' = New(s)
  /\ rlock' = Nobody
  /\ UNCHANGED <<program, slot, writer, freed, locals, reports, undefined, overlap>>

-----------------------------------------------------------------------------
Write(s) == \/ LoadWriter(s) \/ InstallWriter(s) \/ CheckWriter(s) \/ ReplaceWriter(s)
            \/ LoadReaders(s) \/ WalkReaders(s) \/ ClearReaders(s)

Read(s) == \/ CheckWriterOfRead(s) \/ LoadReader(s) \/ LockInstall(s) \/ StoreReader(s)
           \/ CompareReader(s) \/ LinkReader(s) \/ PushReader(s) \/ LockDedup(s)
           \/ SearchReaders(s) \/ AddReader(s)

Step(s) == ~undefined /\ (Find(s) \/ InsertSlot(s) \/ Write(s) \/ Read(s))

AllDone == \A s \in Strands : Finished(s)

(* All accesses are checked, or the behaviour is no longer defined. *)
Stopped == (AllDone \/ undefined) /\ UNCHANGED vars

Next == (\E s \in Strands : Step(s)) \/ Stopped

Spec == Init /\ [][Next]_vars

(* A strand that runs is run by a worker thread; pthread spin locks give   *)
(* no order, but every holder releases after finitely many own steps.      *)
FairSpec == Spec /\ \A s \in Strands : WF_vars(Step(s))
-----------------------------------------------------------------------------
(* Properties *)

Points == {"idle", "insert", "write", "installwriter", "checkwriter",
           "replacewriter", "loadreaders", "walk", "read", "loadreader",
           "install", "store", "compare", "link", "push", "dedup", "search"}

Pointers == Entries \cup {NULL}

(* The values the fields of MemAccessList_t and the locals can hold: in    *)
(* particular only accesses of strands are ever queried, never NULL.       *)
TypeOK ==
  /\ before \in SUBSET (Strands \X Strands)
  /\ prog \in [Strands -> Programs]
  /\ known \in SUBSET (Strands \X Strands)
  /\ node \in [Strands -> Strands]
  /\ at \in [Strands -> 1 .. (MaxOps + 1)]
  /\ pc \in [Strands -> Points]
  /\ slot \in BOOLEAN
  /\ writer \in Strands \cup {Nobody}
  /\ head \in Pointers
  /\ next \in [Entries -> Pointers]
  /\ freed \in SUBSET Entries
  /\ rlock \in Strands \cup {Nobody}
  /\ reader \in [Strands -> Pointers]
  /\ tmp \in [Strands -> Pointers]
  /\ reports \in SUBSET (Strands \X Strands)
  /\ undefined \in BOOLEAN
  /\ overlap \in SUBSET (Strands \X Strands)

(* Two strands that the dag does not order and that both access the        *)
(* location, the one or the other writing: a determinacy race.             *)
Accesses(s, kind) == \E i \in 1 .. Len(prog[s]) : prog[s][i] = kind

Parallel(x, y) == x # y /\ ~Before(x, y) /\ ~Before(y, x)

WriteRaces == {p \in Strands \X Strands : /\ Parallel(p[1], p[2])
                                          /\ Accesses(p[1], "write")
                                          /\ Accesses(p[2], "write")}

Races == WriteRaces \cup
         {p \in Strands \X Strands : /\ Parallel(p[1], p[2])
                                     /\ \/ Accesses(p[1], "write") /\ Accesses(p[2], "read")
                                        \/ Accesses(p[1], "read") /\ Accesses(p[2], "write")}

(* Races whose two checks overlapped in time. *)
RacingOverlap == {p \in overlap : p \in Races \/ <<p[2], p[1]>> \in Races}

(* A race is reported, and not only strands whose order a query missed. *)
Found == \E p \in reports : Parallel(p[1], p[2])

(* A query misses that a strand is before another, or is the other. *)
Missed(a, b) == (a = b \/ Before(a, b)) /\ ~Precedes(a, b)

(* Every report is of a race of the program, or a query missed an order    *)
(* that is there: handle_read and handle_write compare no two reads and    *)
(* nothing that was not done, and no recorded strand comes after the       *)
(* current one, for which the second query would be needed that            *)
(* check_mem.cpp:59 has commented out.                                     *)
ReportsAreRaces == \A p \in reports : p \in Races \/ Missed(p[1], p[2])

(* When no two checks overlap, a write leaves no pointer to the readers it *)
(* deleted, and a location that has a race is reported once its accesses   *)
(* are checked: the last writer and the readers since it are enough        *)
(* history.  Strands may still run in any order the dag allows.            *)
SequentialRaceFound ==
  overlap = {} => ~undefined /\ (AllDone /\ Races # {} => Found)

(* Two parallel writes are found however reads overlap, as long as no two  *)
(* racing checks overlap: nothing a read does loses the last writer.       *)
WriteRaceFound ==
  AllDone /\ RacingOverlap = {} /\ WriteRaces # {} => Found

(* Where a walk along the readers is after n steps. *)
After[n \in 0 .. (N * MaxOps)] ==
  IF n = 0 THEN head
  ELSE IF After[n - 1] = NULL THEN NULL ELSE next[After[n - 1]]

(* The list of readers closes on itself: no walk along it ends. *)
Cyclic == After[N * MaxOps] # NULL

(* Every check of an access ends, unless a deleted entry was used or the   *)
(* list of readers has become cyclic: the spin locks alone never hang.     *)
AllChecked == <>(AllDone \/ undefined \/ Cyclic)

(* README.md:4, F-Order "detects races on programs that use futures": a    *)
(* location with a race is reported once its accesses are checked.  Only   *)
(* races whose own checks do not overlap are asked for, where there is all *)
(* the time to see the other access in the history.                        *)
SeparateRaceFound ==
  AllDone /\ RacingOverlap = {} /\ Races # {} => Found
=============================================================================
