------------------------- MODULE MaintenanceProofs -------------------------
(***************************************************************************)
(* For any archive, pages and batches of any size, and any order of what   *)
(* goes on beside the two repairs: no repair takes a live message out of   *)
(* the search, the sweep by shifting offsets misses no orphan, the walk by *)
(* ids misses no surplus copy, and no copy is removed without another one  *)
(* of its content.                                                         *)
(***************************************************************************)
EXTENDS Maintenance, FiniteSetTheorems, TLAPS

-----------------------------------------------------------------------------
(* Numbers                                                                 *)

\* A set of naturals has a smallest one, and a finite one a largest.
LEMMA Smallest ==
  ASSUME NEW T \in SUBSET Nat, T # {}
  PROVE  \E m \in T : \A k \in T : m <= k
<1> DEFINE U == { 0 .. k : k \in T }
           W == StrictSubsetOrdering(Nat)
<1>1. \A k \in T : 0 .. k \in FiniteSubsetsOf(Nat)
  BY FS_Interval DEF FiniteSubsetsOf
<1>2. U \subseteq FiniteSubsetsOf(Nat) /\ U # {}
  BY <1>1
<1>3. PICK m \in T : \A k \in T : ~ (<< 0 .. k, 0 .. m >> \in W)
  <2>1. IsWellFoundedOn(W, FiniteSubsetsOf(Nat))
    BY FS_StrictSubsetOrderingWellFounded
  <2> HIDE DEF W, U
  <2>2. PICK x \in U : \A y \in U : ~ (<< y, x >> \in W)
    BY <1>2, <2>1, WFMin
  <2> USE DEF U
  <2> QED
    BY <2>2
<1>4. ASSUME NEW k \in T, k < m PROVE FALSE
  <2>1. 0 .. k \subseteq 0 .. m /\ m \in 0 .. m /\ m \notin 0 .. k
    BY <1>4
  <2>2. << 0 .. k, 0 .. m >> \in W
    BY <2>1 DEF StrictSubsetOrdering
  <2> QED
    BY <1>3, <2>2
<1> QED
  BY <1>3, <1>4

\* The complements of the initial segments of a finite set get smaller: the one
\* above the largest element is the smallest.
LEMMA Largest ==
  ASSUME NEW T \in SUBSET Nat, T # {}, IsFiniteSet(T)
  PROVE  \E m \in T : \A k \in T : k <= m
<1> DEFINE Above(x) == { k \in T : x < k }
           U == { Above(x) : x \in T }
           W == StrictSubsetOrdering(T)
<1>1. FiniteSubsetsOf(T) = SUBSET T
  BY FS_FiniteSubsetsOfFinite
<1>2. U \subseteq FiniteSubsetsOf(T) /\ U # {}
  <2>1. \A x \in T : Above(x) \in SUBSET T
    OBVIOUS
  <2>2. \A x \in T : Above(x) \in FiniteSubsetsOf(T)
    BY <1>1, <2>1
  <2> HIDE DEF Above
  <2> QED
    BY <2>2
<1>3. PICK m \in T : \A k \in T : ~ (<< Above(k), Above(m) >> \in W)
  <2>1. IsWellFoundedOn(W, FiniteSubsetsOf(T))
    BY FS_StrictSubsetOrderingWellFounded
  <2> HIDE DEF W, U
  <2>2. PICK x \in U : \A y \in U : ~ (<< y, x >> \in W)
    BY <1>2, <2>1, WFMin
  <2> USE DEF U
  <2> QED
    BY <2>2
<1>4. ASSUME NEW k \in T, m < k PROVE FALSE
  <2>1. \A j \in T : k < j => m < j
    BY <1>4
  <2>2. Above(k) \subseteq Above(m)
    BY <2>1
  <2>3. k \in Above(m) /\ k \notin Above(k)
    BY <1>4
  <2> HIDE DEF Above
  <2>4. Above(k) \in SUBSET T /\ Above(m) \in SUBSET T
    BY DEF Above
  <2>5. << Above(k), Above(m) >> \in W
    BY <2>2, <2>3, <2>4 DEF StrictSubsetOrdering
  <2> QED
    BY <1>3, <2>5
<1> QED
  BY <1>3, <1>4

-----------------------------------------------------------------------------
(* Types                                                                   *)

Walking == { "page", "check", "drain", "last" }

\* The offset goes back by what was removed of the documents read so far, and
\* never further than the walk has come.
OffsetKept ==
    /\ IsFiniteSet(sweep.pending)
    /\ sweep.pc \notin Walking => sweep.pending = {}
    /\ sweep.pc \in { "page", "check" } => Cardinality(sweep.pending) <= sweep.offset
    /\ sweep.pc = "check" => sweep.removed = 0
    /\ sweep.pc = "drain" =>
          Cardinality(sweep.pending) + sweep.removed <= sweep.offset + Cardinality(sweep.page)

Types == TypeOK /\ OffsetKept

LEMMA FiniteIds ==
  ASSUME NEW S \in SUBSET Ids
  PROVE  IsFiniteSet(S) /\ Cardinality(S) \in Nat
  BY MaintenanceAssumption, FS_Subset, FS_CardinalityType

LEMMA InitTypes == Init => Types
<1> SUFFICES ASSUME Init PROVE Types
  OBVIOUS
<1>1. archive \in Archive /\ engine \in Engine
  <2>1. PICK known \in SUBSET Ids, rows \in SUBSET Ids, version \in [Ids -> Versions],
             age \in [Ids -> 0 .. Cardinality(Ids)] :
               /\ archive = [ age |-> age, version |-> version, rows |-> rows, sources |-> Sources, held |-> {} ]
               /\ engine = [ docs |-> known, place |-> age, written |-> known, torn |-> {} ]
    BY DEF Init
  <2>2. Cardinality(Ids) \in Nat
    BY FiniteIds
  <2>3. age \in [ Ids -> Nat ]
    BY <2>2
  <2> QED
    BY <2>1, <2>3, Zenon DEF Archive, Engine
<1>2. sweep \in Sweep
  <2>1. 0 \in Nat
    OBVIOUS
  <2> QED
    BY <2>1, Zenon DEF Init, IdleSweep, Sweep
<1>3. dups \in Dups
  <2>1. 0 \in Nat
    OBVIOUS
  <2> QED
    BY <2>1, Zenon DEF Init, IdleDups, Dups
<1>4. OffsetKept
  BY FS_EmptySet DEF Init, IdleSweep, OffsetKept, Walking
<1>5. faults \in 0 .. Budget
  BY MaintenanceAssumption DEF Init
<1> QED
  BY <1>1, <1>2, <1>3, <1>4, <1>5 DEF Types, TypeOK

LEMMA IdleTypes == IdleSweep \in Sweep /\ IdleDups \in Dups
<1>1. 0 \in Nat
  OBVIOUS
<1> QED
  BY <1>1, Zenon DEF IdleSweep, Sweep, IdleDups, Dups

LEMMA IdleFields ==
  /\ IdleSweep.pc = "idle" /\ IdleSweep.pending = {} /\ IdleSweep.offset = 0 /\ IdleSweep.page = {}
  /\ IdleSweep.orphans = {} /\ IdleSweep.blocks = {} /\ IdleSweep.removed = 0
  /\ IdleDups.pc = "idle" /\ IdleDups.page = {} /\ IdleDups.cursor = 0 /\ IdleDups.removable = {}
  /\ IdleDups.start = {}
  BY DEF IdleSweep, IdleDups

LEMMA NextFaults == TypeOK /\ [Next]_vars => faults' \in 0 .. Budget
<1> SUFFICES ASSUME TypeOK, [Next]_vars PROVE faults' \in 0 .. Budget
  OBVIOUS
<1>1. UNCHANGED faults \/ \E kind \in Env : Strikes(kind)
  BY DEF Next, Beside, CleanupOrphans, CleanupDuplicates, Crash, vars, Strikes, Insert, Index, UserDeletes, Hold,
         SourceDeleted, TriggerOrphans, Overview, Confirm, RemoveBlock, BlocksDone, ReadPage, CheckRows, Drain,
         Advance, DrainAll, SweepDone, SweepFails, Delete, TriggerDuplicates, DuplicatesPage, SkipCopy, UnlistCopy,
         RemoveCopy, CopyFails, Leaves, DuplicatesDone
<1> QED
  BY <1>1, MaintenanceAssumption DEF TypeOK, Strikes

\* What goes on beside the repairs keeps the types.
LEMMA BesideTypes == TypeOK /\ Beside => archive' \in Archive /\ engine' \in Engine /\ sweep' \in Sweep /\ dups' \in Dups
<1> SUFFICES ASSUME TypeOK, Beside
             PROVE  archive' \in Archive /\ engine' \in Engine /\ sweep' \in Sweep /\ dups' \in Dups
  OBVIOUS
<1>0. archive \in Archive /\ engine \in Engine /\ sweep \in Sweep /\ dups \in Dups
  BY DEF TypeOK
<1>1. ASSUME Unsettled PROVE sweep' \in Sweep /\ dups' \in Dups
  BY <1>0, <1>1, Zenon DEF Unsettled, Sweep, Dups
<1>2. ASSUME NEW r \in Ids, NEW v \in Versions, Insert(r, v)
      PROVE  archive' \in Archive /\ engine' \in Engine /\ sweep' \in Sweep /\ dups' \in Dups
  <2> DEFINE n == 1 + Cardinality({ q \in Ids : Known(q) })
  <2>1. n \in Nat
    BY FiniteIds
  <2> HIDE DEF n
  <2>2. archive' = [ archive EXCEPT !.age = [ archive.age EXCEPT ![r] = n ],
                                    !.version = [ archive.version EXCEPT ![r] = v ],
                                    !.rows = archive.rows \cup {r} ]
    BY <1>2 DEF Insert, n
  <2>3. [ archive.age EXCEPT ![r] = n ] \in [ Ids -> Nat ] /\ [ archive.version EXCEPT ![r] = v ] \in [ Ids -> Versions ]
    BY <1>0, <2>1 DEF Archive
  <2>4. archive' \in Archive
    BY <1>0, <2>2, <2>3, Zenon DEF Archive
  <2> QED
    BY <1>0, <1>2, <2>4 DEF Insert
<1>3. ASSUME NEW r \in Ids, Index(r)
      PROVE  archive' \in Archive /\ engine' \in Engine /\ sweep' \in Sweep /\ dups' \in Dups
  <2>1. PICK p \in Ids :
          engine' = [ engine EXCEPT !.docs = @ \cup {r}, !.place[r] = p, !.written = @ \cup {r},
                                    !.torn = @ \ {r} ]
    BY <1>3 DEF Index, Written
  <2>2. engine' = [ engine EXCEPT !.docs = engine.docs \cup {r}, !.place = [ engine.place EXCEPT ![r] = p ],
                                  !.written = engine.written \cup {r}, !.torn = engine.torn \ {r} ]
    BY <2>1
  <2>3. [ engine.place EXCEPT ![r] = p ] \in [ Ids -> Nat ]
    BY <1>0, MaintenanceAssumption DEF Engine
  <2>4. engine' \in Engine
    BY <1>0, <2>2, <2>3, Zenon DEF Engine
  <2>5. sweep' \in Sweep
    BY <1>0, <1>3, Zenon DEF Index, Sweep
  <2> QED
    BY <1>0, <1>3, <2>4, <2>5 DEF Index
<1>4. ASSUME NEW r \in Ids, UserDeletes(r) \/ Hold(r)
      PROVE  archive' \in Archive /\ engine' \in Engine /\ sweep' \in Sweep /\ dups' \in Dups
  <2>1. Unsettled
    BY <1>4 DEF UserDeletes, Hold
  <2>2. CASE UserDeletes(r)
    <3>1. PICK row \in SUBSET {r}, doc \in SUBSET {r} :
             /\ archive' = [ archive EXCEPT !.rows = @ \ row ]
             /\ engine' = [ engine EXCEPT !.docs = @ \ doc, !.torn = (@ \cup doc) \ row ]
      BY <2>2 DEF UserDeletes
    <3>2. (engine.torn \cup doc) \ row \in SUBSET Ids
      BY <1>0 DEF Engine
    <3>3. archive' \in Archive /\ engine' \in Engine
      BY <1>0, <3>1, <3>2, Zenon DEF Archive, Engine
    <3> QED
      BY <1>1, <2>1, <3>3
  <2>3. CASE Hold(r)
    <3> DEFINE h == IF r \in archive.held THEN archive.held \ {r} ELSE archive.held \cup {r}
    <3>1. h \in SUBSET Ids
      BY <1>0 DEF Archive
    <3>2. archive' = [ archive EXCEPT !.held = h ]
      BY <2>3 DEF Hold
    <3> HIDE DEF h
    <3>3. archive' \in Archive
      BY <1>0, <3>1, <3>2, Zenon DEF Archive
    <3> QED
      BY <1>0, <1>1, <2>1, <2>3, <3>3 DEF Hold
  <2> QED
    BY <1>4, <2>2, <2>3
<1>5. ASSUME NEW s \in Sources, SourceDeleted(s)
      PROVE  archive' \in Archive /\ engine' \in Engine /\ sweep' \in Sweep /\ dups' \in Dups
  <2> DEFINE gone == { r \in archive.rows : SourceOf[archive.version[r]] = s }
             d == DocsOf(s)
  <2>1. archive' = [ archive EXCEPT !.sources = archive.sources \ {s}, !.rows = archive.rows \ gone,
                                    !.held = archive.held \ gone ]
    BY <1>5 DEF SourceDeleted
  <2>2. engine' = engine \/ engine' = [ engine EXCEPT !.docs = engine.docs \ d ]
    BY <1>5 DEF SourceDeleted
  <2> HIDE DEF gone, d
  <2>3. archive' \in Archive
    BY <1>0, <2>1, Zenon DEF Archive
  <2>4. engine' \in Engine
    BY <1>0, <2>2, Zenon DEF Engine
  <2> QED
    BY <1>1, <1>5, <2>3, <2>4 DEF SourceDeleted
<1> QED
  BY <1>2, <1>3, <1>4, <1>5 DEF Beside

\* A page of surplus rows ends with its largest id, and takes every surplus row
\* ahead of the walk up to there.
LEMMA PageEnds ==
  ASSUME TypeOK, DuplicatesPage
  PROVE  LET page == { r \in Ahead : Cardinality({ q \in Ahead : q < r }) < DuplicatePage }
             c == CHOOSE r \in page : \A q \in page : q <= r
         IN  /\ c \in Ids /\ c \in page /\ \A q \in page : q <= c
             /\ \A r \in Ahead : r <= c => r \in page
<1> DEFINE page == { r \in Ahead : Cardinality({ q \in Ahead : q < r }) < DuplicatePage }
           c == CHOOSE r \in page : \A q \in page : q <= r
           before(r) == { q \in Ahead : q < r }
<1>1. Ahead \in SUBSET Ids /\ Ids \subseteq Nat /\ DuplicatePage \in Nat \ {0}
  BY MaintenanceAssumption DEF Ahead, Surplus, TypeOK, Archive
<1>2. page # {}
  <2>1. PICK r \in Ahead : \A q \in Ahead : r <= q
    BY <1>1, Smallest DEF DuplicatesPage
  <2>2. \A q \in Ahead : ~ (q < r)
    BY <1>1, <2>1
  <2>20. before(r) = {}
    BY <2>2
  <2>3. Cardinality(before(r)) = 0
    BY <2>20, FS_EmptySet
  <2> HIDE DEF before
  <2> QED
    BY <1>1, <2>3 DEF before
<1>3. page \in SUBSET Nat /\ IsFiniteSet(page)
  BY <1>1, FiniteIds
<1>4. \E m \in page : \A q \in page : q <= m
  <2> HIDE DEF page
  <2> QED
    BY <1>2, <1>3, Largest
<1>5. c \in page /\ \A q \in page : q <= c
  <2> HIDE DEF page
  <2> QED
    BY <1>4
<1> HIDE DEF c
<1>6. ASSUME NEW r \in Ahead, r <= c PROVE r \in page
  <2>0. \A q \in Ahead : q < r => q < c
    BY <1>1, <1>5, <1>6
  <2>1. before(r) \subseteq before(c)
    BY <2>0
  <2>2. IsFiniteSet(before(c)) /\ Cardinality(before(c)) \in Nat /\ Cardinality(before(r)) \in Nat
    BY <1>1, FiniteIds
  <2>3. Cardinality(before(r)) <= Cardinality(before(c))
    BY <2>1, <2>2, FS_Subset
  <2>4. Cardinality(before(c)) < DuplicatePage
    BY <1>5
  <2> HIDE DEF before
  <2>5. Cardinality(before(r)) < DuplicatePage
    BY <1>1, <2>2, <2>3, <2>4
  <2> QED
    BY <2>5 DEF before
<1> QED
  BY <1>1, <1>5, <1>6 DEF c

\* The sweep's own steps, for the documents and for its record.
LEMMA SweepTypes ==
  ASSUME Types, CleanupOrphans
  PROVE  engine' \in Engine /\ sweep' \in Sweep /\ OffsetKept'
<1>0. archive \in Archive /\ engine \in Engine /\ sweep \in Sweep /\ OffsetKept
  BY DEF Types, TypeOK
<1>00. /\ sweep.offset \in Nat /\ sweep.reads \in Nat /\ sweep.removed \in Nat
       /\ sweep.page \in SUBSET Ids /\ sweep.pending \in SUBSET (Ids \X Nat) /\ IsFiniteSet(sweep.pending)
       /\ Cardinality(sweep.page) \in Nat /\ Cardinality(sweep.pending) \in Nat
  BY <1>0, FiniteIds, FS_CardinalityType DEF Sweep, OffsetKept
<1>01. IsFiniteSet({}) /\ Cardinality({}) = 0
  BY FS_EmptySet
<1>1. CASE TriggerOrphans
  <2>1. engine' \in Engine /\ sweep' \in Sweep
    BY <1>0, <1>1, IdleTypes, Zenon DEF TriggerOrphans, Sweep
  <2>2. sweep'.pc = "overview" /\ sweep'.pending = {}
    BY <1>1 DEF TriggerOrphans, IdleSweep
  <2> QED
    BY <2>1, <2>2, <1>01 DEF OffsetKept, Walking
<1>2. CASE Overview \/ Confirm
  <2>1. PICK b \in SUBSET Sources, p \in { "confirm", "blocks" } :
          sweep' = [ sweep EXCEPT !.pc = p, !.blocks = b ] /\ sweep.pc \in { "overview", "confirm" }
    <3>1. CASE Overview
      BY <3>1 DEF Overview
    <3>2. CASE Confirm
      <4>1. Confirmed \in SUBSET Sources
        BY <1>0 DEF Confirmed, Sweep
      <4> QED
        BY <3>2, <4>1 DEF Confirm
    <3> QED
      BY <1>2, <3>1, <3>2
  <2>2. sweep' \in Sweep
    BY <1>0, <2>1, Zenon DEF Sweep
  <2>3. sweep'.pc = p /\ sweep'.pending = sweep.pending
    BY <1>0, <2>1 DEF Sweep
  <2>4. sweep.pending = {}
    BY <1>0, <2>1 DEF OffsetKept, Walking
  <2>5. engine' = engine
    BY <1>2 DEF Overview, Confirm
  <2> QED
    BY <1>0, <2>1, <2>2, <2>3, <2>4, <2>5, <1>01 DEF OffsetKept, Walking
<1>3. ASSUME NEW s \in Sources, RemoveBlock(s) PROVE engine' \in Engine /\ sweep' \in Sweep /\ OffsetKept'
  <2> DEFINE d == DocsOf(s)
  <2>1. /\ engine' = engine \/ engine' = [ engine EXCEPT !.docs = engine.docs \ d ]
        /\ sweep' = [ sweep EXCEPT !.blocks = sweep.blocks \ {s} ]
    BY <1>3 DEF RemoveBlock
  <2> HIDE DEF d
  <2>2. engine' \in Engine /\ sweep' \in Sweep
    BY <1>0, <2>1, Zenon DEF Engine, Sweep
  <2>3. sweep'.pc = "blocks" /\ sweep'.pending = {}
    BY <1>0, <1>3, <2>1 DEF Sweep, RemoveBlock, OffsetKept, Walking
  <2> QED
    BY <2>2, <2>3, <1>01 DEF OffsetKept, Walking
<1>4. CASE BlocksDone
  <2> DEFINE o == engine.docs \ archive.rows
  <2>1. o \in SUBSET Ids
    BY <1>0 DEF Engine
  <2>2. sweep' = [ sweep EXCEPT !.pc = "page", !.orphans = o ] /\ engine' = engine
    BY <1>4 DEF BlocksDone
  <2> HIDE DEF o
  <2>3. sweep' \in Sweep
    BY <1>0, <2>1, <2>2, Zenon DEF Sweep
  <2>4. sweep'.pc = "page" /\ sweep'.pending = {} /\ sweep'.offset = sweep.offset
    BY <1>0, <1>4, <2>2 DEF Sweep, BlocksDone, OffsetKept, Walking
  <2> QED
    BY <1>0, <1>00, <2>2, <2>3, <2>4, <1>01 DEF OffsetKept, Walking
<1>5. CASE ReadPage
  <2>1. PICK ids \in SUBSET Ids :
          sweep' = [ sweep EXCEPT !.page = ids, !.reads = IF sweep.pending = {} THEN 1 ELSE sweep.reads + 1,
                                  !.removed = 0, !.pc = IF ids = {} THEN "last" ELSE "check" ]
    <3> DEFINE S == { d \in engine.docs : sweep.offset <= Position(d) /\ Position(d) < sweep.offset + ScanPage }
    <3>1. S \in SUBSET Ids
      BY <1>0 DEF Engine
    <3> QED
      BY <1>5, <3>1 DEF ReadPage
  <2> DEFINE n == IF sweep.pending = {} THEN 1 ELSE sweep.reads + 1
             p == IF ids = {} THEN "last" ELSE "check"
             z == 0
  <2>2. n \in Nat /\ z \in Nat /\ p \in { "last", "check" }
    BY <1>00
  <2>3. sweep' = [ sweep EXCEPT !.page = ids, !.reads = n, !.removed = z, !.pc = p ]
    BY <2>1
  <2> HIDE DEF n, p, z
  <2>4. sweep' \in Sweep
    BY <1>0, <2>2, <2>3, Zenon DEF Sweep
  <2>5. /\ sweep'.pc = p /\ sweep'.removed = z /\ sweep'.pending = sweep.pending /\ sweep'.offset = sweep.offset
        /\ sweep.pc = "page"
    BY <1>0, <1>5, <2>3 DEF Sweep, ReadPage
  <2>6. z = 0
    BY DEF z
  <2>7. engine' = engine
    BY <1>5 DEF ReadPage
  <2> QED
    BY <1>0, <1>00, <2>2, <2>4, <2>5, <2>6, <2>7 DEF OffsetKept, Walking
<1>6. CASE CheckRows
  <2> DEFINE a == sweep.page \ archive.rows
             b == a \X {sweep.reads}
             q == sweep.pending \cup b
  <2>1. sweep' = [ sweep EXCEPT !.pc = "drain", !.pending = q ] /\ sweep.pc = "check" /\ engine' = engine
    BY <1>6 DEF CheckRows
  <2>2. a \in SUBSET sweep.page /\ IsFiniteSet(sweep.page)
    BY <1>00, FiniteIds
  <2>3. IsFiniteSet(a) /\ Cardinality(a) <= Cardinality(sweep.page) /\ Cardinality(a) \in Nat
    BY <2>2, FS_Subset, FS_CardinalityType
  <2>4. IsFiniteSet({sweep.reads}) /\ Cardinality({sweep.reads}) = 1
    BY FS_Singleton
  <2>5. IsFiniteSet(b) /\ Cardinality(b) = Cardinality(a)
    <3>1. IsFiniteSet(b) /\ Cardinality(b) = Cardinality(a) * Cardinality({sweep.reads})
      BY <2>3, <2>4, FS_Product
    <3> HIDE DEF a, b
    <3> QED
      BY <2>3, <2>4, <3>1
  <2>6. q \in SUBSET (Ids \X Nat)
    BY <1>00, <2>2
  <2> HIDE DEF a, b
  <2>7. IsFiniteSet(q) /\ Cardinality(q) = Cardinality(sweep.pending) + Cardinality(b) - Cardinality(sweep.pending \cap b)
    BY <1>00, <2>5, FS_Union
  <2>8. Cardinality(sweep.pending \cap b) \in Nat
    BY <1>00, FS_Intersection, FS_CardinalityType
  <2> HIDE DEF q
  <2>9. sweep' \in Sweep
    BY <1>0, <2>1, <2>6, Zenon DEF Sweep
  <2>10. /\ sweep'.pc = "drain" /\ sweep'.pending = q /\ sweep'.page = sweep.page /\ sweep'.offset = sweep.offset
         /\ sweep'.removed = sweep.removed
    BY <1>0, <2>1 DEF Sweep
  <2>11. Cardinality(sweep.pending) <= sweep.offset /\ sweep.removed = 0
    BY <1>0, <2>1 DEF OffsetKept
  <2>12. Cardinality(q) + 0 <= sweep.offset + Cardinality(sweep.page)
    BY <1>00, <2>3, <2>5, <2>7, <2>8, <2>11
  <2> QED
    BY <1>0, <2>1, <2>7, <2>9, <2>10, <2>11, <2>12 DEF OffsetKept, Walking
<1>7. ASSUME NEW batch \in SUBSET sweep.pending, Delete(batch), sweep.pc \in { "drain", "last" }
      PROVE  engine' \in Engine /\ sweep' \in Sweep /\ OffsetKept'
  <2> DEFINE ids == { b[1] : b \in batch }
             n == sweep.removed + Cardinality(batch)
             rest == sweep.pending \ batch
  <2>1. PICK gone \in SUBSET ids :
          /\ engine' = [ engine EXCEPT !.docs = engine.docs \ gone ]
          /\ sweep' = [ sweep EXCEPT !.pending = rest, !.removed = n,
                                     !.refused = sweep.refused \cup (ids \ gone) ]
    BY <1>7 DEF Delete
  <2> DEFINE w == sweep.refused \cup (ids \ gone)
  <2>10. w \in SUBSET Ids
    <3>1. ids \in SUBSET Ids
      BY <1>00
    <3>2. sweep.refused \in SUBSET Ids
      BY <1>0 DEF Sweep
    <3> HIDE DEF ids
    <3> QED
      BY <3>1, <3>2
  <2>11. sweep' = [ sweep EXCEPT !.pending = rest, !.removed = n, !.refused = w ]
    BY <2>1
  <2>2. IsFiniteSet(batch) /\ Cardinality(batch) \in Nat
    BY <1>00, FS_Subset, FS_CardinalityType
  <2>3. n \in Nat
    BY <1>00, <2>2
  <2>4. IsFiniteSet(rest) /\ Cardinality(rest) = Cardinality(sweep.pending) - Cardinality(batch)
    <3>1. sweep.pending \cap batch = batch
      OBVIOUS
    <3>2. /\ IsFiniteSet(sweep.pending \ batch)
          /\ Cardinality(sweep.pending \ batch) = Cardinality(sweep.pending) - Cardinality(sweep.pending \cap batch)
      BY <1>00, FS_Difference
    <3> QED
      BY <3>1, <3>2
  <2>5. rest \in SUBSET (Ids \X Nat)
    BY <1>00
  <2>6. Cardinality(rest) + n = Cardinality(sweep.pending) + sweep.removed
    BY <1>00, <2>2, <2>4
  <2> HIDE DEF ids, n, rest, w
  <2>7. engine' \in Engine /\ sweep' \in Sweep
    BY <1>0, <2>1, <2>3, <2>5, <2>10, <2>11, Zenon DEF Engine, Sweep
  <2>8. /\ sweep'.pc = sweep.pc /\ sweep'.pending = rest /\ sweep'.removed = n /\ sweep'.offset = sweep.offset
        /\ sweep'.page = sweep.page
    BY <1>0, <2>11 DEF Sweep
  <2> QED
    BY <1>0, <1>7, <2>4, <2>6, <2>7, <2>8 DEF OffsetKept, Walking
<1>8. CASE Advance
  <2> DEFINE o == NextOffset
             p == IF Cardinality(sweep.page) < ScanPage THEN "last" ELSE "page"
  <2>1. sweep' = [ sweep EXCEPT !.offset = o, !.page = {}, !.pc = p ] /\ sweep.pc = "drain" /\ engine' = engine
    BY <1>8 DEF Advance
  <2>2. Cardinality(sweep.pending) + sweep.removed <= sweep.offset + Cardinality(sweep.page)
    BY <1>0, <2>1 DEF OffsetKept
  <2>3. o \in Nat /\ Cardinality(sweep.pending) <= o
    BY <1>00, <2>2 DEF NextOffset
  <2>4. p \in { "last", "page" }
    OBVIOUS
  <2> HIDE DEF o, p
  <2>5. sweep' \in Sweep
    BY <1>0, <2>1, <2>3, <2>4, Zenon DEF Sweep
  <2>6. sweep'.pc = p /\ sweep'.pending = sweep.pending /\ sweep'.offset = o
    BY <1>0, <2>1 DEF Sweep
  <2> QED
    BY <1>0, <2>1, <2>3, <2>4, <2>5, <2>6 DEF OffsetKept, Walking
<1>9. CASE SweepDone \/ SweepFails
  <2>1. sweep' \in Sweep
    <3>1. CASE SweepFails
      BY <3>1, IdleTypes DEF SweepFails
    <3>2. CASE SweepDone
      BY <1>0, <3>2, IdleTypes, Zenon DEF SweepDone, Sweep
    <3> QED
      BY <1>9, <3>1, <3>2
  <2>2. sweep'.pc = "idle" /\ sweep'.pending = {} /\ engine' = engine
    <3>1. CASE SweepFails
      BY <3>1 DEF SweepFails, IdleSweep
    <3>2. CASE SweepDone
      BY <3>2, IdleFields, IdleTypes DEF SweepDone, Sweep
    <3> QED
      BY <1>9, <3>1, <3>2
  <2> QED
    BY <1>0, <2>1, <2>2, <1>01 DEF OffsetKept, Walking
<1>10. CASE Drain \/ DrainAll
  BY <1>7, <1>10 DEF Drain, DrainAll
<1> QED
  BY <1>1, <1>2, <1>3, <1>4, <1>5, <1>6, <1>8, <1>9, <1>10 DEF CleanupOrphans

\* The steps of the duplicate cleanup, for everything they change.
LEMMA DupsTypes ==
  ASSUME TypeOK, CleanupDuplicates
  PROVE  archive' \in Archive /\ engine' \in Engine /\ sweep' \in Sweep /\ dups' \in Dups
<1>0. archive \in Archive /\ engine \in Engine /\ sweep \in Sweep /\ dups \in Dups
  BY DEF TypeOK
<1>1. CASE TriggerDuplicates
  <2> DEFINE s == archive.rows
  <2>1. s \in SUBSET Ids
    BY <1>0 DEF Archive
  <2>2. dups' = [ IdleDups EXCEPT !.pc = "page", !.start = s ]
    BY <1>1 DEF TriggerDuplicates
  <2> HIDE DEF s
  <2>3. dups' \in Dups
    BY IdleTypes, <2>1, <2>2, Zenon DEF Dups
  <2> QED
    BY <1>0, <1>1, <2>3 DEF TriggerDuplicates
<1>2. CASE DuplicatesPage
  <2> DEFINE page == { r \in Ahead : Cardinality({ q \in Ahead : q < r }) < DuplicatePage }
             removable == { r \in page : Removable(r) }
             c == CHOOSE r \in page : \A q \in page : q <= r
  <2>1. page \in SUBSET Ids /\ removable \in SUBSET Ids
    BY <1>0 DEF Ahead, Surplus, Archive
  <2>2. c \in Nat
    BY <1>2, PageEnds, MaintenanceAssumption
  <2>3. dups' = [ dups EXCEPT !.pc = "rows", !.page = page, !.fresh = TRUE, !.removable = removable, !.cursor = c ]
    BY <1>2 DEF DuplicatesPage
  <2> HIDE DEF page, removable, c
  <2>4. dups' \in Dups
    BY <1>0, <2>1, <2>2, <2>3, Zenon DEF Dups
  <2> QED
    BY <1>0, <1>2, <2>4 DEF DuplicatesPage
<1>3. ASSUME NEW r \in Ids, Leaves(r) PROVE dups' \in Dups
  <2> DEFINE p == IF dups.page = {r} THEN "page" ELSE dups.pc
  <2>1. p \in { "idle", "page", "rows" }
    BY <1>0 DEF Dups
  <2>2. dups' = [ dups EXCEPT !.page = dups.page \ {r}, !.unlisted = FALSE, !.pc = p ]
    BY <1>3 DEF Leaves
  <2> HIDE DEF p
  <2> QED
    BY <1>0, <2>1, <2>2, Zenon DEF Dups
<1>4. ASSUME NEW r \in Ids, SkipCopy(r)
      PROVE  archive' \in Archive /\ engine' \in Engine /\ sweep' \in Sweep /\ dups' \in Dups
  BY <1>0, <1>3, <1>4 DEF SkipCopy
<1>5. ASSUME NEW r \in Ids, RemoveCopy(r)
      PROVE  archive' \in Archive /\ engine' \in Engine /\ sweep' \in Sweep /\ dups' \in Dups
  <2>1. archive' \in Archive /\ engine' \in Engine /\ sweep' \in Sweep
    BY <1>0, <1>5, Zenon DEF RemoveCopy, Archive, Engine
  <2> QED
    BY <1>3, <1>5, <2>1 DEF RemoveCopy
<1>50. ASSUME NEW r \in Ids, UnlistCopy(r)
       PROVE  archive' \in Archive /\ engine' \in Engine /\ sweep' \in Sweep /\ dups' \in Dups
  <2>1. engine' = engine \/ engine' = [ engine EXCEPT !.docs = @ \ {r}, !.torn = @ \cup {r} ]
    BY <1>50 DEF UnlistCopy
  <2>2. engine' \in Engine
    BY <1>0, <2>1, Zenon DEF Engine
  <2>3. sweep' \in Sweep /\ dups' \in Dups
    BY <1>0, <1>50, Zenon DEF UnlistCopy, Sweep, Dups
  <2> QED
    BY <1>0, <1>50, <2>2, <2>3 DEF UnlistCopy
<1>6. ASSUME NEW r \in Ids, CopyFails(r)
      PROVE  archive' \in Archive /\ engine' \in Engine /\ sweep' \in Sweep /\ dups' \in Dups
  <2> DEFINE p == IF dups.page = {r} THEN "page" ELSE dups.pc
  <2>1. p \in { "idle", "page", "rows" }
    BY <1>0 DEF Dups
  <2>2. dups' = [ dups EXCEPT !.page = dups.page \ {r}, !.start = {}, !.unlisted = FALSE, !.pc = p ]
    BY <1>6 DEF CopyFails
  <2> HIDE DEF p
  <2>3. dups' \in Dups
    BY <1>0, <2>1, <2>2, Zenon DEF Dups
  <2> QED
    BY <1>0, <1>6, <2>3 DEF CopyFails
<1>7. CASE DuplicatesDone
  <2>1. dups' \in Dups
    BY <1>0, <1>7, IdleTypes, Zenon DEF DuplicatesDone, Dups
  <2> QED
    BY <1>0, <1>7, <2>1 DEF DuplicatesDone
<1> QED
  BY <1>1, <1>2, <1>4, <1>5, <1>50, <1>6, <1>7 DEF CleanupDuplicates

LEMMA CrashTypes == TypeOK /\ Crash => sweep' \in Sweep /\ dups' \in Dups /\ OffsetKept'
<1> SUFFICES ASSUME TypeOK, Crash PROVE sweep' \in Sweep /\ dups' \in Dups /\ OffsetKept'
  OBVIOUS
<1>1. sweep' = IdleSweep \/ sweep' = [ IdleSweep EXCEPT !.pc = "overview", !.retried = TRUE ]
  BY DEF Crash
<1>2. sweep' \in Sweep
  BY <1>1, IdleTypes, Zenon DEF Sweep
<1>3. dups' \in Dups
  <2> DEFINE s == archive.rows
  <2>1. s \in SUBSET Ids
    BY DEF TypeOK, Archive
  <2>2. dups' = IdleDups \/ dups' = [ IdleDups EXCEPT !.pc = "page", !.retried = TRUE, !.start = s ]
    BY DEF Crash
  <2> HIDE DEF s
  <2> QED
    BY <2>1, <2>2, IdleTypes, Zenon DEF Dups
<1>4. sweep'.pc \in { "idle", "overview" } /\ sweep'.pending = {}
  BY <1>1, IdleFields, IdleTypes DEF Sweep
<1> QED
  BY <1>2, <1>3, <1>4, FS_EmptySet DEF OffsetKept, Walking

LEMMA NextTypes == Types /\ [Next]_vars => Types'
<1> SUFFICES ASSUME Types, [Next]_vars PROVE Types'
  OBVIOUS
<1>0. TypeOK /\ OffsetKept /\ archive \in Archive /\ engine \in Engine /\ sweep \in Sweep /\ dups \in Dups
  BY DEF Types, TypeOK
<1>1. faults' \in 0 .. Budget
  BY <1>0, NextFaults
<1>2. CASE Beside
  <2>1. /\ sweep'.pc = sweep.pc /\ sweep'.pending = sweep.pending /\ sweep'.offset = sweep.offset
        /\ sweep'.removed = sweep.removed /\ sweep'.page = sweep.page
    BY <1>0, <1>2 DEF Beside, Insert, Index, UserDeletes, Hold, SourceDeleted, Unsettled, Sweep
  <2>2. OffsetKept'
    BY <1>0, <2>1 DEF OffsetKept
  <2> QED
    BY <1>0, <1>1, <1>2, <2>2, BesideTypes DEF Types, TypeOK
<1>3. CASE CleanupOrphans
  <2>1. archive' = archive /\ dups' = dups
    BY <1>3 DEF CleanupOrphans, TriggerOrphans, Overview, Confirm, RemoveBlock, BlocksDone, ReadPage, CheckRows, Drain,
                Advance, DrainAll, SweepDone, SweepFails, Delete
  <2> QED
    BY <1>0, <1>1, <1>3, <2>1, SweepTypes DEF Types, TypeOK
<1>4. CASE CleanupDuplicates
  <2>1. /\ sweep'.pc = sweep.pc /\ sweep'.pending = sweep.pending /\ sweep'.offset = sweep.offset
        /\ sweep'.removed = sweep.removed /\ sweep'.page = sweep.page
    BY <1>0, <1>4 DEF CleanupDuplicates, TriggerDuplicates, DuplicatesPage, SkipCopy, UnlistCopy, RemoveCopy,
                      CopyFails, DuplicatesDone, Sweep
  <2>2. OffsetKept'
    BY <1>0, <2>1 DEF OffsetKept
  <2> QED
    BY <1>0, <1>1, <1>4, <2>2, DupsTypes DEF Types, TypeOK
<1>5. CASE Crash
  BY <1>0, <1>1, <1>5, CrashTypes DEF Types, TypeOK, Crash
<1>6. CASE UNCHANGED vars
  BY <1>0, <1>6 DEF vars, Types, TypeOK, OffsetKept
<1> QED
  BY <1>2, <1>3, <1>4, <1>5, <1>6 DEF Next

\* The records the repairs keep have their types, and the offset of the sweep
\* stays a number although it goes back by what was removed.
THEOREM TypeCorrect == Spec => []TypeOK
<1>1. Types => TypeOK
  BY DEF Types
<1> QED
  BY <1>1, InitTypes, NextTypes, PTL DEF Spec

-----------------------------------------------------------------------------
(* What is live stays in the search                                        *)

\* Ids of documents and rows are used once; a document that a repair is about to
\* remove has lost its row for good, and a source that is gone does not return.
Past ==
    /\ \A r \in archive.rows : Known(r) /\ SourceOf[archive.version[r]] \in archive.sources
    /\ \A d \in engine.docs \cup engine.written \cup sweep.page \cup dups.start \cup dups.page : Known(d)
    /\ \A b \in sweep.pending : Known(b[1]) /\ b[1] \notin archive.rows
    /\ \A d \in sweep.orphans : Known(d) /\ d \notin archive.rows
    /\ sweep.pc = "blocks" => sweep.blocks \cap archive.sources = {}
    /\ LiveSearchable

\* What the other steps beside the repairs leave of the repairs.
LEMMA UnsettledFields ==
  ASSUME TypeOK, Unsettled
  PROVE  /\ sweep'.pc = sweep.pc /\ sweep'.blocks = sweep.blocks /\ sweep'.offset = sweep.offset
         /\ sweep'.page = sweep.page /\ sweep'.pending = sweep.pending /\ sweep'.removed = sweep.removed
         /\ sweep'.orphans = {} /\ sweep'.done = sweep.done
         /\ dups'.pc = dups.pc /\ dups'.page = dups.page /\ dups'.start = {}
         /\ dups'.done = dups.done /\ ~ dups'.fresh
  BY DEF TypeOK, Unsettled, Sweep, Dups

LEMMA InsertFields ==
  ASSUME TypeOK, NEW r \in Ids, NEW v \in Versions, Insert(r, v)
  PROVE  /\ archive'.rows = archive.rows \cup {r} /\ archive'.sources = archive.sources
         /\ archive'.held = archive.held
         /\ archive'.age = [ archive.age EXCEPT ![r] = 1 + Cardinality({ q \in Ids : Known(q) }) ]
         /\ archive'.version = [ archive.version EXCEPT ![r] = v ]
         /\ archive.age \in [ Ids -> Nat ] /\ archive.version \in [ Ids -> Versions ]
         /\ ~ Known(r) /\ SourceOf[v] \in archive.sources
         /\ engine' = engine /\ sweep' = sweep /\ dups' = dups
  BY DEF Insert, TypeOK, Archive

LEMMA InsertKnows ==
  ASSUME TypeOK, NEW r \in Ids, NEW v \in Versions, Insert(r, v), NEW q
  PROVE  /\ q # r /\ q \in Ids => archive'.age[q] = archive.age[q] /\ archive'.version[q] = archive.version[q]
         /\ archive'.age[r] = 1 + Cardinality({ p \in Ids : Known(p) }) /\ archive'.version[r] = v
         /\ Cardinality({ p \in Ids : Known(p) }) \in Nat
         /\ Known(r)'
         /\ q \in Ids /\ Known(q) => Known(q)' /\ q # r
<1> DEFINE n == Cardinality({ p \in Ids : Known(p) })
<1>1. n \in Nat
  BY FiniteIds
<1> HIDE DEF n
<1>2. archive'.age = [ archive.age EXCEPT ![r] = 1 + n ]
  BY InsertFields DEF n
<1>3. /\ archive.age \in [ Ids -> Nat ] /\ archive.version \in [ Ids -> Versions ] /\ ~ Known(r)
      /\ archive'.version = [ archive.version EXCEPT ![r] = v ]
  BY InsertFields
<1>4. archive'.age[r] = 1 + n /\ archive'.version[r] = v
  BY <1>2, <1>3
<1>5. Known(r)'
  BY <1>1, <1>4 DEF Known
<1>6. q # r /\ q \in Ids => archive'.age[q] = archive.age[q] /\ archive'.version[q] = archive.version[q]
  BY <1>2, <1>3
<1>7. q \in Ids /\ Known(q) => Known(q)' /\ q # r
  BY <1>3, <1>6 DEF Known
<1> QED
  BY <1>1, <1>4, <1>5, <1>6, <1>7 DEF n

LEMMA IndexFields ==
  ASSUME TypeOK, NEW r \in Ids, Index(r)
  PROVE  /\ archive' = archive /\ dups' = dups
         /\ engine'.docs = engine.docs \cup {r} /\ engine'.written = engine.written \cup {r}
         /\ engine'.torn = engine.torn \ {r}
         /\ Known(r) /\ r \notin engine.docs
         /\ \E p \in Ids : /\ engine'.place = [ engine.place EXCEPT ![r] = p ]
                           /\ \A d \in engine.docs : engine.place[d] # p
         /\ sweep'.pc = sweep.pc /\ sweep'.blocks = sweep.blocks /\ sweep'.offset = sweep.offset
         /\ sweep'.page = sweep.page /\ sweep'.pending = sweep.pending /\ sweep'.removed = sweep.removed
         /\ sweep'.orphans = sweep.orphans \ {r} /\ sweep'.refused = sweep.refused /\ sweep'.done = sweep.done
<1>0. engine \in Engine /\ sweep \in Sweep
  BY DEF TypeOK
<1>1. PICK p \in Ids :
        /\ \A d \in engine.docs : engine.place[d] # p
        /\ engine' = [ engine EXCEPT !.docs = @ \cup {r}, !.place[r] = p, !.written = @ \cup {r},
                                     !.torn = @ \ {r} ]
  BY Zenon DEF Index, Written
<1>2. /\ engine'.docs = engine.docs \cup {r} /\ engine'.written = engine.written \cup {r}
      /\ engine'.torn = engine.torn \ {r}
      /\ engine'.place = [ engine.place EXCEPT ![r] = p ]
  BY <1>0, <1>1 DEF Engine
<1>3. /\ sweep'.pc = sweep.pc /\ sweep'.blocks = sweep.blocks /\ sweep'.offset = sweep.offset
      /\ sweep'.page = sweep.page /\ sweep'.pending = sweep.pending /\ sweep'.removed = sweep.removed
      /\ sweep'.orphans = sweep.orphans \ {r} /\ sweep'.refused = sweep.refused /\ sweep'.done = sweep.done
  BY <1>0 DEF Index, Sweep
<1> QED
  BY <1>1, <1>2, <1>3 DEF Index

\* Rows, and holds on them, that go; documents that go with them.
LEMMA GoneFields ==
  ASSUME TypeOK
  PROVE  /\ \A r \in Ids : UserDeletes(r) =>
               /\ archive'.rows \in { archive.rows, archive.rows \ {r} } /\ archive'.sources = archive.sources
               /\ archive'.held = archive.held /\ archive'.age = archive.age /\ archive'.version = archive.version
               /\ engine'.docs \subseteq engine.docs /\ engine'.written = engine.written
               /\ engine'.place = engine.place
               /\ (engine.docs \cup engine.torn) \cap archive'.rows \subseteq engine'.docs \cup engine'.torn
         /\ \A s \in Sources : SourceDeleted(s) =>
               /\ archive'.rows = archive.rows \ { r \in archive.rows : SourceOf[archive.version[r]] = s }
               /\ archive'.sources = archive.sources \ {s}
               /\ archive'.age = archive.age /\ archive'.version = archive.version
               /\ engine'.docs \in { engine.docs, engine.docs \ DocsOf(s) } /\ engine'.written = engine.written
               /\ engine'.place = engine.place /\ engine'.torn = engine.torn
         /\ \A r \in Ids : Hold(r) =>
               /\ archive'.rows = archive.rows /\ archive'.sources = archive.sources
               /\ archive'.age = archive.age /\ archive'.version = archive.version
               /\ engine' = engine
         /\ \A r \in Ids : UnlistCopy(r) =>
               /\ archive' = archive /\ engine'.docs \subseteq engine.docs /\ engine'.written = engine.written
               /\ engine'.place = engine.place
               /\ engine.docs \cup engine.torn \subseteq engine'.docs \cup engine'.torn
               /\ sweep'.pc = sweep.pc /\ sweep'.blocks = sweep.blocks /\ sweep'.offset = sweep.offset
               /\ sweep'.page = sweep.page /\ sweep'.pending = sweep.pending /\ sweep'.removed = sweep.removed
               /\ sweep'.orphans = {} /\ sweep'.done = sweep.done
         /\ \A r \in Ids : RemoveCopy(r) =>
               /\ archive'.rows = archive.rows \ {r} /\ archive'.sources = archive.sources
               /\ archive'.held = archive.held \ {r}
               /\ archive'.age = archive.age /\ archive'.version = archive.version
               /\ engine'.docs = engine.docs /\ engine'.written = engine.written
               /\ engine'.place = engine.place /\ engine'.torn = engine.torn \ {r}
               /\ sweep' = sweep
<1>0. archive \in Archive /\ engine \in Engine /\ sweep \in Sweep
  BY DEF TypeOK
<1>1. ASSUME NEW r \in Ids, UserDeletes(r)
      PROVE  /\ archive'.rows \in { archive.rows, archive.rows \ {r} } /\ archive'.sources = archive.sources
             /\ archive'.held = archive.held /\ archive'.age = archive.age /\ archive'.version = archive.version
             /\ engine'.docs \subseteq engine.docs /\ engine'.written = engine.written
             /\ engine'.place = engine.place
             /\ (engine.docs \cup engine.torn) \cap archive'.rows \subseteq engine'.docs \cup engine'.torn
  <2>1. PICK row \in SUBSET {r}, doc \in SUBSET {r} :
           /\ archive' = [ archive EXCEPT !.rows = @ \ row ]
           /\ engine' = [ engine EXCEPT !.docs = @ \ doc, !.torn = (@ \cup doc) \ row ]
    BY <1>1 DEF UserDeletes
  <2>2. /\ archive'.rows = archive.rows \ row /\ archive'.sources = archive.sources
        /\ archive'.held = archive.held /\ archive'.age = archive.age /\ archive'.version = archive.version
    BY <1>0, <2>1 DEF Archive
  <2>3. /\ engine'.docs = engine.docs \ doc /\ engine'.written = engine.written
        /\ engine'.place = engine.place /\ engine'.torn = (engine.torn \cup doc) \ row
    BY <1>0, <2>1 DEF Engine
  <2> QED
    BY <2>2, <2>3
<1>2. ASSUME NEW s \in Sources, SourceDeleted(s)
      PROVE  /\ archive'.rows = archive.rows \ { r \in archive.rows : SourceOf[archive.version[r]] = s }
             /\ archive'.sources = archive.sources \ {s}
             /\ archive'.age = archive.age /\ archive'.version = archive.version
             /\ engine'.docs \in { engine.docs, engine.docs \ DocsOf(s) } /\ engine'.written = engine.written
             /\ engine'.place = engine.place /\ engine'.torn = engine.torn
  BY <1>0, <1>2 DEF SourceDeleted, Archive, Engine
<1>3. ASSUME NEW r \in Ids, Hold(r)
      PROVE  /\ archive'.rows = archive.rows /\ archive'.sources = archive.sources
             /\ archive'.age = archive.age /\ archive'.version = archive.version
             /\ engine' = engine
  BY <1>0, <1>3 DEF Hold, Archive
<1>4. ASSUME NEW r \in Ids, UnlistCopy(r)
      PROVE  /\ archive' = archive /\ engine'.docs \subseteq engine.docs /\ engine'.written = engine.written
             /\ engine'.place = engine.place
             /\ engine.docs \cup engine.torn \subseteq engine'.docs \cup engine'.torn
             /\ sweep'.pc = sweep.pc /\ sweep'.blocks = sweep.blocks /\ sweep'.offset = sweep.offset
             /\ sweep'.page = sweep.page /\ sweep'.pending = sweep.pending /\ sweep'.removed = sweep.removed
             /\ sweep'.orphans = {} /\ sweep'.done = sweep.done
  <2>1. /\ archive' = archive /\ engine'.docs \subseteq engine.docs /\ engine'.written = engine.written
        /\ engine'.place = engine.place
        /\ engine.docs \cup engine.torn \subseteq engine'.docs \cup engine'.torn
    BY <1>0, <1>4 DEF UnlistCopy, Engine
  <2> QED
    BY <1>0, <1>4, <2>1 DEF UnlistCopy, Sweep
<1>5. ASSUME NEW r \in Ids, RemoveCopy(r)
      PROVE  /\ archive'.rows = archive.rows \ {r} /\ archive'.sources = archive.sources
             /\ archive'.held = archive.held \ {r}
             /\ archive'.age = archive.age /\ archive'.version = archive.version
             /\ engine'.docs = engine.docs /\ engine'.written = engine.written
             /\ engine'.place = engine.place /\ engine'.torn = engine.torn \ {r}
             /\ sweep' = sweep
  BY <1>0, <1>5 DEF RemoveCopy, Archive, Engine
<1> QED
  BY <1>1, <1>2, <1>3, <1>4, <1>5

\* The steps of the duplicate cleanup, but for the two that remove a copy, and
\* what all of them leave of the rows they have seen.
LEMMA DupsFields ==
  ASSUME TypeOK, CleanupDuplicates
  PROVE  /\ dups'.start \subseteq archive.rows \cup dups.start
         /\ dups'.page \subseteq archive.rows \cup dups.page
         /\ (\E r \in Ids : UnlistCopy(r) \/ RemoveCopy(r)) \/ UNCHANGED << archive, engine, sweep >>
<1>0. dups \in Dups
  BY DEF TypeOK
<1>1. CASE TriggerDuplicates \/ DuplicatesDone
  <2>1. dups'.start \in { archive.rows, dups.start } /\ dups'.page = {}
    <3>1. CASE TriggerDuplicates
      BY <3>1, IdleTypes, IdleFields DEF TriggerDuplicates, Dups
    <3>2. CASE DuplicatesDone
      BY <3>2, IdleTypes, IdleFields DEF DuplicatesDone, Dups
    <3> QED
      BY <1>1, <3>1, <3>2
  <2> QED
    BY <1>1, <2>1 DEF TriggerDuplicates, DuplicatesDone
<1>2. CASE DuplicatesPage
  <2> DEFINE page == { r \in Ahead : Cardinality({ q \in Ahead : q < r }) < DuplicatePage }
  <2>1. page \subseteq archive.rows
    BY DEF Ahead, Surplus
  <2>2. dups'.start = dups.start /\ dups'.page = page
    BY <1>0, <1>2 DEF DuplicatesPage, Dups
  <2> QED
    BY <1>2, <2>1, <2>2 DEF DuplicatesPage
<1>3. ASSUME NEW r \in Ids, SkipCopy(r) \/ UnlistCopy(r) \/ RemoveCopy(r) \/ CopyFails(r)
      PROVE  dups'.start \subseteq dups.start /\ dups'.page \subseteq dups.page
  <2>1. CASE SkipCopy(r) \/ RemoveCopy(r)
    <3>1. Leaves(r)
      BY <2>1 DEF SkipCopy, RemoveCopy
    <3> QED
      BY <1>0, <3>1 DEF Leaves, Dups
  <2>2. CASE CopyFails(r)
    BY <1>0, <2>2 DEF CopyFails, Dups
  <2>3. CASE UnlistCopy(r)
    BY <1>0, <2>3 DEF UnlistCopy, Dups
  <2> QED
    BY <1>3, <2>1, <2>2, <2>3
<1> QED
  BY <1>1, <1>2, <1>3 DEF CleanupDuplicates, SkipCopy, CopyFails
\* The sweep's steps: what they read, what they are about to remove and what they
\* remove.
LEMMA SweepFields ==
  ASSUME TypeOK, CleanupOrphans
  PROVE  /\ archive' = archive /\ dups' = dups
         /\ engine'.written = engine.written /\ engine'.place = engine.place /\ engine'.docs \subseteq engine.docs
         /\ engine'.torn = engine.torn
         /\ sweep'.page \subseteq engine.docs \cup sweep.page
         /\ \A b \in sweep'.pending : b \in sweep.pending \/ b[1] \in sweep.page \ archive.rows
         /\ sweep'.orphans \subseteq sweep.orphans \cup (engine.docs \ archive.rows)
         /\ sweep'.pc = "blocks" =>
               \/ sweep'.blocks \cap archive.sources = {}
               \/ sweep.pc = "blocks" /\ sweep'.blocks \subseteq sweep.blocks
         /\ \A d \in engine.docs \ engine'.docs :
               \/ \E b \in sweep.pending : b[1] = d
               \/ sweep.pc = "blocks" /\ SourceOf[archive.version[d]] \in sweep.blocks
<1>0. engine \in Engine /\ sweep \in Sweep
  BY DEF TypeOK
<1>1. archive' = archive /\ dups' = dups
  BY DEF CleanupOrphans, TriggerOrphans, Overview, Confirm, RemoveBlock, BlocksDone, ReadPage, CheckRows, Drain,
         Advance, DrainAll, SweepDone, SweepFails, Delete
<1> DEFINE Goal ==
         /\ engine'.written = engine.written /\ engine'.place = engine.place /\ engine'.docs \subseteq engine.docs
         /\ engine'.torn = engine.torn
         /\ sweep'.page \subseteq engine.docs \cup sweep.page
         /\ \A b \in sweep'.pending : b \in sweep.pending \/ b[1] \in sweep.page \ archive.rows
         /\ sweep'.orphans \subseteq sweep.orphans \cup (engine.docs \ archive.rows)
         /\ sweep'.pc = "blocks" =>
               \/ sweep'.blocks \cap archive.sources = {}
               \/ sweep.pc = "blocks" /\ sweep'.blocks \subseteq sweep.blocks
         /\ \A d \in engine.docs \ engine'.docs :
               \/ \E b \in sweep.pending : b[1] = d
               \/ sweep.pc = "blocks" /\ SourceOf[archive.version[d]] \in sweep.blocks
<1>2. ASSUME TriggerOrphans \/ SweepFails PROVE Goal
  <2>1. engine' = engine /\ sweep'.page = {} /\ sweep'.pending = {} /\ sweep'.orphans = {} /\ sweep'.pc # "blocks"
    <3>1. CASE TriggerOrphans
      BY <3>1, IdleTypes, IdleFields DEF TriggerOrphans, Sweep
    <3>2. CASE SweepFails
      BY <3>2, IdleFields DEF SweepFails
    <3> QED
      BY <1>2, <3>1, <3>2
  <2> QED
    BY <2>1
<1>3. ASSUME Overview PROVE Goal
  <2>1. /\ engine' = engine /\ sweep'.page = sweep.page /\ sweep'.pending = sweep.pending
        /\ sweep'.orphans = sweep.orphans /\ sweep'.pc = "confirm"
    BY <1>0, <1>3 DEF Overview, Sweep
  <2> QED
    BY <2>1
<1>4. ASSUME Confirm PROVE Goal
  <2>1. /\ engine' = engine /\ sweep'.page = sweep.page /\ sweep'.pending = sweep.pending
        /\ sweep'.orphans = sweep.orphans /\ sweep'.blocks = sweep.blocks \ archive.sources
    BY <1>0, <1>4 DEF Confirm, Confirmed, Sweep
  <2> QED
    BY <2>1
<1>5. ASSUME NEW s \in Sources, RemoveBlock(s) PROVE Goal
  <2>1. /\ engine'.docs \in { engine.docs, engine.docs \ DocsOf(s) } /\ engine'.written = engine.written
        /\ engine'.place = engine.place /\ engine'.torn = engine.torn
        /\ sweep'.page = sweep.page /\ sweep'.pending = sweep.pending
        /\ sweep'.orphans = sweep.orphans /\ sweep'.blocks = sweep.blocks \ {s}
        /\ sweep.pc = "blocks" /\ s \in sweep.blocks
    BY <1>0, <1>5 DEF RemoveBlock, Sweep, Engine
  <2>2. \A d \in engine.docs \ engine'.docs : SourceOf[archive.version[d]] = s
    BY <2>1 DEF DocsOf
  <2> QED
    BY <2>1, <2>2
<1>6. ASSUME BlocksDone PROVE Goal
  <2>1. /\ engine' = engine /\ sweep'.page = sweep.page /\ sweep'.pending = sweep.pending
        /\ sweep'.orphans = engine.docs \ archive.rows /\ sweep'.pc = "page"
    BY <1>0, <1>6 DEF BlocksDone, Sweep
  <2> QED
    BY <2>1
<1>7. ASSUME ReadPage PROVE Goal
  <2>1. /\ engine' = engine /\ sweep'.page \subseteq engine.docs /\ sweep'.pending = sweep.pending
        /\ sweep'.orphans = sweep.orphans /\ sweep'.pc # "blocks"
    BY <1>0, <1>7 DEF ReadPage, Sweep
  <2> QED
    BY <2>1
<1>8. ASSUME CheckRows PROVE Goal
  <2>1. /\ engine' = engine /\ sweep'.page = sweep.page
        /\ sweep'.pending = sweep.pending \cup ((sweep.page \ archive.rows) \X {sweep.reads})
        /\ sweep'.orphans = sweep.orphans /\ sweep'.pc = "drain"
    BY <1>0, <1>8 DEF CheckRows, Sweep
  <2>2. \A b \in (sweep.page \ archive.rows) \X {sweep.reads} : b[1] \in sweep.page \ archive.rows
    OBVIOUS
  <2> QED
    BY <2>1, <2>2
<1>9. ASSUME NEW batch \in SUBSET sweep.pending, Delete(batch), sweep.pc \in { "drain", "last" } PROVE Goal
  <2>1. /\ engine'.docs \in { engine.docs, engine.docs \ { b[1] : b \in batch } }
        /\ engine'.written = engine.written /\ engine'.place = engine.place /\ engine'.torn = engine.torn
        /\ sweep'.page = sweep.page /\ sweep'.pending = sweep.pending \ batch
        /\ sweep'.orphans = sweep.orphans /\ sweep'.pc = sweep.pc
    BY <1>0, <1>9 DEF Delete, Sweep, Engine
  <2>2. \A d \in engine.docs \ engine'.docs : \E b \in sweep.pending : b[1] = d
    BY <2>1
  <2> QED
    BY <1>9, <2>1, <2>2
<1>10. ASSUME Drain \/ DrainAll PROVE Goal
  BY <1>9, <1>10 DEF Drain, DrainAll
<1>11. ASSUME Advance PROVE Goal
  <2>1. /\ engine' = engine /\ sweep'.page = {} /\ sweep'.pending = sweep.pending
        /\ sweep'.orphans = sweep.orphans /\ sweep'.pc # "blocks"
    BY <1>0, <1>11 DEF Advance, Sweep
  <2> QED
    BY <2>1
<1>12. ASSUME SweepDone PROVE Goal
  <2>1. /\ engine' = engine /\ sweep'.page = {} /\ sweep'.pending = {}
        /\ sweep'.orphans = sweep.orphans /\ sweep'.pc # "blocks"
    BY <1>12, IdleTypes, IdleFields DEF SweepDone, Sweep
  <2> QED
    BY <2>1
<1>13. Goal
  BY <1>2, <1>3, <1>4, <1>5, <1>6, <1>7, <1>8, <1>10, <1>11, <1>12 DEF CleanupOrphans
<1> QED
  BY <1>1, <1>13

LEMMA InitPast == Init => Past
<1> SUFFICES ASSUME Init PROVE Past
  OBVIOUS
<1>1. PICK known \in SUBSET Ids, version \in [Ids -> Versions], age \in [Ids -> 0 .. Cardinality(Ids)],
           rows \in SUBSET Ids :
        /\ rows \subseteq known
        /\ \A r \in Ids : r \in known => age[r] \in 1 .. Cardinality(known)
        /\ archive = [ age |-> age, version |-> version, rows |-> rows, sources |-> Sources, held |-> {} ]
        /\ engine = [ docs |-> known, place |-> age, written |-> known, torn |-> {} ]
  <2>1. PICK known \in SUBSET Ids, version \in [Ids -> Versions], age \in [Ids -> 0 .. Cardinality(Ids)] :
          \E rows \in SUBSET known :
          /\ \A r \in Ids : IF r \in known THEN age[r] \in 1 .. Cardinality(known)
                           ELSE age[r] = 0 /\ version[r] = CHOOSE v \in Versions : TRUE
          /\ archive = [ age |-> age, version |-> version, rows |-> rows, sources |-> Sources, held |-> {} ]
          /\ engine = [ docs |-> known, place |-> age, written |-> known, torn |-> {} ]
    BY DEF Init
  <2> QED
    BY <2>1
<1>2. \A r \in known : Known(r)
  <2>1. \A r \in known : r \in Ids /\ age[r] \in 1 .. Cardinality(known)
    BY <1>1
  <2>2. Cardinality(known) \in Nat
    BY FiniteIds
  <2>3. archive.age = age
    BY <1>1
  <2> QED
    BY <2>1, <2>2, <2>3 DEF Known
<1>3. \A r \in archive.rows : SourceOf[archive.version[r]] \in archive.sources
  BY <1>1 DEF Sources
<1>4. /\ sweep.page = {} /\ sweep.pending = {} /\ sweep.orphans = {} /\ sweep.pc = "idle" /\ dups.start = {}
      /\ dups.page = {}
  BY IdleFields DEF Init
<1> QED
  BY <1>1, <1>2, <1>3, <1>4 DEF Past, LiveSearchable

LEMMA NextPast == TypeOK /\ Past /\ [Next]_vars => Past'
<1> SUFFICES ASSUME TypeOK, Past, [Next]_vars PROVE Past'
  OBVIOUS
<1>0. /\ archive.rows \subseteq Ids /\ engine.docs \subseteq Ids /\ engine.written \subseteq Ids
      /\ sweep.page \subseteq Ids /\ dups.start \subseteq Ids /\ dups.page \subseteq Ids
      /\ sweep.orphans \subseteq Ids /\ \A b \in sweep.pending : b[1] \in Ids
  BY DEF TypeOK, Archive, Engine, Sweep, Dups
<1>1. ASSUME NEW r \in Ids, NEW v \in Versions, Insert(r, v) PROVE Past'
  <2>1. /\ archive'.rows = archive.rows \cup {r} /\ archive'.sources = archive.sources
        /\ SourceOf[v] \in archive.sources /\ ~ Known(r)
        /\ engine' = engine /\ sweep' = sweep /\ dups' = dups
    BY <1>1, InsertFields
  <2>2. Known(r)' /\ archive'.version[r] = v
    BY <1>1, InsertKnows
  <2>3. \A q \in Ids : Known(q) => Known(q)' /\ q # r /\ archive'.version[q] = archive.version[q]
    BY <1>1, InsertKnows
  <2>4. \A q \in archive'.rows : Known(q)' /\ SourceOf[archive'.version[q]] \in archive'.sources
    BY <1>0, <2>1, <2>2, <2>3 DEF Past
  <2>5. \A d \in engine.docs \cup engine.written \cup sweep.page \cup dups.start \cup dups.page : Known(d)' /\ d # r
    BY <1>0, <2>3 DEF Past
  <2>6. /\ \A b \in sweep.pending : Known(b[1])' /\ b[1] \notin archive'.rows
        /\ \A d \in sweep.orphans : Known(d)' /\ d \notin archive'.rows
    BY <1>0, <2>1, <2>3 DEF Past
  <2>7. LiveSearchable'
    BY <2>1, <2>5 DEF Past, LiveSearchable
  <2> QED
    BY <2>1, <2>4, <2>5, <2>6, <2>7 DEF Past
<1>2. ASSUME NEW r \in Ids, Index(r) PROVE Past'
  BY <1>2, IndexFields DEF Past, LiveSearchable, Known
<1>3. ASSUME NEW r \in Ids, UserDeletes(r) PROVE Past'
  <2>1. Unsettled
    BY <1>3 DEF UserDeletes
  <2> QED
    BY <1>3, <2>1, GoneFields, UnsettledFields DEF Past, LiveSearchable, Known
<1>4. ASSUME NEW s \in Sources, SourceDeleted(s) PROVE Past'
  <2>1. Unsettled
    BY <1>4 DEF SourceDeleted
  <2>2. LiveSearchable'
    BY <1>4, GoneFields DEF Past, LiveSearchable, DocsOf
  <2> QED
    BY <1>4, <2>1, <2>2, GoneFields, UnsettledFields DEF Past, Known
<1>5. ASSUME NEW r \in Ids, Hold(r) PROVE Past'
  <2>1. Unsettled
    BY <1>5 DEF Hold
  <2> QED
    BY <1>5, <2>1, GoneFields, UnsettledFields DEF Past, LiveSearchable, Known
<1>6. CASE CleanupOrphans
  <2>1. LiveSearchable'
    <3> SUFFICES ASSUME NEW d \in engine'.written \cap archive'.rows PROVE d \in engine'.docs \cup engine'.torn
      BY DEF LiveSearchable
    <3>1. d \in engine.docs \cup engine.torn /\ d \in archive.rows
      BY <1>6, SweepFields DEF Past, LiveSearchable
    <3>2. SourceOf[archive.version[d]] \in archive.sources
      BY <3>1 DEF Past
    <3> QED
      BY <1>6, <3>1, <3>2, SweepFields DEF Past
  <2>2. sweep'.pc = "blocks" => sweep'.blocks \cap archive'.sources = {}
    BY <1>6, SweepFields DEF Past
  <2>3. \A d \in engine'.docs \cup engine'.written \cup sweep'.page \cup dups'.start \cup dups'.page : Known(d)'
    BY <1>6, SweepFields DEF Past, Known
  <2>4. \A b \in sweep'.pending : Known(b[1])' /\ b[1] \notin archive'.rows
    BY <1>6, SweepFields DEF Past, Known
  <2>5. \A d \in sweep'.orphans : Known(d)' /\ d \notin archive'.rows
    BY <1>6, SweepFields DEF Past, Known
  <2>6. \A r \in archive'.rows : Known(r)' /\ SourceOf[archive'.version[r]] \in archive'.sources
    BY <1>6, SweepFields DEF Past, Known
  <2> QED
    BY <2>1, <2>2, <2>3, <2>4, <2>5, <2>6 DEF Past
<1>7. CASE CleanupDuplicates
  <2>1. dups'.start \subseteq archive.rows \cup dups.start /\ dups'.page \subseteq archive.rows \cup dups.page
    BY <1>7, DupsFields
  <2>2. CASE UNCHANGED << archive, engine, sweep >>
    BY <2>1, <2>2 DEF Past, LiveSearchable, Known
  <2>3. ASSUME NEW r \in Ids, UnlistCopy(r) PROVE Past'
    BY <2>1, <2>3, GoneFields DEF Past, LiveSearchable, Known
  <2>4. ASSUME NEW r \in Ids, RemoveCopy(r) PROVE Past'
    BY <2>1, <2>4, GoneFields DEF Past, LiveSearchable, Known
  <2> QED
    BY <1>7, <2>2, <2>3, <2>4, DupsFields
<1>8. CASE Crash
  <2>1. sweep' = IdleSweep \/ sweep' = [ IdleSweep EXCEPT !.pc = "overview", !.retried = TRUE ]
    BY <1>8 DEF Crash
  <2>2. sweep'.page = {} /\ sweep'.pending = {} /\ sweep'.orphans = {} /\ sweep'.pc # "blocks"
    BY <2>1, IdleTypes, IdleFields DEF Sweep
  <2>3. dups' = IdleDups \/ dups' = [ IdleDups EXCEPT !.pc = "page", !.retried = TRUE, !.start = archive.rows ]
    BY <1>8 DEF Crash
  <2>4. dups'.start \in { {}, archive.rows } /\ dups'.page = {}
    BY <2>3, IdleTypes, IdleFields DEF Dups
  <2> QED
    BY <1>8, <2>2, <2>4 DEF Crash, Past, LiveSearchable, Known
<1>9. CASE UNCHANGED vars
  BY <1>9 DEF vars, Past, LiveSearchable, Known
<1> QED
  BY <1>1, <1>2, <1>3, <1>4, <1>5, <1>6, <1>7, <1>8, <1>9 DEF Next, Beside

\* No repair takes an archived message out of the search, whatever the overview
\* could not look up, and whatever is deleted, inserted or reindexed meanwhile:
\* only a message whose own deletion has stopped behind the document is missed.
THEOREM LiveStaysSearchable == Spec => []LiveSearchable
<1>1. Types /\ Past => LiveSearchable
  BY DEF Past
<1>2. Init => Types /\ Past
  BY InitTypes, InitPast
<1>3. Types /\ Past /\ [Next]_vars => (Types /\ Past)'
  BY NextTypes, NextPast DEF Types
<1> QED
  BY <1>1, <1>2, <1>3, PTL DEF Spec
-----------------------------------------------------------------------------
(* Positions                                                               *)

\* The document d of a set D, ordered by place, has so many before it.
InFrontOf(D, place, d) == { e \in D : place[e] < place[d] }
At(D, place, d) == Cardinality(InFrontOf(D, place, d))

\* Documents in an order of their own.
Ordered(D, place) ==
    /\ IsFiniteSet(D)
    /\ \A d \in D : place[d] \in Nat
    /\ \A d, e \in D : place[d] = place[e] => d = e

LEMMA AtType ==
  ASSUME NEW D, NEW place, Ordered(D, place), NEW d
  PROVE  At(D, place, d) \in Nat /\ IsFiniteSet(InFrontOf(D, place, d))
  BY FS_Subset, FS_CardinalityType DEF Ordered, InFrontOf, At

\* A later document has more before it.
LEMMA AtGrows ==
  ASSUME NEW D, NEW place, Ordered(D, place), NEW d \in D, NEW e \in D, place[d] < place[e]
  PROVE  At(D, place, d) < At(D, place, e)
<1> DEFINE A == InFrontOf(D, place, d)
           B == InFrontOf(D, place, e)
<1>1. IsFiniteSet(A) /\ IsFiniteSet(B) /\ Cardinality(A) \in Nat /\ Cardinality(B) \in Nat
  BY AtType DEF At
<1>2. A \subseteq B
  <2>1. \A x \in D : place[x] < place[d] => place[x] < place[e]
    BY DEF Ordered
  <2> QED
    BY <2>1 DEF InFrontOf
<1>3. d \in B /\ d \notin A
  BY DEF Ordered, InFrontOf
<1>4. Cardinality(A) <= Cardinality(B) /\ Cardinality(A) # Cardinality(B)
  BY <1>1, <1>2, <1>3, FS_Subset
<1> QED
  BY <1>1, <1>4 DEF At

\* No two documents have one position, so a page has no more than it has room for.
LEMMA PageBound ==
  ASSUME NEW D, NEW place, Ordered(D, place), NEW o \in Nat, NEW n \in Nat
  PROVE  LET P == { d \in D : o <= At(D, place, d) /\ At(D, place, d) < o + n }
         IN  IsFiniteSet(P) /\ Cardinality(P) \in Nat /\ Cardinality(P) <= n
<1> DEFINE P == { d \in D : o <= At(D, place, d) /\ At(D, place, d) < o + n }
           I == o .. (o + n) - 1
           f == [ d \in P |-> At(D, place, d) ]
<1>1. \A d \in P : At(D, place, d) \in I
  <2>1. \A d \in P : At(D, place, d) \in Nat
    BY AtType
  <2> HIDE DEF At
  <2> QED
    BY <2>1
<1>2. \A d, e \in P : At(D, place, d) = At(D, place, e) => d = e
  <2> SUFFICES ASSUME NEW d \in P, NEW e \in P, At(D, place, d) = At(D, place, e), d # e PROVE FALSE
    OBVIOUS
  <2>1. place[d] < place[e] \/ place[e] < place[d]
    BY DEF Ordered
  <2>2. d \in D /\ e \in D /\ At(D, place, d) \in Nat /\ At(D, place, e) \in Nat
    BY AtType
  <2>3. At(D, place, d) < At(D, place, e) \/ At(D, place, e) < At(D, place, d)
    BY <2>1, <2>2, AtGrows
  <2> QED
    BY <2>2, <2>3
<1>3. f \in Injection(P, I)
  <2> HIDE DEF P, I
  <2>1. f \in [ P -> I ]
    BY <1>1
  <2>2. \A d, e \in P : f[d] = f[e] => d = e
    BY <1>2
  <2> HIDE DEF f
  <2> QED
    BY <2>1, <2>2 DEF Injection, IsInjective
<1>4. IsFiniteSet(I) /\ Cardinality(I) = n
  <2>1. o \in Int /\ (o + n) - 1 \in Int
    OBVIOUS
  <2>2. IsFiniteSet(I) /\ Cardinality(I) = IF o > (o + n) - 1 THEN 0 ELSE (o + n) - 1 - o + 1
    BY <2>1, FS_Interval
  <2> HIDE DEF I
  <2> QED
    BY <2>2
<1> HIDE DEF f, I, P
<1>5. IsFiniteSet(P) /\ Cardinality(P) <= n
  BY <1>3, <1>4, FS_Injection
<1> QED
  BY <1>5, FS_CardinalityType DEF P

\* A page with a document behind it is full.
LEMMA PageFull ==
  ASSUME NEW D, NEW place, Ordered(D, place), NEW o \in Nat, NEW n \in Nat,
         NEW d \in D, o + n <= At(D, place, d)
  PROVE  n <= Cardinality({ e \in D : o <= At(D, place, e) /\ At(D, place, e) < o + n })
<1> DEFINE P == { e \in D : o <= At(D, place, e) /\ At(D, place, e) < o + n }
           A == { e \in D : At(D, place, e) < o + n }
           B == { e \in D : 0 <= At(D, place, e) /\ At(D, place, e) < 0 + o }
           R == { place[e] : e \in D \ A }
<1>0. \A e \in D : At(D, place, e) \in Nat /\ place[e] \in Nat
  BY AtType DEF Ordered
<1>1. IsFiniteSet(A) /\ Cardinality(A) \in Nat
  BY FS_Subset, FS_CardinalityType DEF Ordered
<1>2. o + n <= Cardinality(A)
  <2>1. R \in SUBSET Nat /\ R # {}
    <3>1. d \in D \ A
      BY <1>0
    <3> QED
      BY <1>0, <3>1
  <2>2. PICK m \in R : \A k \in R : m <= k
    <3> HIDE DEF R
    <3> QED
      BY <2>1, Smallest
  <2>3. PICK e \in D \ A : place[e] = m
    BY <2>2
  <2>4. \A x \in D : place[x] < place[e] => x \in A
    <3> SUFFICES ASSUME NEW x \in D, place[x] < place[e], x \notin A PROVE FALSE
      OBVIOUS
    <3>1. place[x] \in R
      OBVIOUS
    <3>2. m <= place[x]
      BY <2>2, <3>1
    <3> QED
      BY <1>0, <2>3, <3>2
  <2>5. InFrontOf(D, place, e) \subseteq A
    BY <2>4 DEF InFrontOf
  <2>6. At(D, place, e) <= Cardinality(A)
    BY <1>1, <2>5, FS_Subset DEF At
  <2>7. o + n <= At(D, place, e)
    BY <1>0
  <2> HIDE DEF A
  <2> QED
    BY <1>0, <1>1, <2>3, <2>6, <2>7
<1>3. IsFiniteSet(B) /\ Cardinality(B) \in Nat /\ Cardinality(B) <= o
  BY PageBound
<1>4. P = A \ B
  <2>1. \A e \in D : (o <= At(D, place, e) /\ At(D, place, e) < o + n)
                       <=> (At(D, place, e) < o + n /\ ~ (0 <= At(D, place, e) /\ At(D, place, e) < 0 + o))
    BY <1>0
  <2> QED
    BY <2>1
<1> HIDE DEF A, B, P
<1>5. Cardinality(P) = Cardinality(A) - Cardinality(A \cap B)
  BY <1>1, <1>4, FS_Difference
<1>6. Cardinality(A \cap B) \in Nat /\ Cardinality(A \cap B) <= Cardinality(B)
  BY <1>3, FS_Intersection, FS_CardinalityType
<1>7. n <= Cardinality(P)
  BY <1>1, <1>2, <1>3, <1>5, <1>6
<1> QED
  BY <1>7 DEF P

\* A document moves forward by no more places than documents are removed.
LEMMA AtShrinks ==
  ASSUME NEW D, NEW place, Ordered(D, place), NEW d, NEW gone, IsFiniteSet(gone)
  PROVE  At(D \ gone, place, d) \in Nat /\ At(D, place, d) <= At(D \ gone, place, d) + Cardinality(gone)
<1> DEFINE A == InFrontOf(D, place, d)
           B == InFrontOf(D \ gone, place, d)
<1>1. IsFiniteSet(A) /\ Cardinality(A) \in Nat
  BY AtType DEF At
<1>2. B = A \ gone
  BY DEF InFrontOf
<1> HIDE DEF A, B
<1>3. Cardinality(B) = Cardinality(A) - Cardinality(A \cap gone) /\ IsFiniteSet(B)
  BY <1>1, <1>2, FS_Difference
<1>4. Cardinality(A \cap gone) \in Nat /\ Cardinality(A \cap gone) <= Cardinality(gone) /\ Cardinality(gone) \in Nat
  BY FS_Intersection, FS_CardinalityType
<1>5. Cardinality(B) \in Nat
  BY <1>3, FS_CardinalityType
<1> QED
  BY <1>1, <1>3, <1>4, <1>5 DEF At, A, B

\* A new document moves the others backward at most.
LEMMA AtMoves ==
  ASSUME NEW D, NEW place, Ordered(D, place), NEW r, r \notin D, NEW p \in Nat, NEW d \in D,
         NEW later, Ordered(D \cup {r}, later), \A e \in D : later[e] = place[e]
  PROVE  At(D, place, d) <= At(D \cup {r}, later, d)
<1>1. InFrontOf(D, place, d) \subseteq InFrontOf(D \cup {r}, later, d)
  BY DEF InFrontOf
<1>2. IsFiniteSet(InFrontOf(D \cup {r}, later, d))
  BY AtType
<1> QED
  BY <1>1, <1>2, FS_Subset DEF At
-----------------------------------------------------------------------------
(* The sweep misses no orphan                                              *)

PlacesDiffer == \A d, e \in engine.docs : engine.place[d] = engine.place[e] => d = e

Pending(d) == \E b \in sweep.pending : b[1] = d

\* Where an orphan is while the walk lasts: read, or behind what the walk has read
\* once the removals of this page are taken off.
Covered(d) ==
    /\ sweep.pc = "page" => Pending(d) \/ sweep.offset <= Position(d)
    /\ sweep.pc = "check" =>
          \/ Pending(d) \/ d \in sweep.page
          \/ /\ ScanPage <= Cardinality(sweep.page)
             /\ sweep.offset + Cardinality(sweep.page) <= Position(d)
    /\ sweep.pc = "drain" =>
          \/ Pending(d)
          \/ /\ ScanPage <= Cardinality(sweep.page)
             /\ sweep.offset + Cardinality(sweep.page) <= Position(d) + sweep.removed
    /\ sweep.pc = "last" => Pending(d)

\* A walk starts at the front.
StartsAtZero == sweep.pc \notin Walking => sweep.offset = 0

OrphanInv ==
    /\ PlacesDiffer
    /\ sweep.done => sweep.pc = "idle"
    /\ \A d \in (sweep.orphans \cap engine.docs) \ sweep.refused : Covered(d)
    /\ OrphansGone

LEMMA InitStartsAtZero == Init => StartsAtZero
  BY IdleFields DEF Init, StartsAtZero

LEMMA NextStartsAtZero == TypeOK /\ StartsAtZero /\ [Next]_vars => StartsAtZero'
<1> SUFFICES ASSUME TypeOK, StartsAtZero, [Next]_vars PROVE StartsAtZero'
  OBVIOUS
<1>0. sweep \in Sweep
  BY DEF TypeOK
<1>1. ASSUME sweep'.pc = sweep.pc, sweep'.offset = sweep.offset PROVE StartsAtZero'
  BY <1>1 DEF StartsAtZero
<1>2. CASE Beside
  BY <1>0, <1>1, <1>2 DEF Beside, Insert, Index, UserDeletes, Hold, SourceDeleted, Unsettled, Sweep
<1>3. CASE CleanupDuplicates
  BY <1>0, <1>1, <1>3 DEF CleanupDuplicates, TriggerDuplicates, DuplicatesPage, SkipCopy, UnlistCopy, RemoveCopy,
                          CopyFails, DuplicatesDone, Sweep
<1>4. CASE Overview \/ Confirm \/ \E s \in Sources : RemoveBlock(s)
  <2>1. sweep.pc \notin Walking /\ sweep'.offset = sweep.offset
    <3>1. CASE Overview
      BY <1>0, <3>1 DEF Overview, Sweep, Walking
    <3>2. CASE Confirm
      BY <1>0, <3>2 DEF Confirm, Sweep, Walking
    <3>3. CASE \E s \in Sources : RemoveBlock(s)
      BY <1>0, <3>3 DEF RemoveBlock, Sweep, Walking
    <3> QED
      BY <1>4, <3>1, <3>2, <3>3
  <2> QED
    BY <2>1 DEF StartsAtZero
<1>5. CASE BlocksDone \/ ReadPage \/ CheckRows \/ Advance
  <2>1. sweep'.pc \in Walking
    <3>1. CASE BlocksDone
      BY <1>0, <3>1 DEF BlocksDone, Sweep, Walking
    <3>2. CASE ReadPage
      BY <1>0, <3>2 DEF ReadPage, Sweep, Walking
    <3>3. CASE CheckRows
      BY <1>0, <3>3 DEF CheckRows, Sweep, Walking
    <3>4. CASE Advance
      BY <1>0, <3>4 DEF Advance, Sweep, Walking
    <3> QED
      BY <1>5, <3>1, <3>2, <3>3, <3>4
  <2> QED
    BY <2>1 DEF StartsAtZero
<1>6. CASE Drain \/ DrainAll
  BY <1>0, <1>1, <1>6 DEF Drain, DrainAll, Delete, Sweep
<1>7. CASE TriggerOrphans \/ SweepDone \/ SweepFails \/ Crash
  <2>1. sweep'.offset = 0
    <3>1. CASE TriggerOrphans
      BY <3>1, IdleTypes, IdleFields DEF TriggerOrphans, Sweep
    <3>2. CASE SweepDone
      BY <3>2, IdleTypes, IdleFields DEF SweepDone, Sweep
    <3>3. CASE SweepFails
      BY <3>3, IdleFields DEF SweepFails
    <3>4. CASE Crash
      <4>1. sweep' = IdleSweep \/ sweep' = [ IdleSweep EXCEPT !.pc = "overview", !.retried = TRUE ]
        BY <3>4 DEF Crash
      <4> QED
        BY <4>1, IdleTypes, IdleFields DEF Sweep
    <3> QED
      BY <1>7, <3>1, <3>2, <3>3, <3>4
  <2> QED
    BY <2>1 DEF StartsAtZero
<1> QED
  BY <1>1, <1>2, <1>3, <1>4, <1>5, <1>6, <1>7 DEF Next, CleanupOrphans, vars

LEMMA DocsOrdered == TypeOK /\ PlacesDiffer => Ordered(engine.docs, engine.place)
  BY FiniteIds DEF TypeOK, Engine, PlacesDiffer, Ordered

LEMMA PositionIsAt ==
  /\ \A d : Position(d) = At(engine.docs, engine.place, d)
  /\ \A d : Position(d)' = At(engine'.docs, engine'.place, d)
  BY DEF Position, At, InFrontOf

LEMMA InitOrphanInv == Init => OrphanInv
<1> SUFFICES ASSUME Init PROVE OrphanInv
  OBVIOUS
<1>1. PlacesDiffer
  <2>1. PICK known \in SUBSET Ids, age \in [Ids -> 0 .. Cardinality(Ids)] :
          /\ \A r, q \in known : age[r] = age[q] => r = q
          /\ engine.docs = known /\ engine.place = age
    BY DEF Init
  <2> QED
    BY <2>1 DEF PlacesDiffer
<1>2. sweep.orphans = {} /\ sweep.pc = "idle" /\ ~ sweep.done
  BY IdleFields DEF Init, IdleSweep
<1> QED
  BY <1>1, <1>2 DEF OrphanInv, OrphansGone

\* Fewer documents, in the same places, remain ordered.
LEMMA PlacesStay ==
  ASSUME PlacesDiffer, engine'.docs \subseteq engine.docs, engine'.place = engine.place
  PROVE  PlacesDiffer'
  BY DEF PlacesDiffer

\* The steps of the sweep, one by one.
LEMMA SweepKeepsOrphanInv ==
  ASSUME Types, Past, StartsAtZero, OrphanInv, CleanupOrphans
  PROVE  OrphanInv'
<1>0. engine \in Engine /\ sweep \in Sweep /\ TypeOK /\ OffsetKept /\ PlacesDiffer
  BY DEF Types, TypeOK, OrphanInv
<1>00. /\ sweep.offset \in Nat /\ sweep.removed \in Nat /\ Cardinality(sweep.page) \in Nat
       /\ ScanPage \in Nat \ {0}
       /\ Ordered(engine.docs, engine.place)
       /\ IsFiniteSet(sweep.pending)
  BY <1>0, FiniteIds, DocsOrdered, MaintenanceAssumption DEF Sweep, OffsetKept
<1>01. \A d : Position(d) \in Nat
  BY <1>00, PositionIsAt, AtType
<1>1. PlacesDiffer'
  BY <1>0, SweepFields, PlacesStay
<1>2. CASE TriggerOrphans \/ SweepFails
  <2>1. sweep'.orphans = {} /\ ~ sweep'.done
    <3>1. CASE TriggerOrphans
      BY <3>1, IdleTypes, IdleFields DEF TriggerOrphans, Sweep, IdleSweep
    <3>2. CASE SweepFails
      BY <3>2 DEF SweepFails, IdleSweep
    <3> QED
      BY <1>2, <3>1, <3>2
  <2> QED
    BY <1>1, <2>1 DEF OrphanInv, OrphansGone
<1>3. ASSUME ~ sweep'.done, \A d \in (sweep'.orphans \cap engine'.docs) \ sweep'.refused : Covered(d)' PROVE OrphanInv'
  BY <1>1, <1>3 DEF OrphanInv, OrphansGone
<1>4. sweep.pc # "idle" => ~ sweep.done
  BY DEF OrphanInv
<1>5. CASE Overview \/ Confirm
  <2>1. sweep'.pc \in { "confirm", "blocks" } /\ ~ sweep'.done
    <3>1. CASE Overview
      BY <1>0, <1>4, <3>1 DEF Overview, Sweep
    <3>2. CASE Confirm
      BY <1>0, <1>4, <3>2 DEF Confirm, Sweep
    <3> QED
      BY <1>5, <3>1, <3>2
  <2>2. \A d : Covered(d)'
    BY <2>1 DEF Covered
  <2> QED
    BY <1>3, <2>1, <2>2
<1>6. ASSUME NEW s \in Sources, RemoveBlock(s) PROVE OrphanInv'
  <2>1. sweep'.pc = "blocks" /\ ~ sweep'.done
    BY <1>0, <1>4, <1>6 DEF RemoveBlock, Sweep
  <2>2. \A d : Covered(d)'
    BY <2>1 DEF Covered
  <2> QED
    BY <1>3, <2>1, <2>2
<1>7. CASE BlocksDone
  <2>1. sweep'.pc = "page" /\ ~ sweep'.done /\ sweep'.offset = sweep.offset /\ engine' = engine
    BY <1>0, <1>4, <1>7 DEF BlocksDone, Sweep
  <2>2. sweep.offset = 0
    BY <1>7 DEF BlocksDone, StartsAtZero, Walking
  <2>3. \A d : Position(d)' = Position(d)
    BY <2>1 DEF Position
  <2>4. \A d : Covered(d)'
    BY <1>01, <2>1, <2>2, <2>3 DEF Covered
  <2> QED
    BY <1>3, <2>1, <2>4
<1>8. CASE ReadPage
  <2> DEFINE P == { d \in engine.docs : sweep.offset <= Position(d) /\ Position(d) < sweep.offset + ScanPage }
  <2>1. /\ sweep.pc = "page" /\ sweep'.page = P /\ sweep'.pc = (IF P = {} THEN "last" ELSE "check") /\ ~ sweep'.done
        /\ sweep'.offset = sweep.offset /\ sweep'.pending = sweep.pending /\ sweep'.orphans = sweep.orphans
        /\ sweep'.refused = sweep.refused /\ engine' = engine
    BY <1>0, <1>4, <1>8 DEF ReadPage, Sweep
  <2>2. P = { d \in engine.docs : sweep.offset <= At(engine.docs, engine.place, d)
                                  /\ At(engine.docs, engine.place, d) < sweep.offset + ScanPage }
    BY PositionIsAt
  <2>3. Cardinality(P) \in Nat /\ Cardinality(P) <= ScanPage
    BY <1>00, <2>2, PageBound
  <2>4. \A d \in engine.docs : sweep.offset + ScanPage <= Position(d) => ScanPage <= Cardinality(P)
    BY <1>00, <2>2, PositionIsAt, PageFull
  <2>5. Cardinality({}) = 0
    BY FS_EmptySet
  <2>6. ASSUME NEW d \in (sweep'.orphans \cap engine'.docs) \ sweep'.refused PROVE Covered(d)'
    <3>1. d \in engine.docs /\ (Pending(d) \/ sweep.offset <= Position(d))
      BY <2>1, <2>6 DEF OrphanInv, Covered
    <3>2. Position(d)' = Position(d) /\ (Pending(d)' <=> Pending(d))
      BY <2>1 DEF Position, Pending
    <3>3. CASE Pending(d)
      BY <2>1, <3>2, <3>3 DEF Covered
    <3>4. CASE d \in P
      BY <2>1, <3>4 DEF Covered
    <3>5. CASE ~ Pending(d) /\ d \notin P
      <4>1. sweep.offset + ScanPage <= Position(d)
        BY <1>00, <1>01, <3>1, <3>5
      <4>2. ScanPage <= Cardinality(P)
        BY <2>4, <3>1, <4>1
      <4> HIDE DEF P
      <4>3. P # {}
        BY <1>00, <2>5, <4>2
      <4>4. sweep.offset + Cardinality(P) <= Position(d)
        BY <1>00, <1>01, <2>3, <4>1
      <4> QED
        BY <2>1, <3>2, <4>2, <4>3, <4>4 DEF Covered
    <3> QED
      BY <3>3, <3>4, <3>5
  <2> QED
    BY <1>3, <2>1, <2>6
<1>9. CASE CheckRows
  <2>1. /\ sweep.pc = "check" /\ sweep'.page = sweep.page /\ sweep'.pc = "drain" /\ ~ sweep'.done
        /\ sweep'.offset = sweep.offset /\ sweep'.orphans = sweep.orphans /\ sweep'.removed = sweep.removed
        /\ sweep'.pending = sweep.pending \cup ((sweep.page \ archive.rows) \X {sweep.reads})
        /\ sweep'.refused = sweep.refused /\ engine' = engine
    BY <1>0, <1>4, <1>9 DEF CheckRows, Sweep
  <2>2. sweep.removed = 0
    BY <1>0, <2>1 DEF OffsetKept
  <2>3. ASSUME NEW d \in (sweep'.orphans \cap engine'.docs) \ sweep'.refused PROVE Covered(d)'
    <3>1. /\ d \notin archive.rows /\ Covered(d)
      BY <2>1, <2>3 DEF OrphanInv, Past
    <3>2. Position(d)' = Position(d)
      BY <2>1 DEF Position
    <3>3. ASSUME d \in sweep.page PROVE Pending(d)'
      <4>1. << d, sweep.reads >> \in sweep'.pending
        BY <2>1, <3>1, <3>3
      <4> QED
        BY <4>1 DEF Pending
    <3>4. Pending(d) => Pending(d)'
      BY <2>1 DEF Pending
    <3> QED
      BY <1>00, <1>01, <2>1, <2>2, <3>1, <3>2, <3>3, <3>4 DEF Covered
  <2> QED
    BY <1>3, <2>1, <2>3
<1>10. ASSUME NEW batch \in SUBSET sweep.pending, Delete(batch), sweep.pc \in { "drain", "last" } PROVE OrphanInv'
  <2> DEFINE ids == { b[1] : b \in batch }
  <2>1. PICK gone \in { ids, {} } :
        /\ engine'.docs = engine.docs \ gone /\ engine'.place = engine.place
        /\ sweep'.pending = sweep.pending \ batch /\ sweep'.removed = sweep.removed + Cardinality(batch)
        /\ sweep'.orphans = sweep.orphans /\ sweep'.pc = sweep.pc /\ sweep'.offset = sweep.offset
        /\ sweep'.page = sweep.page /\ sweep'.refused = sweep.refused \cup (ids \ gone) /\ ~ sweep'.done
    BY <1>0, <1>4, <1>10 DEF Delete, Sweep, Engine
  <2>2. IsFiniteSet(batch) /\ Cardinality(batch) \in Nat
    BY <1>00, FS_Subset, FS_CardinalityType
  <2>3. IsFiniteSet(gone) /\ Cardinality(gone) <= Cardinality(batch) /\ Cardinality(gone) \in Nat
    <3> DEFINE f == [ b \in batch |-> b[1] ]
    <3>1. f \in [ batch -> ids ] /\ \A g \in ids : \E b \in batch : f[b] = g
      OBVIOUS
    <3>2. f \in Surjection(batch, ids)
      <4> HIDE DEF f, ids
      <4> QED
        BY <3>1 DEF Surjection
    <3> HIDE DEF f, ids
    <3>3. IsFiniteSet(ids) /\ Cardinality(ids) <= Cardinality(batch) /\ Cardinality(ids) \in Nat
      BY <2>2, <3>2, FS_Surjection, FS_CardinalityType
    <3>4. IsFiniteSet({}) /\ Cardinality({}) = 0 /\ 0 <= Cardinality(batch)
      BY <2>2, FS_EmptySet
    <3>5. CASE gone = ids
      BY <3>3, <3>5
    <3>6. CASE gone = {}
      BY <3>4, <3>6
    <3> QED
      BY <2>1, <3>5, <3>6
  <2>4. ASSUME NEW d \in (sweep'.orphans \cap engine'.docs) \ sweep'.refused PROVE Covered(d)'
    <3>1. d \in engine.docs /\ d \notin ids /\ Covered(d)
      <4> HIDE DEF ids
      <4>1. d \in engine.docs /\ d \notin gone /\ d \notin ids \ gone /\ d \notin sweep.refused /\ d \in sweep.orphans
        BY <2>1, <2>4
      <4> QED
        BY <4>1 DEF OrphanInv
    <3>2. Position(d)' \in Nat /\ Position(d) <= Position(d)' + Cardinality(gone)
      <4>1. Position(d) = At(engine.docs, engine.place, d) /\ Position(d)' = At(engine.docs \ gone, engine.place, d)
        BY <2>1, PositionIsAt
      <4> HIDE DEF ids
      <4> QED
        BY <1>00, <2>3, <3>1, <4>1, AtShrinks
    <3>3. Pending(d) => Pending(d)'
      BY <2>1, <3>1 DEF Pending
    <3> HIDE DEF ids
    <3>4. Position(d) + sweep.removed <= Position(d)' + sweep'.removed
      BY <1>00, <1>01, <2>1, <2>2, <2>3, <3>2
    <3>5. sweep'.removed \in Nat
      BY <1>00, <2>1, <2>2
    <3> QED
      BY <1>00, <1>01, <1>10, <2>1, <3>1, <3>2, <3>3, <3>4, <3>5 DEF Covered
  <2> QED
    BY <1>3, <2>1, <2>4
<1>11. CASE Drain \/ DrainAll
  BY <1>10, <1>11 DEF Drain, DrainAll
<1>12. CASE Advance
  <2> DEFINE n == Cardinality(sweep.page)
  <2>1. /\ sweep.pc = "drain" /\ sweep'.pc = (IF n < ScanPage THEN "last" ELSE "page") /\ ~ sweep'.done
        /\ sweep'.offset = sweep.offset + n - sweep.removed
        /\ sweep'.orphans = sweep.orphans /\ sweep'.pending = sweep.pending
        /\ sweep'.refused = sweep.refused /\ engine' = engine
    BY <1>0, <1>4, <1>12 DEF Advance, NextOffset, Sweep
  <2> HIDE DEF n
  <2>2. n \in Nat
    BY <1>00 DEF n
  <2>3. ASSUME NEW d \in (sweep'.orphans \cap engine'.docs) \ sweep'.refused PROVE Covered(d)'
    <3>1. Pending(d) \/ (ScanPage <= n /\ sweep.offset + n <= Position(d) + sweep.removed)
      BY <2>1, <2>3 DEF OrphanInv, Covered, n
    <3>2. Position(d)' = Position(d) /\ (Pending(d)' <=> Pending(d))
      BY <2>1 DEF Position, Pending
    <3>3. Pending(d) \/ (~ (n < ScanPage) /\ sweep'.offset <= Position(d))
      BY <1>00, <1>01, <2>1, <2>2, <3>1
    <3> QED
      BY <2>1, <3>2, <3>3 DEF Covered
  <2> QED
    BY <1>3, <2>1, <2>3
<1>13. CASE SweepDone
  <2>1. /\ sweep.pc = "last" /\ sweep.pending = {} /\ sweep'.pc = "idle"
        /\ sweep'.orphans = sweep.orphans /\ sweep'.refused = sweep.refused /\ engine' = engine
    BY <1>13, IdleTypes, IdleFields DEF SweepDone, Sweep
  <2>2. sweep'.orphans \cap engine'.docs \subseteq sweep'.refused
    BY <2>1 DEF OrphanInv, Covered, Pending
  <2>3. \A d : Covered(d)'
    BY <2>1 DEF Covered
  <2> QED
    BY <1>1, <2>1, <2>2, <2>3 DEF OrphanInv, OrphansGone
<1> QED
  BY <1>2, <1>5, <1>6, <1>7, <1>8, <1>9, <1>11, <1>12, <1>13 DEF CleanupOrphans

LEMMA NextOrphanInv == Types /\ Past /\ StartsAtZero /\ OrphanInv /\ [Next]_vars => OrphanInv'
<1> SUFFICES ASSUME Types, Past, StartsAtZero, OrphanInv, [Next]_vars PROVE OrphanInv'
  OBVIOUS
<1>0. engine \in Engine /\ sweep \in Sweep /\ TypeOK /\ PlacesDiffer
  BY DEF Types, TypeOK, OrphanInv
<1>1. CASE UNCHANGED << engine.docs, engine.place, sweep >>
  <2>1. \A d : Covered(d)' <=> Covered(d)
    BY <1>1 DEF Covered, Position, Pending
  <2> QED
    BY <1>1, <2>1 DEF OrphanInv, OrphansGone, PlacesDiffer
<1>2. ASSUME NEW r \in Ids, Index(r) PROVE OrphanInv'
  <2>1. PICK p \in Ids : /\ engine'.place = [ engine.place EXCEPT ![r] = p ]
                         /\ \A d \in engine.docs : engine.place[d] # p
    BY <1>0, <1>2, IndexFields
  <2>2. /\ engine'.docs = engine.docs \cup {r} /\ r \notin engine.docs
        /\ sweep'.pc = sweep.pc /\ sweep'.offset = sweep.offset
        /\ sweep'.page = sweep.page /\ sweep'.pending = sweep.pending /\ sweep'.removed = sweep.removed
        /\ sweep'.orphans = sweep.orphans \ {r} /\ sweep'.refused = sweep.refused /\ sweep'.done = sweep.done
    BY <1>0, <1>2, IndexFields
  <2>3. engine.place \in [ Ids -> Nat ] /\ engine.docs \subseteq Ids /\ p \in Nat
    BY <1>0, MaintenanceAssumption DEF Engine
  <2>4. engine'.place[r] = p /\ \A e \in engine.docs : engine'.place[e] = engine.place[e]
    BY <2>1, <2>2, <2>3
  <2>5. PlacesDiffer'
    BY <1>0, <2>1, <2>2, <2>4 DEF PlacesDiffer
  <2>6. Ordered(engine.docs, engine.place)
    BY <1>0, DocsOrdered
  <2>7. Ordered(engine.docs \cup {r}, engine'.place)
    <3>1. IsFiniteSet(engine.docs \cup {r})
      BY <2>3, FiniteIds
    <3> QED
      BY <2>2, <2>3, <2>4, <2>5, <3>1 DEF PlacesDiffer, Ordered
  <2>8. ASSUME NEW d \in engine.docs
        PROVE  Position(d) \in Nat /\ Position(d)' \in Nat /\ Position(d) <= Position(d)'
    BY <2>2, <2>3, <2>4, <2>6, <2>7, AtMoves, AtType, PositionIsAt
  <2>9. ASSUME NEW d \in (sweep'.orphans \cap engine'.docs) \ sweep'.refused PROVE Covered(d)'
    <3>1. d \in engine.docs /\ Covered(d) /\ (Pending(d)' <=> Pending(d))
      BY <2>2, <2>9 DEF OrphanInv, Pending
    <3>2. sweep.offset \in Nat /\ Cardinality(sweep.page) \in Nat /\ sweep.removed \in Nat
      BY <1>0, FiniteIds DEF Sweep
    <3>3. Position(d) \in Nat /\ Position(d)' \in Nat /\ Position(d) <= Position(d)'
      BY <2>8, <3>1
    <3> QED
      BY <2>2, <3>1, <3>2, <3>3 DEF Covered
  <2>10. OrphansGone'
    BY <2>2 DEF OrphanInv, OrphansGone
  <2> QED
    BY <2>2, <2>5, <2>9, <2>10 DEF OrphanInv
<1>3. ASSUME engine'.docs \subseteq engine.docs, engine'.place = engine.place, sweep'.orphans = {},
             sweep'.pc = sweep.pc, sweep'.done = sweep.done
      PROVE  OrphanInv'
  BY <1>0, <1>3, PlacesStay DEF OrphanInv, OrphansGone
<1>4. Unsettled => sweep'.orphans = {} /\ sweep'.pc = sweep.pc /\ sweep'.done = sweep.done
  BY <1>0 DEF Unsettled, Sweep
<1>5. ASSUME NEW r \in Ids, UserDeletes(r) \/ Hold(r) PROVE OrphanInv'
  <2>1. Unsettled
    BY <1>5 DEF UserDeletes, Hold
  <2> QED
    BY <1>0, <1>3, <1>4, <1>5, <2>1, GoneFields
<1>6. ASSUME NEW s \in Sources, SourceDeleted(s) PROVE OrphanInv'
  <2>1. Unsettled
    BY <1>6 DEF SourceDeleted
  <2> QED
    BY <1>0, <1>3, <1>4, <1>6, <2>1, GoneFields
<1>70. ASSUME NEW r \in Ids, UnlistCopy(r) PROVE OrphanInv'
  BY <1>0, <1>3, <1>70, GoneFields
<1>7. ASSUME NEW r \in Ids, RemoveCopy(r) PROVE OrphanInv'
  BY <1>0, <1>1, <1>7, GoneFields
<1>8. CASE Crash
  <2>1. sweep' = IdleSweep \/ sweep' = [ IdleSweep EXCEPT !.pc = "overview", !.retried = TRUE ]
    BY <1>8 DEF Crash
  <2>2. sweep'.orphans = {} /\ ~ sweep'.done
    BY <2>1, IdleTypes, IdleFields DEF Sweep, IdleSweep
  <2>3. engine' = engine
    BY <1>8 DEF Crash
  <2> QED
    BY <1>0, <2>2, <2>3 DEF OrphanInv, OrphansGone, PlacesDiffer
<1>9. CASE Beside
  BY <1>0, <1>1, <1>2, <1>5, <1>6, <1>9, InsertFields DEF Beside
<1>10. CASE CleanupDuplicates
  BY <1>0, <1>1, <1>7, <1>70, <1>10, DupsFields
<1> QED
  BY <1>1, <1>8, <1>9, <1>10, SweepKeepsOrphanInv DEF Next, vars

\* Although its own removals shift the pages behind them, new documents take the
\* places they leave and a failed task moves the offset too, a sweep that nobody
\* else's removal disturbs leaves no orphan that was there when its walk began,
\* but those whose deletion the engine failed.
THEOREM NoOrphanMissed == Spec => []OrphansGone
<1>1. Init => Types /\ Past /\ StartsAtZero /\ OrphanInv
  BY InitTypes, InitPast, InitOrphanInv, InitStartsAtZero
<1>2. Types /\ Past /\ StartsAtZero /\ OrphanInv /\ [Next]_vars => (Types /\ Past /\ StartsAtZero /\ OrphanInv)'
  BY NextTypes, NextPast, NextStartsAtZero, NextOrphanInv DEF Types
<1>3. Types /\ Past /\ StartsAtZero /\ OrphanInv => OrphansGone
  BY DEF OrphanInv
<1> QED
  BY <1>1, <1>2, <1>3, PTL DEF Spec
-----------------------------------------------------------------------------
(* cleanup-duplicates: the order of a group                                *)

\* No two rows were archived at the same time, and the next one is the latest.
Aged ==
    /\ \A r, q \in Ids : Known(r) /\ archive.age[r] = archive.age[q] => r = q
    /\ \A r \in Ids : archive.age[r] <= Cardinality({ q \in Ids : Known(q) })

\* q leads the group of r.
Leads(q, r) == q \in Copies(r) /\ \A p \in Copies(r) \ {q} : Before(q, p)

Redundant(r) == r \in Surplus /\ Removable(r)

\* A copy the page has marked belongs to no protected message, and another one of
\* its content, in front of it, is not marked.
Spared ==
    dups.fresh /\ dups.pc = "rows" =>
        \A r \in dups.page \cap dups.removable :
            /\ r \in archive.rows /\ Copies(r) \cap archive.held = {}
            /\ \E q \in Copies(r) \ dups.removable :
                  Before(q, r) /\ archive.version[q] = archive.version[r]

\* A redundant copy there was at the start is ahead of the walk or marked.
Visited ==
    /\ dups.start # {} => dups.fresh
    /\ dups.pc # "idle" => ~ dups.done
    /\ \A r \in dups.start : Redundant(r) =>
          /\ ~ dups.done
          /\ dups.pc # "idle" => \/ dups.cursor < r
                                 \/ dups.pc = "rows" /\ r \in dups.page \cap dups.removable

AllKnown == \A r \in archive.rows : Known(r)

LEMMA BeforeOrders ==
  ASSUME TypeOK, NEW p \in Ids, NEW q \in Ids, NEW r \in Ids
  PROVE  /\ ~ (Before(p, q) /\ Before(q, p))
         /\ Before(p, q) /\ Before(q, r) => Before(p, r)
<1>1. archive.age[p] \in Nat /\ archive.age[q] \in Nat /\ archive.age[r] \in Nat
  BY DEF TypeOK, Archive
<1> QED
  BY <1>1 DEF Before

LEMMA OneLeads == TypeOK /\ Aged /\ AllKnown => \A r \in archive.rows : Leads(KeptFirst(r), r)
<1> SUFFICES ASSUME TypeOK, Aged, AllKnown, NEW r \in archive.rows PROVE Leads(KeptFirst(r), r)
  OBVIOUS
<1>1. archive.age \in [ Ids -> Nat ] /\ archive.rows \subseteq Ids
  BY DEF TypeOK, Archive
<1>2. r \in Copies(r) /\ Copies(r) \subseteq archive.rows
  BY DEF Copies
<1>3. ASSUME NEW S \in SUBSET Copies(r), S # {}
      PROVE  \E q \in S : \A p \in S \ {q} : archive.age[q] < archive.age[p]
  <2> DEFINE T == { archive.age[q] : q \in S }
  <2>1. T \in SUBSET Nat /\ T # {}
    BY <1>1, <1>2, <1>3
  <2>2. PICK m \in T : \A k \in T : m <= k
    <3> HIDE DEF T
    <3> QED
      BY <2>1, Smallest
  <2>3. PICK q \in S : m = archive.age[q]
    BY <2>2
  <2>4. ASSUME NEW p \in S, p # q PROVE archive.age[q] < archive.age[p]
    <3>1. archive.age[q] <= archive.age[p]
      BY <2>2, <2>3
    <3>2. archive.age[q] # archive.age[p]
      BY <1>1, <1>2, <1>3, <2>4 DEF Aged, AllKnown
    <3>3. archive.age[q] \in Nat /\ archive.age[p] \in Nat
      BY <1>1, <1>2, <1>3
    <3> QED
      BY <3>1, <3>2, <3>3
  <2> QED
    BY <2>4
<1>4. \E q \in Copies(r) : \A p \in Copies(r) \ {q} : Before(q, p)
  <2>1. CASE Copies(r) \cap archive.held = {}
    <3>1. PICK q \in Copies(r) : \A p \in Copies(r) \ {q} : archive.age[q] < archive.age[p]
      BY <1>2, <1>3
    <3> QED
      BY <2>1, <3>1 DEF Before
  <2>2. CASE Copies(r) \cap archive.held # {}
    <3>1. PICK q \in Copies(r) \cap archive.held :
             \A p \in (Copies(r) \cap archive.held) \ {q} : archive.age[q] < archive.age[p]
      BY <1>3, <2>2
    <3> QED
      BY <3>1 DEF Before
  <2> QED
    BY <2>1, <2>2
<1> QED
  BY <1>4 DEF Leads, KeptFirst

LEMMA RedundantMeans ==
  TypeOK /\ Aged /\ AllKnown =>
    \A r \in archive.rows :
      Redundant(r) <=> /\ Copies(r) \cap archive.held = {}
                       /\ \E q \in Copies(r) : Leads(q, r) /\ q # r /\ archive.version[q] = archive.version[r]
<1> SUFFICES ASSUME TypeOK, Aged, AllKnown, NEW r \in archive.rows
             PROVE  Redundant(r) <=> /\ Copies(r) \cap archive.held = {}
                                     /\ \E q \in Copies(r) : Leads(q, r) /\ q # r /\ archive.version[q] = archive.version[r]
  OBVIOUS
<1> DEFINE k == KeptFirst(r)
<1>1. Leads(k, r) /\ k \in Copies(r)
  BY OneLeads DEF Leads
<1> HIDE DEF k
<1>2. r \in Copies(r) /\ Copies(r) \subseteq Ids
  BY DEF Copies, TypeOK, Archive
<1>3. Redundant(r) <=> /\ Copies(r) \cap archive.held = {} /\ archive.version[r] = archive.version[k]
                       /\ \E p \in Copies(r) : Before(p, r)
  BY DEF Redundant, Removable, Protected, Surplus, k
<1>4. (\E p \in Copies(r) : Before(p, r)) => k # r
  BY <1>1, <1>2, BeforeOrders DEF Leads
<1>5. \A q : Leads(q, r) => q = k
  BY <1>1, <1>2, BeforeOrders DEF Leads
<1>6. k # r => Before(k, r)
  BY <1>1, <1>2 DEF Leads
<1> QED
  BY <1>1, <1>3, <1>4, <1>5, <1>6

LEMMA InitAged == Init => Aged
<1> SUFFICES ASSUME Init PROVE Aged
  OBVIOUS
<1>1. PICK known \in SUBSET Ids, age \in [Ids -> 0 .. Cardinality(Ids)] :
        /\ \A r \in Ids : IF r \in known THEN age[r] \in 1 .. Cardinality(known) ELSE age[r] = 0
        /\ \A r, q \in known : age[r] = age[q] => r = q
        /\ archive.age = age
  <2>1. PICK known \in SUBSET Ids, version \in [Ids -> Versions], age \in [Ids -> 0 .. Cardinality(Ids)] :
          \E rows \in SUBSET known :
          /\ \A r \in Ids : IF r \in known THEN age[r] \in 1 .. Cardinality(known)
                           ELSE age[r] = 0 /\ version[r] = CHOOSE v \in Versions : TRUE
          /\ \A r, q \in known : age[r] = age[q] => r = q
          /\ archive = [ age |-> age, version |-> version, rows |-> rows, sources |-> Sources, held |-> {} ]
    BY DEF Init
  <2> QED
    BY <2>1
<1>2. Cardinality(known) \in Nat
  BY FiniteIds
<1>3. \A r \in Ids : Known(r) <=> r \in known
  BY <1>1, <1>2 DEF Known
<1>4. { q \in Ids : Known(q) } = known
  BY <1>3
<1> QED
  BY <1>1, <1>2, <1>3, <1>4 DEF Aged

LEMMA NextAged == TypeOK /\ Aged /\ [Next]_vars => Aged'
<1> SUFFICES ASSUME TypeOK, Aged, [Next]_vars PROVE Aged'
  OBVIOUS
<1>1. ASSUME archive'.age = archive.age PROVE Aged'
  BY <1>1 DEF Aged, Known
<1>2. ASSUME NEW r \in Ids, NEW v \in Versions, Insert(r, v) PROVE Aged'
  <2> DEFINE K == { q \in Ids : Known(q) }
             n == Cardinality(K)
  <2>1. n \in Nat /\ IsFiniteSet(K)
    BY FiniteIds
  <2>2. r \notin K
    BY <1>2 DEF Insert
  <2>3. K' = K \cup {r}
    <3>1. \A q \in Ids : Known(q)' <=> q = r \/ Known(q)
      <4> SUFFICES ASSUME NEW q \in Ids PROVE Known(q)' <=> q = r \/ Known(q)
        OBVIOUS
      <4>1. q # r => archive'.age[q] = archive.age[q]
        BY <1>2, InsertKnows
      <4> QED
        BY <1>2, <4>1, InsertKnows DEF Known
    <3> QED
      BY <3>1
  <2>4. Cardinality(K') = n + 1
    BY <2>1, <2>2, <2>3, FS_AddElement
  <2>5. archive'.age[r] = 1 + n
    BY <1>2, InsertKnows
  <2>6. \A q \in Ids : q # r => archive'.age[q] = archive.age[q] /\ archive.age[q] \in Nat /\ archive.age[q] <= n
    BY <1>2, InsertKnows DEF Aged, TypeOK, Archive
  <2> HIDE DEF n
  <2>7. \A q \in Ids : archive'.age[q] <= n + 1
    BY <2>1, <2>5, <2>6
  <2>8. \A p, q \in Ids : Known(p)' /\ archive'.age[p] = archive'.age[q] => p = q
    <3> SUFFICES ASSUME NEW p \in Ids, NEW q \in Ids, Known(p)', archive'.age[p] = archive'.age[q] PROVE p = q
      OBVIOUS
    <3>1. CASE p # r /\ q # r
      <4>1. Known(p)
        BY <2>6, <3>1 DEF Known
      <4> QED
        BY <2>6, <3>1, <4>1 DEF Aged
    <3> QED
      BY <2>1, <2>5, <2>6, <3>1
  <2> QED
    BY <2>4, <2>7, <2>8 DEF Aged
<1>3. CASE Beside
  BY <1>1, <1>2, <1>3, GoneFields, IndexFields DEF Beside
<1>4. CASE CleanupDuplicates
  BY <1>1, <1>4, DupsFields, GoneFields
<1>5. CASE CleanupOrphans
  BY <1>1, <1>5, SweepFields
<1> QED
  BY <1>1, <1>3, <1>4, <1>5 DEF Next, Crash, vars

\* The page's rows and marks, as the steps of the cleanup leave them.
LEMMA PageFields ==
  ASSUME TypeOK
  PROVE  /\ TriggerDuplicates => /\ dups'.pc = "page" /\ ~ dups'.done /\ dups'.fresh
                                 /\ dups'.start = archive.rows /\ dups'.cursor = 0
         /\ DuplicatesPage => /\ dups'.pc = "rows" /\ dups'.done = dups.done /\ dups'.fresh
                              /\ dups'.start = dups.start /\ dups'.page \subseteq Ahead
                              /\ dups'.removable = { r \in dups'.page : Removable(r) }
                              /\ \A r \in Ahead : r \in dups'.page \/ dups'.cursor < r
         /\ \A r \in Ids : SkipCopy(r) \/ RemoveCopy(r) \/ CopyFails(r) =>
               /\ dups.pc = "rows" /\ r \in dups.page
               /\ dups'.page = dups.page \ {r} /\ dups'.pc = (IF dups.page = {r} THEN "page" ELSE "rows")
               /\ dups'.done = dups.done /\ dups'.removable = dups.removable
               /\ dups'.cursor = dups.cursor /\ dups'.fresh = dups.fresh
               /\ IF CopyFails(r) THEN dups'.start = {} ELSE dups'.start = dups.start
         /\ \A r \in Ids : UnlistCopy(r) =>
               /\ dups'.pc = dups.pc /\ dups'.page = dups.page /\ dups'.done = dups.done
               /\ dups'.removable = dups.removable /\ dups'.cursor = dups.cursor /\ dups'.fresh = dups.fresh
               /\ dups'.start = dups.start
         /\ DuplicatesDone => /\ dups'.pc = "idle" /\ dups'.done
                              /\ dups'.start = dups.start /\ dups'.fresh
<1>0. dups \in Dups
  BY DEF TypeOK
<1>1. TriggerDuplicates => /\ dups'.pc = "page" /\ ~ dups'.done /\ dups'.fresh
                           /\ dups'.start = archive.rows /\ dups'.cursor = 0
  BY DEF TriggerDuplicates, IdleDups
<1>2. ASSUME DuplicatesPage
      PROVE  /\ dups'.pc = "rows" /\ dups'.done = dups.done /\ dups'.fresh
             /\ dups'.start = dups.start /\ dups'.page \subseteq Ahead
             /\ dups'.removable = { r \in dups'.page : Removable(r) }
             /\ \A r \in Ahead : r \in dups'.page \/ dups'.cursor < r
  <2> DEFINE page == { r \in Ahead : Cardinality({ q \in Ahead : q < r }) < DuplicatePage }
             c == CHOOSE r \in page : \A q \in page : q <= r
  <2>1. /\ c \in Ids /\ \A r \in Ahead : r <= c => r \in page
    BY <1>2, PageEnds
  <2>2. page \subseteq Ahead
    OBVIOUS
  <2>3. dups' = [ dups EXCEPT !.pc = "rows", !.page = page, !.fresh = TRUE,
                     !.removable = { r \in page : Removable(r) }, !.cursor = c ]
    BY <1>2 DEF DuplicatesPage
  <2> HIDE DEF page, c
  <2>4. Ahead \subseteq Nat /\ c \in Nat
    BY <2>1, MaintenanceAssumption DEF Ahead, Surplus, TypeOK, Archive
  <2>5. \A r \in Ahead : r \in page \/ c < r
    BY <2>1, <2>4
  <2> QED
    BY <1>0, <2>2, <2>3, <2>5 DEF Dups
<1>3. ASSUME NEW r \in Ids, SkipCopy(r) \/ RemoveCopy(r) \/ CopyFails(r)
      PROVE  /\ dups.pc = "rows" /\ r \in dups.page
             /\ dups'.page = dups.page \ {r} /\ dups'.pc = (IF dups.page = {r} THEN "page" ELSE "rows")
             /\ dups'.done = dups.done /\ dups'.removable = dups.removable
             /\ dups'.cursor = dups.cursor /\ dups'.fresh = dups.fresh
             /\ IF CopyFails(r) THEN dups'.start = {} ELSE dups'.start = dups.start
  <2>1. CASE CopyFails(r)
    BY <1>0, <2>1 DEF CopyFails, AtHand, Dups
  <2>2. CASE ~ CopyFails(r)
    BY <1>0, <1>3, <2>2 DEF SkipCopy, RemoveCopy, Leaves, AtHand, Dups
  <2> QED
    BY <2>1, <2>2
<1>30. ASSUME NEW r \in Ids, UnlistCopy(r)
       PROVE  /\ dups'.pc = dups.pc /\ dups'.page = dups.page /\ dups'.done = dups.done
              /\ dups'.removable = dups.removable /\ dups'.cursor = dups.cursor /\ dups'.fresh = dups.fresh
              /\ dups'.start = dups.start
  BY <1>0, <1>30 DEF UnlistCopy, Dups
<1>4. DuplicatesDone => /\ dups'.pc = "idle" /\ dups'.done
                        /\ dups'.start = dups.start /\ dups'.fresh
  BY <1>0 DEF DuplicatesDone, IdleDups
<1> QED
  BY <1>1, <1>2, <1>3, <1>30, <1>4

LEMMA RedundantMeansNext ==
  (TypeOK /\ Aged /\ AllKnown)' =>
    (\A r \in archive.rows :
      Redundant(r) <=> /\ Copies(r) \cap archive.held = {}
                       /\ \E q \in Copies(r) : Leads(q, r) /\ q # r /\ archive.version[q] = archive.version[r])'
  BY RedundantMeans, PTL

\* A new row comes last in its group: it makes no other one redundant.
LEMMA InsertStays ==
  ASSUME TypeOK, Aged, AllKnown, TypeOK', Aged', AllKnown', NEW n \in Ids, NEW v \in Versions, Insert(n, v)
  PROVE  \A r \in archive.rows :
           /\ r # n /\ Redundant(r)' => Redundant(r)
           /\ Copies(r) \subseteq Copies(r)' /\ Copies(r)' \subseteq Copies(r) \cup {n}
           /\ \A q \in archive.rows : archive'.version[q] = archive.version[q] /\ (Before(q, r)' <=> Before(q, r))
<1> SUFFICES ASSUME NEW r \in archive.rows
             PROVE  /\ r # n /\ Redundant(r)' => Redundant(r)
                    /\ Copies(r) \subseteq Copies(r)' /\ Copies(r)' \subseteq Copies(r) \cup {n}
                    /\ \A q \in archive.rows : /\ archive'.version[q] = archive.version[q]
                                               /\ (Before(q, r)' <=> Before(q, r))
  OBVIOUS
<1>0. archive.rows \subseteq Ids /\ archive.age \in [ Ids -> Nat ]
  BY DEF TypeOK, Archive
<1>1. archive'.rows = archive.rows \cup {n} /\ archive'.held = archive.held /\ n \notin archive.rows
  BY InsertFields DEF AllKnown
<1>2. \A q \in archive.rows : archive'.version[q] = archive.version[q] /\ archive'.age[q] = archive.age[q]
  BY <1>0, <1>1, InsertKnows
<1>3. \A q \in archive.rows : Message(q)' = Message(q)
  BY <1>2 DEF Message
<1>4. Copies(r) \subseteq Copies(r)' /\ Copies(r)' \subseteq Copies(r) \cup {n}
  BY <1>1, <1>3 DEF Copies
<1>5. \A p, q \in archive.rows : Before(q, p)' <=> Before(q, p)
  BY <1>1, <1>2 DEF Before
<1>6. ASSUME Redundant(r)' PROVE Redundant(r)
  <2>1. PICK q \in Copies(r)' : /\ Leads(q, r)' /\ q # r /\ archive'.version[q] = archive'.version[r]
                                /\ Copies(r)' \cap archive'.held = {}
    BY <1>1, <1>6, RedundantMeansNext
  <2>2. q # n
    <3> SUFFICES ASSUME q = n PROVE FALSE
      OBVIOUS
    <3>1. r \in Copies(r)'
      BY <1>1 DEF Copies
    <3>2. Before(n, r)' /\ n \notin archive'.held /\ r \notin archive'.held
      BY <2>1, <3>1 DEF Leads
    <3>3. archive'.age[n] < archive'.age[r]
      BY <3>2 DEF Before
    <3>4. archive'.age[n] = 1 + Cardinality({ p \in Ids : Known(p) }) /\ Cardinality({ p \in Ids : Known(p) }) \in Nat
      BY InsertKnows
    <3>5. archive'.age[r] = archive.age[r] /\ archive.age[r] \in Nat
          /\ archive.age[r] <= Cardinality({ p \in Ids : Known(p) })
      BY <1>0, <1>2 DEF Aged
    <3> QED
      BY <3>3, <3>4, <3>5
  <2>3. q \in Copies(r) /\ Copies(r) \subseteq archive.rows
    BY <1>4, <2>1, <2>2 DEF Copies
  <2>4. Leads(q, r)
    BY <1>4, <1>5, <2>1, <2>3 DEF Leads
  <2>5. archive.version[q] = archive.version[r]
    BY <1>2, <2>1, <2>3
  <2>6. Copies(r) \cap archive.held = {}
    BY <1>1, <1>4, <2>1
  <2> QED
    BY <2>1, <2>3, <2>4, <2>5, <2>6, RedundantMeans
<1> QED
  BY <1>2, <1>4, <1>5, <1>6

\* A marked copy does not lead its group: its removal makes no other one redundant.
LEMMA RemoveStays ==
  ASSUME TypeOK, Aged, AllKnown, TypeOK', Aged', AllKnown', Spared, dups.fresh, NEW x \in Ids, RemoveCopy(x)
  PROVE  \A r \in archive'.rows :
           /\ Redundant(r)' => Redundant(r)
           /\ Copies(r)' = Copies(r) \ {x}
           /\ \A q \in archive'.rows : Before(q, r)' <=> Before(q, r)
<1> SUFFICES ASSUME NEW r \in archive'.rows
             PROVE  /\ Redundant(r)' => Redundant(r)
                    /\ Copies(r)' = Copies(r) \ {x}
                    /\ \A q \in archive'.rows : Before(q, r)' <=> Before(q, r)
  OBVIOUS
<1>0. archive.rows \subseteq Ids
  BY DEF TypeOK, Archive
<1>1. /\ archive'.rows = archive.rows \ {x} /\ archive'.held = archive.held \ {x}
      /\ archive'.age = archive.age /\ archive'.version = archive.version
  BY GoneFields
<1>2. Copies(r)' = Copies(r) \ {x} /\ Copies(r) \subseteq Ids
  BY <1>0, <1>1 DEF Copies, Message
<1>3. \A p, q \in archive'.rows : Before(q, p)' <=> Before(q, p)
  BY <1>1 DEF Before
<1>4. ASSUME Redundant(r)' PROVE Redundant(r)
  <2>1. PICK q \in Copies(r)' : /\ Leads(q, r)' /\ q # r /\ archive'.version[q] = archive'.version[r]
                                /\ Copies(r)' \cap archive'.held = {}
    BY <1>4, RedundantMeansNext
  <2>2. \A p \in Copies(r) \ {q} : p # x => Before(q, p)
    <3> SUFFICES ASSUME NEW p \in Copies(r) \ {q}, p # x PROVE Before(q, p)
      OBVIOUS
    <3>1. p \in Copies(r)' \ {q} /\ p \in archive'.rows /\ q \in archive'.rows
      BY <1>1, <1>2, <2>1 DEF Copies
    <3> QED
      BY <1>3, <2>1, <3>1 DEF Leads
  <2>3. x \in Copies(r) => Before(q, x) /\ x \notin archive.held
    <3> SUFFICES ASSUME x \in Copies(r) PROVE Before(q, x) /\ x \notin archive.held
      OBVIOUS
    <3>1. x \in dups.page \cap dups.removable /\ dups.pc = "rows"
      BY DEF RemoveCopy, Leaves, AtHand
    <3>2. PICK y \in Copies(x) : Before(y, x) /\ Copies(x) \cap archive.held = {}
      BY <3>1 DEF Spared
    <3>3. Copies(x) = Copies(r) /\ x \in Ids /\ x \in Copies(x)
      BY <1>0 DEF Copies
    <3>4. y # x
      BY <3>2, BeforeOrders
    <3>5. y = q \/ Before(q, y)
      BY <2>2, <3>2, <3>3, <3>4
    <3> QED
      BY <1>2, <2>1, <3>2, <3>3, <3>5, BeforeOrders
  <2>4. Leads(q, r)
    BY <1>2, <2>1, <2>2, <2>3 DEF Leads
  <2>5. Copies(r) \cap archive.held = {}
    BY <1>1, <1>2, <2>1, <2>3
  <2> QED
    BY <1>1, <1>2, <2>1, <2>4, <2>5, RedundantMeans
<1> QED
  BY <1>2, <1>3, <1>4

LEMMA InitWalk == Init => Spared /\ Visited
<1> SUFFICES ASSUME Init PROVE Spared /\ Visited
  OBVIOUS
<1>1. dups.pc = "idle" /\ dups.start = {} /\ dups.fresh /\ ~ dups.done
  BY DEF Init, IdleDups
<1> QED
  BY <1>1 DEF Spared, Visited

\* The rows of a page that are marked are no leaders of their groups.
LEMMA PageSpares ==
  ASSUME TypeOK, Aged, AllKnown, DuplicatesPage
  PROVE  Spared'
<1>1. /\ dups'.page \subseteq Ahead /\ dups'.removable = { r \in dups'.page : Removable(r) }
      /\ archive' = archive
  BY PageFields DEF DuplicatesPage
<1>2. ASSUME NEW r \in dups'.page \cap dups'.removable
      PROVE  /\ r \in archive.rows /\ Copies(r) \cap archive.held = {}
             /\ \E q \in Copies(r) \ dups'.removable : Before(q, r) /\ archive.version[q] = archive.version[r]
  <2>1. r \in Surplus /\ Removable(r) /\ r \in archive.rows
    BY <1>1, <1>2 DEF Ahead, Surplus
  <2>2. PICK q \in Copies(r) : /\ Leads(q, r) /\ q # r /\ archive.version[q] = archive.version[r]
                               /\ Copies(r) \cap archive.held = {}
    BY <2>1, RedundantMeans DEF Redundant
  <2>3. r \in Copies(r) /\ Copies(q) = Copies(r) /\ Copies(r) \subseteq Ids
    BY <2>1, <2>2 DEF Copies, TypeOK, Archive
  <2>4. Before(q, r)
    BY <2>2, <2>3 DEF Leads
  <2>5. q \notin Surplus
    BY <2>2, <2>3, BeforeOrders DEF Surplus, Leads
  <2>6. q \notin dups'.removable
    BY <1>1, <2>5 DEF Ahead
  <2> QED
    BY <2>1, <2>2, <2>4, <2>6
<1>3. /\ \A r : Copies(r)' = Copies(r)
      /\ \A q, r : Before(q, r)' <=> Before(q, r)
  BY <1>1 DEF Copies, Message, Before
<1> QED
  BY <1>1, <1>2, <1>3 DEF Spared

HeldRows == archive.held \subseteq archive.rows

LEMMA NextHeldRows == TypeOK /\ HeldRows /\ [Next]_vars => HeldRows'
<1> SUFFICES ASSUME TypeOK, HeldRows, [Next]_vars PROVE HeldRows'
  OBVIOUS
<1>0. archive \in Archive
  BY DEF TypeOK
<1>1. ASSUME NEW r \in Ids, UserDeletes(r) \/ Hold(r) PROVE HeldRows'
  <2>1. CASE UserDeletes(r)
    BY <2>1, GoneFields DEF HeldRows, UserDeletes
  <2>2. CASE Hold(r)
    <3> DEFINE h == IF r \in archive.held THEN archive.held \ {r} ELSE archive.held \cup {r}
    <3>1. archive' = [ archive EXCEPT !.held = h ] /\ r \in archive.rows
      BY <2>2 DEF Hold
    <3>2. h \subseteq archive.rows
      BY <3>1 DEF HeldRows
    <3> HIDE DEF h
    <3>3. archive'.held = h /\ archive'.rows = archive.rows
      BY <1>0, <3>1 DEF Archive
    <3> QED
      BY <3>2, <3>3 DEF HeldRows
  <2> QED
    BY <1>1, <2>1, <2>2
<1>2. ASSUME NEW s \in Sources, SourceDeleted(s) PROVE HeldRows'
  BY <1>0, <1>2 DEF HeldRows, SourceDeleted, Archive
<1>3. CASE Beside
  BY <1>1, <1>2, <1>3, InsertFields, IndexFields DEF Beside, HeldRows
<1>4. CASE CleanupDuplicates
  BY <1>4, DupsFields, GoneFields DEF HeldRows
<1>5. CASE CleanupOrphans
  BY <1>5, SweepFields DEF HeldRows
<1> QED
  BY <1>3, <1>4, <1>5 DEF Next, Crash, vars, HeldRows

LEMMA NextWalk ==
  TypeOK /\ Aged /\ AllKnown /\ TypeOK' /\ Aged' /\ AllKnown' /\ Past /\ HeldRows /\ Spared /\ Visited /\ [Next]_vars
    => Spared' /\ Visited'
<1> SUFFICES ASSUME TypeOK, Aged, AllKnown, TypeOK', Aged', AllKnown', Past, HeldRows, Spared, Visited, [Next]_vars
             PROVE  Spared' /\ Visited'
  OBVIOUS
<1>0. /\ dups \in Dups /\ archive.rows \subseteq Ids /\ dups.start \subseteq Ids
      /\ \A r \in dups.start : Known(r)
  BY DEF TypeOK, Archive, Dups, Past
<1>1. ASSUME archive' = archive,
             UNCHANGED << dups.pc, dups.page, dups.done, dups.removable, dups.cursor, dups.fresh, dups.start >>
      PROVE  Spared' /\ Visited'
  <2>1. \A r : Copies(r)' = Copies(r) /\ Message(r)' = Message(r)
    BY <1>1 DEF Copies, Message
  <2>2. \A q, r : Before(q, r)' <=> Before(q, r)
    BY <1>1 DEF Before
  <2>3. \A r : Redundant(r)' <=> Redundant(r)
    <3>1. \A r : KeptFirst(r)' = KeptFirst(r)
      BY <2>1, <2>2 DEF KeptFirst
    <3> QED
      BY <1>1, <2>1, <2>2, <3>1 DEF Redundant, Surplus, Removable, Protected
  <2> QED
    BY <1>1, <2>1, <2>2, <2>3 DEF Spared, Visited
<1>2. ASSUME Unsettled PROVE Spared' /\ Visited'
  <2>1. dups'.start = {} /\ ~ dups'.fresh /\ dups'.pc = dups.pc /\ dups'.done = dups.done
    BY <1>0, <1>2 DEF Unsettled, Dups
  <2> QED
    BY <2>1 DEF Spared, Visited
<1>3. ASSUME NEW n \in Ids, NEW v \in Versions, Insert(n, v) PROVE Spared' /\ Visited'
  <2>0. dups' = dups /\ archive'.held = archive.held /\ archive'.rows = archive.rows \cup {n}
        /\ n \notin archive.rows /\ ~ Known(n)
    BY <1>3, InsertFields DEF AllKnown
  <2>1. ASSUME dups.fresh, dups.pc = "rows", NEW r \in dups.page \cap dups.removable
        PROVE  /\ r \in archive'.rows /\ Copies(r)' \cap archive'.held = {}
               /\ \E q \in Copies(r)' \ dups.removable : Before(q, r)' /\ archive'.version[q] = archive'.version[r]
    <3>1. PICK q \in Copies(r) \ dups.removable : /\ Before(q, r) /\ archive.version[q] = archive.version[r]
                                                  /\ r \in archive.rows /\ Copies(r) \cap archive.held = {}
      BY <2>1 DEF Spared
    <3>2. q \in archive.rows
      BY <3>1 DEF Copies
    <3>3. /\ Copies(r) \subseteq Copies(r)' /\ Copies(r)' \subseteq Copies(r) \cup {n}
          /\ archive'.version[q] = archive.version[q] /\ archive'.version[r] = archive.version[r]
          /\ Before(q, r)'
      BY <1>3, <3>1, <3>2, InsertStays
    <3> QED
      BY <2>0, <3>1, <3>3 DEF HeldRows
  <2>2. ASSUME NEW r \in dups.start, Redundant(r)' PROVE Redundant(r)
    <3>1. r # n
      BY <1>0, <2>0
    <3>2. r \in archive.rows
      BY <2>0, <2>2, <3>1 DEF Redundant, Surplus
    <3> QED
      BY <1>3, <2>2, <3>1, <3>2, InsertStays
  <2> QED
    BY <2>0, <2>1, <2>2 DEF Spared, Visited
<1>4. CASE TriggerDuplicates
  <2>1. /\ dups'.pc = "page" /\ ~ dups'.done /\ dups'.fresh /\ dups'.cursor = 0
        /\ dups'.start \subseteq Ids
    BY <1>0, <1>4, PageFields
  <2>2. \A r \in Ids : 0 < r
    BY MaintenanceAssumption
  <2> QED
    BY <2>1, <2>2 DEF Spared, Visited
<1>5. CASE DuplicatesPage
  <2>1. /\ dups'.pc = "rows" /\ dups'.done = dups.done /\ dups'.fresh
        /\ dups'.start = dups.start /\ dups'.removable = { r \in dups'.page : Removable(r) }
        /\ \A r \in Ahead : r \in dups'.page \/ dups'.cursor < r
        /\ dups.pc = "page" /\ archive' = archive
    BY <1>5, PageFields DEF DuplicatesPage
  <2>2. Spared'
    BY <1>5, PageSpares
  <2>3. \A r : Redundant(r)' <=> Redundant(r)
    BY <2>1 DEF Redundant, Surplus, Removable, Protected, KeptFirst, Copies, Message, Before
  <2>4. ASSUME NEW r \in dups.start, Redundant(r)
        PROVE  dups'.cursor < r \/ r \in dups'.page \cap dups'.removable
    <3>1. dups.cursor < r /\ r \in Surplus /\ Removable(r) /\ dups.cursor \in Nat /\ r \in Nat
      BY <1>0, <2>1, <2>4, MaintenanceAssumption DEF Visited, Redundant, Dups
    <3>2. r \in Ahead
      BY <3>1 DEF Ahead
    <3> QED
      BY <2>1, <3>1, <3>2
  <2> QED
    BY <2>1, <2>2, <2>3, <2>4 DEF Visited
<1>6. ASSUME NEW x \in Ids, SkipCopy(x) \/ CopyFails(x) PROVE Spared' /\ Visited'
  <2>1. /\ dups.pc = "rows" /\ x \in dups.page
        /\ dups'.page = dups.page \ {x} /\ dups'.pc = (IF dups.page = {x} THEN "page" ELSE "rows")
        /\ dups'.done = dups.done /\ dups'.removable = dups.removable
        /\ dups'.cursor = dups.cursor /\ dups'.fresh = dups.fresh
        /\ IF CopyFails(x) THEN dups'.start = {} ELSE dups'.start = dups.start
    BY <1>6, PageFields
  <2>2. archive' = archive
    BY <1>6 DEF SkipCopy, CopyFails
  <2>3. \A r : Redundant(r)' <=> Redundant(r)
    BY <2>2 DEF Redundant, Surplus, Removable, Protected, KeptFirst, Copies, Message, Before
  <2>4. \A q, r : Copies(r)' = Copies(r) /\ (Before(q, r)' <=> Before(q, r))
    BY <2>2 DEF Copies, Message, Before
  <2>5. Spared'
    BY <2>1, <2>2, <2>4 DEF Spared
  <2>6. dups'.start # {} => x \notin dups.removable /\ dups'.start = dups.start
    BY <1>6, <2>1 DEF SkipCopy
  <2>7. ASSUME NEW r \in dups'.start, Redundant(r)
        PROVE  ~ dups.done /\ (dups.cursor < r \/ (dups'.pc = "rows" /\ r \in dups'.page \cap dups.removable))
    <3>1. ~ dups.done /\ (dups.cursor < r \/ r \in dups.page \cap dups.removable)
      BY <2>1, <2>6, <2>7 DEF Visited
    <3> QED
      BY <2>1, <2>6, <2>7, <3>1
  <2> QED
    BY <2>1, <2>3, <2>5, <2>6, <2>7 DEF Visited
<1>7. ASSUME NEW x \in Ids, RemoveCopy(x) PROVE Spared' /\ Visited'
  <2>1. /\ dups.pc = "rows" /\ x \in dups.page /\ x \in dups.removable
        /\ dups'.page = dups.page \ {x} /\ dups'.pc = (IF dups.page = {x} THEN "page" ELSE "rows")
        /\ dups'.done = dups.done /\ dups'.removable = dups.removable
        /\ dups'.cursor = dups.cursor /\ dups'.fresh = dups.fresh
        /\ dups'.start \subseteq dups.start
    <3>1. dups'.start = {} \/ dups'.start = dups.start
      BY <1>7, PageFields
    <3> QED
      BY <1>7, <3>1, PageFields DEF RemoveCopy
  <2>2. /\ archive'.rows = archive.rows \ {x} /\ archive'.held = archive.held \ {x}
        /\ archive'.version = archive.version
    BY <1>7, GoneFields
  <2>3. ASSUME dups.fresh, NEW r \in dups'.page \cap dups.removable
        PROVE  /\ r \in archive'.rows /\ Copies(r)' \cap archive'.held = {}
               /\ \E q \in Copies(r)' \ dups.removable : Before(q, r)' /\ archive'.version[q] = archive'.version[r]
    <3>1. PICK q \in Copies(r) \ dups.removable : /\ Before(q, r) /\ archive.version[q] = archive.version[r]
                                                  /\ r \in archive.rows /\ Copies(r) \cap archive.held = {}
      BY <2>1, <2>3 DEF Spared
    <3>2. r # x /\ q # x /\ q \in archive.rows
      BY <2>1, <2>3, <3>1 DEF Copies
    <3>3. r \in archive'.rows /\ q \in archive'.rows
      BY <2>2, <3>1, <3>2
    <3>4. Copies(r)' = Copies(r) \ {x} /\ Before(q, r)'
      BY <1>7, <2>3, <3>1, <3>3, RemoveStays
    <3> QED
      BY <2>2, <3>1, <3>2, <3>3, <3>4
  <2>4. Spared'
    BY <2>1, <2>3 DEF Spared
  <2>5. ASSUME NEW r \in dups'.start, Redundant(r)'
        PROVE  ~ dups.done /\ (dups.cursor < r \/ (dups'.pc = "rows" /\ r \in dups'.page \cap dups.removable))
    <3>1. dups.fresh /\ r \in dups.start
      BY <2>1, <2>5 DEF Visited
    <3>2. r \in archive'.rows
      BY <2>5 DEF Redundant, Surplus
    <3>3. Redundant(r) /\ r # x
      BY <1>7, <2>2, <2>5, <3>1, <3>2, RemoveStays
    <3>4. ~ dups.done /\ (dups.cursor < r \/ r \in dups.page \cap dups.removable)
      BY <2>1, <2>5, <3>1, <3>3 DEF Visited
    <3> QED
      BY <2>1, <3>3, <3>4
  <2> QED
    BY <2>1, <2>4, <2>5 DEF Visited
<1>8. CASE DuplicatesDone
  <2>1. /\ dups'.pc = "idle" /\ dups'.done /\ dups'.start = dups.start /\ dups'.fresh
        /\ dups.pc = "page" /\ Ahead = {} /\ archive' = archive
    BY <1>8, PageFields DEF DuplicatesDone
  <2>2. \A r : Redundant(r)' <=> Redundant(r)
    BY <2>1 DEF Redundant, Surplus, Removable, Protected, KeptFirst, Copies, Message, Before
  <2>3. ASSUME NEW r \in dups.start PROVE ~ Redundant(r)
    <3> SUFFICES ASSUME Redundant(r) PROVE FALSE
      OBVIOUS
    <3>1. dups.cursor < r /\ r \in Surplus /\ dups.cursor \in Nat /\ r \in Nat
      BY <1>0, <2>1, <2>3, MaintenanceAssumption DEF Visited, Redundant, Dups
    <3> QED
      BY <2>1, <3>1 DEF Ahead
  <2> QED
    BY <2>1, <2>2, <2>3 DEF Spared, Visited
<1>9. CASE Crash
  <2>1. CASE dups' = IdleDups
    <3>1. dups'.pc = "idle" /\ dups'.start = {} /\ ~ dups'.done /\ dups'.fresh
      BY <2>1 DEF IdleDups
    <3> QED
      BY <3>1 DEF Spared, Visited
  <2>2. CASE dups' # IdleDups
    <3>1. /\ dups'.pc = "page" /\ ~ dups'.done /\ dups'.fresh /\ dups'.cursor = 0
          /\ dups'.start = archive.rows
      BY <1>9, <2>2 DEF Crash, IdleDups
    <3>2. \A r \in Ids : 0 < r
      BY MaintenanceAssumption
    <3> QED
      BY <1>0, <3>1, <3>2 DEF Spared, Visited
  <2> QED
    BY <2>1, <2>2
<1>10. CASE Beside
  <2>1. \A r \in Ids : Index(r) => UNCHANGED << archive, dups >>
    BY IndexFields
  <2>2. (\E r \in Ids : UserDeletes(r) \/ Hold(r)) \/ (\E s \in Sources : SourceDeleted(s)) => Unsettled
    BY DEF UserDeletes, Hold, SourceDeleted
  <2> QED
    BY <1>1, <1>2, <1>3, <1>10, <2>1, <2>2 DEF Beside
<1>70. ASSUME NEW x \in Ids, UnlistCopy(x) PROVE Spared' /\ Visited'
  BY <1>1, <1>70, PageFields, GoneFields
<1>11. CASE CleanupDuplicates
  BY <1>4, <1>5, <1>6, <1>7, <1>70, <1>8, <1>11 DEF CleanupDuplicates
<1>12. CASE CleanupOrphans
  BY <1>1, <1>12, SweepFields
<1> QED
  BY <1>1, <1>9, <1>10, <1>11, <1>12 DEF Next, vars

Walk == Types /\ Past /\ Aged /\ HeldRows /\ Spared /\ Visited

LEMMA WalkInvariant == Spec => []Walk
<1>1. Init => Walk
  <2>1. Init => HeldRows
    BY DEF Init, HeldRows
  <2> QED
    BY <2>1, InitTypes, InitPast, InitAged, InitWalk DEF Walk
<1>2. Walk /\ [Next]_vars => Walk'
  <2> SUFFICES ASSUME Walk, [Next]_vars PROVE Walk'
    OBVIOUS
  <2>1. Types' /\ Past' /\ Aged' /\ HeldRows'
    BY NextTypes, NextPast, NextAged, NextHeldRows DEF Walk, Types
  <2>2. TypeOK /\ AllKnown /\ TypeOK' /\ AllKnown'
    BY <2>1 DEF Walk, Types, Past, AllKnown
  <2> QED
    BY <2>1, <2>2, NextWalk DEF Walk
<1> QED
  BY <1>1, <1>2, PTL DEF Spec

\* A run that ends by itself, with no hold and no deletion by others since it
\* began, leaves no surplus copy of those there were at its start, but protected
\* and differing ones.
THEOREM NoDuplicateMissed == Spec => []DuplicatesGone
<1>1. Walk => DuplicatesGone
  BY DEF Walk, Visited, DuplicatesGone, Redundant
<1> QED
  BY <1>1, WalkInvariant, PTL

\* As long as no hold and no deletion by others overtakes a page, a copy that is
\* removed belongs to no protected message, and its content stays in another row.
THEOREM NoContentLost == Spec => CopiesRemain
<1> DEFINE Kept ==
      \A r \in archive.rows \ archive'.rows :
            dups.fresh /\ dups.pc = "rows" /\ r \in dups.page \ dups'.page =>
                /\ Copies(r) \cap archive.held = {}
                /\ \E q \in Copies(r) \cap archive'.rows : archive.version[q] = archive.version[r]
<1>1. Walk /\ [Next]_vars => [Kept]_vars
  <2> SUFFICES ASSUME Walk, Next, NEW r \in archive.rows \ archive'.rows,
                      dups.fresh, dups.pc = "rows", r \in dups.page \ dups'.page
               PROVE  /\ Copies(r) \cap archive.held = {}
                      /\ \E q \in Copies(r) \cap archive'.rows : archive.version[q] = archive.version[r]
    OBVIOUS
  <2>0. TypeOK
    BY DEF Walk, Types
  <2>1. PICK x \in Ids : RemoveCopy(x)
    <3>1. CASE Beside
      <4>1. Unsettled => dups'.page = dups.page
        BY <2>0, UnsettledFields
      <4> QED
        BY <2>0, <3>1, <4>1, InsertFields, IndexFields DEF Beside, UserDeletes, Hold, SourceDeleted
    <3> QED
      BY <2>0, <3>1, DupsFields, SweepFields, GoneFields DEF Next, Crash
  <2>2. x \in dups.page /\ x \in dups.removable /\ dups'.page = dups.page \ {x} /\ archive'.rows = archive.rows \ {x}
    BY <2>0, <2>1, PageFields, GoneFields DEF RemoveCopy
  <2>3. PICK q \in Copies(r) \ dups.removable : /\ archive.version[q] = archive.version[r]
                                                /\ Copies(r) \cap archive.held = {}
    BY <2>2 DEF Walk, Spared
  <2> QED
    BY <2>2, <2>3 DEF Copies
<1> QED
  BY <1>1, WalkInvariant, PTL DEF Spec, CopiesRemain
=============================================================================
