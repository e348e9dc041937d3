--------------------------- MODULE RegistryProofs ---------------------------
(***************************************************************************)
(* Proofs about Registry, for any number of names, any versions of their   *)
(* entries, and any number of objects made.                                *)
(***************************************************************************)
EXTENDS Registry, FiniteSetTheorems, TLAPS

\* The names of a set up to one of them can be counted.
LEMMA NamesCount ==
  ASSUME NEW S \in SUBSET Names
  PROVE  IsFiniteSet(S) /\ Cardinality(S) \in Nat
<1>1. IsFiniteSet(Names)
  BY NCrawlersAssumption, FS_Interval DEF Names
<1> QED
  BY <1>1, FS_Subset, FS_CardinalityType

\* The place of a name among a set of them: 1 for the smallest.
Place(S, n) == Cardinality({m \in S : m <= n})

\* The names of a set are numbered from 1 to their number, in order.
LEMMA PlacesAreNumbers ==
  ASSUME NEW S \in SUBSET Names
  PROVE  /\ \A n \in S : Place(S, n) \in 1 .. Cardinality(S)
         /\ \A m, n \in S : Place(S, m) = Place(S, n) => m = n
         /\ \A k \in 1 .. Cardinality(S) : \E n \in S : Place(S, n) = k
<1> DEFINE upTo(n) == {m \in S : m <= n}
           c == Cardinality(S)
           f == [n \in S |-> Place(S, n)]
<1>1. \A n \in S : n \in Nat
  BY DEF Names
<1>2. /\ IsFiniteSet(S) /\ c \in Nat
      /\ \A n : IsFiniteSet(upTo(n)) /\ Cardinality(upTo(n)) \in Nat
  <2>1. \A n : upTo(n) \in SUBSET Names
    OBVIOUS
  <2> HIDE DEF upTo
  <2> QED
    BY <2>1, NamesCount
<1>3. ASSUME NEW n \in S PROVE Place(S, n) \in 1 .. c
  <2>1. Cardinality(upTo(n)) <= c
    <3>1. upTo(n) \in SUBSET S
      OBVIOUS
    <3> QED
      BY <1>2, <3>1, FS_Subset
  <2>2. Cardinality(upTo(n)) # 0
    <3>1. n \in upTo(n)
      BY <1>1
    <3> HIDE DEF upTo
    <3> QED
      BY <1>2, <3>1, FS_EmptySet
  <2> HIDE DEF c
  <2> QED
    BY <1>2, <2>1, <2>2 DEF Place
<1>4. ASSUME NEW m \in S, NEW n \in S, m < n PROVE Place(S, m) < Place(S, n)
  <2>1. upTo(m) \subseteq upTo(n) /\ n \in upTo(n) /\ n \notin upTo(m)
    BY <1>1, <1>4
  <2> HIDE DEF upTo
  <2>2. Cardinality(upTo(m)) <= Cardinality(upTo(n))
    BY <1>2, <2>1, FS_Subset
  <2>3. Cardinality(upTo(m)) # Cardinality(upTo(n))
    BY <1>2, <2>1, FS_Subset
  <2>4. Cardinality(upTo(m)) < Cardinality(upTo(n))
    BY <1>2, <2>2, <2>3
  <2> QED
    BY <2>4 DEF Place, upTo
<1>5. ASSUME NEW m \in S, NEW n \in S, Place(S, m) = Place(S, n) PROVE m = n
  <2>1. Place(S, m) \in Nat /\ Place(S, n) \in Nat
    BY <1>2 DEF Place
  <2>2. ~(Place(S, m) < Place(S, n)) /\ ~(Place(S, n) < Place(S, m))
    BY <1>5, <2>1
  <2>3. ~(m < n) /\ ~(n < m)
    BY <1>4, <2>2
  <2> QED
    BY <1>1, <2>3
<1>6. \A k \in 1 .. c : \E n \in S : Place(S, n) = k
  <2>1. IsFiniteSet(1 .. c) /\ Cardinality(1 .. c) = c
    <3> HIDE DEF c
    <3>1. Cardinality(1 .. c) = IF 1 > c THEN 0 ELSE c - 1 + 1
      BY <1>2, FS_Interval
    <3>2. IsFiniteSet(1 .. c)
      BY <1>2, FS_Interval
    <3> QED
      BY <1>2, <3>1, <3>2
  <2>2. f \in [S -> 1 .. c]
    BY <1>3
  <2>3. f \in Injection(S, 1 .. c)
    BY <1>5, <2>2 DEF Injection, IsInjective
  <2>4. f \in Surjection(S, 1 .. c)
    BY <2>1, <2>3, FS_Injection
  <2> QED
    BY <2>4 DEF Surjection
<1> QED
  BY <1>3, <1>5, <1>6

-----------------------------------------------------------------------------
(* The inductive invariant. *)

\* ListedIsOpen is almost inductive by itself; that finitely many objects were
\* made, and what a process that is down has left behind it, needs saying.
Down == ~up => table = NoCrawlers /\ open = {} /\ memory = {} /\ stray = {}

RegistryInv == ListedIsOpen /\ Down /\ Cardinality(Made) \in Nat

\* The objects init_crawlers makes are numbered after those made before.
LEMMA FreshNumbers ==
  ASSUME TypeOK, Cardinality(Made) \in Nat,
         NEW c, c = Cardinality(Made), NEW q, q = Cardinality(Missing)
  PROVE  /\ q \in Nat /\ c + q \in Nat /\ Made = 1 .. c
         /\ Cardinality(1 .. c + q) = c + q
         /\ \A n \in Missing : /\ n \in Names /\ file[n] \in Versions
                               /\ Fresh(n) \in 1 .. c + q /\ Fresh(n) \notin 1 .. c
         /\ \A m, n \in Missing : Fresh(m) = Fresh(n) => m = n
         /\ \A i \in 1 .. c + q : i \in 1 .. c \/ \E n \in Missing : Fresh(n) = i
<1>1. Made = 1 .. c
  BY DEF TypeOK
<1>2. Missing \in SUBSET Names /\ \A n \in Missing : file[n] \in Versions
  BY DEF Missing, Reached
<1>3. q \in Nat /\ c \in Nat
  BY <1>2, NamesCount
<1>4. Cardinality(1 .. c + q) = c + q
  <2> DEFINE d == c + q
  <2>1. d \in Nat /\ d \in Int /\ 1 \in Int
    BY <1>3
  <2> HIDE DEF d
  <2>2. Cardinality(1 .. d) = IF 1 > d THEN 0 ELSE d - 1 + 1
    BY <2>1, FS_Interval
  <2>3. Cardinality(1 .. d) = d
    BY <2>1, <2>2
  <2> QED
    BY <2>3 DEF d
<1>5. /\ \A n \in Missing : Fresh(n) = c + Place(Missing, n) /\ Place(Missing, n) \in 1 .. q
      /\ \A m, n \in Missing : Place(Missing, m) = Place(Missing, n) => m = n
      /\ \A k \in 1 .. q : \E n \in Missing : Place(Missing, n) = k
  BY <1>2, PlacesAreNumbers DEF Fresh, Place
<1>6. \A n \in Missing : Fresh(n) \in 1 .. c + q /\ Fresh(n) \notin 1 .. c
  BY <1>3, <1>5
<1>7. ASSUME NEW m \in Missing, NEW n \in Missing, Fresh(m) = Fresh(n) PROVE m = n
  <2>1. Place(Missing, m) = Place(Missing, n)
    BY <1>3, <1>5, <1>7
  <2> QED
    BY <1>5, <2>1
<1>8. ASSUME NEW i \in 1 .. c + q, i \notin 1 .. c PROVE \E n \in Missing : Fresh(n) = i
  <2>1. i - c \in 1 .. q /\ i = c + (i - c)
    BY <1>3, <1>8
  <2>2. PICK n \in Missing : Place(Missing, n) = i - c
    BY <1>5, <2>1
  <2> QED
    BY <1>5, <2>1, <2>2
<1> QED
  BY <1>1, <1>2, <1>3, <1>4, <1>6, <1>7, <1>8

\* What init_crawlers keeps and makes.
LEMMA InitCrawlersKeeps ==
  ASSUME RegistryInv, InitCrawlers
  PROVE  /\ table' \in [Names -> 0 .. MaxMade]
         /\ built' \in [Made' -> Versions] /\ Made' = 1 .. Cardinality(Made')
         /\ Cardinality(Made') \in Nat
         /\ open' \subseteq Made' /\ Listed' \subseteq open'
         /\ \A m, n \in Names : table'[m] = table'[n] /\ table'[m] # 0 => m = n
         /\ open' \subseteq Listed' \cup stray \cup Stranded
         /\ Stranded \subseteq Made'
<1> DEFINE c == Cardinality(Made)
           q == Cardinality(Missing)
           fresh == {Fresh(n) : n \in Missing}
           closed == {table[n] : n \in Outdated}
<1> /\ TypeOK /\ c \in Nat /\ Listed \subseteq open /\ open \subseteq Made
    /\ open \subseteq Listed \cup stray
  BY DEF RegistryInv, ListedIsOpen, TypeOK
<1>1. /\ q \in Nat /\ c + q \in Nat /\ Made = 1 .. c
      /\ Cardinality(1 .. c + q) = c + q
      /\ \A n \in Missing : /\ n \in Names /\ file[n] \in Versions
                            /\ Fresh(n) \in 1 .. c + q /\ Fresh(n) \notin 1 .. c
      /\ \A m, n \in Missing : Fresh(m) = Fresh(n) => m = n
      /\ \A i \in 1 .. c + q : i \in 1 .. c \/ \E n \in Missing : Fresh(n) = i
  BY FreshNumbers
<1>2. /\ c + q <= MaxMade
      /\ table' = [n \in Names |->
           IF n \in Missing THEN Fresh(n)
           ELSE IF n \in Reached /\ Reused(n) THEN table[n] ELSE 0]
      /\ built' = [i \in 1 .. c + q |->
           IF i \in Made THEN built[i] ELSE file[CHOOSE n \in Missing : Fresh(n) = i]]
      /\ open' = (open \ closed) \cup fresh
  BY DEF InitCrawlers
<1>3. 1 .. c \subseteq 1 .. c + q /\ 1 .. c + q \subseteq 1 .. MaxMade
  <2> HIDE DEF c, q
  <2> QED
    BY <1>1, <1>2, MaxMadeAssumption
<1>4. \A n \in Names : table[n] # 0 => table[n] \in open /\ table[n] \in 1 .. c
  BY <1>1 DEF Listed
<1> \A n \in Names : Reused(n) => file[n] \in Versions
  BY <1>1, <1>4 DEF Reused, TypeOK
<1>5. /\ Made' = 1 .. c + q /\ Cardinality(Made') = c + q
      /\ built' \in [Made' -> Versions]
  <2>1. Made' = 1 .. c + q
    BY <1>2 DEF Made
  <2>2. ASSUME NEW i \in 1 .. c + q PROVE built'[i] \in Versions
    <3>1. CASE i \in Made
      <4>1. built[i] \in Versions
        BY <3>1 DEF TypeOK
      <4> QED
        BY <1>2, <3>1, <4>1
    <3>2. CASE i \notin Made
      <4>1. \E n \in Missing : Fresh(n) = i
        BY <1>1, <3>2
      <4>2. (CHOOSE n \in Missing : Fresh(n) = i) \in Missing
        BY <4>1
      <4> QED
        BY <1>1, <1>2, <3>2, <4>2
    <3> QED
      BY <3>1, <3>2
  <2> HIDE DEF c, q
  <2> QED
    BY <1>1, <1>2, <2>1, <2>2
<1>6. ASSUME NEW n \in Names
      PROVE  \/ n \in Missing /\ table'[n] = Fresh(n) /\ table'[n] \in fresh
             \/ n \notin Missing /\ Reused(n) /\ table'[n] = table[n] /\ table[n] # 0
             \/ table'[n] = 0
  BY <1>2 DEF Reused
<1>7. ASSUME NEW m \in Names, NEW n \in Names, table'[m] = table'[n], table'[m] # 0
      PROVE  m = n
  <2>1. CASE m \in Missing /\ n \in Missing
    BY <1>1, <1>2, <1>7, <2>1
  <2>2. CASE table'[m] = table[m] /\ table'[n] = table[n]
    BY <1>7, <2>2 DEF TypeOK
  <2>3. ASSUME NEW i \in Names, NEW j \in Names, i \in Missing, table'[i] \in fresh,
               table'[j] = table[j], table[j] # 0
        PROVE  table'[i] # table'[j]
    BY <1>1, <1>4, <2>3
  <2> QED
    BY <1>6, <1>7, <2>1, <2>2, <2>3
<1>8. table' \in [Names -> 0 .. MaxMade]
  <2>1. \A n \in Names : table'[n] = 0 \/ table'[n] \in 1 .. c + q
    BY <1>1, <1>3, <1>4, <1>6
  <2>2. \A x : x = 0 \/ x \in 1 .. MaxMade => x \in 0 .. MaxMade
    BY MaxMadeAssumption
  <2>3. \A n \in Names : table'[n] \in 0 .. MaxMade
    BY <1>3, <2>1, <2>2
  <2> HIDE DEF c, q
  <2> QED
    BY <1>2, <2>3
<1>9. open' \subseteq Made'
  <2>1. open \subseteq 1 .. c + q /\ fresh \subseteq 1 .. c + q
    BY <1>1, <1>3
  <2> HIDE DEF c, q, fresh, closed
  <2> QED
    BY <1>2, <1>5, <2>1
<1>10. ASSUME NEW n \in Names, table'[n] # 0 PROVE table'[n] \in open'
  <2>1. CASE n \in Missing
    BY <1>2, <2>1
  <2>2. CASE Reused(n) /\ table'[n] = table[n] /\ table[n] # 0
    <3>1. table[n] \notin closed
      <4> SUFFICES ASSUME NEW m \in Outdated, table[m] = table[n] PROVE FALSE
        OBVIOUS
      <4>1. m = n
        BY <2>2 DEF Outdated, TypeOK
      <4> QED
        BY <2>2, <4>1 DEF Outdated, Versions
    <3> QED
      BY <1>2, <1>4, <2>2, <3>1
  <2> QED
    BY <1>6, <1>10, <2>1, <2>2
<1>11. ASSUME NEW i \in open' PROVE i \in Listed' \cup stray \cup Stranded
  <2>1. CASE i \in fresh
    <3>1. PICK n \in Missing : i = Fresh(n)
      BY <2>1
    <3>2. n \in Names /\ table'[n] = i /\ i \in 1 .. c + q
      BY <1>1, <1>2, <3>1
    <3>3. i # 0
      <4> HIDE DEF c, q
      <4> QED
        BY <1>1, <3>2
    <3> QED
      BY <3>2, <3>3 DEF Listed
  <2>2. CASE i \in Listed /\ i \notin closed
    <3>1. PICK n \in Names : table[n] = i /\ table[n] # 0
      BY <2>2 DEF Listed
    <3>2. n \notin Outdated
      BY <2>2, <3>1
    <3>3. CASE n \in Reached /\ Reused(n)
      BY <1>2, <3>1, <3>3 DEF Listed, Missing
    <3>4. CASE Bad # {} /\ PastIt(n)
      BY <3>1, <3>4 DEF Stranded
    <3>5. (n \in Reached /\ Reused(n)) \/ (Bad # {} /\ PastIt(n))
      <4>1. Bad = {} => Reached = Names
        BY DEF Reached
      <4>2. Raising \subseteq Bad /\ \A m \in Bad : file[m] = "bad" \/ file[m] = "partial"
        BY DEF Raising, Bad
      <4>3. /\ n \in Reached /\ ~Reused(n) => file[n] = "off"
            /\ n \in Raising => file[n] # "bad"
            /\ Bad = {} => file[n] # "off"
        BY <3>1, <3>2 DEF Outdated
      <4>4. n \in Raising => file[n] = "partial" /\ Bad # {}
        BY <4>2, <4>3
      <4>5. CASE Bad = {}
        BY <4>1, <4>3, <4>5
      <4>6. CASE Bad # {}
        BY <4>3, <4>4, <4>6 DEF PastIt
      <4> QED
        BY <4>5, <4>6
    <3> QED
      BY <3>3, <3>4, <3>5
  <2> QED
    BY <1>2, <2>1, <2>2
<1>12. Stranded \subseteq Made'
  BY <1>1, <1>3, <1>4, <1>5 DEF Stranded
<1> QED
  BY <1>1, <1>5, <1>7, <1>8, <1>9, <1>10, <1>11, <1>12 DEF Listed

LEMMA RegistryInit == Init => RegistryInv
<1> SUFFICES ASSUME Init PROVE RegistryInv
  OBVIOUS
<1>1. Made = {} /\ Cardinality(Made) = 0 /\ 1 .. 0 = {}
  BY FS_EmptySet DEF Init, Made
<1>2. built \in [Made -> Versions]
  BY <1>1 DEF Init, Made
<1>3. table \in [Names -> 0 .. MaxMade] /\ \A n \in Names : table[n] = 0
  BY MaxMadeAssumption DEF Init, NoCrawlers
<1>4. Listed = {}
  BY <1>3 DEF Listed
<1>5. TypeOK
  <2>1. Made = 1 .. Cardinality(Made)
    BY <1>1
  <2> QED
    BY <1>2, <1>3, <2>1 DEF Init, TypeOK
<1> QED
  BY <1>1, <1>4, <1>5 DEF Init, RegistryInv, ListedIsOpen, Down

LEMMA RegistryStep == RegistryInv /\ [Next]_vars => RegistryInv'
<1> SUFFICES ASSUME RegistryInv, [Next]_vars PROVE RegistryInv'
  OBVIOUS
<1>1. CASE Start
  <2>1. /\ up' /\ memory' = disk /\ UNCHANGED <<file, readable, disk, stray>>
        /\ ~up /\ stray = {} /\ disk \subseteq Names /\ readable \in BOOLEAN
    BY <1>1 DEF Start, Restored, RegistryInv, ListedIsOpen, TypeOK, Down
  <2>2. CASE ~readable
    <3>1. UNCHANGED <<table, built, open>>
      BY <1>1, <2>2 DEF Start
    <3> QED
      BY <2>1, <3>1 DEF RegistryInv, ListedIsOpen, TypeOK, Down, Made, Listed
  <2>3. CASE readable
    <3>1. Bad = {} /\ InitCrawlers /\ Stranded = {}
      BY <1>1, <2>3 DEF Start, Stranded
    <3>2. /\ TypeOK' /\ Listed' \subseteq open' /\ Cardinality(Made') \in Nat
      BY <2>1, <3>1, InitCrawlersKeeps DEF RegistryInv, ListedIsOpen, TypeOK
    <3>3. open' \subseteq Listed' \cup stray'
      BY <2>1, <3>1, InitCrawlersKeeps
    <3> QED
      BY <2>1, <3>2, <3>3 DEF RegistryInv, ListedIsOpen, Down
  <2> QED
    BY <2>1, <2>2, <2>3
<1>2. CASE Crawl
  BY <1>2 DEF Crawl, RegistryInv, ListedIsOpen, TypeOK, Down, Made, Listed
<1>3. CASE Reload
  <2>1. /\ up' /\ UNCHANGED <<file, readable, up, memory>> /\ disk' = memory
        /\ stray' = IF readable THEN stray \cup Stranded ELSE stray
        /\ memory \subseteq Names /\ stray \subseteq Made /\ readable \in BOOLEAN
    BY <1>3 DEF Reload, Saved, RegistryInv, ListedIsOpen, TypeOK
  <2>2. CASE ~readable
    <3>1. UNCHANGED <<file, readable, table, built, open, stray>>
      BY <1>3, <2>1, <2>2 DEF Reload
    <3> QED
      BY <2>1, <3>1 DEF RegistryInv, ListedIsOpen, TypeOK, Down, Made, Listed
  <2>3. CASE readable
    <3>1. InitCrawlers /\ stray' = stray \cup Stranded
      BY <1>3, <2>1, <2>3 DEF Reload
    <3>2. Made \subseteq Made'
      <4>1. PICK c \in Nat : c = Cardinality(Made)
        BY DEF RegistryInv
      <4>2. PICK q : q = Cardinality(Missing)
        OBVIOUS
      <4>3. q \in Nat /\ Made = 1 .. c
        BY <4>1, <4>2, FreshNumbers DEF RegistryInv, ListedIsOpen
      <4>4. Made' = 1 .. c + q
        BY <3>1, <4>1, <4>2 DEF InitCrawlers, Made
      <4>5. 1 .. c \subseteq 1 .. c + q
        BY <4>3
      <4> QED
        BY <4>3, <4>4, <4>5
    <3>3. stray' \subseteq Made'
      BY <2>1, <3>1, <3>2, InitCrawlersKeeps
    <3>4. /\ TypeOK' /\ Listed' \subseteq open' /\ Cardinality(Made') \in Nat
      BY <2>1, <3>1, <3>3, InitCrawlersKeeps DEF RegistryInv, ListedIsOpen, TypeOK
    <3>5. open' \subseteq Listed' \cup stray'
      BY <3>1, InitCrawlersKeeps
    <3> QED
      BY <2>1, <3>4, <3>5 DEF RegistryInv, ListedIsOpen, Down
  <2> QED
    BY <2>1, <2>2, <2>3
<1>4. CASE Stop \/ Crash
  <2>1. table' \in [Names -> 0 .. MaxMade] /\ \A n \in Names : table'[n] = 0
    BY <1>4, MaxMadeAssumption DEF Stop, Crash, Gone, NoCrawlers
  <2>2. Listed' = {}
    BY <2>1 DEF Listed
  <2> QED
    BY <1>4, <2>1, <2>2
    DEF Stop, Crash, Gone, Saved, RegistryInv, ListedIsOpen, TypeOK, Down, Made
<1>5. CASE Misplace \/ (\E n \in Names : Edit(n)) \/ UNCHANGED vars
  <2>1. /\ UNCHANGED <<up, table, built, open, memory, disk, stray>>
        /\ file' \in [Names -> Entries] /\ readable' \in BOOLEAN
    BY <1>5 DEF Misplace, Edit, vars, RegistryInv, ListedIsOpen, TypeOK
  <2>2. TypeOK'
    BY <2>1 DEF RegistryInv, ListedIsOpen, TypeOK, Made
  <2> QED
    BY <2>1, <2>2 DEF RegistryInv, ListedIsOpen, Down, Made, Listed
<1> QED
  BY <1>1, <1>2, <1>3, <1>4, <1>5 DEF Next

-----------------------------------------------------------------------------
(* Theorems. *)

LEMMA RegistryInvHolds == Spec => []RegistryInv
  BY RegistryInit, RegistryStep, PTL DEF Spec

\* No reload ever leaves a crawler that is listed closed, or one that is not
\* listed open, except what it went past when it raised (init_crawlers).
THEOREM ListedStaysOpen == Spec => []ListedIsOpen
<1>1. RegistryInv => ListedIsOpen
  BY DEF RegistryInv
<1> QED
  BY <1>1, RegistryInvHolds, PTL

\* While the process runs, memory has all the dump has.
MemoryHasDump == up => disk \subseteq memory

LEMMA MemoryHasDumpStep == MemoryHasDump /\ [Next]_vars => MemoryHasDump' /\ disk \subseteq disk'
<1> SUFFICES ASSUME MemoryHasDump, [Next]_vars
             PROVE  MemoryHasDump' /\ disk \subseteq disk'
  OBVIOUS
<1> USE DEF MemoryHasDump
<1>1. CASE Start
  BY <1>1 DEF Start, Restored
<1>2. CASE Crawl
  BY <1>2 DEF Crawl
<1>3. CASE Reload
  BY <1>3 DEF Reload, Saved
<1>4. CASE Stop \/ Crash
  BY <1>4 DEF Stop, Crash, Gone, Saved
<1> QED
  BY <1>1, <1>2, <1>3, <1>4 DEF Next, Misplace, Edit, vars

\* What the dump has of a crawler is never lost, whatever becomes of its entry
\* (deserialize_articles, dump_data).
THEOREM DumpKeepsEverybody == Spec => DumpForgetsNobody
<1>1. Init => MemoryHasDump
  BY DEF Init, MemoryHasDump
<1>2. MemoryHasDump /\ [Next]_vars => [disk \subseteq disk']_vars
  BY MemoryHasDumpStep
<1>3. Spec => []MemoryHasDump
  BY <1>1, MemoryHasDumpStep, PTL DEF Spec
<1> QED
  BY <1>2, <1>3, PTL DEF Spec, DumpForgetsNobody
=============================================================================
