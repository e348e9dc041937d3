--------------------------- MODULE CrawlingProofs ---------------------------
(***************************************************************************)
(* Proofs about the diff and what is kept of it: about Crawling, for every *)
(* finite set of ids, every set of contents and every tombstone limit;     *)
(* about Dump, where the same holds across restarts, recoveries and every  *)
(* dump a start may find; about the rows of Store, and about the walks of  *)
(* Articles through them.                                                  *)
(***************************************************************************)
EXTENDS Dump, Articles, FiniteSetTheorems, SequenceTheorems, TLAPS

-----------------------------------------------------------------------------
(* Facts about the pieces of one comparison. *)

\* Post ids are compared as numbers.
LEMMA IdsAreNaturals == \A i \in Ids : i \in Nat
  BY IdsAssumption

\* Every set of ids a comparison builds is finite and can be counted.
LEMMA SubsetFinite ==
  ASSUME NEW S \in SUBSET Ids
  PROVE  IsFiniteSet(S) /\ Cardinality(S) \in Nat
  BY IdsAssumption, FS_Subset, FS_CardinalityType

\* The larger a number, the fewer numbers of a set lie above it, and each number
\* has its own rank.
LEMMA FewerAbove ==
  ASSUME NEW S \in SUBSET Nat, IsFiniteSet(S), NEW i \in S, NEW k \in S, i < k
  PROVE  Cardinality({j \in S : k < j}) < Cardinality({j \in S : i < j})
<1> DEFINE above(x) == {j \in S : x < j}
<1>1. above(k) \subseteq above(i)
  <2>1. \A a, b, c \in Nat : a < b /\ b < c => a < c
    OBVIOUS
  <2>2. \A x \in S : x \in Nat
    OBVIOUS
  <2> QED
    BY <2>1, <2>2
<1>2. k \in above(i) /\ k \notin above(k)
  OBVIOUS
<1>3. /\ IsFiniteSet(above(i)) /\ Cardinality(above(i)) \in Nat
      /\ IsFiniteSet(above(k)) /\ Cardinality(above(k)) \in Nat
  <2>1. above(i) \subseteq S /\ above(k) \subseteq S
    OBVIOUS
  <2> HIDE DEF above
  <2> QED
    BY <2>1, FS_Subset, FS_CardinalityType
<1>4. Cardinality(above(k)) <= Cardinality(above(i)) /\ Cardinality(above(k)) # Cardinality(above(i))
  <2> HIDE DEF above
  <2> QED
    BY <1>1, <1>2, <1>3, FS_Subset
<1> QED
  BY <1>3, <1>4

LEMMA Ranks ==
  ASSUME NEW S \in SUBSET Nat, IsFiniteSet(S), NEW i \in S
  PROVE  /\ Cardinality({j \in S : i < j}) \in Nat
         /\ Cardinality({j \in S : i < j}) < Cardinality(S)
<1> DEFINE above == {j \in S : i < j}
<1>1. above \subseteq S /\ i \notin above
  OBVIOUS
<1> HIDE DEF above
<1>2. /\ Cardinality(above) \in Nat /\ Cardinality(S) \in Nat
      /\ Cardinality(above) <= Cardinality(S) /\ Cardinality(above) # Cardinality(S)
  BY <1>1, FS_Subset, FS_CardinalityType
<1> QED
  BY <1>2 DEF above

\* A stretch of ranks belongs to no more numbers than it is long.
LEMMA RanksBound ==
  ASSUME NEW S \in SUBSET Nat, IsFiniteSet(S), NEW first \in Nat, NEW n \in Nat
  PROVE  LET L == {i \in S : Cardinality({j \in S : i < j}) \in first .. first + n - 1}
         IN  IsFiniteSet(L) /\ Cardinality(L) \in Nat /\ Cardinality(L) <= n
<1> DEFINE above(x) == {j \in S : x < j}
           L == {i \in S : Cardinality(above(i)) \in first .. first + n - 1}
           f == [i \in L |-> Cardinality(above(i)) - first]
<1>1. L \in SUBSET S
  OBVIOUS
<1>2. IsFiniteSet(L) /\ Cardinality(L) \in Nat
  <2> HIDE DEF L
  <2> QED
    BY <1>1, FS_Subset, FS_CardinalityType
<1>3. IsFiniteSet(0 .. n - 1) /\ Cardinality(0 .. n - 1) = n
  BY FS_Interval
<1>4. ASSUME NEW i \in L
      PROVE  Cardinality(above(i)) \in Nat /\ Cardinality(above(i)) - first \in 0 .. n - 1
  <2>1. Cardinality(above(i)) \in Nat
    BY Ranks
  <2>2. Cardinality(above(i)) \in first .. first + n - 1
    OBVIOUS
  <2> HIDE DEF above
  <2> QED
    BY <2>1, <2>2
<1>5. f \in [L -> 0 .. n - 1]
  BY <1>4
<1>6. ASSUME NEW x \in L, NEW y \in L, x # y
      PROVE  f[x] # f[y]
  <2>1. x \in S /\ y \in S /\ (x < y \/ y < x)
    BY <1>1, <1>6
  <2>2. /\ x < y => Cardinality(above(y)) < Cardinality(above(x))
        /\ y < x => Cardinality(above(x)) < Cardinality(above(y))
    BY <2>1, FewerAbove
  <2>3. Cardinality(above(x)) \in Nat /\ Cardinality(above(y)) \in Nat
    BY <1>4
  <2> HIDE DEF above
  <2> QED
    BY <2>1, <2>2, <2>3
<1>7. ~(n < Cardinality(L))
  <2> HIDE DEF L, f
  <2> QED
    BY <1>2, <1>3, <1>5, <1>6, FS_PigeonHole
<1> QED
  BY <1>2, <1>7

\* What sorted(S)[-n:] keeps has at most n elements.
LEMMA LargestBound ==
  ASSUME NEW S \in SUBSET Ids, NEW n \in Nat
  PROVE  Cardinality(Largest(S, n)) <= n
<1>1. S \in SUBSET Nat /\ IsFiniteSet(S)
  BY IdsAreNaturals, SubsetFinite
<1>2. \A i \in S : Cardinality({j \in S : i < j}) \in Nat
  BY <1>1, Ranks
<1>3. \A c \in Nat : c < n <=> c \in 0 .. 0 + n - 1
  OBVIOUS
<1>4. Largest(S, n) = {i \in S : Cardinality({j \in S : i < j}) \in 0 .. 0 + n - 1}
  BY <1>2, <1>3, Zenon DEF Largest
<1> QED
  BY <1>1, <1>4, RanksBound

\* A finite set of numbers that is not empty has a largest one: the ranks of its
\* numbers are all different, so one of them is 0.
LEMMA Greatest ==
  ASSUME NEW S \in SUBSET Nat, IsFiniteSet(S), S # {}
  PROVE  Max(S) \in S /\ \A j \in S : j <= Max(S)
<1> DEFINE above(x) == {j \in S : x < j}
           n == Cardinality(S)
           f == [i \in S |-> Cardinality(above(i))]
<1>1. n \in Nat /\ n # 0
  BY FS_CardinalityType, FS_EmptySet
<1>2. IsFiniteSet(0 .. n - 1) /\ Cardinality(0 .. n - 1) = n
  <2> HIDE DEF n
  <2> QED
    BY <1>1, FS_Interval
<1>3. f \in [S -> 0 .. n - 1]
  <2>1. \A i \in S : Cardinality(above(i)) \in Nat /\ Cardinality(above(i)) < n
    BY Ranks
  <2> HIDE DEF n, above
  <2>2. \A i \in S : Cardinality(above(i)) \in 0 .. n - 1
    BY <1>1, <2>1
  <2> QED
    BY <2>2
<1>4. \A x, y \in S : x < y => f[x] # f[y]
  <2>1. ASSUME NEW x \in S, NEW y \in S, x < y PROVE f[x] # f[y]
    <3>1. Cardinality(above(y)) < Cardinality(above(x))
      BY <2>1, FewerAbove
    <3>2. Cardinality(above(y)) \in Nat /\ Cardinality(above(x)) \in Nat
      BY Ranks
    <3> HIDE DEF above
    <3> QED
      BY <3>1, <3>2
  <2> QED
    BY <2>1
<1>5. f \in Injection(S, 0 .. n - 1)
  <2>1. \A x, y \in S : x # y => x < y \/ y < x
    OBVIOUS
  <2> HIDE DEF f, n
  <2> QED
    BY <1>3, <1>4, <2>1 DEF Injection, IsInjective
<1>6. f \in Surjection(S, 0 .. n - 1)
  <2>1. Cardinality(0 .. n - 1) = Cardinality(S)
    BY <1>2 DEF n
  <2> HIDE DEF f, n
  <2> QED
    BY <1>2, <1>5, <2>1, FS_Injection
<1>7. PICK i \in S : f[i] = 0
  <2>1. 0 \in 0 .. n - 1
    <3> HIDE DEF n
    <3> QED
      BY <1>1
  <2> HIDE DEF f, n
  <2> QED
    BY <1>6, <2>1 DEF Surjection
<1>8. above(i) = {}
  <2>1. IsFiniteSet(above(i)) /\ Cardinality(above(i)) = 0
    <3>1. above(i) \subseteq S
      OBVIOUS
    <3>2. Cardinality(above(i)) = 0
      BY <1>7
    <3> HIDE DEF above
    <3> QED
      BY <3>1, <3>2, FS_Subset
  <2> HIDE DEF above
  <2> QED
    BY <2>1, FS_EmptySet
<1>9. \A j \in S : i >= j
  BY <1>8
<1> QED
  BY <1>9 DEF Max

-----------------------------------------------------------------------------
(* The inductive invariant. *)

\* What the diff remembers was on some page: nothing enters the cache or the
\* tombstones by another way.
OnlySeen == DOMAIN cache \cup tombstones \subseteq seen

Inv == TypeOK /\ OnlySeen /\ MemoryComplete /\ TombstonesBounded

\* The posts of a page, and of the cached one, are ids.
LEMMA CollectionDomain ==
  /\ \A c \in Collection : DOMAIN c \in SUBSET Ids
  /\ Pages \subseteq Collection
  BY DEF Collection, Pages

\* A dump whose article cache is empty loads into a state of the invariant.
LEMMA InitInv == Init => Inv
<1> SUFFICES ASSUME Init PROVE Inv
  OBVIOUS
<1>1. cache \in Collection /\ DOMAIN cache = {}
  <2>1. cache \in [{} -> Versions]
    BY DEF Init
  <2> QED
    BY <2>1 DEF Collection
<1>2. TypeOK
  BY <1>1 DEF Init, TypeOK
<1>3. OnlySeen /\ MemoryComplete /\ TombstonesBounded
  BY <1>1 DEF Init, OnlySeen, MemoryComplete, TombstonesBounded
<1> QED
  BY <1>2, <1>3 DEF Inv

\* The sets a comparison computes are made of ids.
LEMMA PieceTypes ==
  ASSUME TypeOK, NEW page \in Pages
  PROVE  /\ DOMAIN page \in SUBSET Ids /\ DOMAIN cache \in SUBSET Ids
         /\ Vanished(page) \in SUBSET Ids
         /\ Entombed(page) \in SUBSET Ids
         /\ Remembered(page) \in SUBSET Entombed(page)
         /\ Fresh(page) \in SUBSET DOMAIN page
         /\ Changed(page) \in SUBSET (DOMAIN page \ Fresh(page))
         /\ Vanished(page) \in SUBSET (Ids \ DOMAIN page)
<1>1. DOMAIN page \in SUBSET Ids /\ DOMAIN cache \in SUBSET Ids
  BY CollectionDomain DEF TypeOK
<1>2. tombstones \in SUBSET Ids
  BY DEF TypeOK
<1>3. Vanished(page) \in SUBSET Ids
  BY <1>1 DEF Vanished, Tracked
<1>4. Entombed(page) \in SUBSET Ids
  BY <1>2, <1>3 DEF Entombed
<1>5. Changed(page) \cap Fresh(page) = {}
  <2>1. \A i \in Changed(page) : i \in Baseline(page) /\ i \in Nat
    BY <1>1, IdsAreNaturals DEF Changed, Baseline, Staying, Tracked
  <2> QED
    BY <2>1 DEF Fresh
<1> QED
  BY <1>1, <1>3, <1>4, <1>5
  DEF Remembered, Largest, Fresh, Changed, Staying, Vanished

\* An id the diff remembers is on the next page, entombed, or passed by it.
LEMMA NothingLost ==
  ASSUME NEW page \in Pages
  PROVE  DOMAIN cache \cup tombstones
           \subseteq DOMAIN page \cup Entombed(page)
                       \cup Below(DOMAIN cache \cup tombstones, page)
  BY DEF Entombed, Below, Vanished, Tracked

\* Every outcome of a cycle (no page, first page, later page) keeps the
\* invariant; completeness needs that nothing remembered is lost (NothingLost).
LEMMA NextInv == Inv /\ [Next]_vars => Inv'
<1> SUFFICES ASSUME Inv, [Next]_vars PROVE Inv'
  OBVIOUS
<1> USE DEF Inv
<1>1. CASE NoPage
  BY <1>1 DEF NoPage, history, TypeOK, OnlySeen, MemoryComplete, TombstonesBounded
<1>2. ASSUME NEW page \in Pages, FirstPage(page) PROVE Inv'
  <2>1. /\ DOMAIN page \in SUBSET Ids /\ page \in Collection
        /\ DOMAIN cache = {} /\ cache' = page
        /\ tombstones' = tombstones \ Below(tombstones, page)
        /\ news' = {} /\ updates' = {} /\ removals' = {}
        /\ seen' = seen \cup DOMAIN page
        /\ dropped' = (dropped \cup Below(seen, page)) \ DOMAIN page
        /\ evicted' = evicted
    BY <1>2, CollectionDomain DEF FirstPage, Observe
  <2>2. TypeOK'
    BY <2>1 DEF TypeOK, Below
  <2>3. OnlySeen'
    BY <2>1 DEF OnlySeen
  <2>4. MemoryComplete'
    BY <2>1 DEF MemoryComplete, Below
  <2>5. TombstonesBounded'
    <3>1. /\ tombstones' \in SUBSET tombstones
          /\ IsFiniteSet(tombstones) /\ Cardinality(tombstones) \in Nat
          /\ IsFiniteSet(tombstones') /\ Cardinality(tombstones') \in Nat
      BY <2>1, <2>2, SubsetFinite DEF TypeOK
    <3>2. Cardinality(tombstones') <= Cardinality(tombstones)
      BY <3>1, FS_Subset
    <3> QED
      BY <3>1, <3>2, TombstonesAssumption DEF TombstonesBounded
  <2> QED
    BY <2>2, <2>3, <2>4, <2>5
<1>3. ASSUME NEW page \in Pages, NextPage(page) PROVE Inv'
  <2>1. /\ page \in Collection
        /\ cache' = page /\ tombstones' = Remembered(page)
        /\ news' = Fresh(page) /\ updates' = Changed(page)
        /\ removals' = Vanished(page)
        /\ seen' = seen \cup DOMAIN page
        /\ dropped' = (dropped \cup Below(seen, page)) \ DOMAIN page
        /\ evicted' = evicted \cup (Entombed(page) \ Remembered(page))
    BY <1>3, CollectionDomain DEF NextPage, Observe
  <2>2. /\ DOMAIN page \in SUBSET Ids
        /\ Vanished(page) \in SUBSET (Ids \ DOMAIN page)
        /\ Entombed(page) \in SUBSET Ids
        /\ Remembered(page) \in SUBSET Entombed(page)
        /\ Fresh(page) \in SUBSET DOMAIN page
        /\ Changed(page) \in SUBSET (DOMAIN page \ Fresh(page))
    BY <1>3, PieceTypes
  <2>3. TypeOK'
    BY <2>1, <2>2 DEF TypeOK, Below
  <2>4. Entombed(page) \subseteq seen
    BY DEF OnlySeen, Entombed, Vanished, Tracked
  <2>5. OnlySeen'
    BY <2>1, <2>2, <2>4 DEF OnlySeen
  <2>6. MemoryComplete'
    <3> SUFFICES ASSUME NEW i \in seen', i \notin dropped', i \notin evicted',
                        i \notin DOMAIN page
                 PROVE  i \in Remembered(page)
      BY <2>1 DEF MemoryComplete
    <3>1. i \in seen /\ i \notin dropped /\ i \notin evicted /\ i \notin Below(seen, page)
      BY <2>1
    <3>2. i \in DOMAIN cache \cup tombstones
      BY <3>1 DEF MemoryComplete
    <3>3. i \in Entombed(page)
      BY <3>1, <3>2, NothingLost, <1>3 DEF Below
    <3> QED
      BY <3>3, <2>1
  <2>7. TombstonesBounded'
    BY <2>1, <2>2, LargestBound, TombstonesAssumption DEF TombstonesBounded, Remembered
  <2> QED
    BY <2>3, <2>5, <2>6, <2>7
<1>4. CASE UNCHANGED vars
  BY <1>4 DEF vars, results, history, TypeOK, OnlySeen, MemoryComplete, TombstonesBounded
<1> QED
  BY <1>1, <1>2, <1>3, <1>4 DEF Next, Crawl

\* The invariant, and with it the type, the completeness of the memory and the
\* tombstone bound, hold in every reachable state.
THEOREM InvHolds == Spec => []Inv
  BY InitInv, NextInv, PTL DEF Spec

\* Type correctness of a crawler's diff state.
THEOREM TypeCorrect == Spec => []TypeOK
<1>1. Inv => TypeOK
  BY DEF Inv
<1> QED
  BY <1>1, InvHolds, PTL

\* Every seen id stays known until a page starts above it or the limit costs it.
THEOREM MemoryIsComplete == Spec => []MemoryComplete
<1>1. Inv => MemoryComplete
  BY DEF Inv
<1> QED
  BY <1>1, InvHolds, PTL

\* MAX_ARTICLE_TOMBSTONES bounds the tombstones of a crawler at all times.
THEOREM TombstonesStayBounded == Spec => []TombstonesBounded
<1>1. Inv => TombstonesBounded
  BY DEF Inv
<1> QED
  BY <1>1, InvHolds, PTL

-----------------------------------------------------------------------------
(* What a step may do, from the invariant of the state it starts in. *)

\* A comparison announces no id that MemoryComplete says is still known.
LEMMA CrawlNeverTwice ==
  ASSUME Inv, NEW page \in Pages, Crawl(page)
  PROVE  news' \cap seen \subseteq dropped \cup evicted'
<1>1. CASE FirstPage(page)
  BY <1>1 DEF FirstPage
<1>2. CASE NextPage(page)
  <2> SUFFICES ASSUME NEW i \in Fresh(page), i \in seen,
                      i \notin dropped, i \notin evicted'
               PROVE  FALSE
    BY <1>2 DEF NextPage
  <2>1. i \in DOMAIN page /\ i \notin Remembered(page) /\ i \in Nat
    BY CollectionDomain, IdsAreNaturals DEF Fresh
  <2>2. i \notin evicted /\ i \notin Entombed(page)
    BY <1>2, <2>1 DEF NextPage
  <2>3. ~(\A j \in DOMAIN page : i < j)
    BY <2>1
  <2>4. i \in DOMAIN cache \cup tombstones
    BY <2>2 DEF Inv, MemoryComplete
  <2>5. i \notin tombstones
    BY <2>2, <2>3 DEF Entombed, Below
  <2>6. i \in Staying(page)
    BY <2>1, <2>3, <2>4, <2>5 DEF Staying, Tracked, Below
  <2>7. i \in Baseline(page)
    BY <2>6 DEF Baseline
  <2> QED
    BY <2>1, <2>7 DEF Fresh
<1> QED
  BY <1>1, <1>2 DEF Crawl

LEMMA StepNeverTwice ==
  ASSUME Inv, [Next]_vars
  PROVE  news' \cap seen \subseteq dropped \cup evicted' \/ UNCHANGED vars
<1>1. CASE NoPage
  BY <1>1 DEF NoPage
<1> QED
  BY <1>1, CrawlNeverTwice DEF Next

\* No post is announced a second time while the diff can remember it.
THEOREM NeverAnnouncedTwice == Spec => NeverTwice
<1>1. Inv /\ [Next]_vars => [news' \cap seen \subseteq dropped \cup evicted']_vars
  BY StepNeverTwice
<1> QED
  BY <1>1, InvHolds, PTL DEF Spec, NeverTwice

\* A comparison only measures new ids against ids seen before; on overlapping
\* pages, only against those that are still listed.
LEMMA BaselineSeen ==
  ASSUME Inv, NEW page \in Pages
  PROVE  /\ Remembered(page) \subseteq seen
         /\ Baseline(page) \subseteq seen
         /\ DOMAIN cache \cap DOMAIN page # {} => Baseline(page) \subseteq DOMAIN page
<1>1. DOMAIN cache \subseteq seen /\ tombstones \subseteq seen
  BY DEF Inv, OnlySeen
<1>2. Entombed(page) \subseteq seen
  BY <1>1 DEF Entombed, Vanished, Tracked
<1>3. Remembered(page) \subseteq seen
  BY <1>2 DEF Remembered, Largest
<1>4. ASSUME DOMAIN cache \cap DOMAIN page # {}
      PROVE  Staying(page) # {}
  <2>1. PICK i \in DOMAIN cache \cap DOMAIN page : TRUE
    BY <1>4
  <2>2. i \in Nat
    BY CollectionDomain, IdsAreNaturals
  <2> QED
    BY <2>1, <2>2 DEF Staying, Tracked, Below
<1> QED
  BY <1>1, <1>3, <1>4 DEF Baseline, Staying, Tracked

\* One cycle announces an unseen post above everything seen, or, when pages
\* overlap, above every seen post still listed.
LEMMA StepAnnouncesNewest ==
  ASSUME Inv, Next, DOMAIN cache # {},
         NEW i \in DOMAIN cache' \ seen,
         \/ \A j \in seen : j < i
         \/ /\ DOMAIN cache \cap DOMAIN cache' # {}
            /\ \A j \in DOMAIN cache' \cap seen : j < i
  PROVE  i \in news'
<1>1. CASE NoPage
  BY <1>1 DEF NoPage, Inv, OnlySeen
<1>2. ASSUME NEW page \in Pages, FirstPage(page) PROVE FALSE
  BY <1>2 DEF FirstPage
<1>3. ASSUME NEW page \in Pages, NextPage(page) PROVE i \in news'
  <2>1. cache' = page /\ news' = Fresh(page)
    BY <1>3 DEF NextPage
  <2>2. i \in DOMAIN page \ Remembered(page)
    BY <2>1, BaselineSeen
  <2>3. \A j \in Baseline(page) : j < i
    BY <2>1, BaselineSeen
  <2> QED
    BY <2>1, <2>2, <2>3 DEF Fresh
<1> QED
  BY <1>1, <1>2, <1>3 DEF Next, Crawl

\* A newer post is announced even after a complete turnover of the page, and a
\* transient large id does not silence the posts that follow it.
THEOREM NewerIsAnnounced == Spec => NewerAnnounced
<1> DEFINE Step == DOMAIN cache # {} =>
                     \A i \in DOMAIN cache' \ seen :
                       \/ \A j \in seen : j < i
                       \/ /\ DOMAIN cache \cap DOMAIN cache' # {}
                          /\ \A j \in DOMAIN cache' \cap seen : j < i
                       => i \in news'
<1>1. Inv /\ Next => Step
  BY StepAnnouncesNewest
<1>2. Inv /\ [Next]_vars => [Step]_vars
  BY <1>1
<1> HIDE DEF Step
<1>3. Spec => [][Step]_vars
  BY <1>2, InvHolds, PTL DEF Spec
<1> QED
  BY <1>3 DEF Step, NewerAnnounced

\* remove_expired(id_min) keeps nothing smaller than what it drops.
LEMMA BelowTheKept ==
  ASSUME NEW page \in Pages, NEW S \in SUBSET Ids,
         NEW i \in Below(S, page), NEW j \in S \ Below(S, page)
  PROVE  i < j
<1>1. PICK p \in DOMAIN page : ~(j < p)
  BY DEF Below
<1>2. i \in Nat /\ j \in Nat /\ p \in Nat /\ i < p
  BY <1>1, CollectionDomain, IdsAreNaturals DEF Below
<1> QED
  BY <1>1, <1>2

\* One cycle gives up tombstones in ascending order of id.
LEMMA StepForgetsOldest ==
  ASSUME Inv, Next,
         NEW i \in (tombstones \cup removals') \ tombstones', NEW k \in tombstones'
  PROVE  i < k
<1>1. CASE NoPage
  BY <1>1 DEF NoPage
<1>2. ASSUME NEW page \in Pages, FirstPage(page) PROVE i < k
  BY <1>2, BelowTheKept DEF FirstPage, Inv, TypeOK, Below
<1>3. ASSUME NEW page \in Pages, NextPage(page) PROVE i < k
  <2> DEFINE all == tombstones \cup Vanished(page)
             E == Entombed(page)
             above(x) == {j \in E : x < j}
  <2>1. i \in all /\ i \notin Remembered(page) /\ k \in Remembered(page)
    BY <1>3 DEF NextPage
  <2>2. all \in SUBSET Ids /\ E \in SUBSET Ids
    BY <1>3, PieceTypes DEF Inv, TypeOK
  <2>3. E = all \ Below(all, page)
    BY DEF Entombed
  <2>4. k \in E /\ Cardinality(above(k)) < MaxTombstones
    BY <2>1 DEF Remembered, Largest
  <2>5. CASE i \in Below(all, page)
    <3> HIDE DEF all, E
    <3> QED
      BY <2>2, <2>3, <2>4, <2>5, BelowTheKept
  <2>6. CASE i \in E
    <3>1. ~(Cardinality(above(i)) < MaxTombstones)
      BY <2>1, <2>6 DEF Remembered, Largest
    <3>2. above(i) \in SUBSET Ids /\ above(k) \in SUBSET Ids
      BY <2>2
    <3>3. Cardinality(above(i)) \in Nat /\ Cardinality(above(k)) \in Nat
      <4> HIDE DEF above, E
      <4> QED
        BY <3>2, SubsetFinite
    <3>4. k < i => Cardinality(above(i)) < Cardinality(above(k))
      <4>1. E \in SUBSET Nat /\ IsFiniteSet(E)
        <5> HIDE DEF E
        <5> QED
          BY <2>2, IdsAreNaturals, SubsetFinite
      <4> QED
        BY <2>4, <2>6, <4>1, FewerAbove
    <3>5. i \in Nat /\ k \in Nat /\ i # k
      BY <2>1, <2>2, <2>4, <2>6, IdsAreNaturals
    <3> HIDE DEF above, E
    <3> QED
      BY <2>4, <3>1, <3>3, <3>4, <3>5, TombstonesAssumption
  <2> QED
    BY <2>1, <2>3, <2>5, <2>6
<1> QED
  BY <1>1, <1>2, <1>3 DEF Next, Crawl

\* Tombstones are given up oldest first, below the page or over the limit.
THEOREM OldestIsForgottenFirst == Spec => OldestForgottenFirst
<1> DEFINE Step == \A i \in (tombstones \cup removals') \ tombstones', j \in tombstones' : i < j
<1>1. Inv /\ Next => Step
  BY StepForgetsOldest
<1>2. Inv /\ [Next]_vars => [Step]_vars
  BY <1>1
<1> HIDE DEF Step
<1>3. Spec => [][Step]_vars
  BY <1>2, InvHolds, PTL DEF Spec
<1> QED
  BY <1>3 DEF Step, OldestForgottenFirst

-----------------------------------------------------------------------------
(* Restarts: the inductive invariant of Dump. *)

\* What recovery() has made unknown is larger than what it has left.
UndoneAbove == undone \in SUBSET Ids /\ \A i \in undone, j \in DOMAIN cache : j < i

DumpInv == Inv /\ UndoneAbove

\* A part of the articles is a collection again.
LEMMA PartOfCollection ==
  ASSUME NEW c \in Collection, NEW kept \in SUBSET DOMAIN c
  PROVE  /\ [i \in kept |-> c[i]] \in Collection
         /\ DOMAIN [i \in kept |-> c[i]] = kept
<1>1. PICK S \in SUBSET Ids : c \in [S -> Versions]
  BY DEF Collection
<1>2. [i \in kept |-> c[i]] \in [kept -> Versions] /\ kept \in SUBSET Ids
  BY <1>1
<1> QED
  BY <1>2 DEF Collection

\* The tombstones that load_data takes from a dump keep within the limit, also
\* when the mark joins a damaged list.
LEMMA TombstonesInBound ==
  ASSUME NEW dump \in Found
  PROVE  /\ TombstonesIn(dump) \in SUBSET Ids
         /\ Cardinality(TombstonesIn(dump)) <= MaxTombstones
<1>1. /\ dump.listed \in SUBSET Ids /\ dump.mark \in SUBSET Ids
      /\ dump.mark = {} \/ \E i \in Ids : dump.mark = {i}
      /\ dump.intact \in BOOLEAN
      /\ Cardinality(dump.listed) + (IF dump.intact THEN 0 ELSE 1) <= MaxTombstones
  BY DEF Found, Dumps
<1>2. IsFiniteSet(dump.listed) /\ Cardinality(dump.listed) \in Nat
  BY <1>1, SubsetFinite
<1>3. CASE dump.intact
  BY <1>1, <1>2, <1>3, TombstonesAssumption DEF TombstonesIn
<1>4. CASE ~dump.intact
  <2>1. \/ TombstonesIn(dump) = dump.listed
        \/ \E i \in Ids : TombstonesIn(dump) = dump.listed \cup {i}
    BY <1>1, <1>4 DEF TombstonesIn
  <2>2. ASSUME NEW i \in Ids, TombstonesIn(dump) = dump.listed \cup {i}
        PROVE  Cardinality(TombstonesIn(dump)) <= Cardinality(dump.listed) + 1
    <3>1. \/ Cardinality(dump.listed \cup {i}) = Cardinality(dump.listed)
          \/ Cardinality(dump.listed \cup {i}) = Cardinality(dump.listed) + 1
      BY <1>2, FS_AddElement
    <3> QED
      BY <1>2, <2>2, <3>1
  <2>3. Cardinality(TombstonesIn(dump)) <= Cardinality(dump.listed) + 1
    BY <1>2, <2>1, <2>2
  <2>4. TombstonesIn(dump) \in SUBSET Ids
    BY <1>1 DEF TombstonesIn
  <2>5. Cardinality(TombstonesIn(dump)) \in Nat
    BY <2>4, SubsetFinite
  <2> QED
    BY <1>1, <1>2, <1>4, <2>3, <2>4, <2>5, TombstonesAssumption
<1> QED
  BY <1>3, <1>4

\* Whatever dump a start finds loads into a state of the invariant.
LEMMA DumpInitInv == DumpInit => DumpInv
<1> SUFFICES ASSUME DumpInit PROVE DumpInv
  OBVIOUS
<1>1. PICK dump \in Found :
        /\ cache = dump.articles
        /\ tombstones = TombstonesIn(dump)
        /\ news = {} /\ updates = {} /\ removals = {}
        /\ seen = DOMAIN cache \cup tombstones \cup dump.mark
        /\ dropped = (IF dump.intact THEN dump.mark ELSE {}) \ (DOMAIN cache \cup tombstones)
        /\ evicted = {} /\ undone = {}
  BY DEF DumpInit
<1>2. /\ cache \in Collection /\ dump.mark \in SUBSET Ids /\ dump.intact \in BOOLEAN
      /\ DOMAIN cache \in SUBSET Ids
  BY <1>1, CollectionDomain DEF Found, Dumps
<1>3. tombstones \in SUBSET Ids /\ Cardinality(tombstones) <= MaxTombstones
  BY <1>1, TombstonesInBound
<1>4. TypeOK
  BY <1>1, <1>2, <1>3 DEF TypeOK
<1>5. OnlySeen /\ TombstonesBounded
  BY <1>1, <1>3 DEF OnlySeen, TombstonesBounded
<1>6. MemoryComplete
  BY <1>1 DEF MemoryComplete, TombstonesIn
<1>7. UndoneAbove
  BY <1>1 DEF UndoneAbove
<1> QED
  BY <1>4, <1>5, <1>6, <1>7 DEF DumpInv, Inv

\* dump_data and load_data give back the tombstones and the articles; recovery()
\* takes from the articles those above the last one.
LEMMA RestartKeeps ==
  ASSUME TypeOK, NEW last \in Ids, Restart(last)
  PROVE  LET kept == {i \in DOMAIN cache : i <= last}
             gone == (DOMAIN cache \ kept) \ tombstones
         IN /\ cache' \in Collection /\ DOMAIN cache' = kept
            /\ tombstones' = tombstones
            /\ news' = {} /\ updates' = {} /\ removals' = {}
            /\ seen' = seen \ gone
            /\ undone' = undone \cup gone
            /\ dropped' = dropped /\ evicted' = evicted
<1> DEFINE kept == {i \in DOMAIN cache : i <= last}
           part == [i \in kept |-> cache[i]]
<1>1. part \in Collection /\ DOMAIN part = kept
  BY PartOfCollection DEF TypeOK
<1>2. Recovery(Dumped, last).articles = part
  BY DEF Recovery, Dumped
<1>3. TombstonesIn(Recovery(Dumped, last)) = tombstones
  BY DEF TombstonesIn, Recovery, Dumped
<1> QED
  BY <1>1, <1>2, <1>3 DEF Restart

\* A restart, with or without a recovery, forgets nothing else.
LEMMA RestartInv ==
  ASSUME DumpInv, NEW last \in Ids, Restart(last)
  PROVE  DumpInv'
<1> DEFINE kept == {i \in DOMAIN cache : i <= last}
           gone == (DOMAIN cache \ kept) \ tombstones
<1>1. /\ cache' \in Collection /\ DOMAIN cache' = kept
      /\ tombstones' = tombstones
      /\ news' = {} /\ updates' = {} /\ removals' = {}
      /\ seen' = seen \ gone
      /\ undone' = undone \cup gone
      /\ dropped' = dropped /\ evicted' = evicted
  BY RestartKeeps DEF DumpInv, Inv
<1>2. DOMAIN cache \in SUBSET Ids
  BY CollectionDomain DEF DumpInv, Inv, TypeOK
<1>3. TypeOK'
  BY <1>1 DEF DumpInv, Inv, TypeOK
<1>4. OnlySeen' /\ MemoryComplete' /\ TombstonesBounded'
  BY <1>1 DEF DumpInv, Inv, OnlySeen, MemoryComplete, TombstonesBounded
<1>5. UndoneAbove'
  <2>1. undone' \in SUBSET Ids
    BY <1>1, <1>2 DEF DumpInv, UndoneAbove
  <2>2. ASSUME NEW i \in gone, NEW j \in kept PROVE j < i
    BY <1>2, <2>2, IdsAreNaturals
  <2> QED
    BY <1>1, <2>1, <2>2 DEF DumpInv, UndoneAbove
<1> QED
  BY <1>3, <1>4, <1>5 DEF DumpInv, Inv

\* Cycles and restarts keep the invariant.
LEMMA DumpNextInv == DumpInv /\ [DumpNext]_dumpVars => DumpInv'
<1> SUFFICES ASSUME DumpInv, [DumpNext]_dumpVars PROVE DumpInv'
  OBVIOUS
<1>1. CASE NoPage /\ UNCHANGED undone
  <2>1. Inv' /\ cache' = cache
    BY <1>1, NextInv DEF Next, NoPage, DumpInv
  <2> QED
    BY <1>1, <2>1 DEF DumpInv, UndoneAbove
<1>2. ASSUME NEW page \in Pages, Crawl(page), undone' = {} PROVE DumpInv'
  BY <1>2, NextInv DEF Next, DumpInv, UndoneAbove
<1>3. ASSUME NEW last \in Ids, Restart(last) PROVE DumpInv'
  BY <1>3, RestartInv
<1>4. CASE UNCHANGED dumpVars
  <2>1. Inv' /\ cache' = cache /\ undone' = undone
    BY <1>4, NextInv DEF dumpVars, vars, DumpInv
  <2> QED
    BY <2>1 DEF DumpInv, UndoneAbove
<1> QED
  BY <1>1, <1>2, <1>3, <1>4 DEF DumpNext, Cycle

\* The invariant holds in every reachable state, through restarts too.
THEOREM DumpInvHolds == DumpSpec => []DumpInv
  BY DumpInitInv, DumpNextInv, PTL DEF DumpSpec

\* Type correctness, completeness and the bound of the memory, across restarts.
THEOREM DumpMemoryIsComplete == DumpSpec => [](TypeOK /\ MemoryComplete /\ TombstonesBounded)
<1>1. DumpInv => TypeOK /\ MemoryComplete /\ TombstonesBounded
  BY DEF DumpInv, Inv
<1> QED
  BY <1>1, DumpInvHolds, PTL

-----------------------------------------------------------------------------
(* What a step may do, a restart among them. *)

\* A step across which no page came lists no post that was unknown.
LEMMA RestartShowsNothing ==
  ASSUME DumpInv, NEW last \in Ids, Restart(last)
  PROVE  /\ news' = {} /\ removals' = {} /\ tombstones' = tombstones
         /\ DOMAIN cache' \subseteq DOMAIN cache
         /\ DOMAIN cache' \subseteq seen
         /\ undone \cap DOMAIN cache' = {}
<1>1. /\ DOMAIN cache' = {i \in DOMAIN cache : i <= last}
      /\ news' = {} /\ removals' = {} /\ tombstones' = tombstones
  BY RestartKeeps DEF DumpInv, Inv
<1>2. DOMAIN cache \subseteq seen
  BY DEF DumpInv, Inv, OnlySeen
<1>3. undone \cap DOMAIN cache = {}
  BY IdsAreNaturals DEF DumpInv, UndoneAbove
<1> QED
  BY <1>1, <1>2, <1>3

\* No post is announced a second time across restarts, but for those recovery()
\* makes unknown.
THEOREM NeverTwiceAcrossRestarts == DumpSpec => NeverTwice
<1>1. DumpInv /\ [DumpNext]_dumpVars => [news' \cap seen \subseteq dropped \cup evicted']_vars
  <2> SUFFICES ASSUME DumpInv, [DumpNext]_dumpVars
               PROVE  [news' \cap seen \subseteq dropped \cup evicted']_vars
    OBVIOUS
  <2>1. CASE Cycle
    BY <2>1, StepNeverTwice DEF Cycle, Next, DumpInv
  <2>2. CASE \E last \in Ids : Restart(last)
    BY <2>2, RestartShowsNothing
  <2>3. CASE UNCHANGED dumpVars
    BY <2>3 DEF dumpVars
  <2> QED
    BY <2>1, <2>2, <2>3 DEF DumpNext
<1> QED
  BY <1>1, DumpInvHolds, PTL DEF DumpSpec, NeverTwice

\* Newer posts are announced also after a restart, a recovery, or a start from
\* the dump of another version.
THEOREM NewerIsAnnouncedAcrossRestarts == DumpSpec => NewerAnnounced
<1> DEFINE Step == DOMAIN cache # {} =>
                     \A i \in DOMAIN cache' \ seen :
                       \/ \A j \in seen : j < i
                       \/ /\ DOMAIN cache \cap DOMAIN cache' # {}
                          /\ \A j \in DOMAIN cache' \cap seen : j < i
                       => i \in news'
<1>1. DumpInv /\ Cycle => Step
  BY StepAnnouncesNewest DEF Cycle, Next, DumpInv
<1>2. DumpInv /\ (\E last \in Ids : Restart(last)) => Step
  BY RestartShowsNothing
<1>3. UNCHANGED dumpVars => UNCHANGED vars
  BY DEF dumpVars
<1>4. DumpInv /\ [DumpNext]_dumpVars => [Step]_vars
  <2> HIDE DEF Step
  <2> QED
    BY <1>1, <1>2, <1>3 DEF DumpNext
<1> HIDE DEF Step
<1>5. DumpSpec => [][Step]_vars
  BY <1>4, DumpInvHolds, PTL DEF DumpSpec
<1> QED
  BY <1>5 DEF Step, NewerAnnounced

\* The page after a recovery announces what the recovery took out: those posts
\* are above the baseline, unless a larger tombstone is on the page.
LEMMA PageAnnouncesUndone ==
  ASSUME DumpInv, DOMAIN cache # {}, NEW page \in Pages, Crawl(page),
         NEW i \in undone \cap DOMAIN cache',
         \A j \in DOMAIN cache' \cap tombstones : j < i
  PROVE  i \in news'
<1>1. cache' = page /\ news' = Fresh(page)
  BY DEF Crawl, FirstPage, NextPage
<1>2. i \in Nat /\ \A j \in DOMAIN cache : j < i
  BY IdsAreNaturals DEF DumpInv, UndoneAbove
<1>3. DOMAIN page \cap Remembered(page) \subseteq DOMAIN page \cap tombstones
  BY DEF Remembered, Largest, Entombed, Vanished
<1>4. i \notin Remembered(page)
  BY <1>1, <1>2, <1>3
<1>5. \A j \in Baseline(page) : j < i
  BY <1>1, <1>2, <1>3 DEF Baseline, Staying, Tracked
<1> QED
  BY <1>1, <1>4, <1>5 DEF Fresh

\* What recovery() took out is announced by the first page that lists it.
THEOREM RecoveredIsAnnounced == DumpSpec => RecoveredAnnounced
<1> DEFINE Step == DOMAIN cache # {} =>
                     \A i \in undone \cap DOMAIN cache' :
                       (\A j \in DOMAIN cache' \cap tombstones : j < i) => i \in news'
<1>1. DumpInv /\ Cycle => Step
  <2> SUFFICES ASSUME DumpInv, Cycle PROVE Step
    OBVIOUS
  <2>1. CASE NoPage
    <3>1. undone \cap DOMAIN cache' = {}
      BY <2>1, IdsAreNaturals DEF NoPage, DumpInv, UndoneAbove
    <3> QED
      BY <3>1
  <2>2. ASSUME NEW page \in Pages, Crawl(page) PROVE Step
    BY <2>2, PageAnnouncesUndone
  <2> QED
    BY <2>1, <2>2 DEF Cycle
<1>2. DumpInv /\ (\E last \in Ids : Restart(last)) => Step
  BY RestartShowsNothing
<1>3. DumpInv /\ [DumpNext]_dumpVars => [Step]_dumpVars
  <2> HIDE DEF Step
  <2> QED
    BY <1>1, <1>2 DEF DumpNext
<1> HIDE DEF Step
<1>4. DumpSpec => [][Step]_dumpVars
  BY <1>3, DumpInvHolds, PTL DEF DumpSpec
<1> QED
  BY <1>4 DEF Step, RecoveredAnnounced
-----------------------------------------------------------------------------
(* The table of articles.  Its invariant is RowsFollowList as it stands: what  *)
(* it says of removed posts needs what it says of listed ones, and both need   *)
(* that the list is only empty before the first page.                          *)

StoreInv ==
  /\ Inv
  /\ RowsFollowList
  /\ DOMAIN cache = {} => filed = {}

LEMMA StoreInitInv == StoreInit => StoreInv
<1> SUFFICES ASSUME StoreInit PROVE StoreInv
  OBVIOUS
<1>1. Inv
  BY InitInv DEF StoreInit
<1>2. rows = [i \in {} |-> CHOOSE r \in Row : TRUE] /\ DOMAIN rows = {} /\ DOMAIN cache = {}
  BY DEF StoreInit, Init
<1>3. rows \in [DOMAIN rows -> Row]
  BY <1>2
<1>4. StoreTypeOK
  BY <1>1, <1>2, <1>3, StoreBoundsAssumption DEF StoreInit, StoreTypeOK, Inv
<1> QED
  BY <1>1, <1>2, <1>4 DEF StoreInit, StoreInv, RowsFollowList

\* A cycle keeps what a post has in the table: a key that stays is of a post that
\* was listed before, whose row lags behind only when the page changed it.
LEMMA CrawlPageKeeps ==
  ASSUME StoreInv, NEW page \in Pages, CrawlPage(page)
  PROVE  StoreInv'
<1>1. /\ stage = "idle" /\ stage' = "crawled" /\ crawls < bound.crawls /\ crawls' = crawls + 1
      /\ Crawl(page)
      /\ filed' = IF DOMAIN cache = {} THEN filed ELSE filed \cap Tracked(page)
      /\ UNCHANGED <<bound, rows, failures, missed>>
  BY DEF CrawlPage
<1>2. Inv /\ TypeOK /\ StoreTypeOK /\ RowsFollowList
  BY DEF StoreInv, Inv, RowsFollowList
<1>3. Inv' /\ TypeOK'
  BY <1>1, <1>2, NextInv DEF Next, Inv
<1>4. cache' = page /\ DOMAIN page # {} /\ seen \subseteq seen'
  BY <1>1 DEF Crawl, FirstPage, NextPage, Observe, Pages
<1>5. StoreTypeOK'
  <2>1. bound \in Bounds /\ crawls' \in 0 .. bound.crawls
    <3>1. \A m \in Nat : \A n \in 0 .. m : n < m => n + 1 \in 0 .. m
      OBVIOUS
    <3>2. bound \in Bounds /\ bound.crawls \in Nat /\ crawls \in 0 .. bound.crawls
      BY <1>2, StoreBoundsAssumption DEF StoreTypeOK
    <3> QED
      BY <1>1, <3>1, <3>2
  <2> QED
    BY <1>1, <1>2, <1>3, <1>4, <2>1 DEF StoreTypeOK
<1>6. ASSUME NEW i \in (DOMAIN cache' \cap filed') \ missed'
      PROVE  Up(i)' /\ (rows'[i].text = cache'[i] \/ i \in updates')
  <2>1. DOMAIN cache # {} /\ i \in Tracked(page) /\ i \in filed /\ i \in DOMAIN page
    BY <1>1, <1>4, <1>6 DEF StoreInv
  <2>2. i \in DOMAIN cache /\ updates' = Changed(page)
    BY <1>1, <2>1 DEF Tracked, Crawl, FirstPage, NextPage
  <2>3. Up(i) /\ rows[i].text = cache[i]
    BY <1>1, <1>2, <1>6, <2>1, <2>2 DEF RowsFollowList
  <2> QED
    BY <1>1, <1>4, <2>1, <2>2, <2>3 DEF Up, Changed, Staying
<1>7. ASSUME NEW i \in tombstones' \ (DOMAIN cache' \cup missed'), Up(i)'
      PROVE  i \in removals'
  <2>1. Up(i) /\ i \notin missed /\ i \notin DOMAIN page
    BY <1>1, <1>4, <1>7 DEF Up
  <2>2. ~(i \in tombstones /\ i \notin DOMAIN cache)
    BY <1>1, <1>2, <2>1 DEF RowsFollowList
  <2>3. CASE FirstPage(page)
    BY <1>7, <2>2, <2>3 DEF FirstPage
  <2>4. CASE NextPage(page)
    <3>1. removals' = Vanished(page) /\ i \in Entombed(page)
      BY <1>7, <2>4 DEF NextPage, Remembered, Largest
    <3>2. i \in Vanished(page) \/ (i \in DOMAIN cache /\ \E j \in DOMAIN page : ~(i < j))
      BY <2>2, <3>1 DEF Entombed, Below
    <3> QED
      BY <2>1, <3>1, <3>2 DEF Vanished, Tracked, Below
  <2> QED
    BY <1>1, <2>3, <2>4 DEF Crawl
<1>8. RowsFollowList'
  BY <1>1, <1>5, <1>6, <1>7 DEF RowsFollowList
<1> QED
  BY <1>3, <1>4, <1>8 DEF StoreInv

\* What a transaction leaves in the table, of the posts it upserts, deletes and
\* does not touch.
LEMMA TableAfter ==
  ASSUME StoreInv, NEW upserts \in SUBSET DOMAIN cache, NEW deletes \in SUBSET (Ids \ DOMAIN cache)
  PROVE  LET table == SoftDeleted(Upserted(upserts), deletes) IN
         /\ DOMAIN table = DOMAIN rows \cup upserts
         /\ table \in [DOMAIN table -> Row]
         /\ \A i \in upserts : table[i].up /\ table[i].text = cache[i]
         /\ \A i \in deletes \cap DOMAIN table : ~table[i].up
         /\ \A i \in DOMAIN rows \ (upserts \cup deletes) : table[i] = rows[i]
<1> DEFINE upserted == Upserted(upserts)
           table == SoftDeleted(upserted, deletes)
<1>1. /\ cache \in Collection /\ rows \in [DOMAIN rows -> Row]
  BY DEF StoreInv, Inv, TypeOK, RowsFollowList, StoreTypeOK
<1>2. \A i \in DOMAIN cache : cache[i] \in Versions
  BY <1>1 DEF Collection
<1>3. /\ DOMAIN upserted = DOMAIN rows \cup upserts
      /\ \A i \in upserts : upserted[i] = [text |-> cache[i], up |-> TRUE]
      /\ \A i \in DOMAIN rows \ upserts : upserted[i] = rows[i]
  BY DEF Upserted
<1>4. \A i \in DOMAIN upserted : upserted[i] \in Row
  <2>1. \A i \in upserts : [text |-> cache[i], up |-> TRUE] \in Row
    BY <1>2 DEF Row
  <2> QED
    BY <1>1, <1>3, <2>1
<1> HIDE DEF upserted
<1>5. /\ DOMAIN table = DOMAIN upserted
      /\ \A i \in DOMAIN table :
           table[i] = [upserted[i] EXCEPT !.up = @ /\ i \notin deletes]
  BY DEF SoftDeleted
<1>6. table = [i \in DOMAIN table |-> table[i]]
  BY DEF SoftDeleted
<1> HIDE DEF table
<1>7. ASSUME NEW i \in DOMAIN table
      PROVE  /\ table[i] \in Row /\ table[i].text = upserted[i].text
             /\ table[i].up = (upserted[i].up /\ i \notin deletes)
             /\ i \notin deletes => table[i] = upserted[i]
  <2>1. upserted[i] \in Row /\ table[i] = [upserted[i] EXCEPT !.up = @ /\ i \notin deletes]
    BY <1>4, <1>5
  <2> QED
    BY <2>1 DEF Row
<1>8. table \in [DOMAIN table -> Row]
  BY <1>6, <1>7
<1>9. ASSUME NEW i \in upserts PROVE table[i].up /\ table[i].text = cache[i]
  <2>1. i \in DOMAIN table /\ i \notin deletes /\ upserted[i] = [text |-> cache[i], up |-> TRUE]
    BY <1>3, <1>5
  <2> QED
    BY <1>7, <2>1
<1>10. \A i \in DOMAIN rows \ (upserts \cup deletes) : table[i] = rows[i]
  BY <1>3, <1>5, <1>7
<1>11. \A i \in deletes \cap DOMAIN table : ~table[i].up
  BY <1>7
<1>12. DOMAIN table = DOMAIN rows \cup upserts
  BY <1>3, <1>5
<1> QED
  BY <1>8, <1>9, <1>10, <1>11, <1>12 DEF table, upserted

\* A transaction of a cycle that keeps what the invariant says of listed and of
\* removed posts.  `upserts` are the posts that changed or had no key, `deletes`
\* the removed ones or none.
LEMMA TransactionKeeps ==
  ASSUME StoreInv, NEW upserts \in SUBSET DOMAIN cache,
         NEW deletes \in SUBSET (Ids \ DOMAIN cache),
         Transaction(upserts, deletes), UNCHANGED <<vars, bound, crawls>>,
         stage' \in {"saved", "idle"},
         stage = "crawled" => (updates \subseteq upserts /\ removals \subseteq deletes)
  PROVE  StoreInv'
<1> DEFINE table == SoftDeleted(Upserted(upserts), deletes)
<1>1. Inv /\ TypeOK /\ StoreTypeOK /\ RowsFollowList
  BY DEF StoreInv, Inv, RowsFollowList
<1>2. Inv' /\ TypeOK'
  <2>1. [Next]_vars
    OBVIOUS
  <2> QED
    BY <1>1, <2>1, NextInv DEF Inv
<1>3. UNCHANGED <<cache, tombstones, removals, updates, seen>>
  BY DEF vars, results, history
<1>4. /\ DOMAIN table = DOMAIN rows \cup upserts
      /\ table \in [DOMAIN table -> Row]
      /\ \A i \in upserts : table[i].up /\ table[i].text = cache[i]
      /\ \A i \in deletes \cap DOMAIN table : ~table[i].up
      /\ \A i \in DOMAIN rows \ (upserts \cup deletes) : table[i] = rows[i]
  BY TableAfter
<1> HIDE DEF table
<1>5. \/ /\ rows' = table /\ filed' \in {filed, filed \cup upserts}
         /\ missed' = missed \ (upserts \cup deletes)
      \/ /\ UNCHANGED <<rows, filed>>
         /\ missed' = missed \cup deletes \cup (upserts \cap filed)
  BY DEF Transaction, Commit, CommitUnheard, Rollback, table
<1>6. upserts \subseteq seen /\ upserts \subseteq Ids
  BY <1>1 DEF Inv, OnlySeen, TypeOK
<1>7. StoreTypeOK'
  <2>1. failures' \in 0 .. bound.failures
    <3>1. \A m \in Nat : \A n \in 0 .. m : n < m => n + 1 \in 0 .. m
      OBVIOUS
    <3>2. bound.failures \in Nat /\ failures \in 0 .. bound.failures
      BY <1>1, StoreBoundsAssumption DEF StoreTypeOK
    <3> QED
      BY <3>1, <3>2 DEF Transaction, Commit, CommitUnheard, Rollback
  <2>2. rows' \in [DOMAIN rows' -> Row] /\ DOMAIN rows' \subseteq seen /\ DOMAIN rows' \subseteq Ids
    BY <1>1, <1>4, <1>5, <1>6 DEF StoreTypeOK
  <2>3. filed' \subseteq seen /\ missed' \subseteq Ids
    BY <1>1, <1>5, <1>6 DEF StoreTypeOK
  <2> QED
    BY <1>1, <1>2, <1>3, <2>1, <2>2, <2>3 DEF StoreTypeOK
<1>8. ASSUME NEW i \in (DOMAIN cache \cap filed') \ missed'
      PROVE  Up(i)' /\ rows'[i].text = cache[i]
  <2>1. i \notin deletes
    OBVIOUS
  <2>2. CASE i \in upserts
    <3>1. rows' = table
      BY <1>5, <1>8, <2>2
    <3> QED
      BY <1>4, <2>2, <3>1 DEF Up
  <2>3. CASE i \notin upserts
    <3>1. i \in filed /\ i \notin missed
      BY <1>5, <1>8, <2>1, <2>3
    <3>2. Up(i) /\ rows[i].text = cache[i]
      BY <1>1, <1>8, <2>3, <3>1 DEF RowsFollowList
    <3> QED
      BY <1>4, <1>5, <2>1, <2>3, <3>2 DEF Up
  <2> QED
    BY <2>2, <2>3
<1>9. ASSUME NEW i \in tombstones \ (DOMAIN cache \cup missed')
      PROVE  ~Up(i)'
  <2>1. i \notin upserts
    BY <1>9
  <2>2. CASE i \in deletes
    <3>1. rows' = table
      BY <1>5, <1>9, <2>2
    <3> QED
      BY <1>4, <2>2, <3>1 DEF Up
  <2>3. CASE i \notin deletes
    <3>1. i \notin missed
      BY <1>5, <1>9, <2>1, <2>3
    <3>2. ~Up(i)
      BY <1>1, <1>9, <2>3, <3>1 DEF RowsFollowList
    <3> QED
      BY <1>4, <1>5, <2>1, <2>3, <3>2 DEF Up
  <2> QED
    BY <2>2, <2>3
<1>10. RowsFollowList'
  BY <1>3, <1>7, <1>8, <1>9 DEF RowsFollowList
<1>11. DOMAIN cache' = {} => filed' = {}
  BY <1>3, <1>5 DEF StoreInv
<1> QED
  BY <1>2, <1>10, <1>11 DEF StoreInv

LEMMA StoreNextInv == StoreInv /\ [StoreNext]_storeVars => StoreInv'
<1> SUFFICES ASSUME StoreInv, [StoreNext]_storeVars PROVE StoreInv'
  OBVIOUS
<1> TypeOK /\ StoreTypeOK
  BY DEF StoreInv, Inv, RowsFollowList
<1>1. ASSUME NEW page \in Pages, CrawlPage(page) PROVE StoreInv'
  BY <1>1, CrawlPageKeeps
<1>2. CASE CrawlNothing
  <2>1. /\ stage = "idle" /\ NoPage /\ stage' = "crawled"
        /\ UNCHANGED <<bound, rows, filed, failures, crawls, missed>>
    BY <1>2 DEF CrawlNothing
  <2>2. UNCHANGED <<cache, tombstones, seen>>
    BY <2>1 DEF NoPage, history
  <2>3. Inv'
    BY <2>1, NextInv DEF Next, StoreInv
  <2>4. StoreTypeOK'
    BY <2>1, <2>2, <2>3 DEF StoreTypeOK, Inv
  <2> QED
    BY <2>1, <2>2, <2>3, <2>4 DEF StoreInv, RowsFollowList, Up
<1>3. CASE Save
  <2>1. /\ Transaction(news \cup updates, removals) /\ stage' = "saved"
        /\ UNCHANGED <<vars, bound, crawls>>
    BY <1>3 DEF Save
  <2>2. news \cup updates \in SUBSET DOMAIN cache /\ removals \in SUBSET (Ids \ DOMAIN cache)
    BY DEF TypeOK
  <2> QED
    BY <2>1, <2>2, TransactionKeeps
<1>4. CASE Backfill
  <2>1. /\ Transaction(DOMAIN cache \ filed, {}) /\ stage' = "idle" /\ stage = "saved"
        /\ UNCHANGED <<vars, bound, crawls>>
    BY <1>4 DEF Backfill
  <2> QED
    BY <2>1, TransactionKeeps
<1>5. ASSUME \/ StartAgain
             \/ UNCHANGED storeVars
      PROVE  StoreInv'
  <2>1. /\ filed' \subseteq filed
        /\ UNCHANGED <<vars, bound, rows, stage, failures, crawls, missed>>
    BY <1>5 DEF StartAgain, storeVars
  <2>2. UNCHANGED <<cache, tombstones, updates, removals, seen>> /\ [Next]_vars
    BY <2>1 DEF vars, results, history
  <2>3. Inv'
    BY <2>2, NextInv DEF StoreInv
  <2>4. StoreTypeOK'
    BY <2>1, <2>2, <2>3 DEF StoreTypeOK, Inv
  <2> QED
    BY <2>1, <2>2, <2>3, <2>4 DEF StoreInv, RowsFollowList, Up
<1> QED
  BY <1>1, <1>2, <1>3, <1>4, <1>5 DEF StoreNext

LEMMA StoreInvHolds == StoreSpec => []StoreInv
<1>1. StoreInit => StoreInv
  BY StoreInitInv
<1>2. StoreInv /\ [StoreNext]_storeVars => StoreInv'
  BY StoreNextInv
<1> QED
  BY <1>1, <1>2, PTL DEF StoreSpec

\* However cycles, failing transactions and restarts follow each other, and for
\* any number of each: a listed post whose key counts as backfilled is visible in
\* the table with its current text, and a removed one is hidden, but for posts
\* whose transaction rolled back or is still to come.
THEOREM TableFollowsList == StoreSpec => []RowsFollowList
<1>1. StoreInv => RowsFollowList
  BY DEF StoreInv
<1> QED
  BY <1>1, StoreInvHolds, PTL

-----------------------------------------------------------------------------
(* A walk through the table. *)

\* Below the newest row of the walk, what was not given is still to come: at least
\* `offset` rows are newer, so no page has reached it.
NothingPassed ==
  ~disturbed =>
    \A k \in Matching, m \in got : k <= m /\ k \notin got => offset <= Cardinality(Newer(k))

WalkInv ==
  /\ ArticlesTypeOK
  /\ at = "idle" => offset = 0 /\ got = {} /\ ~disturbed
  /\ at # "idle" => bound.reader
  /\ order \in Seq(Ids)
  /\ NothingPassed

ArticlesInv == StoreInv /\ WalkInv

LEMMA ArticlesInitInv == ArticlesInit => ArticlesInv
<1> SUFFICES ASSUME ArticlesInit PROVE ArticlesInv
  OBVIOUS
<1>1. StoreInv /\ DOMAIN rows = {}
  BY StoreInitInv DEF ArticlesInit, StoreInit
<1>2. order = <<>> /\ at = "idle" /\ after = 0 /\ offset = 0 /\ got = {} /\ disturbed = FALSE
  BY DEF ArticlesInit
<1>3. order \in Seq(Ids) /\ Len(order) = 0
  <2>1. <<>> \in Seq(Ids) /\ Len(<<>>) = 0
    OBVIOUS
  <2> QED
    BY <1>2, <2>1
<1>4. ToSet(order) = {} /\ Cardinality(ToSet(order)) = 0
  <2>1. ToSet(order) = {}
    BY <1>2, <1>3 DEF ToSet
  <2> QED
    BY <2>1, FS_EmptySet
<1>5. ArticlesTypeOK
  <2>1. after \in 0 .. Len(order) /\ offset \in Nat
    BY <1>2, <1>3
  <2>2. Len(order) = Cardinality(ToSet(order)) /\ ToSet(order) = DOMAIN rows
    BY <1>1, <1>3, <1>4
  <2> QED
    BY <1>2, <2>1, <2>2 DEF ArticlesTypeOK
<1> QED
  BY <1>1, <1>2, <1>3, <1>5 DEF ArticlesInv, WalkInv, NothingPassed

\* The rows that match are numbered by their place in the order.
LEMMA MatchingNumbers ==
  ASSUME WalkInv
  PROVE  /\ Matching \in SUBSET Nat /\ IsFiniteSet(Matching)
         /\ Matching \subseteq after + 1 .. Len(order)
         /\ after \in Nat /\ Len(order) \in Nat /\ offset \in Nat /\ after <= Len(order)
         /\ got \subseteq after + 1 .. Len(order) /\ got \in SUBSET Nat /\ IsFiniteSet(got)
<1> PICK n \in Nat : n = Len(order)
  BY DEF WalkInv
<1>1. after \in 0 .. n /\ offset \in Nat /\ got \subseteq after + 1 .. n
  BY DEF WalkInv, ArticlesTypeOK
<1>2. after \in Nat /\ after <= n
  BY <1>1
<1>3. after + 1 .. n \in SUBSET Nat /\ IsFiniteSet(after + 1 .. n)
  <2> PICK a \in Nat : a = after + 1
    BY <1>2
  <2>1. a .. n \in SUBSET Nat
    OBVIOUS
  <2>2. IsFiniteSet(a .. n)
    BY FS_Interval
  <2> QED
    BY <2>1, <2>2
<1>4. Matching \subseteq after + 1 .. n
  BY DEF Matching
<1> QED
  BY <1>1, <1>2, <1>3, <1>4, FS_Subset

\* The ranks of the rows that match.
LEMMA NewerRanks ==
  ASSUME WalkInv, NEW k \in Matching
  PROVE  /\ Cardinality(Newer(k)) \in Nat /\ Cardinality(Newer(k)) < Cardinality(Matching)
         /\ \A j \in Matching : k < j => Cardinality(Newer(j)) < Cardinality(Newer(k))
<1>1. Matching \in SUBSET Nat /\ IsFiniteSet(Matching)
  BY MatchingNumbers
<1>2. \A i \in Matching : Newer(i) = {j \in Matching : i < j}
  BY <1>1 DEF Newer
<1>3. Cardinality(Newer(k)) \in Nat /\ Cardinality(Newer(k)) < Cardinality(Matching)
  BY <1>1, <1>2, Ranks
<1>4. \A j \in Matching : k < j => Cardinality(Newer(j)) < Cardinality(Newer(k))
  BY <1>1, <1>2, FewerAbove
<1> QED
  BY <1>3, <1>4

\* A page takes what comes next, and no more than `limit` rows.
LEMMA PageKeeps ==
  ASSUME ArticlesInv, Page
  PROVE  ArticlesInv'
<1> DEFINE rank(k) == Cardinality(Newer(k))
           page == {k \in Matching : rank(k) \in offset .. offset + Limit - 1}
           c == Cardinality(page)
<1> WalkInv /\ StoreInv /\ ArticlesTypeOK
  BY DEF ArticlesInv, WalkInv
<1>1. /\ bound.reader /\ at \in {"idle", "paging"} /\ at' = "counting"
      /\ got' = got \cup page /\ offset' = offset + c
      /\ UNCHANGED <<storeVars, order, after, disturbed>>
  BY DEF Page
<1>2. UNCHANGED <<bound, rows>>
  BY <1>1 DEF storeVars
<1>3. Matching' = Matching /\ \A k : Newer(k)' = Newer(k)
  BY <1>1, <1>2 DEF Matching, Newer, Up
<1>4. /\ Matching \in SUBSET Nat /\ IsFiniteSet(Matching) /\ offset \in Nat
      /\ got \in SUBSET Nat /\ Matching \subseteq after + 1 .. Len(order)
  BY MatchingNumbers
<1>5. c \in Nat /\ c <= Limit
  <2>1. page = {k \in Matching : Cardinality({j \in Matching : k < j}) \in offset .. offset + Limit - 1}
    <3>1. \A k \in Matching : Newer(k) = {j \in Matching : k < j}
      BY <1>4 DEF Newer
    <3> QED
      BY <3>1, Zenon
  <2>2. Limit \in Nat
    BY LimitAssumption
  <2> HIDE DEF page
  <2> QED
    BY <1>4, <2>1, <2>2, RanksBound
<1>6. \A k \in Matching : rank(k) \in Nat /\ \A j \in Matching : k < j => rank(j) < rank(k)
  BY NewerRanks
<1>7. /\ page \subseteq Matching
      /\ \A k \in Matching : k \in page <=> rank(k) \in offset .. offset + Limit - 1
  OBVIOUS
<1> HIDE DEF rank, page, c
<1>8. ASSUME ~disturbed, NEW k \in Matching, NEW m \in got \cup page, k <= m,
             k \notin got, k \notin page
      PROVE  offset + c <= rank(k)
  <2>1. offset <= rank(k)
    <3>1. CASE m \in got
      BY <1>8, <3>1 DEF WalkInv, NothingPassed, rank
    <3>2. CASE m \in page
      <4>1. k < m /\ m \in Matching
        BY <1>4, <1>7, <1>8, <3>2
      <4>2. rank(m) < rank(k) /\ offset <= rank(m) /\ rank(m) \in Nat /\ rank(k) \in Nat
        BY <1>4, <1>6, <1>7, <3>2, <4>1
      <4> QED
        BY <1>4, <4>2
    <3> QED
      BY <3>1, <3>2
  <2>2. rank(k) \in Nat /\ ~(rank(k) \in offset .. offset + Limit - 1) /\ Limit \in Nat
    BY <1>6, <1>7, <1>8, LimitAssumption
  <2>3. offset + Limit <= rank(k)
    BY <1>4, <2>1, <2>2
  <2> QED
    BY <1>4, <1>5, <2>2, <2>3
<1>9. NothingPassed'
  <2>1. \A k \in Matching : Cardinality(Newer(k)') = rank(k)
    BY <1>3 DEF rank
  <2> QED
    BY <1>1, <1>3, <1>8, <2>1 DEF NothingPassed
<1>10. ArticlesTypeOK'
  BY <1>1, <1>2, <1>4, <1>5, <1>7 DEF ArticlesTypeOK
<1>11. StoreInv'
  BY <1>1, StoreNextInv
<1> QED
  BY <1>1, <1>2, <1>9, <1>10, <1>11 DEF ArticlesInv, WalkInv

\* The posts of a set, put in any order.
LEMMA InAnyOrder ==
  ASSUME NEW S, IsFiniteSet(S), NEW s \in SetToSeqs(S)
  PROVE  s \in Seq(S) /\ ToSet(s) = S /\ Len(s) = Cardinality(S)
<1> PICK n \in Nat : n = Cardinality(S)
  BY FS_CardinalityType
<1>1. s \in [1 .. n -> S] /\ \A i, j \in 1 .. n : i # j => s[i] # s[j]
  BY DEF SetToSeqs
<1>2. s \in Seq(S) /\ Len(s) = n
  BY <1>1
<1>3. IsFiniteSet(1 .. n) /\ Cardinality(1 .. n) = n
  BY FS_Interval
<1>4. s \in Injection(1 .. n, S)
  BY <1>1 DEF Injection, IsInjective
<1>5. s \in Surjection(1 .. n, S)
  BY <1>3, <1>4, FS_Injection
<1>6. ToSet(s) = S
  BY <1>1, <1>5 DEF ToSet, Surjection
<1> QED
  BY <1>2, <1>6

\* No step takes a row out of the table.
LEMMA RowsStay ==
  ASSUME StoreInv, StoreNext
  PROVE  DOMAIN rows \subseteq DOMAIN rows' /\ DOMAIN rows' \subseteq Ids /\ UNCHANGED bound
<1>1. DOMAIN rows' \subseteq Ids
  <2>1. StoreInv'
    BY StoreNextInv
  <2> QED
    BY <2>1 DEF StoreInv, RowsFollowList, StoreTypeOK
<1>2. ASSUME NEW upserts, NEW deletes, Transaction(upserts, deletes)
      PROVE  DOMAIN rows \subseteq DOMAIN rows'
  BY <1>2 DEF Transaction, Commit, CommitUnheard, Rollback, SoftDeleted, Upserted
<1>3. UNCHANGED bound
  BY DEF StoreNext, CrawlPage, CrawlNothing, Save, Backfill, StartAgain
<1>4. DOMAIN rows \subseteq DOMAIN rows'
  BY <1>2 DEF StoreNext, CrawlPage, CrawlNothing, Save, Backfill, StartAgain
<1> QED
  BY <1>1, <1>3, <1>4

\* Rows that come during a walk come behind all others in the order: whatever is
\* still to come has no fewer newer rows than before.
LEMMA WriteKeeps ==
  ASSUME ArticlesInv, Write
  PROVE  ArticlesInv'
<1> DEFINE added == IF bound.reader THEN DOMAIN rows' \ DOMAIN rows ELSE {}
<1> WalkInv /\ StoreInv /\ ArticlesTypeOK
  BY DEF ArticlesInv, WalkInv
<1>1. /\ StoreNext /\ UNCHANGED <<at, after, offset, got>>
      /\ disturbed' = (at # "idle" /\ (disturbed \/ \E i \in DOMAIN rows : Up(i) # rows'[i].up))
  BY DEF Write
<1>2. /\ DOMAIN rows \subseteq DOMAIN rows' /\ DOMAIN rows' \subseteq Ids /\ UNCHANGED bound
      /\ StoreInv'
  BY <1>1, RowsStay, StoreNextInv
<1>3. PICK s \in SetToSeqs(added) : order' = order \o s
  BY <1>2 DEF Write
<1>4. added \subseteq Ids /\ added \cap ToSet(order) = {}
  BY <1>2 DEF ArticlesTypeOK
<1> PICK n \in Nat : n = Len(order)
  BY DEF WalkInv
<1>5. /\ IsFiniteSet(added) /\ s \in Seq(Ids) /\ ToSet(s) = added /\ Len(s) = Cardinality(added)
      /\ Cardinality(added) \in Nat
  <2>1. IsFiniteSet(added) /\ Cardinality(added) \in Nat
    <3> HIDE DEF added
    <3> QED
      BY <1>4, SubsetFinite
  <2>2. s \in Seq(added) /\ ToSet(s) = added /\ Len(s) = Cardinality(added)
    <3> HIDE DEF added
    <3> QED
      BY <2>1, InAnyOrder
  <2> HIDE DEF added
  <2> QED
    BY <1>4, <2>1, <2>2
<1> HIDE DEF added
<1>6. /\ order' \in Seq(Ids) /\ Len(order') = n + Cardinality(added)
      /\ \A k \in 1 .. n : order'[k] = order[k]
  <2>1. /\ order \o s \in Seq(Ids) /\ Len(order \o s) = n + Len(s)
        /\ \A k \in 1 .. n + Len(s) : (order \o s)[k] = IF k <= n THEN order[k] ELSE s[k - n]
    BY <1>5, ConcatProperties DEF WalkInv
  <2> QED
    BY <1>3, <1>5, <2>1
<1>7. ToSet(order') = ToSet(order) \cup added
  <2>1. Range(order \o s) = Range(order) \cup Range(s)
    BY <1>5, RangeConcatenation DEF WalkInv
  <2>2. Range(order \o s) = ToSet(order') /\ Range(order) = ToSet(order) /\ Range(s) = ToSet(s)
    BY <1>3 DEF Range, ToSet
  <2> QED
    BY <1>5, <2>1, <2>2
<1>8. ArticlesTypeOK'
  <2>1. bound'.reader => ToSet(order') = DOMAIN rows'
    BY <1>2, <1>7 DEF ArticlesTypeOK, added
  <2>2. Len(order') = Cardinality(ToSet(order'))
    <3>1. ToSet(order) \subseteq Ids
      BY DEF WalkInv, ToSet
    <3>2. IsFiniteSet(ToSet(order)) /\ Cardinality(ToSet(order)) = n
      BY <3>1, SubsetFinite DEF ArticlesTypeOK
    <3>3. Cardinality(ToSet(order) \cup added)
            = Cardinality(ToSet(order)) + Cardinality(added) - Cardinality(ToSet(order) \cap added)
      BY <1>5, <3>2, FS_Union
    <3>4. Cardinality(ToSet(order) \cap added) = 0
      BY <1>4, FS_EmptySet
    <3> QED
      BY <1>5, <1>6, <1>7, <3>2, <3>3, <3>4
  <2>3. after \in 0 .. n /\ offset \in Nat /\ got \subseteq after + 1 .. n
    BY DEF ArticlesTypeOK
  <2>4. after \in 0 .. Len(order') /\ got \subseteq after + 1 .. Len(order')
    <3> PICK m \in Nat : m = Cardinality(added)
      BY <1>5
    <3>1. n <= n + m /\ Len(order') = n + m
      BY <1>6
    <3> QED
      BY <2>3, <3>1
  <2> QED
    BY <1>1, <2>1, <2>2, <2>3, <2>4 DEF ArticlesTypeOK
<1>9. ASSUME ~disturbed', got # {}
      PROVE  /\ Matching' \cap (1 .. n) = Matching
             /\ \A k \in Matching : Newer(k) \subseteq Newer(k)'
             /\ IsFiniteSet(Matching') /\ ~disturbed
  <2>1. bound.reader /\ at # "idle" /\ ToSet(order) = DOMAIN rows /\ ~disturbed
    BY <1>1, <1>9 DEF WalkInv, ArticlesTypeOK
  <2>2. ASSUME NEW k \in 1 .. n PROVE Up(order[k])' <=> Up(order[k])
    <3>1. order[k] \in DOMAIN rows /\ order'[k] = order[k]
      BY <1>6, <2>1 DEF ToSet, WalkInv
    <3>2. Up(order[k]) = rows'[order[k]].up
      BY <1>1, <1>9, <2>1, <3>1
    <3> QED
      BY <1>2, <3>1, <3>2 DEF Up
  <2>3. Matching' = {k \in after + 1 .. Len(order') : Up(order[k])'}
    BY <1>1 DEF Matching
  <2>4. after \in Nat /\ Matching \subseteq 1 .. n
    BY MatchingNumbers
  <2>5. Matching' \cap (1 .. n) = Matching
    <3>1. Matching = {k \in after + 1 .. n : Up(order[k])}
      BY DEF Matching
    <3>2. \A k \in 1 .. n : k \in after + 1 .. Len(order') <=> k \in after + 1 .. n
      <4> PICK m \in Nat : m = Cardinality(added)
        BY <1>5
      <4>1. Len(order') = n + m
        BY <1>6
      <4> QED
        BY <2>4, <4>1
    <3> QED
      BY <2>2, <2>3, <2>4, <3>1, <3>2
  <2>6. IsFiniteSet(Matching')
    <3> PICK a \in Nat : a = after + 1
      BY <2>4
    <3> PICK b \in Nat : b = Len(order')
      BY <1>6
    <3>1. IsFiniteSet(a .. b)
      BY FS_Interval
    <3> QED
      BY <2>3, <3>1, FS_Subset
  <2>7. \A k \in Matching : Newer(k) \subseteq Newer(k)'
    BY <2>5 DEF Newer
  <2> QED
    BY <2>1, <2>5, <2>6, <2>7
<1>10. NothingPassed'
  <2> SUFFICES ASSUME ~disturbed', NEW k \in Matching', NEW m \in got, k <= m, k \notin got
               PROVE  offset <= Cardinality(Newer(k)')
    BY <1>1 DEF NothingPassed
  <2>1. /\ Matching' \cap (1 .. n) = Matching
        /\ \A i \in Matching : Newer(i) \subseteq Newer(i)'
        /\ IsFiniteSet(Matching') /\ ~disturbed
    BY <1>9
  <2>2. k \in 1 .. n
    <3>1. m \in after + 1 .. n /\ after \in Nat /\ k \in after + 1 .. Len(order') /\ Len(order') \in Nat
      BY <1>1, <1>6, MatchingNumbers DEF Matching
    <3> QED
      BY <3>1
  <2>3. k \in Matching /\ offset <= Cardinality(Newer(k)) /\ Cardinality(Newer(k)) \in Nat
    <3>1. k \in Matching
      BY <2>1, <2>2
    <3> QED
      BY <2>1, <3>1, NewerRanks DEF WalkInv, NothingPassed
  <2>4. Newer(k)' \subseteq Matching'
    BY DEF Newer
  <2>5. IsFiniteSet(Newer(k)') /\ Cardinality(Newer(k)') \in Nat
    BY <2>1, <2>4, FS_Subset, FS_CardinalityType
  <2>6. Cardinality(Newer(k)) <= Cardinality(Newer(k)')
    BY <2>1, <2>3, <2>5, FS_Subset
  <2>7. offset \in Nat
    BY MatchingNumbers
  <2> QED
    BY <2>3, <2>5, <2>6, <2>7
<1>11. at' = "idle" => offset' = 0 /\ got' = {} /\ ~disturbed'
  BY <1>1 DEF WalkInv
<1> QED
  BY <1>1, <1>2, <1>6, <1>8, <1>10, <1>11 DEF ArticlesInv, WalkInv

\* When no row is left, every row up to the newest one given was given.
LEMMA WalkEnds ==
  ASSUME WalkInv, ~HasMore, ~disturbed, NEW k \in Matching, NEW m \in got, k <= m
  PROVE  k \in got
<1>1. Cardinality(Newer(k)) \in Nat /\ Cardinality(Newer(k)) < Cardinality(Matching)
  BY NewerRanks
<1>2. offset \in Nat /\ Cardinality(Matching) \in Nat /\ ~(offset < Cardinality(Matching))
  BY MatchingNumbers, FS_CardinalityType DEF HasMore
<1>3. k \notin got => offset <= Cardinality(Newer(k))
  BY DEF WalkInv, NothingPassed
<1> QED
  BY <1>1, <1>2, <1>3

\* The start of the next walk is the newest row of this one.
LEMMA NextStart ==
  ASSUME WalkInv
  PROVE  /\ Max(got \cup {after}) \in got \cup {after}
         /\ Max(got \cup {after}) \in 0 .. Len(order)
<1>1. /\ got \cup {after} \in SUBSET Nat /\ IsFiniteSet(got \cup {after})
      /\ got \cup {after} \subseteq 0 .. Len(order)
  <2> PICK n \in Nat : n = Len(order)
    BY DEF WalkInv
  <2>1. after \in Nat /\ after <= n /\ got \subseteq after + 1 .. n /\ IsFiniteSet(got)
        /\ got \in SUBSET Nat
    BY MatchingNumbers
  <2>2. IsFiniteSet(got \cup {after})
    BY <2>1, FS_AddElement
  <2>3. got \cup {after} \subseteq 0 .. n
    BY <2>1
  <2> QED
    BY <2>1, <2>2, <2>3
<1>2. Max(got \cup {after}) \in got \cup {after}
  BY <1>1, Greatest
<1> QED
  BY <1>1, <1>2

LEMMA CountKeeps ==
  ASSUME ArticlesInv, Count
  PROVE  ArticlesInv'
<1> WalkInv /\ StoreInv /\ ArticlesTypeOK
  BY DEF ArticlesInv, WalkInv
<1>1. at = "counting" /\ UNCHANGED <<storeVars, order>>
  BY DEF Count
<1>2. UNCHANGED <<bound, rows>> /\ StoreInv'
  BY <1>1, StoreNextInv DEF storeVars
<1>3. CASE at' = "paging" /\ UNCHANGED <<after, offset, got, disturbed>>
  <2>1. Matching' = Matching /\ \A k : Newer(k)' = Newer(k)
    BY <1>1, <1>2, <1>3 DEF Matching, Newer, Up
  <2>2. NothingPassed'
    BY <1>3, <2>1 DEF WalkInv, NothingPassed
  <2>3. ArticlesTypeOK'
    BY <1>1, <1>2, <1>3 DEF ArticlesTypeOK
  <2> QED
    BY <1>1, <1>2, <1>3, <2>2, <2>3 DEF ArticlesInv, WalkInv
<1>4. CASE /\ at' = "idle" /\ after' = Max(got \cup {after})
           /\ offset' = 0 /\ got' = {} /\ disturbed' = FALSE
  <2>1. after' \in 0 .. Len(order)
    BY <1>4, NextStart
  <2>2. ArticlesTypeOK'
    BY <1>1, <1>2, <1>4, <2>1 DEF ArticlesTypeOK
  <2>3. NothingPassed'
    BY <1>4 DEF NothingPassed
  <2> QED
    BY <1>1, <1>2, <1>4, <2>2, <2>3 DEF ArticlesInv, WalkInv
<1> QED
  BY <1>3, <1>4 DEF Count

LEMMA ArticlesNextInv == ArticlesInv /\ [ArticlesNext]_articlesVars => ArticlesInv'
<1> SUFFICES ASSUME ArticlesInv, [ArticlesNext]_articlesVars PROVE ArticlesInv'
  OBVIOUS
<1>1. CASE UNCHANGED articlesVars
  <2>1. UNCHANGED <<storeVars, order, at, after, offset, got, disturbed>>
    BY <1>1 DEF articlesVars, clientVars
  <2>2. UNCHANGED <<bound, rows>> /\ StoreInv'
    BY <2>1, StoreNextInv DEF storeVars, ArticlesInv
  <2>3. Matching' = Matching /\ \A k : Newer(k)' = Newer(k)
    BY <2>1, <2>2 DEF Matching, Newer, Up
  <2>4. NothingPassed' /\ ArticlesTypeOK'
    BY <2>1, <2>2, <2>3 DEF ArticlesInv, WalkInv, NothingPassed, ArticlesTypeOK
  <2> QED
    BY <2>1, <2>2, <2>4 DEF ArticlesInv, WalkInv
<1> QED
  BY <1>1, WriteKeeps, PageKeeps, CountKeeps DEF ArticlesNext

LEMMA ArticlesInvHolds == ArticlesSpec => []ArticlesInv
<1>1. ArticlesInit => ArticlesInv
  BY ArticlesInitInv
<1>2. ArticlesInv /\ [ArticlesNext]_articlesVars => ArticlesInv'
  BY ArticlesNextInv
<1> QED
  BY <1>1, <1>2, PTL DEF ArticlesSpec

\* However many rows come while a client pages through the list, and however large
\* its pages are: a walk that ends has been given every visible row up to its new
\* starting point, unless a row was hidden or shown again during the walk.
THEOREM WalksSkipNothing == ArticlesSpec => WalkSkipsNothing
<1> DEFINE Ends == at = "counting" /\ at' = "idle" /\ ~disturbed =>
                     Matching \cap 1 .. after' \subseteq got
<1>1. ArticlesInv => ArticlesTypeOK
  BY DEF ArticlesInv, WalkInv
<1>2. ArticlesInv /\ ArticlesNext => Ends
  <2> SUFFICES ASSUME ArticlesInv, ArticlesNext, at = "counting", at' = "idle", ~disturbed,
                      NEW k \in Matching \cap 1 .. after'
               PROVE  k \in got
    OBVIOUS
  <2>1. Count
    BY DEF ArticlesNext, Write, Page
  <2>2. ~HasMore /\ after' = Max(got \cup {after})
    BY <2>1 DEF Count
  <2>3. WalkInv
    BY DEF ArticlesInv
  <2>4. after' \in got \cup {after} /\ after' \in Nat /\ after \in Nat /\ k \in after + 1 .. Len(order)
    <3>1. after' \in got \cup {after} /\ after' \in 0 .. Len(order)
      BY <2>2, <2>3, NextStart
    <3>2. after \in Nat /\ Matching \subseteq after + 1 .. Len(order) /\ got \in SUBSET Nat
      BY <2>3, MatchingNumbers
    <3> QED
      BY <3>1, <3>2
  <2>5. after' \in got /\ k <= after'
    <3>1. Len(order) \in Nat
      BY <2>3, MatchingNumbers
    <3> QED
      BY <2>4, <3>1
  <2> QED
    BY <2>2, <2>3, <2>5, WalkEnds
<1>3. ArticlesInv /\ [ArticlesNext]_articlesVars => [Ends]_articlesVars
  BY <1>2
<1> QED
  BY <1>1, <1>3, ArticlesInvHolds, PTL DEF ArticlesSpec, WalkSkipsNothing

\* The table follows the list beside clients that read it, too.
THEOREM TableFollowsListBesideClients == ArticlesSpec => []RowsFollowList
<1>1. ArticlesInv => RowsFollowList
  BY DEF ArticlesInv, StoreInv
<1> QED
  BY <1>1, ArticlesInvHolds, PTL
=============================================================================
