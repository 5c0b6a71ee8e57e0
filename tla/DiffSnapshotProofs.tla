------------------------- MODULE DiffSnapshotProofs -------------------------
(***************************************************************************)
(* Proofs about diff_snapshot, for any two stores, any size of a page and  *)
(* any limit on the samples.                                               *)
(***************************************************************************)
EXTENDS DiffSnapshot, FiniteSetTheorems, WellFoundedInduction, TLAPS

USE DiffSnapshotAssumption

-----------------------------------------------------------------------------
(* The inductive invariant.                                                *)

\* All types but that of the counts, which is a fact about cardinalities.
Types ==
  /\ store \in [Sides -> SUBSET TxIds]
  /\ first \in [Sides -> SUBSET TxIds]
  /\ pc \in {"merge", "done", "raised"}
  /\ base \in [Sides -> SUBSET TxIds]
  /\ asking \in [Sides -> BOOLEAN]
  /\ chunk \in [Sides -> SUBSET TxIds]
  /\ last \in [Sides -> 0 .. MaxTx]
  /\ short \in [Sides -> BOOLEAN]
  /\ wanted \in [Sides -> BOOLEAN]
  /\ cur \in [Sides -> 0 .. MaxTx]
  /\ count \in [Sides -> Nat]
  /\ only \in [Sides -> SUBSET TxIds]
  /\ sample \in [Sides -> SUBSET TxIds]

\* The generator has returned None.
Exhausted(x) == cur[x] = 0 /\ ~wanted[x]

\* The merge will not look at t on this side again.
Passed(x, t) == Exhausted(x) \/ t < cur[x] \/ (t = cur[x] /\ wanted[x])

\* While a query is under way its generator holds nothing back.
QueryIsAlone(x) ==
  /\ first[x] \subseteq store[x]
  /\ asking[x] => /\ wanted[x] /\ chunk[x] = {} /\ ~short[x]
                  /\ first[x] \subseteq base[x]

\* A chunk lies between the txId in hand and the cursor of the next page.
ChunkIsNext(x) ==
  /\ chunk[x] \subseteq store[x]
  /\ \A t \in chunk[x] : cur[x] < t /\ t <= last[x]
  /\ cur[x] # 0 => cur[x] \in store[x] /\ cur[x] <= last[x]
  /\ Exhausted(x) => chunk[x] = {}

\* Up to that cursor no txId was skipped that was there from the beginning.
PagesAreCovered(x) ==
  \A t \in first[x] :
    t <= last[x] \/ short[x] => t \in chunk[x] \/ t <= cur[x] \/ Exhausted(x)

\* What is passed was counted, or the other store has it.
Decided(x) == \A t \in first[x] : Passed(x, t) => t \in only[x] \cup store[Other(x)]

\* Neither side runs ahead of the other.
InStep(x) ==
  /\ \A t \in first[x] : Passed(x, t) => Passed(Other(x), t)
  /\ \A t \in only[x] : Passed(x, t) /\ Passed(Other(x), t)

OnlyIsRight(x) ==
  /\ only[x] \subseteq store[x] \ first[Other(x)]
  /\ count[x] = Cardinality(only[x])
  /\ only[x] \cap only[Other(x)] = {}

\* As much of the beginning of S as the limit allows.
LowestOf(T, S) ==
  /\ T \subseteq S
  /\ \A t \in T, u \in S \ T : t < u
  /\ Cardinality(T) <= SampleLimit
  /\ S # T => Cardinality(T) = SampleLimit

SampleIsLowest(x) == LowestOf(sample[x], only[x])

SideInv(x) ==
  /\ QueryIsAlone(x)
  /\ ChunkIsNext(x)
  /\ PagesAreCovered(x)
  /\ Decided(x)
  /\ InStep(x)
  /\ OnlyIsRight(x)
  /\ SampleIsLowest(x)
  /\ pc = "done" => Exhausted(x)

DiffInv == Types /\ \A x \in Sides : SideInv(x)

-----------------------------------------------------------------------------
(* Sets of txIds, and what the operators of the model take from them.      *)

\* A set of numbers has a smallest element.
LEMMA HasSmallest ==
  ASSUME NEW S \in SUBSET Nat, S # {}
  PROVE  \E t \in S : \A u \in S : t <= u
<1>1. PICK t \in S : \A u \in S : <<u, t>> \notin OpToRel(<, Nat)
  BY NatLessThanWellFounded, WFMin
<1>2. ASSUME NEW u \in S PROVE t <= u
  <2>1. <<u, t>> \in Nat \X Nat
    OBVIOUS
  <2>2. ~(u < t)
    BY <1>1, <2>1 DEF OpToRel
  <2>. QED BY <2>2
<1>. QED BY <1>2

\* What a generator yields next.
LEMMA SmallestIs ==
  ASSUME NEW S \in SUBSET TxIds, S # {}
  PROVE  Smallest(S) \in S /\ \A u \in S : Smallest(S) <= u
<1>1. S \in SUBSET Nat
  BY DEF TxIds
<1>. QED BY <1>1, HasSmallest DEF Smallest

\* Where the next page begins.
LEMMA LargestIs ==
  ASSUME NEW S \in SUBSET TxIds, S # {}
  PROVE  Largest(S) \in S /\ \A u \in S : u <= Largest(S)
<1>. DEFINE T == {MaxTx - t : t \in S}
<1>1. T \in SUBSET Nat /\ T # {}
  BY DEF TxIds
<1>2. PICK d \in T : \A e \in T : d <= e
  BY <1>1, HasSmallest
<1>3. PICK t \in S : d = MaxTx - t
  OBVIOUS
<1>4. \A u \in S : u <= t
  <2>1. TAKE u \in S
  <2>2. MaxTx - u \in T
    OBVIOUS
  <2>. QED BY <1>2, <1>3, <2>2 DEF TxIds
<1>. QED BY <1>4 DEF Largest

LEMMA TxSets ==
  ASSUME NEW S \in SUBSET TxIds
  PROVE  IsFiniteSet(S) /\ Cardinality(S) \in 0 .. MaxTx
<1>1. IsFiniteSet(TxIds) /\ Cardinality(TxIds) = MaxTx
  BY FS_Interval DEF TxIds
<1>. QED BY <1>1, FS_Subset, FS_CardinalityType

LEMMA TxSubsets ==
  ASSUME NEW S \in SUBSET TxIds, NEW T \in SUBSET S
  PROVE  Cardinality(T) <= Cardinality(S)
BY TxSets, FS_Subset

\* A page is the beginning of what the query selects, and a short one is all of it.
LEMMA PageIs ==
  ASSUME NEW S \in SUBSET TxIds
  PROVE  /\ Page(S) \subseteq S
         /\ \A t \in Page(S), u \in S : u < t => u \in Page(S)
         /\ Cardinality(Page(S)) < ChunkSize => Page(S) = S
<1>. DEFINE Below(t) == {u \in S : u < t}
<1>1. \A t \in S : t \in Page(S) <=> Cardinality(Below(t)) < ChunkSize
  BY DEF Page
<1>2. \A t \in S : Cardinality(Below(t)) \in Nat
  BY TxSets
<1>3. Page(S) \subseteq S
  BY DEF Page
<1>4. ASSUME NEW t \in Page(S), NEW u \in S, u < t PROVE u \in Page(S)
  <2>1. ASSUME NEW v \in Below(u) PROVE v \in Below(t)
    <3>1. t \in TxIds /\ u \in TxIds /\ v \in TxIds /\ v < u
      BY <1>3
    <3>. QED BY <1>4, <3>1 DEF TxIds
  <2>2. Cardinality(Below(u)) <= Cardinality(Below(t))
    BY <2>1, TxSubsets
  <2>. QED BY <1>1, <1>2, <1>3, <2>2
<1>5. ASSUME Cardinality(Page(S)) < ChunkSize, Page(S) # S PROVE FALSE
  <2>1. S \ Page(S) \in SUBSET TxIds /\ S \ Page(S) # {}
    BY <1>3, <1>5
  <2>2. PICK w \in S \ Page(S) : \A u \in S \ Page(S) : w <= u
    BY <2>1, SmallestIs
  <2>3. ASSUME NEW v \in Below(w) PROVE v \in Page(S)
    <3>1. w \in TxIds /\ v \in TxIds /\ v < w /\ v \in S
      OBVIOUS
    <3>. QED BY <2>2, <3>1 DEF TxIds
  <2>4. Cardinality(Below(w)) <= Cardinality(Page(S))
    BY <1>3, <2>3, TxSubsets
  <2>5. Cardinality(Page(S)) \in Nat
    BY <1>3, TxSets
  <2>. QED BY <1>1, <1>2, <1>5, <2>2, <2>4, <2>5
<1>. QED BY <1>3, <1>4, <1>5

LEMMA TwoSides ==
  ASSUME NEW x \in Sides
  PROVE  /\ Other(x) \in Sides /\ Other(x) # x /\ Other(Other(x)) = x
         /\ \A z \in Sides : z = x \/ z = Other(x)
BY DEF Sides, Other

-----------------------------------------------------------------------------
(* The generators.                                                         *)

LEMMA DiffInit == Init => DiffInv
<1>. SUFFICES ASSUME Init PROVE DiffInv
  OBVIOUS
<1>1. Types
  BY DEF Init, Types
<1>2. ASSUME NEW x \in Sides PROVE SideInv(x)
  <2>1. Cardinality({}) = 0
    BY FS_EmptySet
  <2>2. /\ first[x] = store[x] /\ ~asking[x] /\ chunk[x] = {} /\ last[x] = 0 /\ ~short[x]
        /\ wanted[x] /\ cur[x] = 0 /\ count[x] = 0 /\ only[x] = {} /\ sample[x] = {}
        /\ pc = "merge" /\ store[x] \subseteq TxIds
    BY DEF Init
  <2>3. only[Other(x)] = {}
    BY TwoSides DEF Init
  <2>4. \A t \in TxIds : ~(t <= 0) /\ ~(t < 0) /\ t # 0
    BY DEF TxIds
  <2>. QED
    BY <2>1, <2>2, <2>3, <2>4
    DEF SideInv, QueryIsAlone, ChunkIsNext, PagesAreCovered, Decided, InStep, OnlyIsRight,
        SampleIsLowest, LowestOf, Exhausted, Passed
<1>. QED BY <1>1, <1>2 DEF DiffInv

\* A store that grows changes nothing that was decided about it.
LEMMA Growing ==
  ASSUME DiffInv, NEW x \in Sides, NEW t \in TxIds, StoreGrows(x, t)
  PROVE  DiffInv'
<1>1. Types'
  BY DEF DiffInv, Types, StoreGrows, streamVars, mergeVars, resultVars
<1>2. \A z \in Sides : store[z] \subseteq store'[z]
  BY DEF DiffInv, Types, StoreGrows
<1>3. UNCHANGED <<first, pc, streamVars, mergeVars, resultVars>>
  BY DEF StoreGrows
<1>4. ASSUME NEW z \in Sides PROVE SideInv(z)'
  <2>1. SideInv(z) /\ Other(z) \in Sides
    BY TwoSides DEF DiffInv
  <2>. USE <1>2, <1>3, <2>1 DEF streamVars, mergeVars, resultVars, SideInv, Exhausted, Passed
  <2>2. QueryIsAlone(z)' /\ ChunkIsNext(z)'
    BY DEF QueryIsAlone, ChunkIsNext
  <2>3. PagesAreCovered(z)' /\ Decided(z)' /\ InStep(z)'
    BY DEF PagesAreCovered, Decided, InStep
  <2>4. OnlyIsRight(z)' /\ SampleIsLowest(z)'
    BY DEF OnlyIsRight, SampleIsLowest
  <2>. QED BY <2>2, <2>3, <2>4
<1>. QED BY <1>1, <1>4 DEF DiffInv
\* What one side and the other keep while nothing of theirs moves.
LEMMA SameSide ==
  ASSUME NEW z \in Sides, SideInv(z), Other(z) \in Sides,
         UNCHANGED <<store, first, pc, resultVars, mergeVars>>,
         UNCHANGED <<base[z], asking[z], chunk[z], last[z], short[z]>>
  PROVE  SideInv(z)'
BY DEF SideInv, QueryIsAlone, ChunkIsNext, PagesAreCovered, Decided, InStep, OnlyIsRight,
       SampleIsLowest, Exhausted, Passed, resultVars, mergeVars

LEMMA Asking ==
  ASSUME DiffInv, NEW x \in Sides, QueryBegins(x)
  PROVE  DiffInv'
<1>0. Types /\ SideInv(x)
  BY DEF DiffInv
<1>1. Types'
  <2>1. base' \in [Sides -> SUBSET TxIds] /\ asking' \in [Sides -> BOOLEAN]
    BY <1>0 DEF Types, QueryBegins
  <2>. QED BY <1>0, <2>1 DEF Types, QueryBegins, mergeVars, resultVars
<1>2. /\ base'[x] = store[x] /\ asking'[x] /\ chunk[x] = {} /\ wanted[x] /\ ~short[x]
      /\ UNCHANGED <<store, first, pc, chunk, last, short, mergeVars, resultVars>>
      /\ \A z \in Sides : z # x => base'[z] = base[z] /\ asking'[z] = asking[z]
  BY <1>0 DEF Types, QueryBegins, Running
<1>3. SideInv(x)'
  BY <1>0, <1>2, TwoSides
  DEF SideInv, QueryIsAlone, ChunkIsNext, PagesAreCovered, Decided, InStep, OnlyIsRight,
      SampleIsLowest, Exhausted, Passed, resultVars, mergeVars
<1>4. ASSUME NEW z \in Sides, z # x PROVE SideInv(z)'
  BY <1>2, <1>4, SameSide, TwoSides DEF DiffInv
<1>. QED BY <1>1, <1>3, <1>4 DEF DiffInv

(* The page that comes back continues where the generator stands, and      *)
(* leaves out nothing up to its last txId that was there all along.        *)
LEMMA Answered ==
  ASSUME DiffInv, NEW x \in Sides, QueryReturns(x)
  PROVE  DiffInv'
<1>0. Types /\ SideInv(x)
  BY DEF DiffInv
<1>. PICK seen \in SUBSET store[x] :
       /\ base[x] \subseteq seen
       /\ chunk' = [chunk EXCEPT ![x] = Page(After(x, seen))]
       /\ last' = [last EXCEPT ![x] = IF Page(After(x, seen)) = {} THEN @
                                     ELSE Largest(Page(After(x, seen)))]
       /\ short' = [short EXCEPT ![x] = Cardinality(Page(After(x, seen))) < ChunkSize]
  BY DEF QueryReturns
<1>. DEFINE page == Page(After(x, seen))
<1>1. /\ page \subseteq seen
      /\ \A t \in page : t > last[x]
      /\ \A t \in page, u \in seen : u > last[x] /\ u < t => u \in page
      /\ Cardinality(page) < ChunkSize => \A u \in seen : u > last[x] => u \in page
  <2>1. After(x, seen) \in SUBSET TxIds
    BY <1>0 DEF After, Types
  <2>2. \A t : t \in After(x, seen) <=> t \in seen /\ t > last[x]
    BY DEF After
  <2>. QED BY <2>1, <2>2, PageIs
<1>2. page \in SUBSET TxIds
  BY <1>0, <1>1 DEF Types
<1>3. page # {} => /\ Largest(page) \in page
                  /\ \A t \in page : t <= Largest(page)
                  /\ Largest(page) > last[x]
  BY <1>1, <1>2, LargestIs
<1>4. Types'
  <2>1. last' \in [Sides -> 0 .. MaxTx]
    BY <1>0, <1>2, <1>3 DEF Types, TxIds
  <2>2. /\ chunk' \in [Sides -> SUBSET TxIds] /\ asking' \in [Sides -> BOOLEAN]
        /\ short' \in [Sides -> BOOLEAN]
    BY <1>0, <1>2 DEF Types, QueryReturns
  <2>. QED BY <1>0, <2>1, <2>2 DEF Types, QueryReturns, mergeVars, resultVars
<1>5. /\ chunk'[x] = page /\ short'[x] = (Cardinality(page) < ChunkSize) /\ ~asking'[x]
      /\ last'[x] = IF page = {} THEN last[x] ELSE Largest(page)
      /\ asking[x] /\ wanted[x] /\ chunk[x] = {} /\ ~short[x] /\ first[x] \subseteq base[x]
      /\ UNCHANGED <<store, first, pc, base, mergeVars, resultVars>>
      /\ \A z \in Sides : z # x => UNCHANGED <<base[z], asking[z], chunk[z], last[z], short[z]>>
  BY <1>0 DEF Types, QueryReturns, SideInv, QueryIsAlone
<1>6. SideInv(x)'
  <2>. USE <1>0, <1>5 DEF SideInv, Exhausted, Passed, resultVars, mergeVars
  <2>0. last[x] \in 0 .. MaxTx /\ last'[x] \in 0 .. MaxTx /\ cur[x] \in 0 .. MaxTx
    BY <1>4 DEF Types
  <2>1. QueryIsAlone(x)'
    BY DEF QueryIsAlone
  <2>2. cur[x] <= last[x] /\ last[x] <= last'[x]
    BY <1>2, <1>3, <2>0 DEF ChunkIsNext, TxIds
  <2>3. ASSUME NEW t \in page PROVE cur[x] < t /\ t <= last'[x]
    <3>1. t \in 0 .. MaxTx
      BY <1>2 DEF TxIds
    <3>. QED BY <1>1, <1>3, <2>0, <2>2, <2>3, <3>1
  <2>4. ChunkIsNext(x)'
    BY <1>1, <2>0, <2>2, <2>3 DEF ChunkIsNext
  <2>5. ASSUME NEW t \in first[x], t <= last'[x] \/ short'[x] PROVE t \in page \/ t <= cur[x]
    <3>0. t \in seen /\ t \in 0 .. MaxTx
      BY DEF Types, TxIds
    <3>1. CASE t <= last[x]
      BY <3>1 DEF PagesAreCovered
    <3>2. CASE t > last[x] /\ short'[x]
      BY <1>1, <3>0, <3>2
    <3>3. CASE t > last[x] /\ t <= last'[x]
      <4>1. page # {} /\ t <= Largest(page)
        BY <2>0, <3>0, <3>3
      <4>2. Largest(page) \in 0 .. MaxTx
        BY <1>2, <1>3, <4>1 DEF TxIds
      <4>. QED BY <1>1, <1>3, <3>0, <3>3, <4>1, <4>2
    <3>. QED BY <2>0, <2>5, <3>0, <3>1, <3>2, <3>3
  <2>6. PagesAreCovered(x)'
    BY <2>5 DEF PagesAreCovered
  <2>7. Decided(x)' /\ InStep(x)' /\ OnlyIsRight(x)' /\ SampleIsLowest(x)'
    BY TwoSides DEF Decided, InStep, OnlyIsRight, SampleIsLowest
  <2>. QED BY <2>1, <2>4, <2>6, <2>7
<1>7. ASSUME NEW z \in Sides, z # x PROVE SideInv(z)'
  BY <1>5, <1>7, SameSide, TwoSides DEF DiffInv
<1>. QED BY <1>4, <1>6, <1>7 DEF DiffInv

LEMMA Raising ==
  ASSUME DiffInv, NEW x \in Sides, QueryRaises(x)
  PROVE  DiffInv'
<1>0. Types
  BY DEF DiffInv
<1>1. Types'
  BY <1>0 DEF Types, QueryRaises, mergeVars, resultVars
<1>2. ASSUME NEW z \in Sides PROVE SideInv(z)'
  <2>1. asking'[z] => asking[z]
    BY <1>0 DEF Types, QueryRaises
  <2>. QED
    BY <2>1, TwoSides
    DEF DiffInv, SideInv, QueryIsAlone, ChunkIsNext, PagesAreCovered, Decided, InStep, OnlyIsRight,
        SampleIsLowest, Exhausted, Passed, QueryRaises, mergeVars, resultVars
<1>. QED BY <1>1, <1>2 DEF DiffInv

(* next() returns on one side.  It passes over no txId that was there all  *)
(* along: what lies between two txIds it yields came too late for a page.  *)
LEMMA Returning ==
  ASSUME DiffInv, Types', NEW x \in Sides, Running(x),
         UNCHANGED <<store, first, pc, base, asking, last, short, resultVars>>,
         ~asking[x],
         chunk'[x] \subseteq chunk[x],
         ~wanted'[x],
         Other(x) \in Sides,
         UNCHANGED <<chunk[Other(x)], wanted[Other(x)], cur[Other(x)]>>,
         ChunkIsNext(x)',
         \A t \in TxIds : Passed(x, t) => Passed(x, t)',
         \A t \in first[x] : Passed(x, t)' => Passed(x, t),
         PagesAreCovered(x)'
  PROVE  DiffInv'
<1>. DEFINE y == Other(x)
<1>0. Types /\ SideInv(x) /\ SideInv(y) /\ y # x /\ Other(y) = x
  BY TwoSides DEF DiffInv
<1>1. \A t \in TxIds : Passed(y, t)' <=> Passed(y, t)
  BY DEF Passed, Exhausted
<1>2. SideInv(x)'
  <2>1. QueryIsAlone(x)'
    BY <1>0 DEF SideInv, QueryIsAlone
  <2>2. Decided(x)' /\ InStep(x)'
    BY <1>0, <1>1 DEF SideInv, Decided, InStep, Types, resultVars
  <2>3. OnlyIsRight(x)' /\ SampleIsLowest(x)'
    BY <1>0 DEF SideInv, OnlyIsRight, SampleIsLowest, resultVars
  <2>4. ~(pc = "done")
    BY DEF Running
  <2>. QED BY <2>1, <2>2, <2>3, <2>4 DEF SideInv
<1>3. SideInv(y)'
  <2>1. QueryIsAlone(y)' /\ ChunkIsNext(y)' /\ PagesAreCovered(y)'
    BY <1>0 DEF SideInv, QueryIsAlone, ChunkIsNext, PagesAreCovered, Exhausted
  <2>2. Decided(y)' /\ InStep(y)'
    BY <1>0, <1>1 DEF SideInv, Decided, InStep, Types, resultVars
  <2>3. OnlyIsRight(y)' /\ SampleIsLowest(y)'
    BY <1>0 DEF SideInv, OnlyIsRight, SampleIsLowest, resultVars
  <2>4. ~(pc = "done")
    BY DEF Running
  <2>. QED BY <2>1, <2>2, <2>3, <2>4 DEF SideInv
<1>. QED BY <1>2, <1>3, TwoSides DEF DiffInv

LEMMA Yielding ==
  ASSUME DiffInv, NEW x \in Sides, Yield(x)
  PROVE  DiffInv'
<1>. DEFINE s == Smallest(chunk[x])
<1>0. Types /\ SideInv(x) /\ Other(x) \in Sides /\ Other(x) # x
  BY TwoSides DEF DiffInv
<1>1. s \in chunk[x] /\ \A u \in chunk[x] : s <= u
  BY <1>0, SmallestIs DEF Types, Yield
<1>2. s \in TxIds /\ s \in 0 .. MaxTx /\ s # 0
  BY <1>0, <1>1 DEF Types, TxIds
<1>3. Types'
  <2>1. /\ chunk' \in [Sides -> SUBSET TxIds] /\ wanted' \in [Sides -> BOOLEAN]
        /\ cur' \in [Sides -> 0 .. MaxTx]
    BY <1>0, <1>2 DEF Types, Yield
  <2>. QED BY <1>0, <2>1 DEF Types, Yield, resultVars
<1>4. /\ cur'[x] = s /\ chunk'[x] = chunk[x] \ {s} /\ ~wanted'[x] /\ wanted[x]
      /\ UNCHANGED <<chunk[Other(x)], wanted[Other(x)], cur[Other(x)]>>
      /\ UNCHANGED <<store, first, pc, base, asking, last, short, resultVars>>
  BY <1>0 DEF Types, Yield, Running
<1>5. ~asking[x]
  BY <1>0 DEF SideInv, QueryIsAlone, Yield
<1>6. /\ cur[x] \in 0 .. MaxTx /\ last[x] \in 0 .. MaxTx /\ cur[x] < s /\ s <= last[x]
      /\ \A t \in chunk[x] : t \in 0 .. MaxTx
      /\ \A t \in first[x] : t \in 0 .. MaxTx
  BY <1>0, <1>1 DEF Types, SideInv, ChunkIsNext, TxIds
<1>7. ChunkIsNext(x)'
  BY <1>0, <1>1, <1>2, <1>4, <1>6 DEF SideInv, ChunkIsNext, Exhausted
<1>8. \A t \in TxIds : Passed(x, t) => Passed(x, t)'
  BY <1>2, <1>4, <1>6 DEF Passed, Exhausted, TxIds
<1>9. ASSUME NEW t \in first[x], Passed(x, t)' PROVE Passed(x, t)
  <2>1. t < s
    BY <1>2, <1>4, <1>9 DEF Passed, Exhausted
  <2>2. t \notin chunk[x] /\ t <= last[x]
    BY <1>1, <1>2, <1>6, <2>1
  <2>3. t <= cur[x]
    BY <1>0, <1>4, <2>2 DEF SideInv, PagesAreCovered, Exhausted
  <2>. QED BY <1>4, <1>6, <2>3 DEF Passed
<1>10. PagesAreCovered(x)'
  <2>. SUFFICES ASSUME NEW t \in first[x], t <= last[x] \/ short[x]
                PROVE  t \in chunk[x] \ {s} \/ t <= s
    BY <1>4 DEF PagesAreCovered
  <2>. QED BY <1>0, <1>2, <1>4, <1>6 DEF SideInv, PagesAreCovered, Exhausted
<1>. QED BY <1>0, <1>3, <1>4, <1>5, <1>7, <1>8, <1>9, <1>10, Returning DEF Yield

LEMMA Ending ==
  ASSUME DiffInv, NEW x \in Sides, Exhaust(x)
  PROVE  DiffInv'
<1>0. Types /\ SideInv(x) /\ Other(x) \in Sides /\ Other(x) # x
  BY TwoSides DEF DiffInv
<1>1. Types'
  BY <1>0 DEF Types, Exhaust, streamVars, resultVars
<1>2. /\ cur'[x] = 0 /\ ~wanted'[x] /\ wanted[x] /\ chunk[x] = {} /\ short[x]
      /\ UNCHANGED <<wanted[Other(x)], cur[Other(x)]>>
      /\ UNCHANGED <<store, first, pc, base, asking, chunk, last, short, resultVars>>
  BY <1>0 DEF Types, Exhaust, Running, streamVars
<1>3. ~asking[x]
  BY <1>0, <1>2 DEF SideInv, QueryIsAlone
<1>4. ChunkIsNext(x)'
  BY <1>0, <1>2 DEF SideInv, ChunkIsNext, Exhausted
<1>5. \A t \in TxIds : Passed(x, t)'
  BY <1>2 DEF Passed, Exhausted
<1>6. ASSUME NEW t \in first[x] PROVE Passed(x, t)
  <2>1. t <= cur[x]
    BY <1>0, <1>2 DEF SideInv, PagesAreCovered, Exhausted
  <2>. QED BY <1>0, <1>2, <2>1 DEF Passed, Types, TxIds
<1>7. PagesAreCovered(x)'
  BY <1>2 DEF PagesAreCovered, Exhausted
<1>. QED BY <1>0, <1>1, <1>2, <1>3, <1>4, <1>5, <1>6, <1>7, Returning DEF Exhaust
-----------------------------------------------------------------------------
(* The merge.                                                              *)

(* The txId in hand on the side that is ahead is new to both sides' counts *)
(* and was not in the other store from the beginning: that side would have *)
(* passed it, and it passes nothing this side has not passed.              *)
LEMMA AheadIsNew ==
  ASSUME DiffInv, NEW x \in Sides, Merging, Ahead(x)
  PROVE  /\ cur[x] \in TxIds /\ cur[x] \in store[x]
         /\ Passed(Other(x), cur[x])
         /\ ~Passed(x, cur[x])
         /\ cur[x] \notin first[Other(x)]
         /\ cur[x] \notin only[x] /\ cur[x] \notin only[Other(x)]
<1>. DEFINE y == Other(x)
<1>0. Types /\ SideInv(x) /\ SideInv(y) /\ y \in Sides /\ Other(y) = x
  BY TwoSides DEF DiffInv
<1>1. ~wanted[x] /\ ~wanted[y] /\ cur[x] # 0 /\ cur[x] \in 0 .. MaxTx /\ cur[y] \in 0 .. MaxTx
  BY <1>0 DEF Merging, Ahead, Types
<1>2. cur[x] \in TxIds /\ cur[x] \in store[x]
  BY <1>0, <1>1 DEF SideInv, ChunkIsNext, TxIds
<1>3. Passed(y, cur[x])
  BY <1>1 DEF Ahead, Passed, Exhausted
<1>4. ~Passed(x, cur[x])
  BY <1>1 DEF Passed, Exhausted
<1>. QED BY <1>0, <1>2, <1>3, <1>4 DEF SideInv, InStep

\* One txId more, and a sample that takes it while it has room.
Sampled(T, u) == IF Cardinality(T) < SampleLimit THEN T \cup {u} ELSE T

LEMMA Sampling ==
  ASSUME NEW S \in SUBSET TxIds, NEW T, NEW u \in TxIds \ S, \A t \in S : t < u, LowestOf(T, S)
  PROVE  LowestOf(Sampled(T, u), S \cup {u})
<1>. DEFINE W == Sampled(T, u)
<1>. T \in SUBSET TxIds
  BY DEF LowestOf
<1>. USE DEF LowestOf, Sampled
<1>1. Cardinality(T) \in Nat /\ IsFiniteSet(T)
  BY TxSets
<1>2. CASE Cardinality(T) < SampleLimit
  <2>1. S = T /\ W = S \cup {u}
    BY <1>1, <1>2
  <2>2. Cardinality(T \cup {u}) = Cardinality(T) + 1
    BY <1>1, FS_AddElement
  <2>. QED BY <1>1, <1>2, <2>1, <2>2
<1>3. CASE ~(Cardinality(T) < SampleLimit)
  <2>1. W = T /\ Cardinality(T) = SampleLimit
    BY <1>1, <1>3
  <2>. QED BY <2>1
<1>. QED BY <1>2, <1>3

LEMMA Counting ==
  ASSUME DiffInv, NEW x \in Sides, OnlyHere(x)
  PROVE  DiffInv'
<1>. DEFINE y == Other(x)
            c == cur[x]
<1>0. /\ Types /\ SideInv(x) /\ SideInv(y) /\ y \in Sides /\ Other(y) = x /\ y # x
      /\ Merging /\ Ahead(x)
  BY TwoSides DEF DiffInv, OnlyHere
<1>1. /\ c \in TxIds /\ c \in store[x] /\ Passed(y, c) /\ ~Passed(x, c)
      /\ c \notin first[y] /\ c \notin only[x] /\ c \notin only[y]
  BY <1>0, AheadIsNew
<1>2. Types'
  <2>1. /\ count' \in [Sides -> Nat] /\ only' \in [Sides -> SUBSET TxIds]
        /\ sample' \in [Sides -> SUBSET TxIds] /\ wanted' \in [Sides -> BOOLEAN]
    BY <1>0, <1>1 DEF Types, OnlyHere
  <2>. QED BY <1>0, <2>1 DEF Types, OnlyHere, streamVars
<1>3. /\ count'[x] = count[x] + 1 /\ only'[x] = only[x] \cup {c}
      /\ sample'[x] = IF Cardinality(sample[x]) < SampleLimit THEN sample[x] \cup {c} ELSE sample[x]
      /\ wanted'[x] /\ ~wanted[x] /\ c # 0
      /\ UNCHANGED <<count[y], only[y], sample[y], wanted[y]>>
      /\ UNCHANGED <<store, first, pc, base, asking, chunk, last, short, cur>>
  BY <1>0 DEF Types, OnlyHere, Merging, Ahead, streamVars
<1>4. \A t \in TxIds : Passed(x, t)' <=> Passed(x, t) \/ t = c
  BY <1>0, <1>3 DEF Passed, Exhausted, Types, TxIds
<1>5. \A t \in TxIds : Passed(y, t)' <=> Passed(y, t)
  BY <1>3 DEF Passed, Exhausted
<1>6. SideInv(x)'
  <2>1. QueryIsAlone(x)' /\ ChunkIsNext(x)' /\ PagesAreCovered(x)'
    BY <1>0, <1>3 DEF SideInv, QueryIsAlone, ChunkIsNext, PagesAreCovered, Exhausted
  <2>2. Decided(x)' /\ InStep(x)'
    BY <1>0, <1>1, <1>3, <1>4, <1>5 DEF SideInv, Decided, InStep, Types
  <2>3. OnlyIsRight(x)'
    <3>1. Cardinality(only'[x]) = Cardinality(only[x]) + 1
      BY <1>0, <1>1, <1>3, TxSets, FS_AddElement DEF Types
    <3>. QED BY <1>0, <1>1, <1>3, <3>1 DEF SideInv, OnlyIsRight
  <2>4. SampleIsLowest(x)'
    <3>1. \A t \in only[x] : t < c
      <4>1. TAKE t \in only[x]
      <4>2. Passed(x, t)
        BY <1>0 DEF SideInv, InStep
      <4>. QED BY <1>3, <4>2 DEF Passed, Exhausted
    <3>2. /\ only[x] \in SUBSET TxIds /\ c \in TxIds \ only[x]
          /\ LowestOf(sample[x], only[x])
      BY <1>0, <1>1 DEF Types, SideInv, SampleIsLowest
    <3>3. LowestOf(Sampled(sample[x], c), only[x] \cup {c})
      BY <3>1, <3>2, Sampling
    <3>4. sample'[x] = Sampled(sample[x], c)
      BY <1>3 DEF Sampled
    <3>. QED BY <1>3, <3>3, <3>4 DEF SampleIsLowest
  <2>. QED BY <1>0, <1>3, <2>1, <2>2, <2>3, <2>4 DEF SideInv, Merging
<1>7. SideInv(y)'
  <2>1. QueryIsAlone(y)' /\ ChunkIsNext(y)' /\ PagesAreCovered(y)'
    BY <1>0, <1>3 DEF SideInv, QueryIsAlone, ChunkIsNext, PagesAreCovered, Exhausted
  <2>2. Decided(y)' /\ InStep(y)'
    BY <1>0, <1>3, <1>4, <1>5 DEF SideInv, Decided, InStep, Types
  <2>3. OnlyIsRight(y)' /\ SampleIsLowest(y)'
    BY <1>0, <1>1, <1>3 DEF SideInv, OnlyIsRight, SampleIsLowest
  <2>. QED BY <1>0, <1>3, <2>1, <2>2, <2>3 DEF SideInv, Merging
<1>. QED BY <1>2, <1>6, <1>7, TwoSides DEF DiffInv

LEMMA Matching ==
  ASSUME DiffInv, InBoth
  PROVE  DiffInv'
<1>0. Types
  BY DEF DiffInv
<1>1. Types'
  BY <1>0 DEF Types, InBoth, streamVars, resultVars
<1>2. ASSUME NEW x \in Sides PROVE SideInv(x)'
  <2>. DEFINE y == Other(x)
  <2>0. /\ SideInv(x) /\ SideInv(y) /\ y \in Sides /\ Other(y) = x /\ cur[x] = cur[y] /\ cur[x] # 0
        /\ ~wanted[x] /\ ~wanted[y] /\ pc = "merge" /\ wanted'[x] /\ wanted'[y]
        /\ cur[y] \in store[y]
        /\ UNCHANGED <<store, first, pc, base, asking, chunk, last, short, cur, count, only, sample>>
    BY <1>2, TwoSides
    DEF DiffInv, InBoth, Merging, Sides, Other, SideInv, ChunkIsNext, streamVars, resultVars
  <2>1. /\ \A t \in TxIds : Passed(x, t)' <=> Passed(x, t) \/ t = cur[x]
        /\ \A t \in TxIds : Passed(y, t)' <=> Passed(y, t) \/ t = cur[x]
    BY <1>0, <2>0 DEF Passed, Exhausted, Types, TxIds
  <2>2. QueryIsAlone(x)' /\ ChunkIsNext(x)' /\ PagesAreCovered(x)'
    BY <2>0 DEF SideInv, QueryIsAlone, ChunkIsNext, PagesAreCovered, Exhausted
  <2>3. first[x] \subseteq TxIds /\ only[x] \subseteq TxIds
    BY <1>0 DEF Types
  <2>4. Decided(x)'
    BY <2>0, <2>1, <2>3 DEF SideInv, Decided
  <2>5. InStep(x)'
    BY <2>0, <2>1, <2>3 DEF SideInv, InStep
  <2>6. OnlyIsRight(x)' /\ SampleIsLowest(x)'
    BY <2>0 DEF SideInv, OnlyIsRight, SampleIsLowest
  <2>. QED BY <2>0, <2>2, <2>4, <2>5, <2>6 DEF SideInv
<1>. QED BY <1>1, <1>2 DEF DiffInv

LEMMA Finishing ==
  ASSUME DiffInv, Done
  PROVE  DiffInv'
<1>1. Types'
  BY DEF DiffInv, Types, Done, streamVars, mergeVars, resultVars
<1>2. ASSUME NEW x \in Sides PROVE SideInv(x)'
  BY <1>2, TwoSides
  DEF DiffInv, SideInv, QueryIsAlone, ChunkIsNext, PagesAreCovered, Decided, InStep, OnlyIsRight,
      SampleIsLowest, Exhausted, Passed, Done, Merging, streamVars, mergeVars, resultVars
<1>. QED BY <1>1, <1>2 DEF DiffInv

LEMMA DiffStep == DiffInv /\ [Next]_vars => DiffInv'
<1>. SUFFICES ASSUME DiffInv, [Next]_vars PROVE DiffInv'
  OBVIOUS
<1>1. CASE UNCHANGED vars
  <2>1. Types'
    BY <1>1 DEF DiffInv, Types, vars, streamVars, mergeVars, resultVars
  <2>2. ASSUME NEW x \in Sides PROVE SideInv(x)'
    BY <1>1, SameSide, TwoSides DEF DiffInv, vars, streamVars
  <2>. QED BY <2>1, <2>2 DEF DiffInv
<1>. QED
  BY <1>1, Growing, Asking, Answered, Raising, Yielding, Ending, Counting, Matching, Finishing
  DEF Next

LEMMA DiffHolds == Spec => []DiffInv
BY DiffInit, DiffStep, PTL DEF Spec

-----------------------------------------------------------------------------
(* Every count stays a count of txIds there are, whatever is counted.      *)
THEOREM DiffTypeCorrect == Spec => []TypeOK
<1>1. ASSUME DiffInv PROVE TypeOK
  <2>1. ASSUME NEW x \in Sides PROVE count[x] \in 0 .. MaxTx
    BY <1>1, TxSets DEF DiffInv, Types, SideInv, OnlyIsRight
  <2>2. count \in [Sides -> 0 .. MaxTx]
    BY <1>1, <2>1 DEF DiffInv, Types
  <2>. QED BY <1>1, <2>2 DEF DiffInv, Types, TypeOK
<1>. QED BY <1>1, DiffHolds, PTL

(* A finished diff reports what was on one side all along and never on the *)
(* other, and nothing that was on the other all along, however the stores  *)
(* grew between and during the queries (diff_snapshot, lines 286-311).     *)
THEOREM DiffIsBounded == Spec => []DiffBounds
<1>1. ASSUME DiffInv PROVE DiffBounds
  BY <1>1 DEF DiffInv, SideInv, Decided, OnlyIsRight, Passed, DiffBounds
<1>. QED BY <1>1, DiffHolds, PTL

(* No txId is counted twice, on one side or on both (lines 302-311): pages *)
(* overlap nowhere and neither side of the merge runs ahead.               *)
THEOREM CountsAreOfIds == Spec => []CountsAreIds
<1>1. ASSUME DiffInv PROVE CountsAreIds
  BY <1>1 DEF DiffInv, SideInv, OnlyIsRight, CountsAreIds, Sides, Other
<1>. QED BY <1>1, DiffHolds, PTL

(* The samples are the lowest txIds counted, as many as there is room for  *)
(* (lines 304-305, 309-310), because a side counts in ascending order.     *)
THEOREM SamplesStayLowest == Spec => []SamplesAreLowest
<1>1. DiffInv => SamplesAreLowest
  BY DEF DiffInv, SideInv, SampleIsLowest, LowestOf, SamplesAreLowest
<1>. QED BY <1>1, DiffHolds, PTL
=============================================================================
