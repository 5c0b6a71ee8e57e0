--------------------------- MODULE BulkLoadProofs ---------------------------
(***************************************************************************)
(* Proofs about BulkLoad, for every number of runs, rows, workers and every *)
(* batch size: a load that ends well has loaded every row once, and where  *)
(* rows are missing from the middle, no loader that counts rows can start. *)
(* The rows that a query was refused unseen are excused from both.         *)
(***************************************************************************)
EXTENDS BulkLoad, FiniteSetTheorems, TLAPS

\* The rows of either CSV that are in the graph, and those excused from it.
Loaded(p) == {i \in Rows(p) : Copies(p)[i] > 0}
Missed(p) == {i \in Rows(p) : Excused(p, i)}
NoHoles(p) == \A i \in Loaded(p) : \A k \in Rows(p) : k < i => k \in Loaded(p) \cup Missed(p)

\* What r may take to be there.  LOAD CSV relies on no row that is excused.
Kept(r, p) == Loaded(p) \cup (IF script[r] = "loadcsv" THEN {} ELSE Missed(p))
All(r, p) == Rows(p) \subseteq Kept(r, p)

\* Row i of phase p is skipped by r, or in one of its first n - 1 parts.
Given(r, p, n, i) ==
  IF script[r] = "loadcsv" THEN (i - 1) % Workers < n - 1
                           ELSE i <= skip[r][p] + (n - 1) * BatchSize

Reached(r, p, i) == Given(r, p, at[r], i)

\* r can still change the graph, or will decide by what it has read of it.
Loading(r) == pc[r] \in Phases \cup {"count", "finish"} \/ flying[r] # {}

-----------------------------------------------------------------------------
(* The invariant.                                                          *)

Joined == \A i \in Rows("edges") : edges[i] > 0 => Joinable(i)

NoGaps == ~analytical => NoHoles("nodes") /\ NoHoles("edges")

\* A pool that loads is the only run that does.
Alone == \A r, q \in Runs : Pool(r) /\ Loading(r) /\ Loading(q) => q = r

\* What is in flight is of this phase, and one batch only in a full load.
Flights(r) ==
  /\ IsFiniteSet(flying[r])
  /\ \A f \in flying[r] : f[2] \subseteq Rows(f[1]) /\ (pc[r] \in Phases => f[1] = pc[r])
  /\ pc[r] \in Phases \cup {"killed"} \/ flying[r] = {}
  /\ ~Pool(r) => \A f, g \in flying[r] : f = g

Course(r) ==
  /\ at[r] >= 1
  /\ pc[r] \in {"idle", "count"} => at[r] = 1
  /\ IF Pool(r) THEN pc[r] # "count" /\ skip[r]["nodes"] = 0 /\ skip[r]["edges"] = 0
                ELSE pc[r] \notin {"finish", "constrain"}
  /\ ~Pool(r) /\ pc[r] \in Phases \cup {"idle", "count"} => ~failed[r]

Mode(r) == Loading(r) => (analytical <=> Pool(r))

\* What r has behind it is in the graph, or excused.
Behind(r) ==
  /\ pc[r] \in {"edges", "finish", "constrain", "done"} => All(r, "nodes")
  /\ pc[r] \in {"finish", "constrain", "done"} => All(r, "edges")
  /\ \A f \in flying[r] : f[1] = "edges" => All(r, "nodes")

\* The rows it skips were there, and are, or are excused.
Skipped(r) ==
  /\ pc[r] = "count" => \A i \in Rows("nodes") : i <= skip[r]["nodes"] => i \in Kept(r, "nodes")
  /\ pc[r] = "nodes" => \A i \in Rows("edges") : i <= skip[r]["edges"] => i \in Kept(r, "edges")

Progress(r) ==
  \A p \in Phases :
    pc[r] = p /\ ~failed[r] =>
      \A i \in Rows(p) : Reached(r, p, i) => i \in Kept(r, p) \/ \E f \in flying[r] : i \in f[2]

\* The batch that a full load has in flight follows on what is loaded.
FollowsOn(r) ==
  ~Pool(r) => \A f \in flying[r] : \A i \in f[2] : \A k \in Rows(f[1]) :
                k < i => k \in f[2] \/ k \in Kept(r, f[1])

\* LOAD CSV creates a row that is not there.
Fresh(r) ==
  script[r] = "loadcsv" =>
    /\ \A f \in flying[r] : \A i \in f[2] : i \notin Loaded(f[1])
    /\ \A f, g \in flying[r] : f[1] = g[1] => f = g \/ f[2] \cap g[2] = {}
    /\ \A p \in Phases :
         pc[r] = p => /\ \A f \in flying[r] : \A i \in f[2] : Reached(r, p, i)
                      /\ \A i \in Loaded(p) : Reached(r, p, i)
    /\ pc[r] = "nodes" => Loaded("edges") = {}

RunInv(r) ==
  /\ Flights(r) /\ Course(r) /\ Mode(r) /\ Behind(r) /\ Skipped(r)
  /\ Progress(r) /\ FollowsOn(r) /\ Fresh(r)

LoadInv == TypeOK /\ Joined /\ NoGaps /\ Alone /\ \A r \in Runs : RunInv(r)

USE BulkLoadAssumption

-----------------------------------------------------------------------------
(* The rows and their counting.                                            *)

LEMMA RowsAre ==
  ASSUME NEW p \in Phases
  PROVE  /\ Rows(p) \subseteq Nat \ {0}
         /\ IsFiniteSet(Rows(p))
         /\ Rows(p) = 1 .. Cardinality(Rows(p))
         /\ Cardinality(Rows(p)) \in Nat
<1>1. PICK n \in Nat : Rows(p) = 1 .. n
  BY DEF Rows
<1>2. IsFiniteSet(1 .. n) /\ Cardinality(1 .. n) = n
  BY FS_Interval
<1>. QED BY <1>1, <1>2

LEMMA RowCounts ==
  Cardinality(Rows("nodes")) = NodeRows /\ Cardinality(Rows("edges")) = EdgeRows
<1>1. Rows("nodes") = 1 .. NodeRows /\ Rows("edges") = 1 .. EdgeRows
  BY DEF Rows
<1>2. Cardinality(1 .. NodeRows) = NodeRows /\ Cardinality(1 .. EdgeRows) = EdgeRows
  BY FS_Interval
<1>. QED BY <1>1, <1>2

LEMMA LoadedAre == LoadedNodes = Loaded("nodes") /\ LoadedEdges = Loaded("edges")
BY DEF LoadedNodes, LoadedEdges, Loaded, Copies

\* Of rows with none but excused ones missing before them, the number says
\* which they are.
LEMMA CountedArePrefix ==
  ASSUME NEW p \in Phases, NoHoles(p)
  PROVE  /\ Cardinality(Loaded(p)) \in 0 .. Cardinality(Rows(p))
         /\ \A i \in Rows(p) : i <= Cardinality(Loaded(p)) => i \in Loaded(p) \cup Missed(p)
<1>1. /\ Loaded(p) \subseteq Rows(p) /\ IsFiniteSet(Rows(p)) /\ Rows(p) \subseteq Nat \ {0}
      /\ Rows(p) = 1 .. Cardinality(Rows(p)) /\ Cardinality(Rows(p)) \in Nat
  BY RowsAre DEF Loaded
<1>2. IsFiniteSet(Loaded(p)) /\ Cardinality(Loaded(p)) <= Cardinality(Rows(p))
  BY <1>1, FS_Subset
<1>3. Cardinality(Loaded(p)) \in Nat
  BY <1>2, FS_CardinalityType
<1>4. ASSUME NEW i \in Rows(p), i \notin Loaded(p) \cup Missed(p)
      PROVE  Cardinality(Loaded(p)) < i
  <2>1. i \in Nat \ {0}
    BY <1>1
  <2>2. Loaded(p) \subseteq 1 .. (i - 1)
    <3>. SUFFICES ASSUME NEW k \in Loaded(p) PROVE k \in 1 .. (i - 1)
      OBVIOUS
    <3>1. k \in Nat \ {0} /\ k # i
      BY <1>1, <1>4
    <3>2. ~(i < k)
      BY <1>4 DEF NoHoles
    <3>. QED BY <2>1, <3>1, <3>2
  <2>3. IsFiniteSet(1 .. (i - 1)) /\ Cardinality(1 .. (i - 1)) = i - 1
    <3>1. i - 1 \in Nat
      BY <2>1
    <3>. DEFINE m == i - 1
    <3>2. m \in Nat
      BY <3>1
    <3>. HIDE DEF m
    <3>3. IsFiniteSet(1 .. m) /\ Cardinality(1 .. m) = m
      BY <3>2, FS_Interval
    <3>. QED BY <3>3 DEF m
  <2>4. Cardinality(Loaded(p)) <= i - 1
    <3>1. Cardinality(Loaded(p)) <= Cardinality(1 .. (i - 1))
      BY <2>2, <2>3, FS_Subset
    <3>. QED BY <2>3, <3>1
  <2>. QED BY <1>3, <2>1, <2>4
<1>5. Cardinality(Loaded(p)) \in 0 .. Cardinality(Rows(p))
  BY <1>1, <1>2, <1>3
<1>6. ASSUME NEW i \in Rows(p), i <= Cardinality(Loaded(p)) PROVE i \in Loaded(p) \cup Missed(p)
  <2>1. i \in Nat
    BY <1>1
  <2>. QED BY <1>3, <1>4, <1>6, <2>1
<1>. QED BY <1>5, <1>6

-----------------------------------------------------------------------------
(* The parts.                                                              *)

\* The first n parts are the first n - 1 and the n-th, which shares no row
\* with them, and when there is no n-th part no row is left.
LEMMA PartsOfRows ==
  ASSUME TypeOK, NEW r \in Runs, pc[r] \in Phases, NEW n \in Nat \ {0}
  PROVE  /\ Part(r, n) \subseteq Rows(pc[r])
         /\ \A i \in Rows(pc[r]) :
              /\ Given(r, pc[r], n + 1, i) <=> Given(r, pc[r], n, i) \/ i \in Part(r, n)
              /\ i \in Part(r, n) => ~Given(r, pc[r], n, i)
              /\ Past(r, n) => Given(r, pc[r], n, i)
<1>. DEFINE p == pc[r]
            d == skip[r][p]
<1>1. /\ p \in Phases /\ Rows(p) \subseteq Nat \ {0} /\ Rows(p) = 1 .. Cardinality(Rows(p))
      /\ Cardinality(Rows(p)) \in Nat
  BY RowsAre
<1>2. d \in Nat
  BY <1>1 DEF TypeOK, Phases
<1>. HIDE DEF d
<1>3. CASE script[r] = "loadcsv"
  <2>1. Part(r, n) = {i \in Rows(p) : (i - 1) % Workers = n - 1}
    BY <1>3 DEF Part, Shard
  <2>2. ASSUME NEW i \in Rows(p)
        PROVE  (i - 1) % Workers \in 0 .. (Workers - 1)
    <3>1. i - 1 \in Nat
      BY <1>1
    <3>. QED BY <3>1
  <2>3. ASSUME NEW i \in Rows(p)
        PROVE  /\ Given(r, p, n + 1, i) <=> Given(r, p, n, i) \/ i \in Part(r, n)
               /\ i \in Part(r, n) => ~Given(r, p, n, i)
    <3>. DEFINE m == (i - 1) % Workers
    <3>1. m \in Int
      BY <2>2
    <3>2. /\ Given(r, p, n + 1, i) <=> m < n + 1 - 1
          /\ Given(r, p, n, i) <=> m < n - 1
          /\ i \in Part(r, n) <=> m = n - 1
      BY <1>3, <2>1 DEF Given
    <3>. HIDE DEF m
    <3>. QED BY <3>1, <3>2
  <2>4. ASSUME NEW i \in Rows(p), Past(r, n) PROVE Given(r, p, n, i)
    <3>1. n > Workers
      BY <1>3, <2>4 DEF Past
    <3>. QED BY <1>3, <2>2, <3>1 DEF Given
  <2>. QED BY <2>1, <2>3, <2>4
<1>4. CASE script[r] # "loadcsv"
  <2>. DEFINE b == d + (n - 1) * BatchSize
  <2>1. b \in Nat /\ d + n * BatchSize = b + BatchSize
    <3>1. (n - 1) * BatchSize \in Nat /\ n * BatchSize = (n - 1) * BatchSize + BatchSize
      OBVIOUS
    <3>. QED BY <1>2, <3>1
  <2>2. Part(r, n) = {i \in Rows(p) : b < i /\ i <= b + BatchSize}
    BY <1>4, <2>1 DEF Part, Batch, d
  <2>3. ASSUME NEW i \in Rows(p)
        PROVE  /\ Given(r, p, n, i) <=> i <= b
               /\ Given(r, p, n + 1, i) <=> i <= b + BatchSize
    <3>1. n + 1 - 1 = n
      OBVIOUS
    <3>. QED BY <1>4, <2>1, <3>1 DEF Given, d
  <2>. HIDE DEF b
  <2>4. ASSUME NEW i \in Rows(p)
        PROVE  /\ Given(r, p, n + 1, i) <=> Given(r, p, n, i) \/ i \in Part(r, n)
               /\ i \in Part(r, n) => ~Given(r, p, n, i)
    BY <1>1, <2>1, <2>2, <2>3
  <2>5. ASSUME NEW i \in Rows(p), Past(r, n) PROVE Given(r, p, n, i)
    <3>1. Part(r, n) = {}
      BY <1>4, <2>5 DEF Past
    <3>. SUFFICES ASSUME ~(i <= b) PROVE FALSE
      BY <2>3
    <3>2. b + 1 \in Rows(p)
      BY <1>1, <2>1
    <3>3. b < b + 1 /\ b + 1 <= b + BatchSize
      BY <2>1
    <3>. QED BY <2>2, <3>1, <3>2, <3>3
  <2>. QED BY <2>2, <2>4, <2>5
<1>. QED BY <1>3, <1>4

\* A batch follows on the rows before it.
LEMMA BatchFollows ==
  ASSUME TypeOK, NEW r \in Runs, pc[r] \in Phases, NEW n \in Nat \ {0}, ~Pool(r),
         NEW i \in Part(r, n), NEW k \in Rows(pc[r]), k < i
  PROVE  k \in Part(r, n) \/ Given(r, pc[r], n, k)
<1>1. Rows(pc[r]) \subseteq Nat \ {0} /\ skip[r][pc[r]] \in Nat
  BY RowsAre DEF TypeOK, Phases
<1>2. script[r] # "loadcsv" /\ Part(r, n) = Batch(pc[r], skip[r][pc[r]], n)
  BY DEF Pool, Part
<1>. DEFINE b == skip[r][pc[r]] + (n - 1) * BatchSize
            c == skip[r][pc[r]] + n * BatchSize
<1>3. b \in Int /\ c \in Int
  BY <1>1
<1>4. /\ Part(r, n) = {j \in Rows(pc[r]) : b < j /\ j <= c}
      /\ Given(r, pc[r], n, k) <=> k <= b
  BY <1>2 DEF Batch, Given
<1>. HIDE DEF b, c
<1>. QED BY <1>1, <1>3, <1>4

\* Before its first part a run is given what it skips.
LEMMA FirstPart ==
  ASSUME NEW r \in Runs, NEW p \in Phases, skip[r][p] \in Nat, NEW i \in Rows(p)
  PROVE  Given(r, p, 1, i) <=> script[r] # "loadcsv" /\ i <= skip[r][p]
<1>1. i \in Nat \ {0}
  BY RowsAre
<1>2. ~((i - 1) % Workers < 1 - 1)
  BY <1>1
<1>3. skip[r][p] + (1 - 1) * BatchSize = skip[r][p]
  OBVIOUS
<1>. QED BY <1>2, <1>3 DEF Given

-----------------------------------------------------------------------------
(* What a step leaves alone.                                               *)

Untouched(r) ==
  /\ script' = script
  /\ pc'[r] = pc[r]
  /\ skip'[r] = skip[r]
  /\ at'[r] = at[r]
  /\ flying'[r] = flying[r]
  /\ failed'[r] = failed[r]

Grown == \A p \in Phases : Loaded(p) \subseteq Loaded(p)' /\ Missed(p) \subseteq Missed(p)'

LEMMA GraphStays ==
  ASSUME UNCHANGED graphVars
  PROVE  Grown /\ \A p \in Phases : Loaded(p)' = Loaded(p) /\ Missed(p)' = Missed(p)
BY DEF graphVars, Grown, Loaded, Missed, Copies, Excused

LEMMA KeptStays ==
  ASSUME Grown, NEW r \in Runs, NEW p \in Phases, script' = script
  PROVE  Kept(r, p) \subseteq Kept(r, p)'
BY DEF Grown, Kept

LEMMA AllStays ==
  ASSUME Grown, NEW r \in Runs, NEW p \in Phases, All(r, p), script' = script
  PROVE  All(r, p)'
BY KeptStays DEF All

\* Where a run has come to is a matter of its script, what it skips and at.
LEMMA GivenStays ==
  ASSUME NEW r \in Runs, NEW p \in Phases, NEW n \in Nat, NEW i \in Rows(p),
         script' = script, skip'[r][p] = skip[r][p]
  PROVE  Given(r, p, n, i)' <=> Given(r, p, n, i)
BY DEF Given

LEMMA ReachedIs ==
  ASSUME NEW r \in Runs, NEW p \in Phases, NEW n \in Nat, NEW i \in Rows(p)
  PROVE  /\ at[r] = n => (Reached(r, p, i) <=> Given(r, p, n, i))
         /\ at'[r] = n => (Reached(r, p, i)' <=> Given(r, p, n, i)')
BY DEF Reached, Given

LEMMA ReachedStays ==
  ASSUME NEW r \in Runs, NEW p \in Phases, NEW i \in Rows(p), script' = script,
         skip'[r][p] = skip[r][p], at'[r] = at[r]
  PROVE  Reached(r, p, i)' <=> Reached(r, p, i)
BY DEF Reached, Given

LEMMA FlightIs ==
  ASSUME TypeOK, NEW r \in Runs, NEW f \in flying[r]
  PROVE  /\ f[1] \in Phases
         /\ f = <<f[1], f[2]>>
         /\ Flights(r) => f[2] \subseteq Rows(f[1])
BY DEF TypeOK, Flights

\* A run that a step leaves alone keeps its part of the invariant, whoever
\* loads, and a LOAD CSV does if nobody else loads.
LEMMA OtherStays ==
  ASSUME TypeOK, NEW r \in Runs, RunInv(r), Untouched(r), Grown,
         Loading(r) => analytical' = analytical,
         script[r] = "loadcsv" /\ Loading(r) => UNCHANGED graphVars
  PROVE  RunInv(r)'
<1>1. Flights(r)' /\ Course(r)'
  BY DEF RunInv, Untouched, Flights, Course, Pool
<1>2. Mode(r)'
  BY DEF RunInv, Untouched, Mode, Loading, Pool
<1>3. Behind(r)'
  <2>1. \A p \in Phases : All(r, p) => All(r, p)'
    BY AllStays DEF Untouched
  <2>2. "nodes" \in Phases /\ "edges" \in Phases
    BY DEF Phases
  <2>. QED BY <2>1, <2>2 DEF RunInv, Untouched, Behind
<1>4. Skipped(r)'
  BY KeptStays DEF RunInv, Untouched, Skipped, Phases
<1>5. Progress(r)'
  <2>. SUFFICES ASSUME NEW p \in Phases, pc[r] = p, ~failed[r], NEW i \in Rows(p), Reached(r, p, i)
                PROVE  i \in Kept(r, p)' \/ \E f \in flying[r] : i \in f[2]
    BY ReachedStays DEF Progress, Untouched
  <2>1. i \in Kept(r, p) \/ \E f \in flying[r] : i \in f[2]
    BY DEF RunInv, Progress
  <2>. QED BY <2>1, KeptStays DEF Untouched
<1>6. FollowsOn(r)'
  <2>. SUFFICES ASSUME ~Pool(r), NEW f \in flying[r], NEW i \in f[2], NEW k \in Rows(f[1]), k < i
                PROVE  k \in f[2] \/ k \in Kept(r, f[1])'
    BY DEF FollowsOn, Untouched, Pool
  <2>1. k \in f[2] \/ k \in Kept(r, f[1])
    BY DEF RunInv, FollowsOn
  <2>2. f[1] \in Phases
    BY FlightIs DEF RunInv
  <2>3. Kept(r, f[1]) \subseteq Kept(r, f[1])'
    BY <2>2, KeptStays DEF Untouched
  <2>. QED BY <2>1, <2>3
<1>7. Fresh(r)'
  <2>. SUFFICES ASSUME script[r] = "loadcsv"
                PROVE  Fresh(r)'
    BY DEF Fresh, Untouched
  <2>1. CASE Loading(r)
    <3>1. \A p \in Phases : Loaded(p)' = Loaded(p)
      BY <2>1, GraphStays
    <3>2. \A f \in flying[r] : f[1] \in Phases /\ f[2] \subseteq Rows(f[1])
      BY FlightIs DEF RunInv
    <3>3. \A f \in flying[r] : Loaded(f[1])' = Loaded(f[1])
      BY <3>1, <3>2
    <3>4. \A p \in Phases : \A i \in Rows(p) : Reached(r, p, i)' <=> Reached(r, p, i)
      BY ReachedStays DEF Untouched
    <3>5. \A f \in flying[r] : pc[r] \in Phases => f[1] = pc[r]
      BY DEF RunInv, Flights
    <3>6. \A p \in Phases : Loaded(p) \subseteq Rows(p)
      BY DEF Loaded
    <3>7. \A p \in Phases : pc[r] = p =>
            /\ \A f \in flying[r] : \A i \in f[2] : Reached(r, p, i)'
            /\ \A i \in Loaded(p)' : Reached(r, p, i)'
      BY <3>1, <3>2, <3>4, <3>5, <3>6 DEF RunInv, Fresh
    <3>8. pc[r] = "nodes" => Loaded("edges")' = {}
      BY <3>1 DEF RunInv, Fresh, Phases
    <3>. QED BY <3>3, <3>7, <3>8 DEF RunInv, Fresh, Untouched
  <2>2. CASE ~Loading(r)
    BY <2>2 DEF Loading, Fresh, Untouched, Phases
  <2>. QED BY <2>1, <2>2
<1>. QED BY <1>1, <1>2, <1>3, <1>4, <1>5, <1>6, <1>7 DEF RunInv

LEMMA AloneStays ==
  ASSUME Alone, script' = script, \A r \in Runs : Loading(r)' => Loading(r)
  PROVE  Alone'
BY DEF Alone, Pool

-----------------------------------------------------------------------------
(* Each action, for the run that takes it.                                 *)

Places == Phases \cup {"idle", "count", "finish", "constrain", "done", "raised", "killed"}

LEMMA RunTypes ==
  ASSUME TypeOK, NEW r \in Runs
  PROVE  /\ skip[r]["nodes"] \in Nat /\ skip[r]["edges"] \in Nat
         /\ at[r] \in Nat
         /\ pc \in [Runs -> Places] /\ at \in [Runs -> Nat]
         /\ DOMAIN skip = Runs /\ DOMAIN skip[r] = {"nodes", "edges"}
         /\ DOMAIN flying = Runs /\ DOMAIN failed = Runs
BY DEF TypeOK, Places

\* A run that is in neither phase and has nothing in flight.
LEMMA OutOfPhase ==
  ASSUME NEW r \in Runs, pc'[r] \notin Phases, flying'[r] = {}
  PROVE  Progress(r)' /\ FollowsOn(r)' /\ Fresh(r)'
BY DEF Progress, FollowsOn, Fresh, Phases

\* A run whose process ends; a killed one may have sent what is not answered.
LEMMA RunEnded ==
  ASSUME TypeOK, NEW r \in Runs, RunInv(r), NEW l \in {"done", "raised", "killed"}, Exits(r, l),
         script' = script, analytical' = analytical, Grown,
         l = "done" => All(r, "nodes") /\ All(r, "edges"),
         \/ flying'[r] = {}
         \/ l = "killed" /\ flying'[r] = flying[r] /\ \A p \in Phases : Loaded(p)' = Loaded(p)
  PROVE  RunInv(r)'
<1>1. /\ pc'[r] = l /\ at'[r] = 1 /\ ~failed'[r] /\ pc'[r] \notin Phases
      /\ skip'[r]["nodes"] = 0 /\ skip'[r]["edges"] = 0
  BY RunTypes DEF Exits, Goto, NoneSkipped, Phases
<1>2. \A p \in Phases : All(r, p) => All(r, p)'
  BY AllStays
<1>3. CASE flying'[r] = {}
  <2>1. Flights(r)' /\ Course(r)' /\ Mode(r)'
    BY <1>1, <1>3, FS_EmptySet DEF Flights, Course, Mode, Loading, Pool, Phases
  <2>2. Behind(r)' /\ Skipped(r)'
    BY <1>1, <1>2, <1>3 DEF Behind, Skipped, Phases
  <2>. QED BY <1>1, <1>3, <2>1, <2>2, OutOfPhase DEF RunInv
<1>4. CASE l = "killed" /\ flying'[r] = flying[r] /\ \A p \in Phases : Loaded(p)' = Loaded(p)
  <2>1. Flights(r)'
    BY <1>1, <1>4 DEF RunInv, Flights, Pool, Phases
  <2>5. Course(r)'
    BY <1>1, <1>4 DEF Course, Pool, Phases
  <2>6. Mode(r)'
    BY <1>1, <1>4 DEF RunInv, Mode, Loading, Pool, Phases
  <2>2. Behind(r)' /\ Skipped(r)'
    BY <1>1, <1>2, <1>4 DEF RunInv, Behind, Skipped, Phases
  <2>3. \A f \in flying[r] : /\ f[1] \in Phases /\ Loaded(f[1])' = Loaded(f[1])
                             /\ Kept(r, f[1]) \subseteq Kept(r, f[1])'
    BY <1>4, FlightIs, KeptStays
  <2>4. FollowsOn(r)' /\ Fresh(r)' /\ Progress(r)'
    BY <1>1, <1>4, <2>3 DEF RunInv, FollowsOn, Fresh, Progress, Pool, Phases
  <2>. QED BY <2>1, <2>2, <2>4, <2>5, <2>6 DEF RunInv
<1>. QED BY <1>3, <1>4

LEMMA FullBegun ==
  ASSUME LoadInv, NEW r \in Runs, BeginFull(r)
  PROVE  RunInv(r)'
<1>0. RunInv(r) /\ TypeOK
  BY DEF LoadInv
<1>1. /\ pc[r] = "idle" /\ ~Pool(r) /\ flying[r] = {} /\ at[r] = 1 /\ ~failed[r]
      /\ script' = script /\ analytical' = analytical
      /\ at'[r] = at[r] /\ flying'[r] = flying[r] /\ failed'[r] = failed[r]
      /\ Grown /\ \A p \in Phases : Loaded(p)' = Loaded(p) /\ Missed(p)' = Missed(p)
      /\ Kept(r, "nodes")' = Loaded("nodes") \cup Missed("nodes")
  BY <1>0, GraphStays DEF BeginFull, RunInv, Flights, Course, Kept, Pool, Phases
<1>2. CASE Constrains
  <2>1. pc'[r] = "count" /\ skip'[r]["nodes"] = Cardinality(Loaded("nodes")) /\ ~analytical
    BY <1>0, <1>2, RunTypes, LoadedAre DEF BeginFull, Goto, Constrains
  <2>2. NoHoles("nodes")
    BY <2>1 DEF LoadInv, NoGaps
  <2>3. Skipped(r)'
    BY <1>1, <2>1, <2>2, CountedArePrefix DEF Skipped, Phases
  <2>. QED
    BY <1>0, <1>1, <2>1, <2>3, OutOfPhase
       DEF RunInv, Flights, Course, Mode, Behind, Pool, Phases
<1>3. CASE ~Constrains
  <2>1. pc'[r] = "raised"
    BY <1>0, <1>3, RunTypes DEF BeginFull, Goto
  <2>. QED
    BY <1>0, <1>1, <2>1, OutOfPhase
       DEF RunInv, Flights, Course, Mode, Loading, Behind, Skipped, Pool, Phases
<1>. QED BY <1>2, <1>3

LEMMA PoolBegun ==
  ASSUME LoadInv, NEW r \in Runs, BeginPool(r)
  PROVE  RunInv(r)'
<1>0. RunInv(r) /\ TypeOK
  BY DEF LoadInv
<1>1. /\ pc[r] = "idle" /\ Pool(r) /\ flying[r] = {} /\ at[r] = 1
      /\ skip[r]["nodes"] = 0 /\ skip[r]["edges"] = 0
      /\ script' = script /\ skip' = skip
      /\ at'[r] = at[r] /\ flying'[r] = flying[r] /\ failed'[r] = failed[r]
      /\ Grown /\ \A p \in Phases : Loaded(p)' = Loaded(p)
      /\ script[r] = "loadcsv" => Loaded("nodes") = {}
  BY <1>0, GraphStays, LoadedAre DEF BeginPool, RunInv, Flights, Course, Phases
<1>2. CASE pc'[r] = "nodes" /\ analytical'
  <2>1. Skipped(r)'
    BY <1>1, <1>2, RowsAre DEF Skipped, Phases
  <2>2. \A i \in Rows("nodes") : ~Reached(r, "nodes", i)'
    <3>. SUFFICES ASSUME NEW i \in Rows("nodes") PROVE ~Reached(r, "nodes", i)
      BY <1>1, ReachedStays DEF Phases
    <3>1. i \in Nat \ {0}
      BY RowsAre DEF Phases
    <3>2. Reached(r, "nodes", i) <=> Given(r, "nodes", 1, i)
      BY <1>1, ReachedIs DEF Phases
    <3>3. ~Given(r, "nodes", 1, i)
      BY <1>1, <3>1, FirstPart DEF Phases
    <3>. QED BY <3>2, <3>3
  <2>3. Progress(r)' /\ FollowsOn(r)'
    BY <1>1, <1>2, <2>2 DEF Progress, FollowsOn
  <2>4. Fresh(r)'
    <3>1. script[r] = "loadcsv" => Loaded("edges") = {}
      BY <1>1 DEF LoadInv, Joined, Joinable, LoadedNodes, Loaded, Copies
    <3>. QED BY <1>1, <1>2, <3>1 DEF Fresh, Phases
  <2>. QED
    BY <1>0, <1>1, <1>2, <2>1, <2>3, <2>4 DEF RunInv, Flights, Course, Mode, Behind, Pool, Phases
<1>3. CASE pc'[r] = "raised"
  BY <1>0, <1>1, <1>3, OutOfPhase
     DEF RunInv, Flights, Course, Mode, Loading, Behind, Skipped, Pool, Phases
<1>4. (pc'[r] = "nodes" /\ analytical') \/ pc'[r] = "raised"
  BY <1>0, RunTypes DEF BeginPool, Goto
<1>. QED BY <1>2, <1>3, <1>4

LEMMA EdgesCounted ==
  ASSUME LoadInv, NEW r \in Runs, CountEdges(r)
  PROVE  RunInv(r)'
<1>0. RunInv(r) /\ TypeOK
  BY DEF LoadInv
<1>1. /\ pc[r] = "count" /\ pc'[r] = "nodes" /\ ~Pool(r) /\ flying[r] = {} /\ at[r] = 1
      /\ ~failed[r] /\ ~analytical
      /\ skip'[r]["nodes"] = skip[r]["nodes"] /\ skip[r]["nodes"] \in Nat
      /\ skip'[r]["edges"] = Cardinality(Loaded("edges"))
      /\ script' = script /\ analytical' = analytical
      /\ at'[r] = at[r] /\ flying'[r] = flying[r] /\ failed'[r] = failed[r]
      /\ Grown /\ \A p \in Phases : Loaded(p)' = Loaded(p) /\ Missed(p)' = Missed(p)
      /\ \A p \in Phases : /\ Kept(r, p)' = Loaded(p) \cup Missed(p)
                            /\ Kept(r, p) = Loaded(p) \cup Missed(p)
  BY <1>0, RunTypes, GraphStays, LoadedAre
     DEF CountEdges, Goto, modeVars, RunInv, Flights, Course, Mode, Loading, Kept, Pool, Phases
<1>2. Skipped(r)'
  <2>1. NoHoles("edges")
    BY <1>1 DEF LoadInv, NoGaps
  <2>. QED BY <1>1, <2>1, CountedArePrefix DEF Skipped, Phases
<1>3. Progress(r)'
  <2>. SUFFICES ASSUME NEW i \in Rows("nodes"), Reached(r, "nodes", i)'
                PROVE  i \in Kept(r, "nodes")'
    BY <1>1 DEF Progress
  <2>1. Given(r, "nodes", 1, i)
    BY <1>1, ReachedIs, GivenStays DEF Phases
  <2>2. i <= skip[r]["nodes"]
    BY <1>1, <2>1, FirstPart DEF Phases
  <2>. QED BY <1>0, <1>1, <2>2 DEF RunInv, Skipped, Phases
<1>4. FollowsOn(r)' /\ Fresh(r)'
  BY <1>1 DEF FollowsOn, Fresh, Pool
<1>. QED
  BY <1>0, <1>1, <1>2, <1>3, <1>4 DEF RunInv, Flights, Course, Mode, Behind, Pool, Phases

LEMMA PhaseEnded ==
  ASSUME LoadInv, NEW r \in Runs, EndPhase(r)
  PROVE  RunInv(r)'
<1>0. RunInv(r) /\ TypeOK
  BY DEF LoadInv
<1>1. /\ pc[r] \in Phases /\ flying[r] = {} /\ Past(r, at[r])
      /\ IF failed[r] THEN Exits(r, "raised") ELSE NextPhase(r)
      /\ script' = script /\ analytical' = analytical /\ flying'[r] = flying[r]
      /\ Grown /\ \A p \in Phases : Kept(r, p)' = Kept(r, p)
      /\ skip[r]["edges"] \in Nat
  BY <1>0, RunTypes, GraphStays DEF EndPhase, modeVars, Kept
<1>2. CASE failed[r]
  BY <1>0, <1>1, <1>2, RunEnded
<1>3. ASSUME ~failed[r], NEW p \in Phases, pc[r] = p
      PROVE  All(r, p)
  <2>. SUFFICES ASSUME NEW i \in Rows(p) PROVE i \in Kept(r, p)
    BY DEF All
  <2>1. at[r] \in Nat \ {0}
    BY <1>0, RunTypes DEF RunInv, Course
  <2>2. Given(r, p, at[r], i)
    BY <1>0, <1>1, <1>3, <2>1, PartsOfRows
  <2>3. Reached(r, p, i)
    BY <2>2 DEF Reached
  <2>. QED BY <1>0, <1>1, <1>3, <2>3 DEF RunInv, Progress
<1>4. CASE ~failed[r] /\ pc[r] = "nodes"
  <2>1. /\ pc'[r] = "edges" /\ All(r, "nodes")'
        /\ at'[r] = 1 /\ skip' = skip /\ failed'[r] = failed[r]
    BY <1>0, <1>1, <1>3, <1>4, AllStays, RunTypes DEF NextPhase, Goto, Phases
  <2>2. ASSUME NEW i \in Rows("edges"), Reached(r, "edges", i)'
        PROVE  script[r] # "loadcsv" /\ i \in Kept(r, "edges")
    <3>1. Given(r, "edges", 1, i)
      BY <1>1, <2>1, <2>2, ReachedIs, GivenStays DEF Phases
    <3>2. script[r] # "loadcsv" /\ i <= skip[r]["edges"]
      BY <1>1, <3>1, FirstPart DEF Phases
    <3>. QED BY <1>0, <1>4, <3>2 DEF RunInv, Skipped
  <2>3. Progress(r)'
    BY <1>1, <2>1, <2>2 DEF Progress, Phases
  <2>4. FollowsOn(r)' /\ Fresh(r)'
    <3>1. script[r] = "loadcsv" => Loaded("edges")' = {}
      <4>1. script[r] = "loadcsv" => Loaded("edges") = {} /\ Kept(r, "edges") = Loaded("edges")
        BY <1>0, <1>4 DEF RunInv, Fresh, Kept
      <4>2. script[r] = "loadcsv" => Loaded("edges")' = Kept(r, "edges")'
        BY <1>1 DEF Kept
      <4>. QED BY <1>1, <4>1, <4>2 DEF Phases
    <3>. QED BY <1>0, <1>1, <1>4, <2>1, <3>1 DEF RunInv, FollowsOn, Fresh, Phases
  <2>. QED
    BY <1>0, <1>1, <1>4, <2>1, <2>3, <2>4
       DEF RunInv, Flights, Course, Mode, Loading, Behind, Skipped, Pool, Phases
<1>5. CASE ~failed[r] /\ pc[r] = "edges"
  <2>1. All(r, "nodes") /\ All(r, "edges")
    BY <1>0, <1>3, <1>5 DEF RunInv, Behind, Phases
  <2>2. CASE Pool(r)
    <3>1. /\ pc'[r] = "finish" /\ All(r, "nodes")' /\ All(r, "edges")'
          /\ at'[r] = 1 /\ skip' = skip /\ failed'[r] = failed[r]
      BY <1>0, <1>1, <1>5, <2>1, <2>2, AllStays, RunTypes DEF NextPhase, Goto, Phases
    <3>4. /\ flying'[r] = {} /\ script' = script /\ analytical' = analytical /\ pc[r] = "edges"
          /\ Flights(r) /\ Course(r) /\ Mode(r)
      BY <1>0, <1>1, <1>5 DEF RunInv
    <3>5. Flights(r)'
      BY <3>1, <3>4, FS_EmptySet DEF Flights
    <3>6. Course(r)'
      BY <2>2, <3>1, <3>4 DEF Course, Pool, Phases
    <3>2. Mode(r)'
      BY <3>1, <3>4 DEF Mode, Loading, Pool, Phases
    <3>3. Behind(r)' /\ Skipped(r)'
      BY <1>1, <3>1 DEF Behind, Skipped
    <3>. QED BY <3>1, <3>2, <3>3, <3>4, <3>5, <3>6, OutOfPhase DEF RunInv, Phases
  <2>3. CASE ~Pool(r)
    <3>1. Exits(r, "done")
      BY <1>1, <1>5, <2>3 DEF NextPhase
    <3>. QED BY <1>0, <1>1, <2>1, <3>1, RunEnded
  <2>. QED BY <2>2, <2>3
<1>. QED BY <1>1, <1>2, <1>4, <1>5 DEF Phases

\* The end of a pool, and a kill.
LEMMA SwitchedBack ==
  ASSUME LoadInv, NEW r \in Runs, SwitchBack(r)
  PROVE  RunInv(r)'
<1>0. RunInv(r) /\ TypeOK
  BY DEF LoadInv
<1>1. /\ pc[r] = "finish" /\ pc'[r] = "constrain" /\ flying[r] = {}
      /\ script' = script /\ skip' = skip /\ at'[r] = at[r]
      /\ flying'[r] = flying[r] /\ failed'[r] = failed[r]
      /\ Grown
  BY <1>0, RunTypes, GraphStays DEF SwitchBack, Goto, RunInv, Flights, Phases
<1>2. Behind(r)'
  BY <1>0, <1>1, AllStays DEF RunInv, Behind, Phases
<1>. QED
  BY <1>0, <1>1, <1>2, OutOfPhase
     DEF RunInv, Flights, Course, Mode, Loading, Skipped, Pool, Phases

LEMMA PoolFinished ==
  ASSUME LoadInv, NEW r \in Runs, Finish(r)
  PROVE  RunInv(r)'
<1>0. RunInv(r) /\ TypeOK
  BY DEF LoadInv
<1>1. /\ pc[r] = "constrain" /\ pc'[r] \in {"done", "raised"} /\ flying[r] = {}
      /\ script' = script /\ skip' = skip /\ at'[r] = at[r]
      /\ flying'[r] = flying[r] /\ failed'[r] = failed[r]
      /\ Grown
  BY <1>0, RunTypes, GraphStays DEF Finish, Goto, RunInv, Flights, Phases
<1>2. Behind(r)'
  BY <1>0, <1>1, AllStays DEF RunInv, Behind, Phases
<1>. QED
  BY <1>0, <1>1, <1>2, OutOfPhase
     DEF RunInv, Flights, Course, Mode, Loading, Skipped, Pool, Phases

LEMMA RunKilled ==
  ASSUME LoadInv, NEW r \in Runs, Killed(r)
  PROVE  RunInv(r)'
<1>1. RunInv(r) /\ TypeOK
  BY DEF LoadInv
<1>2. /\ Exits(r, "killed")
      /\ script' = script /\ analytical' = analytical /\ flying'[r] = flying[r]
      /\ Grown /\ \A p \in Phases : Loaded(p)' = Loaded(p)
  BY <1>1, GraphStays DEF Killed, modeVars
<1>. QED BY <1>1, <1>2, RunEnded

-----------------------------------------------------------------------------
(* Sending.                                                                *)

LEMMA PartSent ==
  ASSUME LoadInv, NEW r \in Runs, Send(r)
  PROVE  RunInv(r)'
<1>0. RunInv(r) /\ TypeOK
  BY DEF LoadInv
<1>. DEFINE new == Part(r, at[r])
<1>1. PICK p \in Phases : pc[r] = p
  BY DEF Send
<1>2. /\ pc'[r] = pc[r] /\ script' = script /\ analytical' = analytical /\ skip' = skip
      /\ failed'[r] = failed[r]
      /\ at[r] \in Nat \ {0} /\ at'[r] = at[r] + 1
      /\ flying'[r] = flying[r] \cup {<<p, new>>}
      /\ Cardinality(flying[r]) < AtOnce(r) /\ IsFiniteSet(flying[r])
      /\ Grown /\ \A q \in Phases : Loaded(q)' = Loaded(q) /\ Kept(r, q)' = Kept(r, q)
  BY <1>0, <1>1, RunTypes, GraphStays DEF Send, modeVars, RunInv, Course, Flights, Kept
<1>3. /\ new \subseteq Rows(p)
      /\ \A i \in Rows(p) :
           /\ Given(r, p, at[r] + 1, i) <=> Given(r, p, at[r], i) \/ i \in new
           /\ i \in new => ~Given(r, p, at[r], i)
  BY <1>0, <1>1, <1>2, PartsOfRows
<1>4. \A i \in Rows(p) :
        /\ Reached(r, p, i) <=> Given(r, p, at[r], i)
        /\ Reached(r, p, i)' <=> Reached(r, p, i) \/ i \in new
  <2>. SUFFICES ASSUME NEW i \in Rows(p)
                PROVE  /\ Reached(r, p, i) <=> Given(r, p, at[r], i)
                       /\ Reached(r, p, i)' <=> Reached(r, p, i) \/ i \in new
    OBVIOUS
  <2>. DEFINE n == at[r]
  <2>1. n \in Nat /\ n + 1 \in Nat /\ at[r] = n /\ at'[r] = n + 1
    BY <1>2
  <2>2. Given(r, p, n + 1, i) <=> Given(r, p, n, i) \/ i \in new
    BY <1>3
  <2>. HIDE DEF n, new
  <2>3. Reached(r, p, i) <=> Given(r, p, n, i)
    BY <2>1, ReachedIs
  <2>4. Reached(r, p, i)' <=> Given(r, p, n + 1, i)
    BY <1>2, <2>1, ReachedIs, GivenStays
  <2>5. Reached(r, p, i) <=> Given(r, p, at[r], i)
    BY DEF Reached
  <2>. QED BY <2>2, <2>3, <2>4, <2>5
<1>5. \A f \in flying[r] : f[1] = p /\ f[2] \subseteq Rows(p)
  BY <1>0, <1>1 DEF RunInv, Flights
<1>6. ~Pool(r) => flying[r] = {}
  <2>1. ASSUME ~Pool(r) PROVE flying[r] = {}
    <3>1. Cardinality(flying[r]) < 1
      BY <1>2, <2>1 DEF AtOnce
    <3>2. Cardinality(flying[r]) \in Nat
      BY <1>2, FS_CardinalityType
    <3>3. Cardinality(flying[r]) = 0
      BY <3>1, <3>2
    <3>. QED BY <1>2, <3>3, FS_EmptySet
  <2>. QED BY <2>1
<1>7. ~Pool(r) => ~failed[r]
  BY <1>0, <1>1 DEF RunInv, Course
<1>8. \A i \in Rows(p) : ~failed[r] /\ Reached(r, p, i) =>
                           i \in Kept(r, p) \/ \E f \in flying[r] : i \in f[2]
  BY <1>0, <1>1 DEF RunInv, Progress
<1>9. ~Pool(r) => \A i \in new : \A k \in Rows(p) : k < i => k \in new \/ k \in Kept(r, p)
  BY <1>0, <1>1, <1>2, <1>4, <1>6, <1>7, <1>8, BatchFollows
<1>. HIDE DEF new
<1>10. Flights(r)'
  <2>1. IsFiniteSet(flying[r] \cup {<<p, new>>})
    BY <1>2, FS_AddElement
  <2>2. /\ pc'[r] = p /\ p \in Phases /\ script' = script /\ new \subseteq Rows(p)
        /\ flying'[r] = flying[r] \cup {<<p, new>>} /\ IsFiniteSet(flying'[r])
    BY <1>1, <1>2, <1>3, <2>1
  <2>3. \A f \in flying'[r] : f[1] = p /\ f[2] \subseteq Rows(p)
    BY <1>5, <2>2
  <2>4. ~Pool(r)' => \A f, g \in flying'[r] : f = g
    BY <1>6, <2>2 DEF Pool
  <2>. QED BY <2>2, <2>3, <2>4 DEF Flights
<1>11. Course(r)' /\ Mode(r)'
  BY <1>0, <1>1, <1>2 DEF RunInv, Course, Mode, Loading, Pool, Phases
<1>12. Behind(r)' /\ Skipped(r)'
  BY <1>0, <1>1, <1>2, AllStays DEF RunInv, Behind, Skipped, Phases
<1>13. Progress(r)'
  <2>. SUFFICES ASSUME ~failed[r], NEW i \in Rows(p), Reached(r, p, i)'
                PROVE  i \in Kept(r, p) \/ \E f \in flying'[r] : i \in f[2]
    BY <1>1, <1>2 DEF Progress
  <2>1. CASE i \in new
    <3>1. <<p, new>> \in flying'[r] /\ i \in <<p, new>>[2]
      BY <1>2, <2>1
    <3>. QED BY <3>1, Zenon
  <2>2. CASE Reached(r, p, i)
    <3>1. i \in Kept(r, p) \/ \E f \in flying[r] : i \in f[2]
      BY <1>8, <2>2
    <3>. QED BY <1>2, <3>1
  <2>. QED BY <1>4, <2>1, <2>2
<1>14. FollowsOn(r)'
  BY <1>2, <1>6, <1>9 DEF FollowsOn, Pool
<1>15. Fresh(r)'
  <2>. SUFFICES ASSUME script[r] = "loadcsv" PROVE Fresh(r)'
    BY <1>2 DEF Fresh
  <2>1. /\ \A f \in flying[r] : \A i \in f[2] : i \notin Loaded(p) /\ Reached(r, p, i)
        /\ \A f, g \in flying[r] : f = g \/ f[2] \cap g[2] = {}
        /\ \A i \in Loaded(p) : Reached(r, p, i)
        /\ p = "nodes" => Loaded("edges") = {}
    BY <1>0, <1>1, <1>5 DEF RunInv, Fresh
  <2>2. Loaded(p) \subseteq Rows(p)
    BY DEF Loaded
  <2>3. \A i \in new : i \notin Loaded(p) /\ ~Reached(r, p, i)
    BY <1>3, <1>4, <2>1, <2>2
  <2>4. \A f \in flying[r] : f[2] \cap new = {}
    BY <2>1, <2>3
  <2>5. \A f, g \in flying'[r] : f = g \/ f[2] \cap g[2] = {}
    BY <1>2, <2>1, <2>4
  <2>6. /\ \A f \in flying'[r] : \A i \in f[2] : Reached(r, p, i)'
        /\ \A i \in Loaded(p) : Reached(r, p, i)'
    BY <1>2, <1>3, <1>4, <1>5, <2>1, <2>2
  <2>7. \A f \in flying'[r] : \A i \in f[2] : f[1] = p /\ i \notin Loaded(p)
    BY <1>2, <1>5, <2>1, <2>3
  <2>8. \A f \in flying'[r] : \A i \in f[2] : i \notin Loaded(f[1])'
    BY <1>2, <2>7
  <2>9. \A q \in Phases : pc'[r] = q => q = p
    BY <1>1, <1>2
  <2>. QED BY <1>1, <1>2, <2>1, <2>5, <2>6, <2>8, <2>9 DEF Fresh, Phases
<1>. QED BY <1>10, <1>11, <1>12, <1>13, <1>14, <1>15 DEF RunInv

-----------------------------------------------------------------------------
(* Landing: what was sent loads all, some or nothing of its part.          *)

\* Whatever lands makes its rows once: MERGE finds the row that is there,
\* and the rows of a LOAD CSV are not there.  Only edges of excused nodes
\* are not made.
LEMMA LoadMakes ==
  ASSUME LoadInv, NEW r \in Runs, NEW f \in flying[r], NEW some \in SUBSET f[2],
         Load(r, f[1], some)
  PROVE  /\ nodes' \in [Rows("nodes") -> 0 .. 1] /\ edges' \in [Rows("edges") -> 0 .. 1]
         /\ \A p \in Phases : /\ Loaded(p) \subseteq Loaded(p)'
                               /\ Loaded(p)' \subseteq Loaded(p) \cup (IF p = f[1] THEN some ELSE {})
         /\ some \subseteq Loaded(f[1])' \cup (IF script[r] = "loadcsv" THEN {} ELSE Missed(f[1]))
<1>0. RunInv(r) /\ TypeOK /\ f[1] \in Phases /\ f[2] \subseteq Rows(f[1])
  BY FlightIs DEF LoadInv, RunInv
<1>1. script[r] = "loadcsv" => \A i \in some : i \notin Loaded(f[1])
  BY <1>0 DEF RunInv, Fresh
<1>2. CASE f[1] = "nodes"
  <2>1. \A i \in some : Made(r, nodes[i]) = 1
    <3>1. \A i \in some : i \in Rows("nodes") /\ nodes[i] \in 0 .. 1
      BY <1>0, <1>2 DEF TypeOK
    <3>2. script[r] = "loadcsv" => \A i \in some : ~(nodes[i] > 0)
      BY <1>1, <1>2, <3>1 DEF Loaded, Copies
    <3>. QED BY <3>1, <3>2 DEF Made
  <2>2. /\ edges' = edges
        /\ nodes' = [i \in Rows("nodes") |-> IF i \in some THEN 1 ELSE nodes[i]]
    BY <1>2, <2>1 DEF Load
  <2>3. Loaded("nodes")' = Loaded("nodes") \cup some
    BY <1>0, <1>2, <2>2 DEF Loaded, Copies
  <2>4. Loaded("edges")' = Loaded("edges")
    BY <2>2 DEF Loaded, Copies
  <2>5. nodes' \in [Rows("nodes") -> 0 .. 1] /\ edges' \in [Rows("edges") -> 0 .. 1]
    BY <1>0, <2>2 DEF TypeOK
  <2>. QED BY <1>2, <2>3, <2>4, <2>5 DEF Phases
<1>3. CASE f[1] = "edges"
  <2>. DEFINE made == {i \in some : Joinable(i)}
  <2>1. \A i \in some : i \in Rows("edges") /\ Made(r, edges[i]) = 1
    <3>1. \A i \in some : i \in Rows("edges") /\ edges[i] \in 0 .. 1
      BY <1>0, <1>3 DEF TypeOK
    <3>2. script[r] = "loadcsv" => \A i \in some : ~(edges[i] > 0)
      BY <1>1, <1>3, <3>1 DEF Loaded, Copies
    <3>. QED BY <3>1, <3>2 DEF Made
  <2>2. /\ nodes' = nodes
        /\ edges' = [i \in Rows("edges") |-> IF i \in made THEN 1 ELSE edges[i]]
    BY <1>3, <2>1 DEF Load
  <2>3. some \ made \subseteq (IF script[r] = "loadcsv" THEN {} ELSE Missed("edges"))
    <3>. SUFFICES ASSUME NEW i \in some, ~Joinable(i)
                  PROVE  script[r] # "loadcsv" /\ i \in Missed("edges")
      OBVIOUS
    <3>1. i \in Rows("edges") /\ Ends[i][1] \in Rows("nodes") /\ Ends[i][2] \in Rows("nodes")
      BY <2>1 DEF Rows
    <3>2. PICK e \in {Ends[i][1], Ends[i][2]} : e \notin Loaded("nodes")
      BY LoadedAre DEF Joinable
    <3>3. e \in Kept(r, "nodes")
      BY <1>0, <1>3, <3>1, <3>2 DEF RunInv, Behind, All
    <3>4. script[r] # "loadcsv" /\ e \in Missed("nodes")
      BY <3>2, <3>3 DEF Kept
    <3>5. e \in lost["nodes"]
      BY <3>4 DEF Missed, Excused
    <3>. QED BY <3>1, <3>2, <3>4, <3>5 DEF Missed, Excused
  <2>. HIDE DEF made
  <2>4. made \subseteq some /\ some \subseteq Rows("edges")
    BY <2>1 DEF made
  <2>5. Loaded("edges")' = Loaded("edges") \cup made
    BY <2>2, <2>4 DEF Loaded, Copies
  <2>6. Loaded("nodes")' = Loaded("nodes")
    BY <2>2 DEF Loaded, Copies
  <2>7. nodes' \in [Rows("nodes") -> 0 .. 1] /\ edges' \in [Rows("edges") -> 0 .. 1]
    BY <1>0, <2>2, <2>4 DEF TypeOK
  <2>. QED BY <1>3, <2>3, <2>4, <2>5, <2>6, <2>7 DEF Phases
<1>. QED BY <1>0, <1>2, <1>3 DEF Phases

\* It leaves edges only between nodes, and no gaps that were not there, if
\* no pool is at it.
LEMMA LoadKeepsGraph ==
  ASSUME LoadInv, NEW r \in Runs, NEW f \in flying[r], NEW some \in SUBSET f[2],
         Load(r, f[1], some), analytical' = analytical, ~Pool(r) => some = {} \/ some = f[2],
         \A p \in Phases : Missed(p) \subseteq Missed(p)'
  PROVE  Grown /\ Joined' /\ NoGaps'
<1>0. RunInv(r) /\ TypeOK /\ f[1] \in Phases /\ f[2] \subseteq Rows(f[1])
  BY FlightIs DEF LoadInv, RunInv
<1>1. /\ \A p \in Phases : /\ Loaded(p) \subseteq Loaded(p)'
                            /\ Loaded(p)' \subseteq Loaded(p) \cup (IF p = f[1] THEN some ELSE {})
      /\ some \subseteq Loaded(f[1])' \cup Missed(f[1])
  BY LoadMakes
<1>2. Grown
  BY <1>1 DEF Grown
<1>3. Joined'
  <2>. SUFFICES ASSUME NEW i \in Rows("edges"), edges'[i] > 0 PROVE Joinable(i)'
    BY DEF Joined
  <2>1. LoadedNodes \subseteq LoadedNodes'
    BY <1>2 DEF Grown, Phases, LoadedNodes, Loaded, Copies
  <2>2. Joinable(i)
    <3>1. CASE f[1] = "nodes"
      BY <3>1 DEF Load, LoadInv, Joined
    <3>2. CASE f[1] # "nodes"
      BY <3>2 DEF Load, LoadInv, Joined
    <3>. QED BY <3>1, <3>2
  <2>. QED BY <2>1, <2>2 DEF Joinable
<1>4. NoGaps'
  <2>. SUFFICES ASSUME ~analytical PROVE NoHoles("nodes")' /\ NoHoles("edges")'
    BY DEF NoGaps
  <2>1. ~Pool(r)
    BY <1>0 DEF RunInv, Mode, Loading
  <2>2. ASSUME NEW i \in f[2], NEW k \in Rows(f[1]), k < i
        PROVE  k \in f[2] \/ k \in Loaded(f[1]) \cup Missed(f[1])
    BY <1>0, <2>1, <2>2 DEF RunInv, FollowsOn, Kept
  <2>3. ASSUME NEW p \in Phases, NoHoles(p) PROVE NoHoles(p)'
    <3>. SUFFICES ASSUME NEW i \in Loaded(p)', NEW k \in Rows(p), k < i
                  PROVE  k \in Loaded(p)' \cup Missed(p)'
      BY DEF NoHoles
    <3>1. Loaded(p) \cup Missed(p) \subseteq Loaded(p)' \cup Missed(p)'
      BY <1>1
    <3>2. CASE i \in Loaded(p)
      BY <2>3, <3>1, <3>2 DEF NoHoles
    <3>3. CASE i \notin Loaded(p)
      <4>1. p = f[1] /\ some = f[2] /\ i \in f[2]
        BY <1>1, <2>1, <3>3
      <4>2. k \in f[2] \/ k \in Loaded(p) \cup Missed(p)
        BY <2>2, <4>1
      <4>3. f[2] \subseteq Loaded(p)' \cup Missed(p)'
        BY <1>1, <4>1
      <4>. QED BY <3>1, <4>2, <4>3
    <3>. QED BY <3>2, <3>3
  <2>. QED BY <2>3 DEF LoadInv, NoGaps, Phases
<1>. QED BY <1>2, <1>3, <1>4

\* The run that it is of goes on: it has its part, or takes it to be there,
\* or is a pool that will raise when the others are done.
LEMMA PartLanded ==
  ASSUME LoadInv, NEW r \in Runs, NEW f \in flying[r], NEW some \in SUBSET f[2], Grown,
         \A p \in Phases : Loaded(p)' \subseteq Loaded(p) \cup (IF p = f[1] THEN some ELSE {}),
         script' = script, skip' = skip, at'[r] = at[r], analytical' = analytical,
         flying'[r] = flying[r] \ {f}, pc'[r] = pc[r],
         \/ failed'[r] = failed[r] /\ f[2] \subseteq Kept(r, f[1])'
         \/ failed'[r] /\ Pool(r)
         \/ pc[r] \notin Phases
  PROVE  RunInv(r)'
<1>0. RunInv(r) /\ TypeOK /\ f[1] \in Phases /\ f[2] \subseteq Rows(f[1]) /\ at[r] \in Nat
  BY FlightIs, RunTypes DEF LoadInv, RunInv
<1>1. \A p \in Phases : Kept(r, p) \subseteq Kept(r, p)'
  BY KeptStays
<1>2. \A g \in flying[r] : g[1] \in Phases /\ g = <<g[1], g[2]>> /\ g[2] \subseteq Rows(g[1])
  BY <1>0, FlightIs DEF RunInv
<1>3. pc[r] \in Phases \cup {"killed"} /\ (pc[r] \in Phases => \A g \in flying[r] : g[1] = pc[r])
  BY <1>0 DEF RunInv, Flights
<1>4. ~Pool(r) => flying'[r] = {}
  BY <1>0 DEF RunInv, Flights
<1>5. Flights(r)'
  <2>1. IsFiniteSet(flying'[r])
    BY <1>0, FS_Subset DEF RunInv, Flights
  <2>. QED BY <1>0, <1>3, <1>4, <2>1 DEF RunInv, Flights, Pool, Phases
<1>6. Course(r)' /\ Mode(r)'
  BY <1>0, <1>3, <1>4 DEF RunInv, Course, Mode, Loading, Pool, Phases
<1>7. Behind(r)' /\ Skipped(r)'
  BY <1>0, <1>1, <1>3, AllStays DEF RunInv, Behind, Skipped, Phases
<1>8. Progress(r)'
  <2>. SUFFICES ASSUME NEW p \in Phases, pc'[r] = p, ~failed'[r], NEW i \in Rows(p),
                       Reached(r, p, i)'
                PROVE  i \in Kept(r, p)' \/ \E g \in flying'[r] : i \in g[2]
    BY DEF Progress
  <2>1. /\ pc[r] = p /\ ~failed[r] /\ Reached(r, p, i) /\ f[1] = p
        /\ f[2] \subseteq Kept(r, p)'
    BY <1>3, ReachedStays DEF Phases
  <2>2. i \in Kept(r, p) \/ \E g \in flying[r] : i \in g[2]
    BY <1>0, <2>1 DEF RunInv, Progress
  <2>. QED BY <1>1, <2>1, <2>2
<1>9. FollowsOn(r)'
  BY <1>4 DEF FollowsOn, Pool
<1>10. Fresh(r)'
  <2>. SUFFICES ASSUME script[r] = "loadcsv" PROVE Fresh(r)'
    BY DEF Fresh
  <2>1. Pool(r)
    BY DEF Pool
  <2>2. \A g \in flying'[r] : \A i \in g[2] : i \notin Loaded(g[1])'
    <3>. SUFFICES ASSUME NEW g \in flying[r], g # f, NEW i \in g[2]
                  PROVE  i \notin Loaded(g[1])'
      OBVIOUS
    <3>1. i \notin Loaded(g[1]) /\ (g[1] = f[1] => i \notin f[2])
      BY <1>0 DEF RunInv, Fresh
    <3>2. Loaded(g[1])' \subseteq Loaded(g[1]) \cup (IF g[1] = f[1] THEN some ELSE {})
      BY <1>2
    <3>. QED BY <3>1, <3>2
  <2>3. \A g, h \in flying'[r] : g[1] = h[1] => g = h \/ g[2] \cap h[2] = {}
    BY <1>0 DEF RunInv, Fresh
  <2>4. ASSUME NEW p \in Phases, pc[r] = p
        PROVE  /\ \A g \in flying'[r] : \A i \in g[2] : Reached(r, p, i)'
               /\ \A i \in Loaded(p)' : Reached(r, p, i)'
    <3>1. \A i \in Rows(p) : Reached(r, p, i)' <=> Reached(r, p, i)
      BY ReachedStays
    <3>2. /\ \A g \in flying[r] : \A i \in g[2] : Reached(r, p, i)
          /\ \A i \in Loaded(p) : Reached(r, p, i)
      BY <1>0, <2>4 DEF RunInv, Fresh
    <3>3. Loaded(p) \subseteq Rows(p) /\ \A g \in flying[r] : g[2] \subseteq Rows(p)
      BY <1>2, <1>3, <2>4 DEF Loaded
    <3>4. Loaded(p)' \subseteq Loaded(p) \cup f[2]
      BY <2>4
    <3>. QED BY <3>1, <3>2, <3>3, <3>4
  <2>5. pc[r] = "nodes" => Loaded("edges")' = {}
    <3>1. pc[r] = "nodes" => f[1] = "nodes" /\ Loaded("edges") = {}
      BY <1>0, <1>3 DEF RunInv, Fresh, Phases
    <3>. QED BY <3>1 DEF Phases
  <2>. QED BY <2>1, <2>2, <2>3, <2>4, <2>5 DEF Fresh
<1>. QED BY <1>5, <1>6, <1>7, <1>8, <1>9, <1>10 DEF RunInv

\* Who is excused is a matter of what was refused.
LEMMA MissedIs == lost' = lost => \A p \in Phases : Missed(p)' = Missed(p)
BY DEF Missed, Excused

LEMMA MissedGrows ==
  ASSUME NEW q \in Phases, NEW rows, TypeOK, lost' = [lost EXCEPT ![q] = @ \cup rows]
  PROVE  /\ \A p \in Phases : Missed(p) \subseteq Missed(p)'
         /\ rows \cap Rows(q) \subseteq Missed(q)'
<1>1. lost'[q] = lost[q] \cup rows /\ \A p \in Phases : lost[p] \subseteq lost'[p]
  BY DEF TypeOK, Phases
<1>. QED BY <1>1 DEF Missed, Excused, Phases

LEMMA PartCommitted ==
  ASSUME LoadInv, NEW r \in Runs, Commit(r)
  PROVE  RunInv(r)' /\ Grown /\ Joined' /\ NoGaps'
<1>1. PICK f \in flying[r] : /\ Load(r, f[1], f[2])
                             /\ flying' = [flying EXCEPT ![r] = @ \ {f}]
  BY DEF Commit
<1>. DEFINE some == f[2]
<1>2. /\ some \in SUBSET f[2] /\ Load(r, f[1], some)
      /\ script' = script /\ skip' = skip /\ at' = at /\ analytical' = analytical
      /\ pc' = pc /\ failed' = failed
      /\ flying'[r] = flying[r] \ {f} /\ f[1] \in Phases
      /\ \A p \in Phases : Missed(p)' = Missed(p)
  BY <1>1, RunTypes, MissedIs, FlightIs DEF Commit, modeVars, LoadInv
<1>. HIDE DEF some
<1>3. /\ \A p \in Phases : Loaded(p)' \subseteq Loaded(p) \cup (IF p = f[1] THEN some ELSE {})
      /\ some \subseteq Loaded(f[1])' \cup (IF script[r] = "loadcsv" THEN {} ELSE Missed(f[1]))
  BY <1>2, LoadMakes
<1>4. some = f[2] /\ some \subseteq Kept(r, f[1])'
  BY <1>2, <1>3 DEF some, Kept
<1>5. Grown /\ Joined' /\ NoGaps'
  BY <1>2, <1>4, LoadKeepsGraph
<1>6. RunInv(r)'
  <2>1. /\ at'[r] = at[r] /\ pc'[r] = pc[r] /\ failed'[r] = failed[r]
        /\ f[2] \subseteq Kept(r, f[1])'
    BY <1>2, <1>4
  <2>. QED BY <1>2, <1>3, <1>5, <2>1, PartLanded
<1>. QED BY <1>5, <1>6

\* A full load ends there, and a pool goes on until its parts are done.
LEMMA PartFailed ==
  ASSUME LoadInv, NEW r \in Runs, Fail(r)
  PROVE  RunInv(r)' /\ Grown /\ Joined' /\ NoGaps'
<1>1. PICK f \in flying[r] :
        /\ \E some \in Leftovers(r, f[2]) : Load(r, f[1], some)
        /\ flying' = [flying EXCEPT ![r] = @ \ {f}]
  BY DEF Fail
<1>2. PICK some \in Leftovers(r, f[2]) : Load(r, f[1], some)
  BY <1>1
<1>3. some \in SUBSET f[2] /\ (~Pool(r) => some = {} \/ some = f[2])
  BY DEF Leftovers
<1>4. /\ script' = script /\ analytical' = analytical /\ flying'[r] = flying[r] \ {f}
      /\ \A p \in Phases : Missed(p)' = Missed(p)
  BY <1>1, RunTypes, MissedIs DEF Fail, modeVars, LoadInv
<1>5. \A p \in Phases : Loaded(p)' \subseteq Loaded(p) \cup (IF p = f[1] THEN some ELSE {})
  BY <1>2, <1>3, LoadMakes
<1>6. Grown /\ Joined' /\ NoGaps'
  BY <1>2, <1>3, <1>4, LoadKeepsGraph
<1>7. CASE pc[r] \in Phases /\ ~Pool(r)
  <2>1. flying'[r] = {}
    BY <1>4, <1>7 DEF LoadInv, RunInv, Flights
  <2>2. Exits(r, "raised") /\ RunInv(r) /\ TypeOK
    BY <1>7 DEF Fail, LoadInv, Phases
  <2>. QED BY <1>4, <1>6, <2>1, <2>2, RunEnded
<1>8. CASE ~(pc[r] \in Phases /\ ~Pool(r))
  <2>1. /\ pc' = pc /\ skip' = skip /\ at' = at
        /\ pc[r] \in Phases => failed'[r] /\ Pool(r)
    BY <1>8, RunTypes DEF Fail, LoadInv, Phases
  <2>2. RunInv(r)'
    BY <1>3, <1>4, <1>5, <1>6, <2>1, PartLanded
  <2>. QED BY <1>6, <2>2
<1>. QED BY <1>7, <1>8

\* What is refused unseen passes for loaded, and is excused.
LEMMA PartRefused ==
  ASSUME LoadInv, NEW r \in Runs, Refused(r)
  PROVE  RunInv(r)' /\ Grown /\ Joined' /\ NoGaps'
<1>0. PICK f \in flying[r] : \E some \in Leftovers(r, f[2]) :
        /\ Load(r, f[1], some)
        /\ lost' = [lost EXCEPT ![f[1]] = @ \cup (f[2] \ some)]
        /\ flying' = [flying EXCEPT ![r] = @ \ {f}]
  BY DEF Refused
<1>1. PICK some \in Leftovers(r, f[2]) :
        /\ Load(r, f[1], some)
        /\ lost' = [lost EXCEPT ![f[1]] = @ \cup (f[2] \ some)]
        /\ flying' = [flying EXCEPT ![r] = @ \ {f}]
  BY <1>0
<1>2. some \in SUBSET f[2] /\ (~Pool(r) => some = {} \/ some = f[2])
  BY DEF Leftovers
<1>3. /\ script' = script /\ analytical' = analytical /\ skip' = skip /\ at' = at
      /\ pc' = pc /\ failed' = failed /\ script[r] # "loadcsv"
      /\ flying'[r] = flying[r] \ {f} /\ f[1] \in Phases /\ f[2] \subseteq Rows(f[1])
  BY <1>1, RunTypes, FlightIs DEF Refused, modeVars, LoadInv, RunInv
<1>4. /\ \A p \in Phases : Missed(p) \subseteq Missed(p)'
      /\ (f[2] \ some) \cap Rows(f[1]) \subseteq Missed(f[1])'
  <2>. DEFINE rows == f[2] \ some
  <2>1. lost' = [lost EXCEPT ![f[1]] = @ \cup rows] /\ TypeOK
    BY <1>1 DEF LoadInv
  <2>. HIDE DEF rows
  <2>2. /\ \A p \in Phases : Missed(p) \subseteq Missed(p)'
        /\ rows \cap Rows(f[1]) \subseteq Missed(f[1])'
    BY <1>3, <2>1, MissedGrows
  <2>. QED BY <2>2 DEF rows
<1>5. /\ \A p \in Phases : Loaded(p)' \subseteq Loaded(p) \cup (IF p = f[1] THEN some ELSE {})
      /\ some \subseteq Loaded(f[1])' \cup Missed(f[1])
  BY <1>1, <1>2, LoadMakes
<1>6. f[2] \subseteq Kept(r, f[1])'
  BY <1>3, <1>4, <1>5 DEF Kept
<1>7. Grown /\ Joined' /\ NoGaps'
  BY <1>1, <1>2, <1>3, <1>4, LoadKeepsGraph
<1>8. RunInv(r)'
  BY <1>2, <1>3, <1>5, <1>6, <1>7, PartLanded
<1>. QED BY <1>7, <1>8

-----------------------------------------------------------------------------
(* Types.                                                                  *)

LEMMA InitHolds == Init => LoadInv
<1>. SUFFICES ASSUME Init PROVE LoadInv
  OBVIOUS
<1>1. TypeOK
  <2>1. [nodes |-> 0, edges |-> 0] \in [nodes : 0 .. NodeRows, edges : 0 .. EdgeRows]
    OBVIOUS
  <2>2. /\ skip \in [Runs -> [nodes : 0 .. NodeRows, edges : 0 .. EdgeRows]]
        /\ at \in [Runs -> Nat] /\ failed \in [Runs -> BOOLEAN]
        /\ flying \in [Runs -> SUBSET (Phases \X SUBSET (Rows("nodes") \cup Rows("edges")))]
    BY <2>1 DEF Init, NoneSkipped
  <2>3. /\ nodes \in [Rows("nodes") -> 0 .. 1] /\ edges \in [Rows("edges") -> 0 .. 1]
        /\ lost \in [nodes : SUBSET Rows("nodes"), edges : SUBSET Rows("edges")]
    BY DEF Init, NoneLost
  <2>4. /\ script \in [Runs -> Scripts] /\ analytical \in BOOLEAN /\ constraint \in BOOLEAN
        /\ pc \in [Runs -> Phases \cup {"idle", "count", "finish", "constrain", "done", "raised",
                                        "killed"}]
    BY DEF Init
  <2>. QED BY <2>2, <2>3, <2>4 DEF TypeOK
<1>2. \A p \in Phases : Loaded(p) = {}
  BY DEF Init, Loaded, Copies, Phases
<1>3. Joined
  BY DEF Init, Joined
<1>4. NoGaps
  BY <1>2 DEF NoGaps, NoHoles, Phases
<1>5. Alone
  BY DEF Init, Alone, Loading, Phases
<1>6. ASSUME NEW r \in Runs PROVE RunInv(r)
  <2>1. pc[r] = "idle" /\ flying[r] = {} /\ at[r] = 1 /\ ~failed[r]
        /\ skip[r]["nodes"] = 0 /\ skip[r]["edges"] = 0
    BY DEF Init, NoneSkipped
  <2>2. IsFiniteSet(flying[r])
    BY <2>1, FS_EmptySet
  <2>3. Flights(r)
    BY <2>1, <2>2 DEF Flights, Phases
  <2>. QED
    BY <2>1, <2>3 DEF RunInv, Course, Mode, Loading, Behind, Skipped, Progress, FollowsOn, Fresh, Phases
<1>. QED BY <1>1, <1>3, <1>4, <1>5, <1>6 DEF LoadInv

LEMMA ExitTypes ==
  ASSUME TypeOK, NEW r \in Runs, NEW l \in {"done", "raised", "killed"}, Exits(r, l)
  PROVE  /\ pc' \in [Runs -> Phases \cup {"idle", "count", "finish", "constrain", "done", "raised",
                                           "killed"}]
         /\ skip' \in [Runs -> [nodes : 0 .. NodeRows, edges : 0 .. EdgeRows]]
         /\ at' \in [Runs -> Nat] /\ failed' \in [Runs -> BOOLEAN]
<1>1. NoneSkipped \in [nodes : 0 .. NodeRows, edges : 0 .. EdgeRows]
  BY DEF NoneSkipped
<1>. QED BY <1>1 DEF Exits, Goto, TypeOK

\* Every step keeps the types.
LEMMA TypesKept ==
  ASSUME LoadInv, [Next]_vars
  PROVE  TypeOK'
<1>0. TypeOK /\ \A r \in Runs : RunInv(r)
  BY DEF LoadInv
<1>1. ASSUME Wipe PROVE TypeOK'
  BY <1>0, <1>1 DEF Wipe, NoneLost, modeVars, TypeOK
<1>2. ASSUME NEW r \in Runs, BeginFull(r) PROVE TypeOK'
  <2>1. Constrains => Cardinality(LoadedNodes) \in 0 .. NodeRows
    <3>. SUFFICES ASSUME Constrains PROVE Cardinality(Loaded("nodes")) \in 0 .. NodeRows
      BY LoadedAre
    <3>1. NoHoles("nodes")
      BY DEF LoadInv, NoGaps, Constrains
    <3>. QED BY <3>1, CountedArePrefix, RowCounts DEF Phases
  <2>2. skip' \in [Runs -> [nodes : 0 .. NodeRows, edges : 0 .. EdgeRows]]
    <3>1. CASE Constrains
      <4>1. skip' = [skip EXCEPT ![r].nodes = Cardinality(LoadedNodes)]
        BY <1>2, <3>1 DEF BeginFull
      <4>. QED BY <1>0, <2>1, <3>1, <4>1 DEF TypeOK
    <3>2. CASE ~Constrains
      BY <1>0, <1>2, <3>2 DEF BeginFull, TypeOK
    <3>. QED BY <3>1, <3>2
  <2>3. /\ pc' = [pc EXCEPT ![r] = IF Constrains THEN "count" ELSE "raised"]
        /\ constraint' \in BOOLEAN
        /\ UNCHANGED <<script, nodes, edges, lost, analytical, at, flying, failed>>
    BY <1>0, <1>2 DEF BeginFull, Goto, graphVars, TypeOK
  <2>. QED BY <1>0, <2>2, <2>3 DEF TypeOK
<1>3. ASSUME NEW r \in Runs, BeginPool(r) PROVE TypeOK'
  BY <1>0, <1>3 DEF BeginPool, Goto, graphVars, TypeOK, Phases
<1>4. ASSUME NEW r \in Runs, CountEdges(r) PROVE TypeOK'
  <2>1. Cardinality(LoadedEdges) \in 0 .. EdgeRows
    <3>1. ~analytical
      BY <1>0, <1>4 DEF CountEdges, RunInv, Mode, Course, Loading
    <3>2. NoHoles("edges")
      BY <3>1 DEF LoadInv, NoGaps
    <3>. QED BY <3>2, CountedArePrefix, RowCounts, LoadedAre DEF Phases
  <2>. QED BY <1>0, <1>4, <2>1 DEF CountEdges, Goto, graphVars, modeVars, TypeOK, Phases
<1>5. ASSUME NEW r \in Runs, Send(r) PROVE TypeOK'
  <2>1. Part(r, at[r]) \subseteq Rows("nodes") \cup Rows("edges")
    <3>1. at[r] \in Nat \ {0} /\ pc[r] \in Phases
      BY <1>0, <1>5, RunTypes DEF Send, RunInv, Course
    <3>. QED BY <1>0, <3>1, PartsOfRows DEF Phases
  <2>2. pc[r] \in Phases /\ at[r] + 1 \in Nat
    BY <1>0, <1>5, RunTypes DEF Send
  <2>3. <<pc[r], Part(r, at[r])>> \in Phases \X SUBSET (Rows("nodes") \cup Rows("edges"))
    BY <2>1, <2>2
  <2>. QED BY <1>0, <1>5, <2>2, <2>3 DEF Send, graphVars, modeVars, TypeOK
<1>6. ASSUME NEW r \in Runs, Commit(r) PROVE TypeOK'
  <2>1. PICK f \in flying[r] : /\ Load(r, f[1], f[2])
                               /\ flying' = [flying EXCEPT ![r] = @ \ {f}]
    BY <1>6 DEF Commit
  <2>. DEFINE some == f[2]
  <2>2. some \in SUBSET f[2] /\ Load(r, f[1], some)
    BY <2>1
  <2>. HIDE DEF some
  <2>3. nodes' \in [Rows("nodes") -> 0 .. 1] /\ edges' \in [Rows("edges") -> 0 .. 1]
    BY <2>2, LoadMakes
  <2>. QED BY <1>0, <1>6, <2>1, <2>3 DEF Commit, modeVars, TypeOK
<1>7. ASSUME NEW r \in Runs, Fail(r) PROVE TypeOK'
  <2>1. PICK f \in flying[r] :
          /\ \E some \in Leftovers(r, f[2]) : Load(r, f[1], some)
          /\ flying' = [flying EXCEPT ![r] = @ \ {f}]
    BY <1>7 DEF Fail
  <2>2. PICK some \in Leftovers(r, f[2]) : Load(r, f[1], some)
    BY <2>1
  <2>3. some \in SUBSET f[2]
    BY DEF Leftovers
  <2>4. nodes' \in [Rows("nodes") -> 0 .. 1] /\ edges' \in [Rows("edges") -> 0 .. 1]
    BY <2>2, <2>3, LoadMakes
  <2>5. /\ flying' \in [Runs -> SUBSET (Phases \X SUBSET (Rows("nodes") \cup Rows("edges")))]
        /\ UNCHANGED <<script, lost, analytical, constraint>>
    BY <1>0, <1>7, <2>1 DEF Fail, modeVars, TypeOK
  <2>6. CASE pc[r] \in Phases /\ ~Pool(r)
    <3>1. Exits(r, "raised")
      BY <1>7, <2>6 DEF Fail, Phases
    <3>. QED BY <1>0, <2>4, <2>5, <3>1, ExitTypes DEF TypeOK
  <2>7. CASE ~(pc[r] \in Phases /\ ~Pool(r))
    <3>1. UNCHANGED <<pc, skip, at>>
      BY <1>7, <2>7 DEF Fail
    <3>2. failed' \in [Runs -> BOOLEAN]
      BY <1>0, <1>7, <2>7 DEF Fail, TypeOK
    <3>. QED BY <1>0, <2>4, <2>5, <3>1, <3>2 DEF TypeOK
  <2>. QED BY <2>6, <2>7
<1>11. ASSUME NEW r \in Runs, Refused(r) PROVE TypeOK'
  <2>0. PICK f \in flying[r] : \E some \in Leftovers(r, f[2]) :
          /\ Load(r, f[1], some)
          /\ lost' = [lost EXCEPT ![f[1]] = @ \cup (f[2] \ some)]
          /\ flying' = [flying EXCEPT ![r] = @ \ {f}]
    BY <1>11 DEF Refused
  <2>1. PICK some \in Leftovers(r, f[2]) :
          /\ Load(r, f[1], some)
          /\ lost' = [lost EXCEPT ![f[1]] = @ \cup (f[2] \ some)]
          /\ flying' = [flying EXCEPT ![r] = @ \ {f}]
    BY <2>0
  <2>2. some \in SUBSET f[2]
    BY DEF Leftovers
  <2>3. nodes' \in [Rows("nodes") -> 0 .. 1] /\ edges' \in [Rows("edges") -> 0 .. 1]
    BY <2>1, <2>2, LoadMakes
  <2>4. f[1] \in Phases /\ f[2] \subseteq Rows(f[1])
    BY <1>0, FlightIs DEF RunInv
  <2>5. lost' \in [nodes : SUBSET Rows("nodes"), edges : SUBSET Rows("edges")]
    BY <1>0, <2>1, <2>4 DEF TypeOK, Phases
  <2>. QED BY <1>0, <1>11, <2>1, <2>3, <2>5 DEF Refused, modeVars, TypeOK
<1>8. ASSUME NEW r \in Runs, EndPhase(r) PROVE TypeOK'
  <2>1. /\ UNCHANGED <<script, nodes, edges, lost, analytical, constraint, flying>>
        /\ IF failed[r] THEN Exits(r, "raised") ELSE NextPhase(r)
    BY <1>8 DEF EndPhase, graphVars, modeVars
  <2>2. CASE \E l \in {"done", "raised"} : Exits(r, l)
    <3>1. PICK l \in {"done", "raised", "killed"} : Exits(r, l)
      BY <2>2
    <3>2. UNCHANGED <<script, nodes, edges, lost, analytical, constraint, flying>>
      BY <2>1
    <3>3. /\ pc' \in [Runs -> Phases \cup {"idle", "count", "finish", "constrain", "done", "raised",
                                              "killed"}]
          /\ skip' \in [Runs -> [nodes : 0 .. NodeRows, edges : 0 .. EdgeRows]]
          /\ at' \in [Runs -> Nat] /\ failed' \in [Runs -> BOOLEAN]
      BY <1>0, <3>1, ExitTypes
    <3>. QED BY <1>0, <3>2, <3>3 DEF TypeOK
  <2>3. CASE ~\E l \in {"done", "raised"} : Exits(r, l)
    <3>1. /\ UNCHANGED <<script, nodes, edges, lost, analytical, constraint, flying, skip, failed>>
          /\ \E l \in {"edges", "finish"} : pc' = [pc EXCEPT ![r] = l]
          /\ at' = [at EXCEPT ![r] = 1]
      BY <2>1, <2>3 DEF NextPhase, Goto
    <3>. QED BY <1>0, <3>1 DEF TypeOK, Phases
  <2>. QED BY <2>2, <2>3
<1>9. ASSUME NEW r \in Runs, SwitchBack(r) \/ Finish(r) PROVE TypeOK'
  BY <1>0, <1>9 DEF SwitchBack, Finish, Constrains, Goto, graphVars, modeVars, TypeOK
<1>12. ASSUME NEW r \in Runs, Killed(r) PROVE TypeOK'
  BY <1>0, <1>12, ExitTypes DEF Killed, graphVars, modeVars, TypeOK
<1>10. ASSUME UNCHANGED vars PROVE TypeOK'
  BY <1>0, <1>10 DEF vars, graphVars, modeVars, TypeOK
<1>. QED
  BY <1>1, <1>2, <1>3, <1>4, <1>5, <1>6, <1>7, <1>8, <1>9, <1>10, <1>11, <1>12 DEF Next

-----------------------------------------------------------------------------
(* Every step keeps the invariant.                                         *)

\* A step of r that keeps its own part, and the graph's.
LEMMA StepKeeps ==
  ASSUME LoadInv, TypeOK', NEW r \in Runs, RunInv(r)', Grown, Joined', NoGaps', Alone',
         \A q \in Runs \ {r} : Untouched(q),
         \A q \in Runs \ {r} : Loading(q) => analytical' = analytical,
         \A q \in Runs \ {r} : script[q] = "loadcsv" /\ Loading(q) => UNCHANGED graphVars
  PROVE  LoadInv'
<1>1. ASSUME NEW q \in Runs \ {r} PROVE RunInv(q)'
  BY OtherStays DEF LoadInv
<1>. QED BY <1>1 DEF LoadInv

\* Only what loads, loads on.
LEMMA StillAlone ==
  ASSUME Alone, NEW r \in Runs, \A q \in Runs \ {r} : Untouched(q),
         script' = script, Loading(r)' => Loading(r)
  PROVE  Alone'
<1>1. \A q \in Runs : Loading(q)' => Loading(q)
  BY DEF Untouched, Loading
<1>. QED BY <1>1, AloneStays

LEMMA LoadStep == LoadInv /\ [Next]_vars => LoadInv'
<1>. SUFFICES ASSUME LoadInv, [Next]_vars PROVE LoadInv'
  OBVIOUS
<1>0. /\ TypeOK /\ Joined /\ NoGaps /\ Alone /\ (\A r \in Runs : RunInv(r)) /\ TypeOK'
  BY TypesKept DEF LoadInv
<1>1. ASSUME graphVars' = graphVars PROVE Joined' /\ Grown
  BY <1>0, <1>1, GraphStays DEF graphVars, Joined, Joinable, LoadedNodes
<1>2. ASSUME graphVars' = graphVars, analytical' = analytical PROVE NoGaps'
  BY <1>0, <1>2, GraphStays DEF NoGaps, NoHoles, Phases
<1>3. ASSUME Wipe PROVE LoadInv'
  <2>1. \A p \in Phases : Loaded(p)' = {}
    BY <1>3 DEF Wipe, Loaded, Copies, Phases
  <2>2. Joined' /\ NoGaps'
    BY <1>3, <2>1 DEF Wipe, Joined, NoGaps, NoHoles, Phases
  <2>3. ASSUME NEW r \in Runs PROVE RunInv(r)' /\ ~Loading(r)'
    <3>1. /\ flying[r] = {} /\ pc[r] \in {"idle", "raised", "killed"}
          /\ UNCHANGED <<script, pc, skip, at, flying, failed>>
      BY <1>3 DEF Wipe
    <3>2. Flights(r)' /\ Course(r)'
      BY <1>0, <3>1 DEF RunInv, Flights, Course, Pool
    <3>3. Progress(r)' /\ FollowsOn(r)' /\ Fresh(r)'
      BY <3>1, OutOfPhase DEF Phases
    <3>. QED BY <3>1, <3>2, <3>3 DEF RunInv, Mode, Loading, Behind, Skipped, Phases
  <2>4. Alone'
    BY <2>3 DEF Alone
  <2>. QED BY <1>0, <2>2, <2>3, <2>4 DEF LoadInv
<1>4. ASSUME NEW r \in Runs, BeginFull(r) PROVE LoadInv'
  <2>1. /\ graphVars' = graphVars /\ analytical' = analytical /\ script' = script
        /\ \A q \in Runs \ {r} : Untouched(q)
    BY <1>0, <1>4 DEF BeginFull, Goto, Untouched, TypeOK
  <2>2. Alone'
    <3>1. Loading(r)' => ~analytical
      <4>1. Mode(r)'
        BY <1>4, FullBegun DEF RunInv
      <4>. QED BY <1>4, <2>1, <4>1 DEF Mode, BeginFull, Pool
    <3>2. \A q \in Runs : Pool(q) /\ Loading(q) => analytical
      BY <1>0 DEF RunInv, Mode
    <3>3. \A q \in Runs \ {r} : Loading(q)' => Loading(q)
      BY <2>1 DEF Untouched, Loading
    <3>4. ~Pool(r) /\ \A q \in Runs : Pool(q)' <=> Pool(q)
      BY <1>4, <2>1 DEF BeginFull, Pool
    <3>. QED BY <1>0, <3>1, <3>2, <3>3, <3>4 DEF Alone
  <2>. QED BY <1>1, <1>2, <1>4, <2>1, <2>2, <1>0, FullBegun, StepKeeps
<1>5. ASSUME NEW r \in Runs, BeginPool(r) PROVE LoadInv'
  <2>1. /\ graphVars' = graphVars /\ script' = script
        /\ \A q \in Runs \ {r} : Untouched(q)
        /\ \A q \in Runs : ~Loading(q)
    BY <1>0, <1>5 DEF BeginPool, Goto, Untouched, TypeOK, Loading
  <2>2. Alone'
    <3>1. \A q \in Runs \ {r} : ~Loading(q)'
      BY <2>1 DEF Untouched, Loading
    <3>. QED BY <3>1 DEF Alone
  <2>3. NoGaps'
    <3>1. analytical' \/ analytical' = analytical
      BY <1>5 DEF BeginPool
    <3>2. analytical' => NoGaps'
      BY DEF NoGaps
    <3>. QED BY <1>2, <2>1, <3>1, <3>2
  <2>. QED BY <1>1, <1>5, <2>1, <2>2, <2>3, <1>0, PoolBegun, StepKeeps
<1>6. ASSUME NEW r \in Runs, CountEdges(r) \/ Send(r) \/ EndPhase(r) \/ Finish(r) \/ Killed(r)
      PROVE  LoadInv'
  <2>1. RunInv(r)'
    BY <1>6, EdgesCounted, PartSent, PhaseEnded, PoolFinished, RunKilled
  <2>2. /\ graphVars' = graphVars /\ script' = script /\ analytical' = analytical
        /\ \A q \in Runs \ {r} : Untouched(q)
    <3>1. CASE CountEdges(r) \/ Send(r) \/ Finish(r) \/ Killed(r)
      BY <1>0, <3>1 DEF CountEdges, Send, Finish, Killed, Exits, Goto, Untouched, modeVars, TypeOK
    <3>2. CASE EndPhase(r)
      BY <1>0, <3>2 DEF EndPhase, NextPhase, Exits, Goto, Untouched, modeVars, TypeOK
    <3>. QED BY <1>6, <3>1, <3>2
  <2>3. Loading(r)' => Loading(r)
    <3>1. CASE CountEdges(r) \/ Send(r) \/ Finish(r)
      BY <1>0, <3>1 DEF CountEdges, Send, Finish, Goto, Loading, TypeOK, Phases
    <3>2. CASE EndPhase(r)
      BY <3>2 DEF EndPhase, Loading
    <3>3. CASE Killed(r)
      BY <1>0, <3>3 DEF Killed, Exits, Goto, Loading, TypeOK, Phases
    <3>. QED BY <1>6, <3>1, <3>2, <3>3
  <2>4. Alone'
    BY <1>0, <2>2, <2>3, StillAlone
  <2>. QED BY <1>0, <1>1, <1>2, <2>1, <2>2, <2>4, StepKeeps
<1>7. ASSUME NEW r \in Runs, Commit(r) \/ Fail(r) \/ Refused(r) PROVE LoadInv'
  <2>1. RunInv(r)' /\ Grown /\ Joined' /\ NoGaps'
    BY <1>7, PartCommitted, PartFailed, PartRefused
  <2>2. /\ script' = script /\ analytical' = analytical /\ Loading(r)
        /\ \A q \in Runs \ {r} : Untouched(q)
    BY <1>0, <1>7 DEF Commit, Fail, Refused, Exits, Goto, Untouched, modeVars, TypeOK, Loading
  <2>3. Alone'
    BY <1>0, <2>2, StillAlone
  <2>4. \A q \in Runs \ {r} : script[q] = "loadcsv" /\ Loading(q) => UNCHANGED graphVars
    BY <1>0, <2>2 DEF Alone, Pool
  <2>. QED BY <1>0, <2>1, <2>2, <2>3, <2>4, StepKeeps
<1>8. ASSUME NEW r \in Runs, SwitchBack(r) PROVE LoadInv'
  <2>1. /\ graphVars' = graphVars /\ script' = script /\ pc[r] = "finish"
        /\ \A q \in Runs \ {r} : Untouched(q)
    BY <1>0, <1>8 DEF SwitchBack, Goto, Untouched, TypeOK
  <2>2. Loading(r) /\ Pool(r) /\ All(r, "nodes") /\ All(r, "edges")
    BY <1>0, <2>1 DEF RunInv, Course, Behind, Loading
  <2>3. Alone'
    BY <1>0, <2>1, <2>2, StillAlone
  <2>4. NoGaps'
    <3>1. All(r, "nodes")' /\ All(r, "edges")'
      BY <1>1, <2>1, <2>2, AllStays DEF Phases
    <3>2. Kept(r, "nodes")' \subseteq (Loaded("nodes") \cup Missed("nodes"))'
          /\ Kept(r, "edges")' \subseteq (Loaded("edges") \cup Missed("edges"))'
      BY DEF Kept
    <3>. QED BY <3>1, <3>2 DEF NoGaps, NoHoles, All
  <2>5. \A q \in Runs \ {r} : ~Loading(q)
    BY <1>0, <2>2 DEF Alone
  <2>. QED BY <1>0, <1>1, <1>8, <2>1, <2>3, <2>4, <2>5, SwitchedBack, StepKeeps
<1>9. ASSUME UNCHANGED vars PROVE LoadInv'
  <2>1. /\ graphVars' = graphVars /\ script' = script /\ analytical' = analytical
        /\ \A q \in Runs : Untouched(q)
    BY <1>9 DEF vars, modeVars, Untouched
  <2>2. \A q \in Runs : RunInv(q)'
    BY <1>0, <1>1, <2>1, OtherStays
  <2>3. Alone'
    BY <1>0, <2>1, AloneStays DEF Untouched, Loading
  <2>. QED BY <1>0, <1>1, <1>2, <2>1, <2>2, <2>3 DEF LoadInv
<1>. QED BY <1>3, <1>4, <1>5, <1>6, <1>7, <1>8, <1>9 DEF Next

THEOREM LoadInvHolds == Spec => []LoadInv
<1>1. Init => LoadInv
  BY InitHolds
<1>2. LoadInv /\ [Next]_vars => LoadInv'
  BY LoadStep
<1>. QED BY <1>1, <1>2, PTL DEF Spec

-----------------------------------------------------------------------------
(* No loader doubles a row: MERGE is what two of them at once are saved by *)
(* (benchmark_full_load.py, lines 113-131), and the LOAD CSV script, which *)
(* has CREATE, begins with an empty graph, alone, and deals every row to   *)
(* one shard (benchmark_loadcsv.py, lines 19-23, 58 and 82).               *)
THEOREM LoadTypeCorrect == Spec => []TypeOK
<1>1. LoadInv => TypeOK
  BY DEF LoadInv
<1>. QED BY <1>1, LoadInvHolds, PTL

(* A load that ends well has loaded every row once, whatever was killed,   *)
(* failed, ran beside it or was left behind, but for rows that a query of  *)
(* benchmark_full_load.py, line 76, or benchmark_parallel_load.py, line    *)
(* 66, was refused unseen, and the edges of such nodes: skipping as many   *)
(* rows as are there (benchmark_full_load.py, lines 12-18) skips no row    *)
(* that was never sent.  LOAD CSV misses nothing at all.                   *)
THEOREM DoneIsLoadedOnce == Spec => []LoadedOnce
<1>1. LoadInv => LoadedOnce
  <2>. SUFFICES ASSUME LoadInv, NEW r \in Runs, pc[r] = "done", NEW p \in Phases, NEW i \in Rows(p)
                PROVE  \/ Copies(p)[i] = 1
                       \/ Copies(p)[i] = 0 /\ script[r] # "loadcsv" /\ Excused(p, i)
    BY DEF LoadedOnce
  <2>1. All(r, p)
    BY DEF LoadInv, RunInv, Behind, Phases
  <2>2. Copies(p)[i] \in 0 .. 1
    BY DEF LoadInv, TypeOK, Copies, Phases
  <2>3. CASE i \in Loaded(p)
    BY <2>2, <2>3 DEF Loaded
  <2>4. CASE i \notin Loaded(p)
    BY <2>1, <2>2, <2>4 DEF All, Kept, Loaded, Missed
  <2>. QED BY <2>3, <2>4
<1>. QED BY <1>1, LoadInvHolds, PTL

(* Outside analytical mode the nodes and the edges are each a prefix of    *)
(* their CSV but for rows excused: a load that counts them skips no row    *)
(* that was never sent.  Where a pool left others missing, the constraint  *)
(* that a full load starts with is refused (benchmark_loadcsv.py, lines    *)
(* 97-106 and 195-196).                                                    *)
THEOREM HolesKeepFullLoadsOut == Spec => []HolesAreAnalytical
<1>1. LoadInv => HolesAreAnalytical
  <2>. SUFFICES ASSUME LoadInv, ~analytical, NEW p \in Phases, NEW i \in Rows(p), NEW k \in Rows(p),
                       k < i, Copies(p)[i] > 0
                PROVE  Copies(p)[k] > 0 \/ Excused(p, k)
    BY DEF HolesAreAnalytical
  <2>1. NoHoles(p) /\ i \in Loaded(p)
    BY DEF LoadInv, NoGaps, Loaded, Phases
  <2>2. k \in Loaded(p) \cup Missed(p)
    BY <2>1 DEF NoHoles
  <2>. QED BY <2>2 DEF Loaded, Missed
<1>. QED BY <1>1, LoadInvHolds, PTL

=============================================================================
