---------------------------- MODULE IngestProofs ----------------------------
(***************************************************************************)
(* Proofs about the ingestion service and its clients, for any number of   *)
(* streams, rows, batches, live requests and faults: that stores are safe, *)
(* that what clients count is written, that what the benchmark reports is, *)
(* and that every variable keeps its type.                                 *)
(***************************************************************************)
EXTENDS Ingest, FiniteSetTheorems, SequenceTheorems, WellFoundedInduction, TLAPS

Pcs == {"asked", "building", "ready", "open"} \cup Answers

(* A call is a record of these fields.                                     *)
IsCall(k) ==
  k \in [id : {k.id}, via : {k.via}, what : {k.what}, rows : {k.rows}, saw : {k.saw},
         heard : BOOLEAN, pc : Pcs]

Going == {"window", "row", "transaction", "edges", "edge"}

(* The invariant behind OneNodePerTx: nobody has a store, from the cache   *)
(* or of one's own, without the constraint.                                *)
StoresAreSafe ==
  /\ \A k \in calls : IsCall(k) /\ (k.pc \in {"ready", "open"} => constraint)
  /\ cached => constraint
  /\ \A s \in Streams : sink[s] = "driver" /\ spc[s] \in Going => constraint
  /\ spc \in [Streams -> Going \cup {"new", "stopped", "raised"}]
  /\ sink \in [Streams -> {"api", "driver"}]
  /\ copies \in [Txs -> 0 .. 1]

-----------------------------------------------------------------------------
(* What calls may become.                                                  *)

(* A call that takes a step leaves the others as they were.                *)
LEMMA StepLeaves ==
  ASSUME NEW k, NEW new, Step(k, new)
  PROVE  \A j \in calls' : j \in calls \/ j = new
BY DEF Step

(* Going to another place changes nothing else of a call.                  *)
LEMMA GotoIs ==
  ASSUME NEW k, IsCall(k), NEW l \in Pcs
  PROVE  /\ IsCall([k EXCEPT !.pc = l])
         /\ [k EXCEPT !.pc = l].pc = l
         /\ [k EXCEPT !.pc = l].id = k.id
         /\ [k EXCEPT !.pc = l].what = k.what
         /\ [k EXCEPT !.pc = l].rows = k.rows
         /\ [k EXCEPT !.pc = l].heard = k.heard
BY DEF IsCall

(* Not being heard any more changes nothing else of a call.                *)
LEMMA UnheardIs ==
  ASSUME NEW k, IsCall(k)
  PROVE  /\ IsCall([k EXCEPT !.heard = FALSE])
         /\ [k EXCEPT !.heard = FALSE].pc = k.pc
         /\ [k EXCEPT !.heard = FALSE].id = k.id
         /\ [k EXCEPT !.heard = FALSE].what = k.what
         /\ [k EXCEPT !.heard = FALSE].rows = k.rows
         /\ [k EXCEPT !.heard = FALSE].heard = FALSE
BY DEF IsCall

(* A new call is one, and waits for a store unless it has its own.         *)
LEMMA CallIs ==
  ASSUME NEW id, NEW via \in {"api", "driver"}, NEW what, NEW rows
  PROVE  /\ IsCall(Call(id, via, what, rows))
         /\ Call(id, via, what, rows).pc = (IF via = "api" THEN "asked" ELSE "ready")
         /\ Call(id, via, what, rows).id = id
         /\ Call(id, via, what, rows).what = what
         /\ Call(id, via, what, rows).rows = rows
         /\ Call(id, via, what, rows).heard = TRUE
BY DEF IsCall, Call, Pcs

(* A client that hears or gives up makes no call go on.                    *)
LEMMA RaisesLeaves ==
  ASSUME NEW id, Raises(id)
  PROVE  \A j \in calls' : j \in calls \/ \E k \in calls : j = [k EXCEPT !.heard = FALSE]
BY DEF Raises, TimesOut, Heard

LEMMA ReturnsLeaves ==
  ASSUME NEW id, Returns(id)
  PROVE  \A j \in calls' : j \in calls
BY DEF Returns, Heard

-----------------------------------------------------------------------------
(* Nobody has a store without the constraint.                              *)

LEMMA SafeInit == Init => StoresAreSafe
<1>. SUFFICES ASSUME Init PROVE StoresAreSafe
  OBVIOUS
<1>. USE DEF Init, ServiceInit, StreamInit, StoresAreSafe
<1>1. spc \in [Streams -> {"new", "stopped"}]
  OBVIOUS
<1>. QED BY <1>1 DEF Going

(* Where MERGE finds no conflict it makes no second node.                  *)
LEMMA MergeMakesOne ==
  ASSUME NEW k, constraint, copies \in [Txs -> 0 .. 1], Merge(k)
  PROVE  copies' \in [Txs -> 0 .. 1]
BY DEF Merge, Conflict

LEMMA SafeService ==
  ASSUME StoresAreSafe, ServiceNext, UNCHANGED streamVars
  PROVE  StoresAreSafe'
<1>. USE DEF StoresAreSafe, streamVars
<1>1. CASE Restart
  <2>1. \A j \in calls' : j \in calls \/ \E k \in calls : j = [k EXCEPT !.heard = FALSE]
    BY <1>1 DEF Restart
  <2>2. ASSUME NEW j \in calls' PROVE IsCall(j) /\ (j.pc \in {"ready", "open"} => constraint)
    <3>1. CASE j \in calls
      BY <3>1
    <3>2. ASSUME NEW k \in calls, j = [k EXCEPT !.heard = FALSE]
          PROVE  IsCall(j) /\ (j.pc \in {"ready", "open"} => constraint)
      BY <3>2, UnheardIs
    <3>. QED BY <2>1, <3>1, <3>2
  <2>. QED BY <1>1, <2>2 DEF Restart
<1>2. ASSUME NEW k \in calls, NEW l \in Pcs, Goto(k, l), UNCHANGED <<constraint, cached, copies>>,
             l \in {"ready", "open"} => constraint
      PROVE  StoresAreSafe'
  <2>1. \A j \in calls' : j \in calls \/ j = [k EXCEPT !.pc = l]
    BY <1>2, StepLeaves DEF Goto
  <2>2. IsCall([k EXCEPT !.pc = l]) /\ [k EXCEPT !.pc = l].pc = l
    BY <1>2, GotoIs
  <2>3. \A j \in calls' : IsCall(j) /\ (j.pc \in {"ready", "open"} => constraint)
    BY <1>2, <2>1, <2>2
  <2>. QED BY <1>2, <2>3
<1>3. ASSUME NEW k \in calls, GetCached(k) PROVE StoresAreSafe'
  BY <1>2, <1>3 DEF GetCached, Pcs
<1>4. ASSUME NEW k \in calls, BuildStore(k) PROVE StoresAreSafe'
  BY <1>2, <1>4 DEF BuildStore, Pcs
<1>5. ASSUME NEW k \in calls, EnsureConstraints(k) PROVE StoresAreSafe'
  <2>1. \A j \in calls' : j \in calls \/ j = [k EXCEPT !.pc = "ready"]
    BY <1>5, StepLeaves DEF EnsureConstraints, Goto
  <2>2. \A j \in calls' : IsCall(j)
    BY <2>1, GotoIs DEF Pcs
  <2>. QED BY <1>5, <2>2 DEF EnsureConstraints
<1>6. ASSUME NEW k \in calls, NoStore(k) PROVE StoresAreSafe'
  BY <1>2, <1>6 DEF NoStore, Pcs, Answers
<1>7. ASSUME NEW k \in calls, Begin(k) PROVE StoresAreSafe'
  <2>. DEFINE new == [k EXCEPT !.pc = "open", !.saw = {t \in k.rows : copies[t] > 0}]
  <2>1. \A j \in calls' : j \in calls \/ j = new
    BY <1>7, StepLeaves DEF Begin
  <2>2. IsCall(new)
    BY DEF IsCall, Pcs
  <2>3. constraint
    BY <1>7 DEF Begin
  <2>4. \A j \in calls' : IsCall(j)
    BY <2>1, <2>2
  <2>. QED BY <1>7, <2>3, <2>4 DEF Begin
<1>8. ASSUME NEW k \in calls, k.pc = "open", NEW l \in Answers, Goto(k, l), Merge(k),
             UNCHANGED <<constraint, cached>>
      PROVE  StoresAreSafe'
  <2>1. constraint /\ copies' \in [Txs -> 0 .. 1]
    BY <1>8, MergeMakesOne
  <2>2. \A j \in calls' : j \in calls \/ j = [k EXCEPT !.pc = l]
    BY <1>8, StepLeaves DEF Goto
  <2>3. \A j \in calls' : IsCall(j)
    BY <1>8, <2>2, GotoIs DEF Pcs
  <2>. QED BY <1>8, <2>1, <2>3
<1>9. ASSUME NEW k \in calls, Commit(k) \/ CommitUnheard(k) PROVE StoresAreSafe'
  BY <1>8, <1>9 DEF Commit, CommitUnheard, Answers
<1>10. ASSUME NEW k \in calls, Refused(k) PROVE StoresAreSafe'
  BY <1>2, <1>10 DEF Refused, Pcs, Answers
<1>. QED BY <1>1, <1>3, <1>4, <1>5, <1>6, <1>7, <1>9, <1>10 DEF ServiceNext

CallsAreSafe == \A k \in calls : IsCall(k) /\ (k.pc \in {"ready", "open"} => constraint)

(* A client that posts keeps what is said of calls, if it posts through    *)
(* the API or has a store of its own already.                              *)
LEMMA PostsAreSafe ==
  ASSUME CallsAreSafe, UNCHANGED constraint, NEW id, NEW via \in {"api", "driver"}, NEW what, NEW rows,
         via = "driver" => constraint, calls' = calls \cup {Call(id, via, what, rows)}
  PROVE  CallsAreSafe'
<1>. DEFINE new == Call(id, via, what, rows)
<1>1. IsCall(new) /\ new.pc = (IF via = "api" THEN "asked" ELSE "ready")
  BY DEF IsCall, Call, Pcs
<1>2. new.pc \in {"ready", "open"} => constraint
  BY <1>1
<1>3. \A j \in calls' : j \in calls \/ j = new
  OBVIOUS
<1>. HIDE DEF new
<1>. QED BY <1>1, <1>2, <1>3 DEF CallsAreSafe

(* So does whatever leaves calls as they are, or unheard.                  *)
LEMMA UnheardStaysSafe ==
  ASSUME CallsAreSafe, UNCHANGED constraint,
         \A j \in calls' : j \in calls \/ \E k \in calls : j = [k EXCEPT !.heard = FALSE]
  PROVE  CallsAreSafe'
<1>1. ASSUME NEW j \in calls' PROVE IsCall(j) /\ (j.pc \in {"ready", "open"} => constraint)
  <2>1. CASE j \in calls
    BY <2>1 DEF CallsAreSafe
  <2>2. ASSUME NEW k \in calls, j = [k EXCEPT !.heard = FALSE]
        PROVE  IsCall(j) /\ (j.pc \in {"ready", "open"} => constraint)
    <3>1. IsCall(k) /\ (k.pc \in {"ready", "open"} => constraint)
      BY DEF CallsAreSafe
    <3>. QED BY <2>2, <3>1, UnheardIs
  <2>. QED BY <2>1, <2>2
<1>. QED BY <1>1 DEF CallsAreSafe

(* So does one that hears of an answer, or gives up waiting for it.        *)
LEMMA AnswersAreSafe ==
  ASSUME CallsAreSafe, UNCHANGED constraint, NEW id, Raises(id) \/ Returns(id)
  PROVE  CallsAreSafe'
BY RaisesLeaves, ReturnsLeaves, UnheardStaysSafe

LEMMA SafeStream ==
  ASSUME StoresAreSafe, StreamNext
  PROVE  StoresAreSafe'
<1>. CallsAreSafe
  BY DEF StoresAreSafe, CallsAreSafe
<1>. PICK s \in Streams :
       \/ StartStream(s) \/ NextWindow(s) \/ SendTransaction(s) \/ TransactionReturns(s)
       \/ SendEdge(s) \/ EdgeReturns(s) \/ EndRow(s) \/ StreamRaises(s) \/ StopStream(s)
  BY DEF StreamNext
<1>1. ASSUME CallsAreSafe', UNCHANGED <<constraint, cached, copies, sink>>, spc[s] \in Going,
             NEW l \in Going \cup {"stopped", "raised"}, At(s, l)
      PROVE  StoresAreSafe'
  BY <1>1 DEF StoresAreSafe, CallsAreSafe, At
<1>2. CASE StartStream(s)
  BY <1>2 DEF StartStream, StoresAreSafe, At, Going
<1>3. CASE NextWindow(s)
  BY <1>1, <1>3 DEF NextWindow, serviceVars, CallsAreSafe, Going
<1>4. CASE SendTransaction(s)
  <2>1. CallsAreSafe'
    <3>1. sink[s] \in {"api", "driver"} /\ (sink[s] = "driver" => constraint) /\ UNCHANGED constraint
      BY <1>4 DEF SendTransaction, StoresAreSafe, Going
    <3>2. calls' = calls \cup {Call(Id(s), sink[s], "transaction", {TxOf(s)})}
      BY <1>4 DEF SendTransaction
    <3>. QED BY <3>1, <3>2, PostsAreSafe
  <2>. QED BY <1>1, <1>4, <2>1 DEF SendTransaction, Going
<1>5. CASE TransactionReturns(s)
  <2>1. CallsAreSafe'
    BY <1>5, AnswersAreSafe DEF TransactionReturns
  <2>. QED BY <1>1, <1>5, <2>1 DEF TransactionReturns, Going
<1>6. CASE SendEdge(s)
  <2>1. CallsAreSafe'
    <3>1. sink[s] \in {"api", "driver"} /\ (sink[s] = "driver" => constraint) /\ UNCHANGED constraint
      BY <1>6 DEF SendEdge, StoresAreSafe, Going
    <3>2. \E t : calls' = calls \cup {Call(Id(s), sink[s], "edge", {TxOf(s), t})}
      BY <1>6 DEF SendEdge
    <3>. QED BY <3>1, <3>2, PostsAreSafe
  <2>. QED BY <1>1, <1>6, <2>1 DEF SendEdge, Going
<1>7. CASE EdgeReturns(s)
  <2>1. CallsAreSafe'
    BY <1>7, AnswersAreSafe DEF EdgeReturns
  <2>. QED BY <1>1, <1>7, <2>1 DEF EdgeReturns, Going
<1>8. CASE EndRow(s)
  BY <1>1, <1>8 DEF EndRow, serviceVars, CallsAreSafe, Going
<1>9. CASE StreamRaises(s)
  <2>1. CallsAreSafe'
    BY <1>9, AnswersAreSafe DEF StreamRaises
  <2>. QED BY <1>1, <1>9, <2>1 DEF StreamRaises, Going
<1>10. CASE StopStream(s)
  <2>1. \A j \in calls' : j \in calls \/ \E k \in calls : j = [k EXCEPT !.heard = FALSE]
    BY <1>10 DEF StopStream, Heard
  <2>2. UNCHANGED constraint
    BY <1>10 DEF StopStream
  <2>3. CallsAreSafe'
    BY <2>1, <2>2, UnheardStaysSafe
  <2>. QED BY <1>1, <1>10, <2>3 DEF StopStream, Going, StoresAreSafe
<1>. QED BY <1>2, <1>3, <1>4, <1>5, <1>6, <1>7, <1>8, <1>9, <1>10

LEMMA SafeBench ==
  ASSUME StoresAreSafe, BenchNext, UNCHANGED streamVars
  PROVE  StoresAreSafe'
<1>1. UNCHANGED <<constraint, cached, copies>>
  BY DEF BenchNext, SendBatch, BatchReturns, BatchRaises, SizeEnds, LevelEnds, Submit, Reap,
         Deadline, Drain, Summary, serviceVars
<1>2. CallsAreSafe
  BY DEF StoresAreSafe, CallsAreSafe
<1>3. \/ UNCHANGED calls
      \/ \E f : Post(f)
      \/ \E id : Raises(id) \/ Returns(id)
  BY DEF BenchNext, SendBatch, BatchReturns, BatchRaises, SizeEnds, LevelEnds, Submit, Reap,
         Deadline, Drain, Summary, serviceVars
<1>4. ASSUME UNCHANGED calls PROVE CallsAreSafe'
  BY <1>1, <1>2, <1>4 DEF CallsAreSafe
<1>5. ASSUME NEW f, Post(f) PROVE CallsAreSafe'
  BY <1>1, <1>2, <1>5, PostsAreSafe DEF Post
<1>6. ASSUME NEW id, Raises(id) \/ Returns(id) PROVE CallsAreSafe'
  BY <1>1, <1>2, <1>6, AnswersAreSafe
<1>7. CallsAreSafe'
  BY <1>1, <1>2, <1>3, <1>4, <1>5, <1>6 DEF CallsAreSafe
<1>. QED BY <1>1, <1>7 DEF StoresAreSafe, CallsAreSafe, streamVars

LEMMA SafeLive ==
  ASSUME StoresAreSafe, LivePosts, UNCHANGED streamVars
  PROVE  StoresAreSafe'
<1>1. PICK what, rows :
        calls' = calls \cup {[Call(<<<<"live", 0>>, live>>, "api", what, rows) EXCEPT !.heard = FALSE]}
  BY DEF LivePosts
<1>. DEFINE new == Call(<<<<"live", 0>>, live>>, "api", what, rows)
<1>2. IsCall(new) /\ new.pc = "asked"
  BY DEF IsCall, Call, Pcs
<1>3. \A j \in calls' : j \in calls \/ j = [new EXCEPT !.heard = FALSE]
  BY <1>1
<1>. HIDE DEF new
<1>4. IsCall([new EXCEPT !.heard = FALSE]) /\ [new EXCEPT !.heard = FALSE].pc = "asked"
  BY <1>2, UnheardIs
<1>5. \A j \in calls' : IsCall(j) /\ (j.pc \in {"ready", "open"} => constraint)
  BY <1>3, <1>4 DEF StoresAreSafe
<1>. QED BY <1>5 DEF StoresAreSafe, LivePosts, streamVars

LEMMA StoresStaySafe == Spec => []StoresAreSafe
<1>1. StoresAreSafe /\ [Next]_vars => StoresAreSafe'
  <2>. SUFFICES ASSUME StoresAreSafe, [Next]_vars PROVE StoresAreSafe'
    OBVIOUS
  <2>1. CASE UNCHANGED vars
    BY <2>1 DEF vars, serviceVars, streamVars, StoresAreSafe
  <2>. QED BY <2>1, SafeService, SafeStream, SafeBench, SafeLive DEF Next
<1>. QED BY <1>1, SafeInit, PTL DEF Spec

(* However many requests name a txId at once, on a service that has just   *)
(* started, and whatever of it is restarted, it has one node               *)
(* (memgraph_client.py, lines 19-75; infra/graph/__init__.py, line 26).    *)
THEOREM UpsertsMakeOneNode == Spec => []OneNodePerTx
<1>1. StoresAreSafe => OneNodePerTx
  BY DEF StoresAreSafe, OneNodePerTx
<1>. QED BY <1>1, StoresStaySafe, PTL

-----------------------------------------------------------------------------
(* What is kept: transactions that are written, or were refused and        *)
(* answered ok.                                                            *)
Kept == classed \cup lost

(* The invariant behind CountedIsWritten and NoHollowNode.  An ok answer   *)
(* to a transaction means that it is kept, an edge joins rows that are,    *)
(* and ...                                                                 *)
CallsKeep ==
  /\ \A k \in calls : k.what \in {"transaction", "edge"}
  /\ \A k \in calls : k.what = "transaction" /\ k.pc = "ok" => k.rows \subseteq Kept
  /\ \A k \in calls : k.what = "edge" => k.rows \cap SynTxs \subseteq Kept
  /\ NoHollowNode

(* ... a stream listens to one call at a time, the one of its row.         *)
Listens(s) ==
  /\ spc[s] \in {"new", "window", "row", "edges"} => Heard(Id(s)) = {}
  /\ spc[s] \in {"transaction", "edge"} => \A k, j \in Heard(Id(s)) : k = j
  /\ spc[s] = "transaction" => \A k \in Heard(Id(s)) : k.what = "transaction" /\ k.rows = {TxOf(s)}

Counted(s) == {SynTx(second[s], i) : i \in 0 .. total[s] + done[s] - 1}

Keeps(s) ==
  /\ targets[s] \subseteq Kept
  /\ recent[s] \in Seq(Kept)
  /\ Counted(s) \subseteq Kept
  /\ spc[s] \in {"row", "transaction", "edges", "edge"} => done[s] < count[s]
  /\ spc[s] \in {"edges", "edge"} => TxOf(s) \in Kept

StreamTypes ==
  /\ total \in [Streams -> Nat]
  /\ count \in [Streams -> Nat]
  /\ done \in [Streams -> Nat]
  /\ DOMAIN targets = Streams
  /\ DOMAIN recent = Streams

StreamsKeep == StreamTypes /\ \A s \in Streams : Listens(s) /\ Keeps(s)

WritesAreKept == StoresAreSafe /\ CallsKeep /\ StreamsKeep

-----------------------------------------------------------------------------
(* What is kept stays so, and the calls of others do not concern a stream. *)

LEMMA StreamsStay ==
  ASSUME StreamsKeep, UNCHANGED streamVars, Kept \subseteq Kept',
         \A s \in Streams : Heard(Id(s))' \subseteq Heard(Id(s))
  PROVE  StreamsKeep'
<1>. USE DEF streamVars
<1>1. StreamTypes'
  BY DEF StreamsKeep, StreamTypes
<1>2. ASSUME NEW s \in Streams PROVE Listens(s)'
  <2>1. Listens(s) /\ Heard(Id(s))' \subseteq Heard(Id(s)) /\ TxOf(s)' = TxOf(s)
    BY DEF StreamsKeep, TxOf
  <2>. QED BY <2>1 DEF Listens
<1>3. ASSUME NEW s \in Streams PROVE Keeps(s)'
  <2>1. Keeps(s) /\ TxOf(s)' = TxOf(s) /\ Counted(s)' = Counted(s)
    BY DEF StreamsKeep, TxOf, Counted
  <2>2. Seq(Kept) \subseteq Seq(Kept')
    BY SeqMonotonic
  <2>. QED BY <2>1, <2>2 DEF Keeps
<1>. QED BY <1>1, <1>2, <1>3 DEF StreamsKeep

(* A handler's step leaves its call with its client, or answered.          *)
LEMMA StepStays ==
  ASSUME StreamsKeep, UNCHANGED streamVars, Kept \subseteq Kept',
         NEW k \in calls, NEW new, Step(k, new), k.heard \in BOOLEAN, new.heard = k.heard,
         new.id = k.id, new.what = k.what, new.rows = k.rows
  PROVE  StreamsKeep'
<1>. USE DEF streamVars
<1>1. StreamTypes'
  BY DEF StreamsKeep, StreamTypes
<1>2. ASSUME NEW s \in Streams PROVE Listens(s)'
  <2>1. Listens(s) /\ TxOf(s)' = TxOf(s)
    BY DEF StreamsKeep, TxOf
  <2>2. /\ \A j \in Heard(Id(s))' : (j \in Heard(Id(s)) /\ j # k) \/ (j = new /\ k \in Heard(Id(s)))
    BY DEF Heard, Step, Id
  <2>. QED BY <2>1, <2>2 DEF Listens
<1>3. ASSUME NEW s \in Streams PROVE Keeps(s)'
  <2>1. Keeps(s) /\ TxOf(s)' = TxOf(s) /\ Counted(s)' = Counted(s)
    BY DEF StreamsKeep, TxOf, Counted
  <2>2. Seq(Kept) \subseteq Seq(Kept')
    BY SeqMonotonic
  <2>. QED BY <2>1, <2>2 DEF Keeps
<1>. QED BY <1>1, <1>2, <1>3 DEF StreamsKeep

-----------------------------------------------------------------------------
(* The calls.                                                              *)

\* Nothing is answered ok that is not kept, and nothing written of nobody.
LEMMA CallsStayKept ==
  ASSUME CallsKeep, Kept \subseteq Kept', UNCHANGED copies,
         \A j \in calls' :
           /\ j.what \in {"transaction", "edge"}
           /\ j.what = "transaction" /\ j.pc = "ok" => j.rows \subseteq Kept'
           /\ j.what = "edge" => j.rows \cap SynTxs \subseteq Kept'
  PROVE  CallsKeep'
<1>1. NoHollowNode'
  BY DEF CallsKeep, NoHollowNode, Kept
<1>. QED BY <1>1 DEF CallsKeep

LEMMA UnheardStaysKept ==
  ASSUME StoresAreSafe, CallsKeep, UNCHANGED <<copies, classed, lost>>,
         \A j \in calls' : j \in calls \/ \E k \in calls : j = [k EXCEPT !.heard = FALSE]
  PROVE  CallsKeep'
<1>0. Kept' = Kept
  BY DEF Kept
<1>1. ASSUME NEW j \in calls'
      PROVE  /\ j.what \in {"transaction", "edge"}
             /\ j.what = "transaction" /\ j.pc = "ok" => j.rows \subseteq Kept
             /\ j.what = "edge" => j.rows \cap SynTxs \subseteq Kept
  <2>1. CASE j \in calls
    BY <2>1 DEF CallsKeep
  <2>2. ASSUME NEW k \in calls, j = [k EXCEPT !.heard = FALSE]
        PROVE  /\ j.what \in {"transaction", "edge"}
               /\ j.what = "transaction" /\ j.pc = "ok" => j.rows \subseteq Kept
               /\ j.what = "edge" => j.rows \cap SynTxs \subseteq Kept
    <3>1. IsCall(k)
      BY DEF StoresAreSafe
    <3>2. j.what = k.what /\ j.pc = k.pc /\ j.rows = k.rows
      BY <2>2, <3>1, UnheardIs
    <3>. QED BY <3>2 DEF CallsKeep
  <2>. QED BY <2>1, <2>2
<1>. QED BY <1>0, <1>1, CallsStayKept

LEMMA KeptService ==
  ASSUME WritesAreKept, ServiceNext, UNCHANGED streamVars
  PROVE  CallsKeep' /\ StreamsKeep'
<1>. USE DEF WritesAreKept
<1>1. CASE Restart
  <2>1. \A j \in calls' : j \in calls \/ \E k \in calls : j = [k EXCEPT !.heard = FALSE]
    BY <1>1 DEF Restart
  <2>2. CallsKeep'
    BY <1>1, <2>1, UnheardStaysKept DEF Restart
  <2>3. ASSUME NEW s \in Streams, NEW j \in Heard(Id(s))' PROVE j \in Heard(Id(s))
    <3>1. ASSUME NEW k \in calls, j = [k EXCEPT !.heard = FALSE] PROVE FALSE
      <4>1. j.heard = FALSE
        BY <3>1, UnheardIs DEF StoresAreSafe
      <4>. QED BY <4>1 DEF Heard
    <3>2. j \in calls /\ j.id = Id(s) /\ j.heard
      BY <2>1, <3>1 DEF Heard, Id
    <3>. QED BY <3>2 DEF Heard
  <2>4. Kept \subseteq Kept'
    BY <1>1 DEF Restart, Kept
  <2>. QED BY <2>2, <2>3, <2>4, StreamsStay
<1>2. ASSUME NEW k \in calls, NEW new, Step(k, new), IsCall(k), Kept \subseteq Kept',
             new.heard = k.heard, new.id = k.id, new.what = k.what, new.rows = k.rows,
             k.what = "transaction" /\ new.pc = "ok" => k.rows \subseteq Kept',
             \A t \in SynTxs : copies'[t] > 0 => copies[t] > 0 \/ (t \in k.rows /\ (k.what = "edge" \/ t \in Kept'))
      PROVE  CallsKeep' /\ StreamsKeep'
  <2>1. k.heard \in BOOLEAN
    BY <1>2 DEF IsCall
  <2>2. StreamsKeep'
    BY <1>2, <2>1, StepStays
  <2>3. \A j \in calls' : j \in calls \/ j = new
    BY <1>2, StepLeaves
  <2>4. NoHollowNode'
    BY <1>2 DEF CallsKeep, NoHollowNode, Kept
  <2>5. \A j \in calls' :
          /\ j.what \in {"transaction", "edge"}
          /\ j.what = "transaction" /\ j.pc = "ok" => j.rows \subseteq Kept'
          /\ j.what = "edge" => j.rows \cap SynTxs \subseteq Kept'
    BY <1>2, <2>3 DEF CallsKeep
  <2>. QED BY <2>2, <2>4, <2>5 DEF CallsKeep
<1>3. ASSUME NEW k \in calls, NEW l \in Pcs, Goto(k, l), UNCHANGED <<copies, classed>>, Kept \subseteq Kept',
             k.what = "transaction" /\ l = "ok" => k.rows \subseteq Kept'
      PROVE  CallsKeep' /\ StreamsKeep'
  <2>1. IsCall(k)
    BY DEF StoresAreSafe
  <2>. DEFINE new == [k EXCEPT !.pc = l]
  <2>2. /\ new.pc = l /\ new.id = k.id /\ new.what = k.what /\ new.rows = k.rows
        /\ new.heard = k.heard
    BY <2>1, GotoIs
  <2>3. Step(k, new)
    BY <1>3 DEF Goto
  <2>4. UNCHANGED copies /\ Kept \subseteq Kept' /\ (k.what = "transaction" /\ l = "ok" => k.rows \subseteq Kept')
    BY <1>3
  <2>. HIDE DEF new
  <2>. QED BY <1>2, <2>1, <2>2, <2>3, <2>4
<1>4. ASSUME NEW k \in calls, GetCached(k) \/ BuildStore(k) \/ EnsureConstraints(k) \/ NoStore(k)
      PROVE  CallsKeep' /\ StreamsKeep'
  <2>1. PICK l \in Pcs \ {"ok"} : Goto(k, l)
    BY <1>4 DEF GetCached, BuildStore, EnsureConstraints, NoStore, Pcs, Answers
  <2>2. UNCHANGED <<copies, classed, lost>>
    BY <1>4 DEF GetCached, BuildStore, EnsureConstraints, NoStore
  <2>3. Kept \subseteq Kept'
    BY <2>2 DEF Kept
  <2>. QED BY <1>3, <2>1, <2>2, <2>3
<1>5. ASSUME NEW k \in calls, Begin(k) PROVE CallsKeep' /\ StreamsKeep'
  <2>1. IsCall(k)
    BY DEF StoresAreSafe
  <2>. DEFINE new == [k EXCEPT !.pc = "open", !.saw = {t \in k.rows : copies[t] > 0}]
  <2>2. /\ new.pc = "open" /\ new.id = k.id /\ new.what = k.what /\ new.rows = k.rows
        /\ new.heard = k.heard
    BY <2>1 DEF IsCall
  <2>3. Step(k, new) /\ UNCHANGED <<copies, classed, lost>>
    BY <1>5 DEF Begin
  <2>. HIDE DEF new
  <2>4. Kept \subseteq Kept'
    BY <2>3 DEF Kept
  <2>. QED BY <1>2, <2>1, <2>2, <2>3, <2>4
<1>6. ASSUME NEW k \in calls, NEW l \in Answers, Goto(k, l), Merge(k), UNCHANGED lost
      PROVE  CallsKeep' /\ StreamsKeep'
  <2>1. IsCall(k) /\ k.what \in {"transaction", "edge"}
    BY DEF StoresAreSafe, CallsKeep
  <2>. DEFINE new == [k EXCEPT !.pc = l]
  <2>2. /\ new.pc = l /\ new.id = k.id /\ new.what = k.what /\ new.rows = k.rows
        /\ new.heard = k.heard
    BY <2>1, GotoIs DEF Pcs
  <2>3. Step(k, new)
    BY <1>6 DEF Goto
  <2>4. Kept \subseteq Kept' /\ (k.what = "transaction" => k.rows \subseteq Kept')
    BY <1>6 DEF Merge, Kept
  <2>5. \A t \in SynTxs : copies'[t] > 0 => copies[t] > 0 \/ (t \in k.rows /\ (k.what = "edge" \/ t \in Kept'))
    <3>1. ASSUME NEW t \in SynTxs, copies'[t] > 0, ~(copies[t] > 0) PROVE t \in k.rows
      BY <1>6, <3>1, IngestAssumption DEF Merge
    <3>2. k.what = "edge" \/ k.rows \subseteq Kept'
      BY <2>1, <2>4
    <3>. QED BY <3>1, <3>2
  <2>. HIDE DEF new
  <2>. QED BY <1>2, <2>1, <2>2, <2>3, <2>4, <2>5
<1>7. ASSUME NEW k \in calls, Commit(k) \/ CommitUnheard(k) PROVE CallsKeep' /\ StreamsKeep'
  BY <1>6, <1>7 DEF Commit, CommitUnheard, Answers
<1>8. ASSUME NEW k \in calls, Refused(k) PROVE CallsKeep' /\ StreamsKeep'
  <2>1. PICK l \in Answers : Goto(k, l) /\ (k.what = "transaction" /\ l = "ok" => k.rows \subseteq lost')
    BY <1>8 DEF Refused, Answers
  <2>2. UNCHANGED <<copies, classed>> /\ lost \subseteq lost'
    BY <1>8 DEF Refused
  <2>3. Kept \subseteq Kept' /\ lost' \subseteq Kept'
    BY <2>2 DEF Kept
  <2>. QED BY <1>3, <2>1, <2>2, <2>3 DEF Pcs
<1>. QED BY <1>1, <1>4, <1>5, <1>7, <1>8 DEF ServiceNext

-----------------------------------------------------------------------------
(* The benchmark and the live source.                                      *)

(* A call that a client posts is not answered, and nobody else hears it.   *)
LEMMA PostStaysKept ==
  ASSUME WritesAreKept, UNCHANGED <<copies, classed, lost>>,
         NEW new, calls' = calls \cup {new}, new.pc # "ok", new.what \in {"transaction", "edge"},
         new.what = "edge" => new.rows \cap SynTxs \subseteq Kept
  PROVE  CallsKeep'
<1>1. Kept' = Kept
  BY DEF Kept
<1>2. \A j \in calls' : j \in calls \/ j = new
  OBVIOUS
<1>. QED BY <1>1, <1>2, CallsStayKept DEF WritesAreKept, CallsKeep

LEMMA PostUnheardByStreams ==
  ASSUME WritesAreKept, UNCHANGED <<streamVars, classed, lost>>,
         NEW new, calls' = calls \cup {new}, \A s \in Streams : ~(new.id = Id(s) /\ new.heard)
  PROVE  StreamsKeep'
<1>1. Kept \subseteq Kept'
  BY DEF Kept
<1>2. ASSUME NEW s \in Streams PROVE Heard(Id(s))' \subseteq Heard(Id(s))
  BY DEF Heard, Id
<1>. QED BY <1>1, <1>2, StreamsStay DEF WritesAreKept

(* What one client hears or gives up, no other loses or gains.             *)
LEMMA OthersHearTheSame ==
  ASSUME StoresAreSafe, NEW id, Raises(id) \/ Returns(id)
  PROVE  \A j \in calls' : j.heard => j \in calls
<1>1. ASSUME NEW j \in calls', NEW k \in calls, j = [k EXCEPT !.heard = FALSE] PROVE j.heard = FALSE
  BY <1>1, UnheardIs DEF StoresAreSafe
<1>. QED BY <1>1, RaisesLeaves, ReturnsLeaves

LEMMA AnswerStaysKept ==
  ASSUME WritesAreKept, UNCHANGED <<copies, classed, lost>>, NEW id, Raises(id) \/ Returns(id)
  PROVE  CallsKeep'
BY RaisesLeaves, ReturnsLeaves, UnheardStaysKept DEF WritesAreKept

LEMMA AnswerStaysHeard ==
  ASSUME WritesAreKept, UNCHANGED <<streamVars, classed, lost>>, NEW id, Raises(id) \/ Returns(id)
  PROVE  StreamsKeep'
<1>1. Kept \subseteq Kept'
  BY DEF Kept
<1>2. \A s \in Streams : Heard(Id(s))' \subseteq Heard(Id(s))
  BY OthersHearTheSame DEF WritesAreKept, Heard, Id
<1>. QED BY <1>1, <1>2, StreamsStay DEF WritesAreKept

LEMMA KeptBench ==
  ASSUME WritesAreKept, BenchNext, UNCHANGED streamVars
  PROVE  CallsKeep' /\ StreamsKeep'
<1>1. UNCHANGED <<copies, classed, lost>>
  BY DEF BenchNext, SendBatch, BatchReturns, BatchRaises, SizeEnds, LevelEnds, Submit, Reap,
         Deadline, Drain, Summary, serviceVars
<1>2. \/ UNCHANGED calls
      \/ \E f : Post(f)
      \/ \E id : Raises(id) \/ Returns(id)
  BY DEF BenchNext, SendBatch, BatchReturns, BatchRaises, SizeEnds, LevelEnds, Submit, Reap,
         Deadline, Drain, Summary, serviceVars
<1>3. ASSUME UNCHANGED calls PROVE CallsKeep' /\ StreamsKeep'
  <2>1. Kept' = Kept
    BY <1>1 DEF Kept
  <2>2. \A s \in Streams : Heard(Id(s))' \subseteq Heard(Id(s))
    BY <1>3 DEF Heard, Id
  <2>3. StreamsKeep'
    BY <2>1, <2>2, StreamsStay DEF WritesAreKept
  <2>4. CallsKeep'
    BY <1>1, <1>3, <2>1, CallsStayKept DEF WritesAreKept, CallsKeep
  <2>. QED BY <2>3, <2>4
<1>4. ASSUME NEW f, Post(f) PROVE CallsKeep' /\ StreamsKeep'
  <2>. DEFINE new == Call(BatchId(f), "api", "transaction", RowsOf(f))
  <2>1. /\ calls' = calls \cup {new}
        /\ new.pc = "asked" /\ new.what = "transaction" /\ new.id = BatchId(f)
    BY <1>4 DEF Post, Call
  <2>2. \A s \in Streams : BatchId(f) # Id(s)
    BY DEF BatchId, RunOf, Id
  <2>. HIDE DEF new
  <2>. QED BY <1>1, <2>1, <2>2, PostStaysKept, PostUnheardByStreams
<1>5. ASSUME NEW id, Raises(id) \/ Returns(id) PROVE CallsKeep' /\ StreamsKeep'
  BY <1>1, <1>5, AnswerStaysKept, AnswerStaysHeard
<1>. QED BY <1>2, <1>3, <1>4, <1>5

LEMMA KeptLive ==
  ASSUME WritesAreKept, LivePosts, UNCHANGED streamVars
  PROVE  CallsKeep' /\ StreamsKeep'
<1>1. UNCHANGED <<copies, classed, lost>>
  BY DEF LivePosts
<1>2. PICK what \in {"transaction", "edge"}, rows \in SUBSET LiveTxs :
        calls' = calls \cup {[Call(<<<<"live", 0>>, live>>, "api", what, rows) EXCEPT !.heard = FALSE]}
  BY DEF LivePosts
<1>. DEFINE new == [Call(<<<<"live", 0>>, live>>, "api", what, rows) EXCEPT !.heard = FALSE]
<1>3. new.pc = "asked" /\ new.what = what /\ new.rows = rows /\ ~new.heard
  BY DEF Call
<1>4. calls' = calls \cup {new}
  BY <1>2
<1>5. rows \cap SynTxs = {}
  BY IngestAssumption
<1>. HIDE DEF new
<1>. QED BY <1>1, <1>3, <1>4, <1>5, PostStaysKept, PostUnheardByStreams

-----------------------------------------------------------------------------
(* The streams.                                                            *)

LEMMA KeptInit == Init => WritesAreKept
<1>. SUFFICES ASSUME Init PROVE WritesAreKept
  OBVIOUS
<1>1. StoresAreSafe
  BY SafeInit
<1>2. CallsKeep
  BY IngestAssumption DEF Init, ServiceInit, CallsKeep, NoHollowNode
<1>3. StreamTypes /\ \A s \in Streams : recent[s] = << >> /\ targets[s] = {} /\ total[s] = 0 /\ done[s] = 0
  BY DEF Init, StreamInit, StreamTypes
<1>4. ASSUME NEW s \in Streams PROVE Listens(s) /\ Keeps(s)
  <2>1. spc[s] \in {"new", "stopped"}
    BY DEF Init, StreamInit
  <2>2. Counted(s) = {}
    BY <1>3 DEF Counted
  <2>3. << >> \in Seq(Kept)
    OBVIOUS
  <2>. QED BY <1>3, <2>1, <2>2, <2>3 DEF Listens, Keeps, Init, ServiceInit, Heard
<1>. QED BY <1>1, <1>2, <1>3, <1>4 DEF WritesAreKept, StreamsKeep

(* A step of one stream is no step of another.                             *)
LEMMA OneStreamActs ==
  ASSUME StreamsKeep, UNCHANGED <<classed, lost, second>>, NEW s \in Streams,
         StreamTypes', Listens(s)', Keeps(s)',
         \A r \in Streams :
           r # s => /\ spc'[r] = spc[r] /\ total'[r] = total[r] /\ count'[r] = count[r]
                    /\ done'[r] = done[r] /\ targets'[r] = targets[r] /\ recent'[r] = recent[r]
                    /\ Heard(Id(r))' \subseteq Heard(Id(r))
  PROVE  StreamsKeep'
<1>1. Kept' = Kept
  BY DEF Kept
<1>2. ASSUME NEW r \in Streams, r # s PROVE Listens(r)' /\ Keeps(r)'
  <2>1. TxOf(r)' = TxOf(r) /\ Counted(r)' = Counted(r)
    BY <1>2 DEF TxOf, Counted
  <2>2. Listens(r)'
    BY <1>2, <2>1 DEF StreamsKeep, Listens
  <2>3. Keeps(r)'
    BY <1>1, <1>2, <2>1 DEF StreamsKeep, Keeps
  <2>. QED BY <2>2, <2>3
<1>. QED BY <1>2 DEF StreamsKeep

(* The one answer a stream waits for.                                      *)
LEMMA OneAnswer ==
  ASSUME StreamsKeep, NEW s \in Streams, spc[s] \in {"transaction", "edge"}, Returns(Id(s))
  PROVE  \E k \in Heard(Id(s)) : k.pc = "ok" /\ calls' = calls \ {k} /\ Heard(Id(s))' = {}
BY DEF StreamsKeep, Listens, Returns, Heard, Id

(* recent_ids holds on to what is kept.                                    *)
LEMMA RememberKeeps ==
  ASSUME NEW S, NEW ids \in Seq(S), NEW t \in S
  PROVE  Remember(ids, t) \in Seq(S)
<1>1. CASE Len(ids) < Recency
  BY <1>1 DEF Remember
<1>2. CASE ~(Len(ids) < Recency)
  <2>1. ids # << >>
    BY <1>2, SyntheticStreamAssumption
  <2>2. Tail(ids) \in Seq(S)
    BY <2>1, HeadTailProperties
  <2>. QED BY <1>2, <2>2 DEF Remember
<1>. QED BY <1>1, <1>2

(* Nobody but its stream listens to a call that a stream posts.            *)
LEMMA StreamPosts ==
  ASSUME WritesAreKept, NEW s \in Streams, NEW new, calls' = calls \cup {new},
         new.id = Id(s), Heard(Id(s)) = {}
  PROVE  /\ \A r \in Streams : r # s => Heard(Id(r))' \subseteq Heard(Id(r))
         /\ \A k \in Heard(Id(s))' : k = new
<1>1. \A r \in Streams : r # s => Id(r) # Id(s)
  BY DEF Id
<1>. QED BY <1>1 DEF Heard, Id

LEMMA KeptStream ==
  ASSUME WritesAreKept, StreamNext
  PROVE  CallsKeep' /\ StreamsKeep'
<1>. PICK s \in Streams :
       \/ StartStream(s) \/ NextWindow(s) \/ SendTransaction(s) \/ TransactionReturns(s)
       \/ SendEdge(s) \/ EdgeReturns(s) \/ EndRow(s) \/ StreamRaises(s) \/ StopStream(s)
  BY DEF StreamNext
<1>0. /\ StoresAreSafe /\ CallsKeep /\ StreamsKeep /\ StreamTypes /\ Listens(s) /\ Keeps(s)
      /\ spc \in [Streams -> Going \cup {"new", "stopped", "raised"}]
  BY DEF WritesAreKept, StreamsKeep, StoresAreSafe
<1>. /\ UNCHANGED <<copies, classed, lost, second, sink>>
     /\ Kept' = Kept
  BY DEF StartStream, NextWindow, SendTransaction, TransactionReturns, SendEdge, EdgeReturns, EndRow,
         StreamRaises, StopStream, serviceVars, Kept
<1>1. ASSUME UNCHANGED calls PROVE CallsKeep'
  BY <1>0, <1>1, CallsStayKept DEF CallsKeep
<1>2. ASSUME UNCHANGED calls PROVE \A r \in Streams : Heard(Id(r))' \subseteq Heard(Id(r))
  BY <1>2 DEF Heard, Id
<1>3. CASE StartStream(s)
  <2>1. StreamTypes' /\ Listens(s)' /\ Keeps(s)'
    BY <1>0, <1>2, <1>3 DEF StartStream, StreamTypes, Listens, Keeps, Counted, TxOf, At
  <2>. QED BY <1>0, <1>1, <1>2, <1>3, <2>1, OneStreamActs DEF StartStream, At
<1>4. CASE NextWindow(s)
  <2>0. UNCHANGED calls
    BY <1>4 DEF NextWindow, serviceVars
  <2>1. PICK n \in 1 .. StreamRows - total[s] : count' = [count EXCEPT ![s] = n]
    BY <1>4 DEF NextWindow
  <2>2. n \in Nat \ {0}
    BY <1>0, SyntheticStreamAssumption DEF StreamTypes
  <2>3. StreamTypes' /\ done'[s] = 0 /\ count'[s] = n /\ total'[s] = total[s] /\ spc'[s] = "row"
    BY <1>0, <1>4, <2>1, <2>2 DEF NextWindow, StreamTypes, At
  <2>4. Listens(s)'
    BY <1>0, <1>2, <1>4, <2>0, <2>3 DEF NextWindow, Listens
  <2>5. Counted(s)' \subseteq Counted(s)
    BY <1>0, <2>3 DEF StreamTypes, Counted
  <2>6. Keeps(s)'
    BY <1>0, <1>4, <2>2, <2>3, <2>5 DEF NextWindow, Keeps
  <2>. QED BY <1>0, <1>1, <1>2, <1>4, <2>0, <2>3, <2>4, <2>6, OneStreamActs DEF NextWindow, At
<1>5. CASE SendTransaction(s)
  <2>. DEFINE new == Call(Id(s), sink[s], "transaction", {TxOf(s)})
  <2>1. /\ calls' = calls \cup {new}
        /\ new.id = Id(s) /\ new.pc # "ok" /\ new.what = "transaction" /\ new.rows = {TxOf(s)}
    BY <1>5 DEF SendTransaction, Call
  <2>. HIDE DEF new
  <2>2. Heard(Id(s)) = {}
    BY <1>0, <1>5 DEF SendTransaction, Listens
  <2>3. CallsKeep'
    BY <2>1, PostStaysKept
  <2>4. /\ \A r \in Streams : r # s => Heard(Id(r))' \subseteq Heard(Id(r))
        /\ \A k \in Heard(Id(s))' : k = new
    BY <2>1, <2>2, StreamPosts
  <2>5. StreamTypes' /\ TxOf(s)' = TxOf(s) /\ Counted(s)' = Counted(s) /\ spc'[s] = "transaction"
    BY <1>0, <1>5 DEF SendTransaction, StreamTypes, TxOf, Counted, At
  <2>6. Listens(s)'
    BY <2>1, <2>4, <2>5 DEF Listens
  <2>7. Keeps(s)'
    BY <1>0, <1>5, <2>5 DEF SendTransaction, Keeps
  <2>. QED BY <1>0, <1>5, <2>3, <2>4, <2>5, <2>6, <2>7, OneStreamActs DEF SendTransaction, At
<1>6. ASSUME Returns(Id(s)), spc[s] \in {"transaction", "edge"}
      PROVE  /\ CallsKeep'
             /\ Heard(Id(s))' = {}
             /\ \A r \in Streams : Heard(Id(r))' \subseteq Heard(Id(r))
             /\ spc[s] = "transaction" => TxOf(s) \in Kept
  <2>1. PICK k \in Heard(Id(s)) : k.pc = "ok" /\ calls' = calls \ {k} /\ Heard(Id(s))' = {}
    BY <1>0, <1>6, OneAnswer
  <2>2. CallsKeep'
    BY <1>6, AnswerStaysKept
  <2>3. \A r \in Streams : Heard(Id(r))' \subseteq Heard(Id(r))
    BY <2>1 DEF Heard, Id
  <2>4. ASSUME spc[s] = "transaction" PROVE TxOf(s) \in Kept
    <3>1. k \in calls /\ k.what = "transaction" /\ k.rows = {TxOf(s)}
      BY <1>0, <2>1, <2>4 DEF Listens, Heard
    <3>. QED BY <1>0, <2>1, <3>1 DEF CallsKeep
  <2>. QED BY <2>1, <2>2, <2>3, <2>4
<1>7. CASE TransactionReturns(s)
  <2>1. PICK ts \in SomeRecent(s) : targets' = [targets EXCEPT ![s] = ts]
    BY <1>7 DEF TransactionReturns
  <2>2. ts \subseteq Kept
    BY <1>0 DEF SomeRecent, Keeps
  <2>3. /\ CallsKeep' /\ Heard(Id(s))' = {} /\ TxOf(s) \in Kept
        /\ \A r \in Streams : Heard(Id(r))' \subseteq Heard(Id(r))
    BY <1>6, <1>7 DEF TransactionReturns
  <2>4. StreamTypes' /\ TxOf(s)' = TxOf(s) /\ Counted(s)' = Counted(s) /\ spc'[s] = "edges" /\ targets'[s] = ts
    BY <1>0, <1>7, <2>1 DEF TransactionReturns, StreamTypes, TxOf, Counted, At
  <2>5. Listens(s)' /\ Keeps(s)'
    BY <1>0, <1>7, <2>2, <2>3, <2>4 DEF TransactionReturns, Listens, Keeps
  <2>. QED BY <1>0, <1>7, <2>1, <2>3, <2>4, <2>5, OneStreamActs DEF TransactionReturns, At
<1>8. CASE SendEdge(s)
  <2>1. PICK t \in targets[s] :
          /\ targets' = [targets EXCEPT ![s] = @ \ {t}]
          /\ calls' = calls \cup {Call(Id(s), sink[s], "edge", {TxOf(s), t})}
    BY <1>8 DEF SendEdge
  <2>. DEFINE new == Call(Id(s), sink[s], "edge", {TxOf(s), t})
  <2>2. /\ calls' = calls \cup {new}
        /\ new.id = Id(s) /\ new.pc # "ok" /\ new.what = "edge" /\ new.rows = {TxOf(s), t}
    BY <2>1 DEF Call
  <2>. HIDE DEF new
  <2>3. Heard(Id(s)) = {} /\ {TxOf(s), t} \subseteq Kept
    BY <1>0, <1>8 DEF SendEdge, Listens, Keeps
  <2>4. CallsKeep'
    BY <2>2, <2>3, PostStaysKept
  <2>5. /\ \A r \in Streams : r # s => Heard(Id(r))' \subseteq Heard(Id(r))
        /\ \A k \in Heard(Id(s))' : k = new
    BY <2>2, <2>3, StreamPosts
  <2>6. /\ StreamTypes' /\ TxOf(s)' = TxOf(s) /\ Counted(s)' = Counted(s) /\ spc'[s] = "edge"
        /\ targets'[s] = targets[s] \ {t}
    BY <1>0, <1>8, <2>1 DEF SendEdge, StreamTypes, TxOf, Counted, At
  <2>7. Listens(s)'
    BY <2>5, <2>6 DEF Listens
  <2>8. Keeps(s)'
    BY <1>0, <1>8, <2>3, <2>6 DEF SendEdge, Keeps
  <2>. QED BY <1>0, <1>8, <2>1, <2>4, <2>5, <2>6, <2>7, <2>8, OneStreamActs DEF SendEdge, At
<1>9. CASE EdgeReturns(s)
  <2>1. /\ CallsKeep' /\ Heard(Id(s))' = {}
        /\ \A r \in Streams : Heard(Id(r))' \subseteq Heard(Id(r))
    BY <1>6, <1>9 DEF EdgeReturns
  <2>2. StreamTypes' /\ TxOf(s)' = TxOf(s) /\ Counted(s)' = Counted(s) /\ spc'[s] = "edges"
    BY <1>0, <1>9 DEF EdgeReturns, StreamTypes, TxOf, Counted, At
  <2>3. Listens(s)' /\ Keeps(s)'
    BY <1>0, <1>9, <2>1, <2>2 DEF EdgeReturns, Listens, Keeps
  <2>. QED BY <1>0, <1>9, <2>1, <2>2, <2>3, OneStreamActs DEF EdgeReturns, At
<1>10. CASE EndRow(s)
  <2>1. UNCHANGED calls /\ TxOf(s) \in Kept /\ Heard(Id(s)) = {} /\ done[s] < count[s]
    BY <1>0, <1>10 DEF EndRow, serviceVars, Keeps, Listens
  <2>2. recent'[s] \in Seq(Kept)
    BY <1>0, <1>10, <2>1, RememberKeeps DEF EndRow, StreamTypes, Keeps
  <2>3. /\ StreamTypes'
        /\ total'[s] + done'[s] = total[s] + done[s] + 1
        /\ \/ spc'[s] = "row" /\ done'[s] < count'[s]
           \/ spc'[s] = "window"
    BY <1>0, <1>10, <2>1 DEF EndRow, StreamTypes, At
  <2>4. Counted(s)' \subseteq Counted(s) \cup {TxOf(s)}
    <3>1. \A i \in 0 .. total[s] + done[s] : i \in 0 .. total[s] + done[s] - 1 \/ i = total[s] + done[s]
      BY <1>0 DEF StreamTypes
    <3>. QED BY <1>0, <2>3, <3>1 DEF StreamTypes, Counted, TxOf
  <2>5. Listens(s)'
    BY <1>2, <2>1, <2>3 DEF Listens
  <2>6. Keeps(s)'
    BY <1>0, <1>10, <2>1, <2>2, <2>3, <2>4 DEF EndRow, Keeps
  <2>7. CallsKeep' /\ \A r \in Streams : Heard(Id(r))' \subseteq Heard(Id(r))
    BY <1>1, <1>2, <2>1
  <2>8. ASSUME NEW r \in Streams, r # s
        PROVE  /\ spc'[r] = spc[r] /\ total'[r] = total[r] /\ count'[r] = count[r]
               /\ done'[r] = done[r] /\ targets'[r] = targets[r] /\ recent'[r] = recent[r]
    <3>1. /\ DOMAIN total = Streams /\ DOMAIN count = Streams /\ DOMAIN done = Streams
          /\ DOMAIN recent = Streams /\ DOMAIN spc = Streams
      BY <1>0 DEF StreamTypes
    <3>2. recent'[r] = recent[r] /\ targets'[r] = targets[r]
      BY <1>10, <2>8, <3>1 DEF EndRow
    <3>3. CASE done[s] + 1 < count[s]
      BY <1>10, <2>8, <3>1, <3>2, <3>3 DEF EndRow, At
    <3>4. CASE ~(done[s] + 1 < count[s])
      BY <1>10, <2>8, <3>1, <3>2, <3>4 DEF EndRow, At
    <3>. QED BY <3>3, <3>4
  <2>9. UNCHANGED <<classed, lost, second>>
    BY <1>10 DEF EndRow, serviceVars
  <2>. QED BY <1>0, <2>3, <2>5, <2>6, <2>7, <2>8, <2>9, OneStreamActs
<1>11. ASSUME spc'[s] \in {"raised", "stopped"}, UNCHANGED <<total, count, done, targets, recent>>,
              \A r \in Streams : r # s => spc'[r] = spc[r] /\ Heard(Id(r))' \subseteq Heard(Id(r))
       PROVE  StreamsKeep'
  <2>1. StreamTypes' /\ Listens(s)' /\ Keeps(s)'
    BY <1>0, <1>11 DEF StreamTypes, Listens, Keeps, Counted, TxOf
  <2>. QED BY <1>0, <1>11, <2>1, OneStreamActs
<1>12. CASE StreamRaises(s)
  <2>1. CallsKeep'
    BY <1>12, AnswerStaysKept DEF StreamRaises
  <2>2. \A r \in Streams : Heard(Id(r))' \subseteq Heard(Id(r))
    BY <1>0, <1>12, OthersHearTheSame DEF StreamRaises, Heard, Id
  <2>. QED BY <1>0, <1>11, <1>12, <2>1, <2>2 DEF StreamRaises, At
<1>13. CASE StopStream(s)
  <2>1. \A j \in calls' : j \in calls \/ \E k \in calls : j = [k EXCEPT !.heard = FALSE]
    BY <1>13 DEF StopStream, Heard
  <2>2. CallsKeep'
    BY <1>0, <2>1, UnheardStaysKept
  <2>3. ASSUME NEW j \in calls', j.heard PROVE j \in calls
    <3>1. ASSUME NEW k \in calls, j = [k EXCEPT !.heard = FALSE] PROVE FALSE
      <4>1. j.heard = FALSE
        BY <1>0, <3>1, UnheardIs DEF StoresAreSafe
      <4>. QED BY <2>3, <4>1
    <3>. QED BY <2>1, <3>1
  <2>4. \A r \in Streams : Heard(Id(r))' \subseteq Heard(Id(r))
    BY <2>3 DEF Heard, Id
  <2>. QED BY <1>0, <1>11, <1>13, <2>2, <2>4 DEF StopStream, At
<1>. QED BY <1>3, <1>4, <1>5, <1>7, <1>8, <1>9, <1>10, <1>12, <1>13

LEMMA WritesStayKept == Spec => []WritesAreKept
<1>1. WritesAreKept /\ [Next]_vars => WritesAreKept'
  <2>. SUFFICES ASSUME WritesAreKept, [Next]_vars PROVE WritesAreKept'
    OBVIOUS
  <2>1. StoresAreSafe'
    <3>1. CASE UNCHANGED vars
      BY <3>1 DEF vars, serviceVars, streamVars, StoresAreSafe, WritesAreKept
    <3>. QED BY <3>1, SafeService, SafeStream, SafeBench, SafeLive DEF Next, WritesAreKept
  <2>2. CASE UNCHANGED vars
    <3>1. Kept' = Kept /\ UNCHANGED <<calls, copies, streamVars>>
      BY <2>2 DEF vars, serviceVars, Kept
    <3>2. \A s \in Streams : Heard(Id(s))' \subseteq Heard(Id(s))
      BY <3>1 DEF Heard, Id
    <3>3. StreamsKeep'
      BY <3>1, <3>2, StreamsStay DEF WritesAreKept
    <3>4. CallsKeep'
      BY <3>1, CallsStayKept DEF WritesAreKept, CallsKeep
    <3>. QED BY <2>1, <3>3, <3>4 DEF WritesAreKept
  <2>. QED BY <2>1, <2>2, KeptService, KeptStream, KeptBench, KeptLive DEF Next, WritesAreKept
<1>. QED BY <1>1, KeptInit, PTL DEF Spec

(* What a stream reports and may join edges to is in the graph with its    *)
(* class, unless it was refused and answered ok, however many streams      *)
(* there are, whatever times out, fails, restarts or is interrupted        *)
(* (generate_synthetic_stream.py, lines 209-230 and 257-259).              *)
THEOREM StreamsCountWhatIsWritten == Spec => []CountedIsWritten
<1>1. WritesAreKept => CountedIsWritten
  BY DEF WritesAreKept, StreamsKeep, Keeps, Counted, CountedIsWritten, Kept
<1>. QED BY <1>1, WritesStayKept, PTL

(* No stream leaves a node without a class behind, as an edge that comes   *)
(* before its transactions does (memgraph_client.py, lines 42-52), but for *)
(* transactions that were refused and answered ok all the same.            *)
THEOREM StreamsLeaveNoHollowNode == Spec => []NoHollowNode
<1>1. WritesAreKept => NoHollowNode
  BY DEF WritesAreKept, CallsKeep
<1>. QED BY <1>1, WritesStayKept, PTL

-----------------------------------------------------------------------------
(* The smallest and the largest of a set of numbers, which Min and Max     *)
(* choose: every set of numbers has the one, a finite set has the other.   *)

LEMMA MinIs ==
  ASSUME NEW S \in SUBSET Nat, S # {}
  PROVE  Min(S) \in S /\ \A u \in S : Min(S) <= u
<1>1. PICK t \in S : \A u \in S : <<u, t>> \notin OpToRel(<, Nat)
  BY NatLessThanWellFounded, WFMin
<1>2. ASSUME NEW u \in S PROVE t <= u
  <2>1. <<u, t>> \in Nat \X Nat
    OBVIOUS
  <2>2. ~(u < t)
    BY <1>1, <2>1 DEF OpToRel
  <2>. QED BY <2>2
<1>. QED BY <1>2 DEF Min

LEMMA MaxIs ==
  ASSUME NEW S \in SUBSET Nat, IsFiniteSet(S), S # {}
  PROVE  Max(S) \in S /\ \A u \in S : u <= Max(S)
<1>. DEFINE HasMax(T) == \E m \in T : \A u \in T : u <= m
            Bad == {T \in SUBSET S : T # {} /\ ~HasMax(T)}
<1>1. Bad = {}
  <2>. SUFFICES ASSUME Bad # {} PROVE FALSE
    OBVIOUS
  <2>1. IsWellFoundedOn(StrictSubsetOrdering(S), SUBSET S)
    BY FS_StrictSubsetOrderingWellFounded, FS_FiniteSubsetsOfFinite
  <2>2. PICK T \in Bad : \A U \in Bad : <<U, T>> \notin StrictSubsetOrdering(S)
    BY <2>1, WFMin
  <2>3. PICK x \in T : TRUE
    OBVIOUS
  <2>4. CASE T = {x}
    BY <2>2, <2>4
  <2>5. CASE T # {x}
    <3>1. T \ {x} # {} /\ T \ {x} \in SUBSET S /\ T \ {x} # T
      BY <2>3, <2>5
    <3>2. <<T \ {x}, T>> \in StrictSubsetOrdering(S)
      BY <3>1 DEF StrictSubsetOrdering
    <3>3. T \ {x} \notin Bad
      BY <2>2, <3>2
    <3>4. HasMax(T \ {x})
      BY <3>1, <3>3
    <3>5. PICK m \in T \ {x} : \A u \in T \ {x} : u <= m
      BY <3>4
    <3>6. m \in Nat /\ x \in Nat /\ \A u \in T : u \in Nat
      BY <2>3
    <3>7. HasMax(T)
      <4>1. CASE x <= m
        BY <3>5, <4>1
      <4>2. CASE m <= x
        BY <2>3, <3>5, <3>6, <4>2
      <4>. QED BY <3>6, <4>1, <4>2
    <3>. QED BY <2>2, <3>7
  <2>. QED BY <2>4, <2>5
<1>2. HasMax(S)
  BY <1>1
<1>3. PICK m \in S : \A u \in S : m >= u
  BY <1>2
<1>. QED BY <1>3 DEF Max

-----------------------------------------------------------------------------
(* What is left of the benchmark: the batches of each of its runs.         *)

\* The names of batches, in the phases that send them.
Batches == {<<RunOf(p, l), f>> : p \in 1 .. 3, l \in Nat, f \in Nat}

BenchTypes ==
  /\ phase \in 1 .. 5
  /\ level \in Sizes \cup Levels \cup {1}
  /\ size \in Sizes \cup {0}
  /\ best \in Levels \cup {0}
  /\ flying \in SUBSET Nat /\ IsFiniteSet(flying)
  /\ start \in 0 .. Max({MaxStart, RowsBisect, RowsLevel} \cup Sizes) + Max(Sizes)
  /\ \A f \in flying : f < start
  /\ Cardinality(flying) <= (IF phase = 1 THEN 1 ELSE level)
  /\ sent \in Nat
  /\ errors \in Nat
  /\ phase = 1 => level \in Sizes
  /\ phase = 2 => level \in Levels
  /\ phase \in {2, 3} => size \in Sizes
  /\ phase = 3 => start <= MaxStart

\* The benchmark listens to the batches under way, one call each.
BatchesAreHeard ==
  phase \in 1 .. 3 =>
    /\ \A id \in Batches : Heard(id) # {} => \E f \in flying : id = BatchId(f)
    /\ \A f \in flying :
         /\ \A k, j \in Heard(BatchId(f)) : k = j
         /\ \A k \in Heard(BatchId(f)) : k.what = "transaction" /\ k.rows = RowsOf(f)

InBatch(i, f) == f <= i /\ i < f + size

\* A level without an error has written what it has sent, or waits for it.
LevelKeeps ==
  phase = 2 /\ errors = 0 =>
    \A i \in 0 .. RowsLevel - 1 :
      i < start => \/ <<RunOf(2, level), i>> \in Kept
                   \/ \E f \in flying : InBatch(i, f)

FlightsApart ==
  phase = 3 =>
    \A f \in flying : f + size <= start /\ \A g \in flying : f < g => f + size <= g

\* The rows of the sustained run that are kept and no longer under way.
CountedRows ==
  {i \in 0 .. start - 1 :
     <<RunOf(3, 0), i>> \in Kept /\ \A f \in flying : ~InBatch(i, f)}

SentCounts ==
  /\ phase < 3 => sent = 0
  /\ phase = 3 => sent <= Cardinality(CountedRows)
  /\ sent <= MaxStart
  /\ SentIsWritten

(* The invariant behind SentIsWritten and WinnerWroteAll.  A batch that    *)
(* returned is kept, because the call that returned was its own; a level   *)
(* without an error is kept up to what is under way; and total_sent counts *)
(* rows that are kept and no longer under way, each of them once, because  *)
(* no two batches overlap.                                                 *)
BenchInv ==
  /\ BenchTypes
  /\ BatchesAreHeard
  /\ LevelKeeps
  /\ WinnerWroteAll
  /\ FlightsApart
  /\ SentCounts

-----------------------------------------------------------------------------
(* What others do: nothing is unwritten, and nobody hears more of a batch. *)

HearsNoMore(id) ==
  /\ \A j \in Heard(id)' : \E k \in Heard(id) : j.what = k.what /\ j.rows = k.rows
  /\ (\A k, j \in Heard(id) : k = j) => \A k, j \in Heard(id)' : k = j

LEMMA HearsLess ==
  ASSUME NEW id, Heard(id)' \subseteq Heard(id)
  PROVE  HearsNoMore(id)
BY DEF HearsNoMore

LEMMA StepIsHeard ==
  ASSUME NEW k \in calls, NEW new, Step(k, new), NEW id,
         new.heard = k.heard, new.id = k.id, new.what = k.what, new.rows = k.rows,
         k.heard \in BOOLEAN
  PROVE  HearsNoMore(id)
<1>1. \A j \in Heard(id)' : (j \in Heard(id) /\ j # k) \/ (j = new /\ k \in Heard(id))
  BY DEF Heard, Step
<1>. QED BY <1>1 DEF HearsNoMore

LEMMA ServiceIsHeard ==
  ASSUME StoresAreSafe, ServiceNext, NEW id
  PROVE  HearsNoMore(id) /\ Kept \subseteq Kept'
<1>1. CASE Restart
  <2>1. \A j \in calls' : j \in calls \/ \E k \in calls : j = [k EXCEPT !.heard = FALSE]
    BY <1>1 DEF Restart
  <2>2. ASSUME NEW j \in calls', j.heard PROVE j \in calls
    <3>1. ASSUME NEW k \in calls, j = [k EXCEPT !.heard = FALSE] PROVE FALSE
      <4>1. j.heard = FALSE
        BY <3>1, UnheardIs DEF StoresAreSafe
      <4>. QED BY <2>2, <4>1
    <3>. QED BY <2>1, <3>1
  <2>. QED BY <1>1, <2>2, HearsLess DEF Heard, Restart, Kept
<1>2. ASSUME NEW k \in calls, NEW l \in Pcs, Goto(k, l) PROVE HearsNoMore(id)
  <2>1. IsCall(k)
    BY DEF StoresAreSafe
  <2>. DEFINE new == [k EXCEPT !.pc = l]
  <2>2. /\ new.id = k.id /\ new.what = k.what /\ new.rows = k.rows /\ new.heard = k.heard
        /\ k.heard \in BOOLEAN
    BY <2>1, GotoIs DEF IsCall
  <2>3. Step(k, new)
    BY <1>2 DEF Goto
  <2>. HIDE DEF new
  <2>. QED BY <2>2, <2>3, StepIsHeard
<1>3. ASSUME NEW k \in calls, GetCached(k) \/ BuildStore(k) \/ EnsureConstraints(k) \/ NoStore(k)
      PROVE  HearsNoMore(id) /\ Kept \subseteq Kept'
  <2>1. \E l \in Pcs : Goto(k, l)
    BY <1>3 DEF GetCached, BuildStore, EnsureConstraints, NoStore, Pcs, Answers
  <2>2. UNCHANGED <<classed, lost>>
    BY <1>3 DEF GetCached, BuildStore, EnsureConstraints, NoStore
  <2>. QED BY <1>2, <2>1, <2>2 DEF Kept
<1>4. ASSUME NEW k \in calls, Begin(k) PROVE HearsNoMore(id) /\ Kept \subseteq Kept'
  <2>1. IsCall(k)
    BY DEF StoresAreSafe
  <2>. DEFINE new == [k EXCEPT !.pc = "open", !.saw = {t \in k.rows : copies[t] > 0}]
  <2>2. /\ new.id = k.id /\ new.what = k.what /\ new.rows = k.rows /\ new.heard = k.heard
        /\ k.heard \in BOOLEAN
    BY <2>1 DEF IsCall
  <2>3. Step(k, new) /\ UNCHANGED <<classed, lost>>
    BY <1>4 DEF Begin
  <2>. HIDE DEF new
  <2>. QED BY <2>2, <2>3, StepIsHeard DEF Kept
<1>5. ASSUME NEW k \in calls, Commit(k) \/ CommitUnheard(k) \/ Refused(k)
      PROVE  HearsNoMore(id) /\ Kept \subseteq Kept'
  <2>1. \E l \in Pcs : Goto(k, l)
    BY <1>5 DEF Commit, CommitUnheard, Refused, Pcs, Answers
  <2>2. Kept \subseteq Kept'
    BY <1>5 DEF Commit, CommitUnheard, Refused, Merge, Kept
  <2>. QED BY <1>2, <2>1, <2>2
<1>. QED BY <1>1, <1>3, <1>4, <1>5 DEF ServiceNext

\* A stream and the live source post calls of their own.
LEMMA BatchIsNobodyElses ==
  ASSUME NEW id \in Batches
  PROVE  (\A s \in Streams : id # Id(s)) /\ \A n : id # <<<<"live", 0>>, n>>
BY DEF Batches, RunOf, Id

LEMMA StreamLeavesBatches ==
  ASSUME StoresAreSafe, StreamNext, NEW id \in Batches
  PROVE  HearsNoMore(id) /\ Kept' = Kept
<1>. PICK s \in Streams :
       \/ StartStream(s) \/ NextWindow(s) \/ SendTransaction(s) \/ TransactionReturns(s)
       \/ SendEdge(s) \/ EdgeReturns(s) \/ EndRow(s) \/ StreamRaises(s) \/ StopStream(s)
  BY DEF StreamNext
<1>1. Kept' = Kept
  BY DEF StartStream, NextWindow, SendTransaction, TransactionReturns, SendEdge, EdgeReturns, EndRow,
         StreamRaises, StopStream, serviceVars, Kept
<1>2. CASE UNCHANGED calls
  BY <1>1, <1>2, HearsLess DEF Heard
<1>3. CASE SendTransaction(s) \/ SendEdge(s)
  <2>1. \E what, rows : calls' = calls \cup {Call(Id(s), sink[s], what, rows)}
    BY <1>3 DEF SendTransaction, SendEdge
  <2>2. \A what, rows : Call(Id(s), sink[s], what, rows).id = Id(s)
    BY DEF Call
  <2>3. Heard(id)' \subseteq Heard(id)
    BY <2>1, <2>2, BatchIsNobodyElses DEF Heard
  <2>. QED BY <1>1, <2>3, HearsLess
<1>4. CASE TransactionReturns(s) \/ EdgeReturns(s) \/ StreamRaises(s)
  <2>1. Heard(id)' \subseteq Heard(id)
    BY <1>4, OthersHearTheSame DEF TransactionReturns, EdgeReturns, StreamRaises, Heard
  <2>. QED BY <1>1, <2>1, HearsLess
<1>5. CASE StopStream(s)
  <2>1. \A j \in calls' : j \in calls \/ \E k \in calls : j = [k EXCEPT !.heard = FALSE]
    BY <1>5 DEF StopStream, Heard
  <2>2. ASSUME NEW j \in calls', j.heard PROVE j \in calls
    <3>1. ASSUME NEW k \in calls, j = [k EXCEPT !.heard = FALSE] PROVE FALSE
      <4>1. j.heard = FALSE
        BY <3>1, UnheardIs DEF StoresAreSafe
      <4>. QED BY <2>2, <4>1
    <3>. QED BY <2>1, <3>1
  <2>. QED BY <1>1, <2>2, HearsLess DEF Heard
<1>. QED
  BY <1>2, <1>3, <1>4, <1>5 DEF StartStream, NextWindow, EndRow, serviceVars

LEMMA LiveLeavesBatches ==
  ASSUME LivePosts, NEW id \in Batches
  PROVE  HearsNoMore(id) /\ Kept' = Kept
<1>1. PICK what, rows :
        calls' = calls \cup {[Call(<<<<"live", 0>>, live>>, "api", what, rows) EXCEPT !.heard = FALSE]}
  BY DEF LivePosts
<1>. DEFINE new == [Call(<<<<"live", 0>>, live>>, "api", what, rows) EXCEPT !.heard = FALSE]
<1>2. ~new.heard /\ calls' = calls \cup {new}
  BY <1>1 DEF Call
<1>. HIDE DEF new
<1>3. Heard(id)' \subseteq Heard(id)
  BY <1>2 DEF Heard
<1>4. Kept' = Kept
  BY DEF LivePosts, Kept
<1>. QED BY <1>3, <1>4, HearsLess

-----------------------------------------------------------------------------
(* Cardinalities.                                                          *)

SustainedTx(i) == <<RunOf(3, 0), i>>

LEMMA SustainedIsFinite == IsFiniteSet(SustainedTxs)
<1>. DEFINE f == [i \in 0 .. MaxStart - 1 |-> SustainedTx(i)]
<1>1. SustainedTxs = {SustainedTx(i) : i \in 0 .. MaxStart - 1}
  BY DEF SustainedTxs, RunTxs, SustainedTx
<1>2. f \in Surjection(0 .. MaxStart - 1, SustainedTxs)
  BY <1>1 DEF Surjection
<1>3. IsFiniteSet(0 .. MaxStart - 1)
  BY FS_Interval, EndpointBenchmarkAssumption
<1>. QED BY <1>2, <1>3, FS_Surjection

\* Rows of the sustained run are as many as their txIds.
LEMMA SustainedRows ==
  ASSUME NEW S \in SUBSET (0 .. MaxStart - 1), \A i \in S : SustainedTx(i) \in Kept
  PROVE  Cardinality(S) <= Cardinality(SustainedTxs \cap Kept)
<1>. DEFINE f == [i \in S |-> SustainedTx(i)]
<1>1. \A i \in S : SustainedTx(i) \in SustainedTxs \cap Kept
  BY DEF SustainedTxs, RunTxs, SustainedTx
<1>2. \A i, j \in S : f[i] = f[j] => i = j
  BY DEF SustainedTx
<1>3. f \in Injection(S, SustainedTxs \cap Kept)
  BY <1>1, <1>2 DEF Injection, IsInjective
<1>4. IsFiniteSet(SustainedTxs \cap Kept)
  BY SustainedIsFinite, FS_Subset
<1>. QED BY <1>3, <1>4, FS_Injection

\* A set of the first n rows has at most n.
LEMMA FewRows ==
  ASSUME NEW n \in Nat, NEW S \in SUBSET (0 .. n - 1)
  PROVE  IsFiniteSet(S) /\ Cardinality(S) \in Nat /\ Cardinality(S) <= n
<1>1. 0 \in Int /\ n - 1 \in Int
  OBVIOUS
<1>2. IsFiniteSet(0 .. n - 1) /\ Cardinality(0 .. n - 1) = IF 0 > n - 1 THEN 0 ELSE n - 1 - 0 + 1
  BY <1>1, FS_Interval
<1>3. Cardinality(0 .. n - 1) = n
  BY <1>2
<1>4. IsFiniteSet(S) /\ Cardinality(S) <= Cardinality(0 .. n - 1)
  BY <1>2, FS_Subset
<1>. QED BY <1>3, <1>4, FS_CardinalityType

\* What BenchTypeOK bounds start by.
LEMMA MostIsMost ==
  /\ Max({MaxStart, RowsBisect, RowsLevel} \cup Sizes) \in Nat
  /\ \A n \in {MaxStart, RowsBisect, RowsLevel} : n <= Max({MaxStart, RowsBisect, RowsLevel} \cup Sizes)
  /\ Max(Sizes) \in Nat
  /\ \A n \in Sizes : n <= Max(Sizes)
<1>1. /\ {MaxStart, RowsBisect, RowsLevel} \cup Sizes \in SUBSET Nat /\ Sizes \in SUBSET Nat
      /\ {MaxStart, RowsBisect, RowsLevel} \cup Sizes # {} /\ Sizes # {}
  BY EndpointBenchmarkAssumption
<1>2. IsFiniteSet({MaxStart}) /\ IsFiniteSet({RowsBisect}) /\ IsFiniteSet({RowsLevel}) /\ IsFiniteSet(Sizes)
  BY FS_Singleton, EndpointBenchmarkAssumption
<1>3. IsFiniteSet({MaxStart} \cup {RowsBisect})
  BY <1>2, FS_Union
<1>4. IsFiniteSet(({MaxStart} \cup {RowsBisect}) \cup {RowsLevel})
  BY <1>2, <1>3, FS_Union
<1>5. IsFiniteSet((({MaxStart} \cup {RowsBisect}) \cup {RowsLevel}) \cup Sizes)
  BY <1>2, <1>4, FS_Union
<1>6. (({MaxStart} \cup {RowsBisect}) \cup {RowsLevel}) \cup Sizes = {MaxStart, RowsBisect, RowsLevel} \cup Sizes
  OBVIOUS
<1>7. IsFiniteSet({MaxStart, RowsBisect, RowsLevel} \cup Sizes)
  BY <1>5, <1>6
<1>8. /\ Max({MaxStart, RowsBisect, RowsLevel} \cup Sizes) \in {MaxStart, RowsBisect, RowsLevel} \cup Sizes
      /\ \A n \in {MaxStart, RowsBisect, RowsLevel} \cup Sizes :
           n <= Max({MaxStart, RowsBisect, RowsLevel} \cup Sizes)
  BY <1>1, <1>7, MaxIs
<1>9. Max(Sizes) \in Sizes /\ \A n \in Sizes : n <= Max(Sizes)
  BY <1>1, <1>2, MaxIs
<1>. QED BY <1>1, <1>8, <1>9

LEMMA StartsAreNumbers ==
  Max({MaxStart, RowsBisect, RowsLevel} \cup Sizes) \in Nat /\ Max(Sizes) \in Nat
BY MostIsMost

LEMMA CountedIsFinite ==
  ASSUME BenchTypes
  PROVE  /\ IsFiniteSet(CountedRows) /\ Cardinality(CountedRows) \in Nat
         /\ Cardinality(CountedRows) <= start
         /\ start \in Nat
<1>1. start \in Nat
  BY StartsAreNumbers DEF BenchTypes
<1>2. CountedRows \in SUBSET (0 .. start - 1)
  BY DEF CountedRows
<1>. QED BY <1>1, <1>2, FewRows

\* Of the sustained run, what is counted is kept.
LEMMA CountsAreWritten ==
  ASSUME BenchTypes, phase = 3, sent <= Cardinality(CountedRows)
  PROVE  sent <= MaxStart /\ SentIsWritten
<1>1. start <= MaxStart
  BY DEF BenchTypes
<1>2. CountedRows \in SUBSET (0 .. MaxStart - 1)
  BY <1>1, CountedIsFinite, EndpointBenchmarkAssumption DEF CountedRows
<1>3. Cardinality(CountedRows) <= Cardinality(SustainedTxs \cap Kept)
  BY <1>2, SustainedRows DEF CountedRows, SustainedTx
<1>4. /\ sent \in Nat /\ Cardinality(CountedRows) \in Nat
      /\ Cardinality(CountedRows) <= start /\ start \in Nat
  BY CountedIsFinite DEF BenchTypes
<1>5. Cardinality(SustainedTxs \cap Kept) \in Nat
  BY SustainedIsFinite, FS_Subset, FS_CardinalityType
<1>6. sent <= Cardinality(SustainedTxs \cap Kept)
  BY <1>3, <1>4, <1>5
<1>. QED BY <1>1, <1>4, <1>6, EndpointBenchmarkAssumption DEF SentIsWritten, Kept

LEMMA SentStaysWritten ==
  ASSUME SentIsWritten, sent \in Nat, UNCHANGED sent, Kept \subseteq Kept'
  PROVE  SentIsWritten'
<1>1. /\ IsFiniteSet(SustainedTxs \cap Kept)
      /\ IsFiniteSet(SustainedTxs \cap Kept')
      /\ SustainedTxs \cap Kept \in SUBSET (SustainedTxs \cap Kept')
  BY SustainedIsFinite, FS_Subset
<1>2. Cardinality(SustainedTxs \cap Kept) <= Cardinality(SustainedTxs \cap Kept')
  BY <1>1, FS_Subset
<1>3. Cardinality(SustainedTxs \cap Kept) \in Nat /\ Cardinality(SustainedTxs \cap Kept') \in Nat
  BY <1>1, FS_CardinalityType
<1>4. sent <= Cardinality(SustainedTxs \cap Kept')
  BY <1>2, <1>3 DEF SentIsWritten, Kept
<1>5. SustainedTxs' = SustainedTxs /\ Kept' = classed' \cup lost'
  BY DEF SustainedTxs, RunTxs, RunOf, Kept
<1>. QED BY <1>4, <1>5 DEF SentIsWritten

-----------------------------------------------------------------------------
(* The benchmark while others move.                                        *)

LEMMA BenchStays ==
  ASSUME BenchInv, UNCHANGED benchVars, Kept \subseteq Kept',
         \A id \in Batches : HearsNoMore(id)
  PROVE  BenchInv'
<1>. USE DEF benchVars
<1>1. BenchTypes'
  BY DEF BenchInv, BenchTypes
<1>2. /\ \A f : BatchId(f)' = BatchId(f) /\ RowsOf(f)' = RowsOf(f)
      /\ \A f \in flying : phase \in 1 .. 3 => BatchId(f) \in Batches
  BY EndpointBenchmarkAssumption DEF BatchId, RowsOf, Width, RunOf, BenchInv, BenchTypes, Batches
<1>3. BatchesAreHeard'
  <2>1. ASSUME NEW id \in Batches, Heard(id)' # {} PROVE Heard(id) # {}
    BY <2>1 DEF HearsNoMore
  <2>2. ASSUME phase \in 1 .. 3, NEW id \in Batches, Heard(id)' # {}
        PROVE  \E f \in flying : id = BatchId(f)
    BY <2>1, <2>2 DEF BenchInv, BatchesAreHeard
  <2>3. ASSUME phase \in 1 .. 3, NEW f \in flying
        PROVE  LET id == BatchId(f)
               IN  /\ \A k, j \in Heard(id)' : k = j
                   /\ \A k \in Heard(id)' : k.what = "transaction" /\ k.rows = RowsOf(f)
    <3>. DEFINE id == BatchId(f)
    <3>1. id \in Batches
      BY <1>2, <2>3
    <3>2. (\A k, j \in Heard(id) : k = j) /\ \A k \in Heard(id) : k.what = "transaction" /\ k.rows = RowsOf(f)
      BY <2>3 DEF BenchInv, BatchesAreHeard
    <3>. HIDE DEF id
    <3>3. HearsNoMore(id)
      BY <3>1
    <3>4. /\ \A k, j \in Heard(id)' : k = j
          /\ \A k \in Heard(id)' : k.what = "transaction" /\ k.rows = RowsOf(f)
      BY <3>2, <3>3 DEF HearsNoMore
    <3>. QED BY <3>4 DEF id
  <2>. QED BY <1>2, <2>2, <2>3 DEF BatchesAreHeard, Batches, RunOf, Heard
<1>4. LevelKeeps'
  BY DEF BenchInv, LevelKeeps, RunOf, InBatch
<1>5. WinnerWroteAll'
  BY DEF BenchInv, WinnerWroteAll, Kept, RunTxs, RunOf
<1>6. FlightsApart'
  BY DEF BenchInv, FlightsApart
<1>7. SentCounts'
  <2>1. SentIsWritten' /\ sent' <= MaxStart /\ (phase' < 3 => sent' = 0)
    BY SentStaysWritten DEF BenchInv, SentCounts, BenchTypes
  <2>2. CountedRows \in SUBSET (CountedRows')
    BY DEF CountedRows, RunOf, InBatch
  <2>3. IsFiniteSet(CountedRows') /\ Cardinality(CountedRows') \in Nat /\ Cardinality(CountedRows) \in Nat
    <3>1. start \in Nat /\ Cardinality(CountedRows) \in Nat
      BY CountedIsFinite DEF BenchInv
    <3>2. CountedRows' \in SUBSET (0 .. start - 1)
      BY DEF CountedRows
    <3>. QED BY <3>1, <3>2, FewRows
  <2>4. Cardinality(CountedRows) <= Cardinality(CountedRows')
    BY <2>2, <2>3, FS_Subset
  <2>5. phase = 3 => sent <= Cardinality(CountedRows')
    BY <2>3, <2>4 DEF BenchInv, SentCounts, BenchTypes
  <2>. QED BY <2>1, <2>5 DEF SentCounts
<1>. QED BY <1>1, <1>3, <1>4, <1>5, <1>6, <1>7 DEF BenchInv

-----------------------------------------------------------------------------
(* The benchmark's own calls.                                              *)

LEMMA BenchNumbers ==
  ASSUME BenchTypes
  PROVE  /\ start \in Nat
         /\ level \in Nat \ {0}
         /\ size \in Nat
         /\ phase \in {2, 3} => size \in Nat \ {0}
         /\ \A f \in flying : f \in Nat
BY StartsAreNumbers, EndpointBenchmarkAssumption DEF BenchTypes

LEMMA BatchesHaveNames ==
  ASSUME BenchTypes, phase \in 1 .. 3, NEW f \in Nat
  PROVE  BatchId(f) \in Batches
BY BenchNumbers DEF BatchId, Batches

LEMMA BatchesApart ==
  ASSUME NEW f, NEW g, BatchId(f) = BatchId(g)
  PROVE  f = g
BY DEF BatchId

\* A batch that is posted is heard, once.
LEMMA PostIsHeard ==
  ASSUME BenchTypes, BatchesAreHeard, phase \in 1 .. 3, Post(start),
         UNCHANGED <<phase, level, size>>, flying' = flying \cup {start}
  PROVE  BatchesAreHeard'
<1>. DEFINE new == Call(BatchId(start), "api", "transaction", RowsOf(start))
<1>1. /\ calls' = calls \cup {new}
      /\ new.id = BatchId(start) /\ new.what = "transaction" /\ new.rows = RowsOf(start)
  BY DEF Post, Call
<1>. HIDE DEF new
<1>2. \A f : BatchId(f)' = BatchId(f) /\ RowsOf(f)' = RowsOf(f)
  BY DEF BatchId, RowsOf, Width, RunOf
<1>3. \A id, k : k \in Heard(id)' => k \in Heard(id) \/ (k = new /\ id = BatchId(start))
  BY <1>1 DEF Heard
<1>4. Heard(BatchId(start)) = {}
  <2>. SUFFICES ASSUME Heard(BatchId(start)) # {} PROVE FALSE
    OBVIOUS
  <2>1. BatchId(start) \in Batches
    BY BatchesHaveNames, BenchNumbers
  <2>2. PICK f \in flying : BatchId(start) = BatchId(f)
    BY <2>1 DEF BatchesAreHeard
  <2>3. start = f /\ f < start /\ start \in Nat
    BY <2>2, BatchesApart, BenchNumbers DEF BenchTypes
  <2>. QED BY <2>3
<1>5. ASSUME NEW id \in Batches, Heard(id)' # {} PROVE \E f \in flying' : id = BatchId(f)
  BY <1>3, <1>5 DEF BatchesAreHeard
<1>6. ASSUME NEW f \in flying', NEW id, id = BatchId(f)
      PROVE  /\ \A k, j \in Heard(id)' : k = j
             /\ \A k \in Heard(id)' : k.what = "transaction" /\ k.rows = RowsOf(f)
  <2>1. CASE f = start
    <3>1. \A k \in Heard(id)' : k = new
      BY <1>3, <1>4, <1>6, <2>1
    <3>. QED BY <1>1, <2>1, <3>1
  <2>2. CASE f # start
    <3>1. f \in flying /\ id # BatchId(start)
      BY <1>6, <2>2, BatchesApart
    <3>2. \A k \in Heard(id)' : k \in Heard(id)
      BY <1>3, <3>1
    <3>. QED BY <1>6, <3>1, <3>2 DEF BatchesAreHeard
  <2>. QED BY <2>1, <2>2
<1>7. Batches' = Batches
  BY DEF Batches, RunOf
<1>. QED BY <1>2, <1>5, <1>6, <1>7 DEF BatchesAreHeard, Heard

\* A batch that has returned or raised is heard no more.
LEMMA BatchIsGone ==
  ASSUME StoresAreSafe, BenchTypes, BatchesAreHeard, phase \in 1 .. 3, NEW f \in flying,
         Returns(BatchId(f)) \/ Raises(BatchId(f)),
         UNCHANGED <<phase, level, size>>, flying' = flying \ {f}
  PROVE  BatchesAreHeard'
<1>1. PICK gone : gone = BatchId(f)
  OBVIOUS
<1>2. \A k, j \in Heard(gone) : k = j
  BY <1>1 DEF BatchesAreHeard
<1>3. \A id, k : k \in Heard(id)' => k \in Heard(id)
  BY OthersHearTheSame DEF Heard
<1>4. Heard(gone)' = {}
  <2>1. CASE \E k \in Heard(gone) : calls' = calls \ {k}
    BY <1>2, <2>1 DEF Heard
  <2>2. CASE Heard(gone) = {}
    BY <1>3, <2>2
  <2>3. CASE TimesOut(gone)
    <3>1. PICK k \in Heard(gone) : calls' = (calls \ {k}) \cup {[k EXCEPT !.heard = FALSE]}
      BY <2>3 DEF TimesOut
    <3>2. [k EXCEPT !.heard = FALSE].heard = FALSE /\ k.heard
      BY UnheardIs DEF StoresAreSafe, Heard
    <3>3. k \notin calls'
      BY <3>1, <3>2
    <3>. QED BY <1>2, <1>3, <3>1, <3>3 DEF Heard
  <2>. QED BY <1>1, <2>1, <2>2, <2>3 DEF Raises, Returns
<1>5. \A g : BatchId(g)' = BatchId(g) /\ RowsOf(g)' = RowsOf(g)
  BY DEF BatchId, RowsOf, Width, RunOf
<1>6. ASSUME NEW id \in Batches, Heard(id)' # {} PROVE \E g \in flying' : id = BatchId(g)
  <2>1. id # gone /\ Heard(id) # {}
    BY <1>3, <1>4, <1>6
  <2>. QED BY <1>1, <2>1 DEF BatchesAreHeard
<1>7. ASSUME NEW g \in flying', NEW id, id = BatchId(g)
      PROVE  /\ \A k, j \in Heard(id)' : k = j
             /\ \A k \in Heard(id)' : k.what = "transaction" /\ k.rows = RowsOf(g)
  <2>1. g \in flying /\ \A k \in Heard(id)' : k \in Heard(id)
    BY <1>3
  <2>. QED BY <1>7, <2>1 DEF BatchesAreHeard
<1>8. Batches' = Batches
  BY DEF Batches, RunOf
<1>. QED BY <1>5, <1>6, <1>7, <1>8 DEF BatchesAreHeard, Heard

\* Where no batch is under way, none is heard in the next run either.
LEMMA NoBatchIsHeard ==
  ASSUME BatchesAreHeard, phase \in 1 .. 3, flying = {}, flying' = {}, UNCHANGED calls
  PROVE  BatchesAreHeard'
<1>1. \A id \in Batches : Heard(id)' = {}
  BY DEF BatchesAreHeard, Heard
<1>2. Batches' = Batches
  BY DEF Batches, RunOf
<1>. QED BY <1>1, <1>2 DEF BatchesAreHeard, Heard

\* What returned is kept.
LEMMA ReturnedIsKept ==
  ASSUME CallsKeep, BatchesAreHeard, phase \in 1 .. 3, NEW f \in flying, Returns(BatchId(f))
  PROVE  RowsOf(f) \subseteq Kept
<1>1. PICK k \in Heard(BatchId(f)) : k.pc = "ok"
  BY DEF Returns
<1>2. k.what = "transaction" /\ k.rows = RowsOf(f) /\ k \in calls
  BY <1>1 DEF BatchesAreHeard, Heard
<1>. QED BY <1>1, <1>2 DEF CallsKeep

LEMMA RowsAreThese ==
  ASSUME NEW f \in Nat, NEW w \in Nat, NEW rows \in Nat, NEW i \in Nat,
         f <= i, i < f + w, i < rows
  PROVE  i \in f .. Min({f + w, rows}) - 1
<1>1. {f + w, rows} \in SUBSET Nat /\ {f + w, rows} # {}
  OBVIOUS
<1>2. Min({f + w, rows}) \in {f + w, rows}
  BY <1>1, MinIs
<1>. QED BY <1>2

\* A row that is under way is a row of its batch's call.
LEMMA BatchHasRow ==
  ASSUME BenchTypes, phase \in {2, 3}, NEW f \in flying, NEW i \in Nat, InBatch(i, f),
         NEW rows, rows = (IF phase = 2 THEN RowsLevel ELSE MaxStart), i < rows
  PROVE  <<RunOf(phase, level), i>> \in RowsOf(f)
<1>1. f \in Nat /\ size \in Nat /\ rows \in Nat
  BY BenchNumbers, EndpointBenchmarkAssumption
<1>2. i \in f .. Min({f + size, rows}) - 1
  BY <1>1, RowsAreThese DEF InBatch
<1>3. RowsOf(f) = {<<RunOf(phase, level), j>> : j \in f .. Min({f + size, rows}) - 1}
  BY DEF RowsOf, Width
<1>. QED BY <1>2, <1>3

-----------------------------------------------------------------------------
(* The types of the benchmark.                                             *)

LEMMA NextStartIsBounded ==
  ASSUME BenchTypes, phase \in {1, 2}, More
  PROVE  start + Width \in 0 .. Max({MaxStart, RowsBisect, RowsLevel} \cup Sizes) + Max(Sizes)
<1>. DEFINE most == Max({MaxStart, RowsBisect, RowsLevel} \cup Sizes)
<1>1. start \in Nat /\ most \in Nat /\ Max(Sizes) \in Nat
  BY BenchNumbers, StartsAreNumbers
<1>2. Width \in Sizes
  BY DEF Width, BenchTypes
<1>3. RowsBisect <= most /\ RowsLevel <= most
  BY MostIsMost
<1>4. Width <= Max(Sizes) /\ Width \in Nat
  BY <1>2, MostIsMost, EndpointBenchmarkAssumption
<1>5. start < most
  BY <1>1, <1>3, EndpointBenchmarkAssumption DEF More
<1>. HIDE DEF most
<1>6. start + Width \in 0 .. most + Max(Sizes)
  BY <1>1, <1>4, <1>5
<1>. QED BY <1>6 DEF most

LEMMA SendKeepsTypes ==
  ASSUME BenchTypes, UNCHANGED <<phase, level, size, best, sent, errors>>,
         Cardinality(flying) < (IF phase = 1 THEN 1 ELSE level),
         flying' = flying \cup {start},
         start' \in 0 .. Max({MaxStart, RowsBisect, RowsLevel} \cup Sizes) + Max(Sizes),
         start < start', phase = 3 => start' <= MaxStart
  PROVE  BenchTypes'
<1>1. start \in Nat /\ start' \in Nat /\ level \in Nat
  BY BenchNumbers, StartsAreNumbers
<1>2. flying' \in SUBSET Nat /\ IsFiniteSet(flying')
  BY <1>1, FS_AddElement DEF BenchTypes
<1>3. Cardinality(flying) \in Nat /\ start \notin flying
  BY <1>1, FS_CardinalityType DEF BenchTypes
<1>4. Cardinality(flying') = Cardinality(flying) + 1
  BY <1>3, FS_AddElement DEF BenchTypes
<1>5. Cardinality(flying') <= IF phase = 1 THEN 1 ELSE level
  BY <1>1, <1>3, <1>4
<1>6. \A f \in flying' : f < start'
  BY <1>1, <1>2 DEF BenchTypes
<1>. QED BY <1>2, <1>5, <1>6 DEF BenchTypes

LEMMA HearKeepsTypes ==
  ASSUME BenchTypes, UNCHANGED <<level, size, best, start>>,
         phase' = phase \/ phase' = 5, sent' \in Nat, errors' \in Nat,
         NEW f \in flying, flying' = flying \ {f}
  PROVE  BenchTypes'
<1>1. flying' \in SUBSET Nat /\ IsFiniteSet(flying')
  BY FS_RemoveElement DEF BenchTypes
<1>2. Cardinality(flying) \in Nat /\ Cardinality(flying') \in Nat
  BY <1>1, FS_CardinalityType DEF BenchTypes
<1>3. Cardinality(flying') = Cardinality(flying) - 1
  BY FS_RemoveElement DEF BenchTypes
<1>4. level \in Nat \ {0}
  BY BenchNumbers
<1>5. Cardinality(flying) <= IF phase = 1 THEN 1 ELSE level
  BY DEF BenchTypes
<1>6. Cardinality(flying') <= IF phase' = 1 THEN 1 ELSE level
  BY <1>2, <1>3, <1>4, <1>5
<1>7. phase' \in 1 .. 5
  BY DEF BenchTypes
<1>8. \A g \in flying' : g < start
  BY DEF BenchTypes
<1>. QED BY <1>1, <1>6, <1>7, <1>8 DEF BenchTypes

LEMMA UntriedIs ==
  ASSUME NEW ls \in SUBSET Nat, Untried(ls) # {}
  PROVE  Min(Untried(ls)) \in ls
<1>1. Untried(ls) \in SUBSET Nat
  BY DEF Untried
<1>. QED BY <1>1, MinIs DEF Untried

LEMMA RestartKeepsTypes ==
  ASSUME BenchTypes, Restarted, flying = {}, UNCHANGED <<flying, sent>>,
         phase' \in 1 .. 3, level' \in Sizes \cup Levels \cup {1},
         size' \in Sizes \cup {0}, best' \in Levels \cup {0},
         phase' = 1 => level' \in Sizes, phase' = 2 => level' \in Levels,
         phase' \in {2, 3} => size' \in Sizes
  PROVE  BenchTypes'
<1>1. Cardinality(flying') = 0 /\ IsFiniteSet(flying') /\ flying' = {}
  BY FS_EmptySet
<1>2. level' \in Nat
  BY EndpointBenchmarkAssumption
<1>3. start' = 0 /\ errors' = 0
  BY DEF Restarted
<1>4. start' \in 0 .. Max({MaxStart, RowsBisect, RowsLevel} \cup Sizes) + Max(Sizes)
  BY <1>3, StartsAreNumbers
<1>5. Cardinality(flying') <= IF phase' = 1 THEN 1 ELSE level'
  BY <1>1, <1>2
<1>6. start' <= MaxStart
  BY <1>3, EndpointBenchmarkAssumption
<1>. QED BY <1>1, <1>3, <1>4, <1>5, <1>6 DEF BenchTypes

LEMMA SizeEndsKeepsTypes ==
  ASSUME BenchTypes, SizeEnds
  PROVE  BenchTypes'
<1>1. level \in Sizes /\ size' \in Sizes
  BY DEF SizeEnds, BenchTypes
<1>2. CASE Untried(Sizes) # {}
  <2>1. level' \in Sizes /\ phase' = 1
    BY <1>2, UntriedIs, EndpointBenchmarkAssumption DEF SizeEnds
  <2>. QED BY <1>1, <2>1, RestartKeepsTypes DEF SizeEnds, BenchTypes
<1>3. CASE Untried(Sizes) = {}
  <2>1. level' \in Levels /\ phase' = 2
    BY <1>3, MinIs, EndpointBenchmarkAssumption DEF SizeEnds
  <2>. QED BY <1>1, <2>1, RestartKeepsTypes DEF SizeEnds, BenchTypes
<1>. QED BY <1>2, <1>3

LEMMA LevelEndsKeepsTypes ==
  ASSUME BenchTypes, LevelEnds
  PROVE  BenchTypes'
<1>1. level \in Levels /\ size \in Sizes /\ size' = size /\ best' \in Levels \cup {0}
  BY DEF LevelEnds, Crowned, BenchTypes
<1>2. CASE Untried(Levels) # {}
  <2>1. level' \in Levels /\ phase' = 2
    BY <1>2, UntriedIs, EndpointBenchmarkAssumption DEF LevelEnds
  <2>. QED BY <1>1, <2>1, RestartKeepsTypes DEF LevelEnds
<1>3. CASE Untried(Levels) = {}
  <2>1. level' \in Levels \cup {1} /\ phase' = 3
    BY <1>1, <1>3 DEF LevelEnds, Concurrency
  <2>. QED BY <1>1, <2>1, RestartKeepsTypes DEF LevelEnds
<1>. QED BY <1>2, <1>3

-----------------------------------------------------------------------------
(* The benchmark's steps.                                                  *)

LEMMA BenchStarts ==
  ASSUME Init
  PROVE  BenchInv
<1>. USE DEF Init, BenchInit, ServiceInit
<1>1. phase \in {1, 5} /\ level \in Sizes
  BY MinIs, EndpointBenchmarkAssumption
<1>2. IsFiniteSet(flying) /\ Cardinality(flying) = 0
  BY FS_EmptySet
<1>3. BenchTypes
  BY <1>1, <1>2, StartsAreNumbers, EndpointBenchmarkAssumption DEF BenchTypes
<1>4. BatchesAreHeard
  BY DEF BatchesAreHeard, Heard
<1>5. LevelKeeps /\ WinnerWroteAll /\ FlightsApart
  BY <1>1 DEF LevelKeeps, WinnerWroteAll, FlightsApart
<1>6. Cardinality(SustainedTxs \cap (classed \cup lost)) \in Nat
  BY SustainedIsFinite, FS_Subset, FS_CardinalityType
<1>7. SentCounts
  BY <1>1, <1>6, EndpointBenchmarkAssumption DEF SentCounts, SentIsWritten
<1>. QED BY <1>3, <1>4, <1>5, <1>7 DEF BenchInv

\* What does not depend on the batches under way.
LEMMA ResultsStay ==
  ASSUME BenchInv, UNCHANGED <<best, sent, classed, lost>>
  PROVE  WinnerWroteAll' /\ SentIsWritten' /\ sent' <= MaxStart
<1>1. WinnerWroteAll'
  BY DEF BenchInv, WinnerWroteAll, RunTxs, RunOf
<1>2. SentIsWritten'
  BY DEF BenchInv, SentCounts, SentIsWritten, SustainedTxs, RunTxs, RunOf
<1>. QED BY <1>1, <1>2 DEF BenchInv, SentCounts

\* A batch that is sent covers the rows it adds.
LEMMA SendBatchKeeps ==
  ASSUME BenchInv, SendBatch
  PROVE  BenchInv'
<1>1. BenchTypes'
  <2>1. start < start'
    <3>1. Width \in Nat \ {0}
      BY BenchNumbers DEF BenchInv, SendBatch, Width, BenchTypes
    <3>. QED BY <3>1, BenchNumbers DEF BenchInv, SendBatch
  <2>. QED BY <2>1, SendKeepsTypes, NextStartIsBounded DEF BenchInv, SendBatch, Threads
<1>2. BatchesAreHeard'
  BY PostIsHeard DEF BenchInv, SendBatch
<1>3. LevelKeeps'
  <2>. SUFFICES ASSUME phase = 2, errors = 0, NEW i \in 0 .. RowsLevel - 1, i < start'
                PROVE  \/ <<RunOf(2, level), i>> \in Kept
                       \/ \E f \in flying' : InBatch(i, f)
    BY DEF LevelKeeps, SendBatch, RunOf, InBatch, Kept
  <2>1. start' = start + size /\ flying' = flying \cup {start} /\ start \in Nat /\ size \in Nat
    BY BenchNumbers DEF SendBatch, Width, BenchInv
  <2>2. CASE i < start
    BY <2>1, <2>2 DEF BenchInv, LevelKeeps
  <2>3. CASE ~(i < start)
    BY <2>1, <2>3 DEF InBatch
  <2>. QED BY <2>2, <2>3
<1>4. FlightsApart'
  BY DEF FlightsApart, SendBatch
<1>5. SentCounts'
  BY ResultsStay DEF SentCounts, SendBatch, BenchInv
<1>. QED BY <1>1, <1>2, <1>3, <1>4, <1>5, ResultsStay DEF BenchInv, SendBatch

\* One that returns is kept.
LEMMA BatchReturnsKeeps ==
  ASSUME WritesAreKept, BenchInv, BatchReturns
  PROVE  BenchInv'
<1>1. PICK f \in flying : Returns(BatchId(f)) /\ flying' = flying \ {f}
  BY DEF BatchReturns
<1>2. BenchTypes'
  BY <1>1, HearKeepsTypes DEF BenchInv, BatchReturns, BenchTypes
<1>3. BatchesAreHeard'
  BY <1>1, BatchIsGone DEF WritesAreKept, BenchInv, BatchReturns
<1>4. LevelKeeps'
  <2>. SUFFICES ASSUME phase = 2, errors = 0, NEW i \in 0 .. RowsLevel - 1, i < start
                PROVE  \/ <<RunOf(2, level), i>> \in Kept
                       \/ \E g \in flying' : InBatch(i, g)
    BY DEF LevelKeeps, BatchReturns, RunOf, InBatch, Kept
  <2>1. CASE <<RunOf(2, level), i>> \in Kept \/ \E g \in flying \ {f} : InBatch(i, g)
    BY <1>1, <2>1
  <2>2. CASE InBatch(i, f)
    <3>1. <<RunOf(phase, level), i>> \in RowsOf(f)
      BY <2>2, BatchHasRow, EndpointBenchmarkAssumption DEF BenchInv
    <3>2. RowsOf(f) \subseteq Kept
      BY <1>1, ReturnedIsKept DEF WritesAreKept, BenchInv
    <3>. QED BY <3>1, <3>2
  <2>. QED BY <2>1, <2>2 DEF BenchInv, LevelKeeps
<1>5. FlightsApart'
  BY DEF FlightsApart, BatchReturns
<1>6. SentCounts'
  BY ResultsStay DEF SentCounts, BatchReturns, BenchInv
<1>. QED BY <1>2, <1>3, <1>4, <1>5, <1>6, ResultsStay DEF BenchInv, BatchReturns

\* One that raises is the end of phase 1, and an error in phase 2.
LEMMA BatchRaisesKeeps ==
  ASSUME WritesAreKept, BenchInv, BatchRaises
  PROVE  BenchInv'
<1>1. PICK f \in flying : Raises(BatchId(f)) /\ flying' = flying \ {f}
  BY DEF BatchRaises
<1>2. /\ phase = 1 => phase' = 5 /\ errors' = errors
      /\ phase = 2 => phase' = 2 /\ errors' = errors + 1
      /\ phase \in {1, 2} /\ errors \in Nat
  BY DEF BatchRaises, BenchInv, BenchTypes
<1>3. BenchTypes'
  <2>1. phase' = phase \/ phase' = 5
    BY <1>2
  <2>2. errors' \in Nat /\ sent' \in Nat
    BY <1>2 DEF BatchRaises, BenchInv, BenchTypes
  <2>. QED BY <1>1, <2>1, <2>2, HearKeepsTypes DEF BenchInv, BatchRaises
<1>4. BatchesAreHeard'
  <2>1. CASE phase = 1
    BY <1>2, <2>1 DEF BatchesAreHeard
  <2>2. CASE phase = 2
    BY <1>1, <1>2, <2>2, BatchIsGone DEF WritesAreKept, BenchInv, BatchRaises
  <2>. QED BY <1>2, <2>1, <2>2
<1>5. LevelKeeps'
  <2>1. ~(phase' = 2 /\ errors' = 0)
    BY <1>2
  <2>. QED BY <2>1 DEF LevelKeeps
<1>6. FlightsApart'
  BY <1>2 DEF FlightsApart
<1>7. SentCounts'
  BY <1>2, ResultsStay DEF SentCounts, BatchRaises, BenchInv
<1>. QED BY <1>3, <1>4, <1>5, <1>6, <1>7, ResultsStay DEF BenchInv, BatchRaises

LEMMA SizeEndsKeeps ==
  ASSUME BenchInv, SizeEnds
  PROVE  BenchInv'
<1>1. phase' \in {1, 2} /\ start' = 0 /\ UNCHANGED <<classed, lost, calls, best, sent>> /\ flying' = {} /\ sent = 0
  BY DEF SizeEnds, Restarted, serviceVars, BenchInv, SentCounts
<1>2. BatchesAreHeard'
  BY <1>1, NoBatchIsHeard DEF SizeEnds, BenchInv
<1>3. LevelKeeps' /\ FlightsApart'
  BY <1>1 DEF LevelKeeps, FlightsApart
<1>4. SentCounts'
  BY <1>1, ResultsStay DEF SentCounts
<1>. QED BY <1>1, <1>2, <1>3, <1>4, ResultsStay, SizeEndsKeepsTypes DEF BenchInv

\* The winner of phase 2 had no error, so nothing of it is missing.
LEMMA LevelEndsKeeps ==
  ASSUME BenchInv, LevelEnds
  PROVE  BenchInv'
<1>1. /\ phase' \in {2, 3} /\ start' = 0 /\ UNCHANGED <<classed, lost, calls, sent>>
      /\ flying = {} /\ flying' = {} /\ sent = 0 /\ phase = 2
  BY DEF LevelEnds, Restarted, serviceVars, BenchInv, SentCounts
<1>2. BatchesAreHeard'
  BY <1>1, NoBatchIsHeard DEF BenchInv
<1>3. LevelKeeps' /\ FlightsApart'
  BY <1>1 DEF LevelKeeps, FlightsApart
<1>4. SentIsWritten' /\ sent' <= MaxStart
  BY <1>1 DEF BenchInv, SentCounts, SentIsWritten, SustainedTxs, RunTxs, RunOf
<1>5. 0 <= Cardinality(CountedRows')
  <2>1. CountedRows' \in SUBSET (0 .. 0 - 1)
    BY <1>1 DEF CountedRows
  <2>. QED BY <2>1, FewRows
<1>6. SentCounts'
  BY <1>1, <1>4, <1>5 DEF SentCounts
<1>7. WinnerWroteAll'
  <2>1. CASE UNCHANGED best
    BY <1>1, <2>1 DEF BenchInv, WinnerWroteAll, RunTxs, RunOf
  <2>2. CASE errors = 0 /\ best' = level
    <3>1. \A i \in 0 .. RowsLevel - 1 : i < start
      BY <1>1, BenchNumbers, EndpointBenchmarkAssumption DEF LevelEnds, More, BenchInv
    <3>2. RunTxs(2, level, RowsLevel) \subseteq Kept
      BY <1>1, <2>2, <3>1 DEF BenchInv, LevelKeeps, RunTxs
    <3>. QED BY <1>1, <2>2, <3>2 DEF WinnerWroteAll, RunTxs, RunOf, Kept
  <2>. QED BY <2>1, <2>2 DEF LevelEnds, Crowned
<1>. QED BY <1>2, <1>3, <1>6, <1>7, LevelEndsKeepsTypes DEF BenchInv

-----------------------------------------------------------------------------
(* The sustained run.                                                      *)

\* More rows are counted than before.
LEMMA CountGrows ==
  ASSUME BenchTypes, BenchTypes', CountedRows \subseteq CountedRows'
  PROVE  Cardinality(CountedRows) <= Cardinality(CountedRows')
<1>1. start' \in Nat
  BY StartsAreNumbers DEF BenchTypes
<1>2. CountedRows' \in SUBSET (0 .. start' - 1)
  BY DEF CountedRows
<1>. QED BY <1>1, <1>2, FewRows, FS_Subset

\* The next batch of the sustained run begins where the last one ends.
LEMMA SubmitKeeps ==
  ASSUME BenchInv, Submit
  PROVE  BenchInv'
<1>1. /\ phase = 3 /\ phase' = 3 /\ start' = start + size /\ flying' = flying \cup {start}
      /\ start \in Nat /\ size \in Nat \ {0} /\ start + size <= MaxStart
      /\ UNCHANGED <<phase, level, size, best, sent, errors, classed, lost>>
  BY BenchNumbers DEF Submit, Owed, BenchInv
<1>2. BenchTypes'
  <2>1. MaxStart <= Max({MaxStart, RowsBisect, RowsLevel} \cup Sizes)
    BY MostIsMost
  <2>2. start' \in 0 .. Max({MaxStart, RowsBisect, RowsLevel} \cup Sizes) + Max(Sizes)
    BY <1>1, <2>1, StartsAreNumbers, EndpointBenchmarkAssumption
  <2>3. Cardinality(flying) < IF phase = 1 THEN 1 ELSE level
    BY <1>1 DEF Submit, Owed
  <2>. QED BY <1>1, <2>2, <2>3, SendKeepsTypes DEF BenchInv
<1>3. BatchesAreHeard'
  BY <1>1, PostIsHeard DEF BenchInv, Submit
<1>4. LevelKeeps'
  BY <1>1 DEF LevelKeeps
<1>5. FlightsApart'
  <2>1. \A f \in flying : f \in Nat /\ f < start /\ f + size <= start
    BY <1>1, BenchNumbers DEF BenchInv, FlightsApart, BenchTypes
  <2>2. \A f \in flying' : f + size <= start'
    BY <1>1, <2>1
  <2>3. ASSUME NEW f \in flying', NEW g \in flying', f < g PROVE f + size <= g
    <3>1. CASE f \in flying /\ g \in flying
      BY <1>1, <2>3, <3>1 DEF BenchInv, FlightsApart
    <3>2. CASE f \in flying /\ g = start
      BY <2>1, <3>2
    <3>3. CASE f = start
      BY <1>1, <2>1, <2>3, <3>3
    <3>. QED BY <1>1, <3>1, <3>2, <3>3
  <2>. QED BY <1>1, <2>2, <2>3 DEF FlightsApart
<1>6. CountedRows \subseteq CountedRows'
  <2>. SUFFICES ASSUME NEW i \in CountedRows PROVE i \in CountedRows'
    OBVIOUS
  <2>1. i \in 0 .. start - 1 /\ <<RunOf(3, 0), i>> \in Kept /\ \A f \in flying : ~InBatch(i, f)
    BY DEF CountedRows
  <2>2. i \in 0 .. start' - 1 /\ ~(start <= i)
    BY <1>1, <2>1
  <2>. QED BY <1>1, <2>1, <2>2 DEF CountedRows, InBatch, Kept, RunOf
<1>7. SentCounts'
  <2>1. Cardinality(CountedRows) <= Cardinality(CountedRows')
    BY <1>2, <1>6, CountGrows DEF BenchInv
  <2>2. Cardinality(CountedRows) \in Nat
    BY CountedIsFinite DEF BenchInv
  <2>3. Cardinality(CountedRows') \in Nat
    <3>1. start' \in Nat /\ CountedRows' \in SUBSET (0 .. start' - 1)
      BY <1>1 DEF CountedRows
    <3>. QED BY <3>1, FewRows
  <2>4. sent <= Cardinality(CountedRows')
    BY <1>1, <2>1, <2>2, <2>3 DEF BenchInv, SentCounts, BenchTypes
  <2>. QED BY <1>1, <2>4, ResultsStay DEF SentCounts
<1>. QED BY <1>1, <1>2, <1>3, <1>4, <1>5, <1>7, ResultsStay DEF BenchInv

\* As many rows as the batch has.
LEMMA BatchIsLong ==
  ASSUME NEW f \in Nat, NEW w \in Nat
  PROVE  IsFiniteSet(f .. f + w - 1) /\ Cardinality(f .. f + w - 1) = w
<1>1. \A a, b \in Int : IsFiniteSet(a .. b) /\ Cardinality(a .. b) = IF a > b THEN 0 ELSE b - a + 1
  BY FS_Interval
<1>2. PICK b \in Int : b = f + w - 1
  OBVIOUS
<1>3. IsFiniteSet(f .. b) /\ Cardinality(f .. b) = IF f > b THEN 0 ELSE b - f + 1
  <2>1. f \in Int /\ b \in Int
    OBVIOUS
  <2>. QED BY <1>1, <2>1, Zenon
<1>4. Cardinality(f .. b) = w
  BY <1>2, <1>3
<1>. QED BY <1>2, <1>3, <1>4

\* A batch that is under way is not counted yet.
LEMMA BatchCounts ==
  ASSUME BenchInv, phase = 3, NEW f \in flying
  PROVE  /\ f .. f + size - 1 \subseteq 0 .. start - 1
         /\ f .. f + size - 1 \subseteq 0 .. MaxStart - 1
         /\ Cardinality(CountedRows \cup f .. f + size - 1) = Cardinality(CountedRows) + size
         /\ \A i \in f .. f + size - 1 : \A g \in flying \ {f} : ~InBatch(i, g)
<1>1. f \in Nat /\ size \in Nat /\ start \in Nat /\ start <= MaxStart /\ f + size <= start
  BY BenchNumbers DEF BenchInv, FlightsApart, BenchTypes
<1>2. IsFiniteSet(CountedRows) /\ Cardinality(CountedRows) \in Nat
  BY CountedIsFinite DEF BenchInv
<1>3. CountedRows \cap f .. f + size - 1 = {}
  BY <1>1 DEF CountedRows, InBatch
<1>6. IsFiniteSet(f .. f + size - 1) /\ Cardinality(f .. f + size - 1) = size
  BY <1>1, BatchIsLong
<1>7. Cardinality(CountedRows \cup f .. f + size - 1) = Cardinality(CountedRows) + size - Cardinality({})
  BY <1>2, <1>3, <1>6, FS_Union, EndpointBenchmarkAssumption
<1>8. Cardinality(CountedRows \cup f .. f + size - 1) = Cardinality(CountedRows) + size
  BY <1>1, <1>2, <1>7, FS_EmptySet
<1>9. ASSUME NEW i \in f .. f + size - 1, NEW g \in flying \ {f} PROVE ~InBatch(i, g)
  <2>1. g \in Nat /\ (f < g => f + size <= g) /\ (g < f => g + size <= f)
    BY BenchNumbers DEF BenchInv, FlightsApart
  <2>. QED BY <1>1, <2>1 DEF InBatch
<1>10. f .. f + size - 1 \subseteq 0 .. start - 1 /\ f .. f + size - 1 \subseteq 0 .. MaxStart - 1
  BY <1>1, EndpointBenchmarkAssumption
<1>. QED BY <1>8, <1>9, <1>10

\* A batch that returned adds as many rows to what is kept as to the count.
LEMMA ReapKeeps ==
  ASSUME WritesAreKept, BenchInv, Reap
  PROVE  BenchInv'
<1>1. PICK f \in flying :
        /\ flying' = flying \ {f}
        /\ \/ Returns(BatchId(f)) /\ sent' = sent + size /\ UNCHANGED errors
           \/ Raises(BatchId(f)) /\ errors' = errors + 1 /\ UNCHANGED sent
  BY DEF Reap
<1>2. /\ phase = 3 /\ phase' = 3 /\ UNCHANGED <<phase, level, size, best, start, classed, lost>>
      /\ size \in Nat \ {0} /\ start \in Nat /\ sent \in Nat /\ errors \in Nat /\ f \in Nat
  BY BenchNumbers DEF Reap, BenchInv, BenchTypes
<1>3. BenchTypes'
  <2>1. sent' \in Nat /\ errors' \in Nat
    BY <1>1, <1>2
  <2>. QED BY <1>1, <1>2, <2>1, HearKeepsTypes DEF BenchInv
<1>4. BatchesAreHeard'
  BY <1>1, <1>2, BatchIsGone DEF WritesAreKept, BenchInv
<1>5. LevelKeeps'
  BY <1>2 DEF LevelKeeps
<1>6. FlightsApart'
  BY <1>1, <1>2 DEF BenchInv, FlightsApart
<1>7. CountedRows \subseteq CountedRows'
  BY <1>1, <1>2 DEF CountedRows, InBatch, Kept, RunOf
<1>8. CountedRows' \in SUBSET (0 .. start - 1)
  BY <1>2 DEF CountedRows
<1>9. Cardinality(CountedRows') \in Nat /\ IsFiniteSet(CountedRows') /\ Cardinality(CountedRows) \in Nat
  BY <1>2, <1>8, FewRows, CountedIsFinite DEF BenchInv
<1>10. sent' <= Cardinality(CountedRows')
  <2>1. CASE UNCHANGED sent
    <3>1. Cardinality(CountedRows) <= Cardinality(CountedRows')
      BY <1>3, <1>7, CountGrows DEF BenchInv
    <3>. QED BY <1>2, <1>9, <2>1, <3>1 DEF BenchInv, SentCounts
  <2>2. CASE Returns(BatchId(f)) /\ sent' = sent + size
    <3>1. RowsOf(f) \subseteq Kept
      BY <1>2, <2>2, ReturnedIsKept DEF WritesAreKept, BenchInv
    <3>2. ASSUME NEW i \in f .. f + size - 1 PROVE i \in CountedRows'
      <4>1. i \in 0 .. start - 1 /\ i \in 0 .. MaxStart - 1 /\ \A g \in flying \ {f} : ~InBatch(i, g)
        BY <1>2, BatchCounts
      <4>2. i \in Nat /\ i < MaxStart /\ InBatch(i, f)
        BY <1>2, <4>1, EndpointBenchmarkAssumption DEF InBatch
      <4>3. <<RunOf(phase, level), i>> \in RowsOf(f)
        BY <1>2, <4>2, BatchHasRow DEF BenchInv
      <4>4. <<RunOf(3, 0), i>> \in Kept
        BY <1>2, <3>1, <4>3 DEF RunOf
      <4>. QED BY <1>1, <1>2, <4>1, <4>4 DEF CountedRows, InBatch, Kept, RunOf
    <3>3. CountedRows \cup f .. f + size - 1 \in SUBSET (CountedRows')
      BY <1>7, <3>2
    <3>4. Cardinality(CountedRows \cup f .. f + size - 1) <= Cardinality(CountedRows')
      BY <1>9, <3>3, FS_Subset
    <3>5. Cardinality(CountedRows) + size <= Cardinality(CountedRows')
      BY <1>2, <3>4, BatchCounts
    <3>. QED BY <1>2, <1>9, <2>2, <3>5 DEF BenchInv, SentCounts
  <2>. QED BY <1>1, <2>1, <2>2
<1>11. Cardinality(CountedRows') <= Cardinality(SustainedTxs \cap Kept) /\ Cardinality(CountedRows') <= start
  <2>1. CountedRows' \in SUBSET (0 .. MaxStart - 1)
    BY <1>2, <1>8, EndpointBenchmarkAssumption DEF BenchInv, BenchTypes
  <2>2. \A i \in CountedRows' : SustainedTx(i) \in Kept
    BY <1>2 DEF CountedRows, SustainedTx, Kept, RunOf
  <2>. QED BY <1>2, <1>8, <2>1, <2>2, SustainedRows, FewRows
<1>12. Cardinality(SustainedTxs \cap Kept) \in Nat
  BY SustainedIsFinite, FS_Subset, FS_CardinalityType
<1>13. sent' <= Cardinality(SustainedTxs \cap Kept) /\ sent' <= MaxStart
  BY <1>2, <1>3, <1>9, <1>10, <1>11, <1>12, EndpointBenchmarkAssumption DEF BenchTypes
<1>14. SentCounts'
  <2>1. SustainedTxs' = SustainedTxs /\ Kept' = Kept
    BY <1>2 DEF SustainedTxs, RunTxs, RunOf, Kept
  <2>2. SentIsWritten'
    BY <1>2, <1>13, <2>1 DEF SentIsWritten, Kept, SustainedTxs, RunTxs, RunOf
  <2>. QED BY <1>2, <1>10, <1>13, <2>2 DEF SentCounts
<1>15. WinnerWroteAll'
  BY <1>2 DEF BenchInv, WinnerWroteAll, RunTxs, RunOf
<1>. QED BY <1>3, <1>4, <1>5, <1>6, <1>14, <1>15 DEF BenchInv

LEMMA DeadlineKeeps ==
  ASSUME BenchInv, Deadline
  PROVE  BenchInv'
<1>1. /\ phase = 3 /\ phase' = 4
      /\ UNCHANGED <<level, size, best, start, flying, sent, errors, classed, lost>>
  BY DEF Deadline, serviceVars
<1>2. BenchTypes'
  BY <1>1 DEF BenchInv, BenchTypes
<1>3. BatchesAreHeard' /\ LevelKeeps' /\ FlightsApart'
  BY <1>1 DEF BatchesAreHeard, LevelKeeps, FlightsApart
<1>4. SentCounts'
  BY <1>1, ResultsStay DEF SentCounts
<1>. QED BY <1>1, <1>2, <1>3, <1>4, ResultsStay DEF BenchInv

LEMMA DrainKeeps ==
  ASSUME BenchInv, Drain
  PROVE  BenchInv'
<1>1. PICK f \in flying : flying' = flying \ {f}
  BY DEF Drain
<1>2. /\ phase = 4 /\ phase' = 4
      /\ UNCHANGED <<phase, level, size, best, start, sent, errors, classed, lost>>
  BY DEF Drain
<1>3. BenchTypes'
  <2>1. sent' \in Nat /\ errors' \in Nat
    BY <1>2 DEF BenchInv, BenchTypes
  <2>. QED BY <1>1, <1>2, <2>1, HearKeepsTypes DEF BenchInv
<1>4. BatchesAreHeard' /\ LevelKeeps' /\ FlightsApart'
  BY <1>2 DEF BatchesAreHeard, LevelKeeps, FlightsApart
<1>5. SentCounts'
  BY <1>2, ResultsStay DEF SentCounts
<1>. QED BY <1>2, <1>3, <1>4, <1>5, ResultsStay DEF BenchInv

LEMMA SummaryKeeps ==
  ASSUME BenchInv, Summary
  PROVE  BenchInv'
<1>1. /\ phase' = 5
      /\ UNCHANGED <<level, size, best, start, flying, sent, errors, classed, lost>>
      /\ phase = 4
  BY DEF Summary, serviceVars
<1>2. BenchTypes'
  BY <1>1 DEF BenchInv, BenchTypes
<1>3. BatchesAreHeard' /\ LevelKeeps' /\ FlightsApart'
  BY <1>1 DEF BatchesAreHeard, LevelKeeps, FlightsApart
<1>4. SentCounts'
  BY <1>1, ResultsStay DEF SentCounts
<1>. QED BY <1>1, <1>2, <1>3, <1>4, ResultsStay DEF BenchInv

\* Everybody's steps keep it.
LEMMA BenchInvHolds == Spec => []BenchInv
<1>1. Init => BenchInv
  BY BenchStarts
<1>2. WritesAreKept /\ BenchInv /\ [Next]_vars => BenchInv'
  <2>. SUFFICES ASSUME WritesAreKept, BenchInv, [Next]_vars PROVE BenchInv'
    OBVIOUS
  <2>. StoresAreSafe
    BY DEF WritesAreKept
  <2>0. <<RunOf(1, 0), 0>> \in Batches
    BY DEF Batches
  <2>1. CASE UNCHANGED vars
    <3>1. UNCHANGED benchVars /\ UNCHANGED <<calls, classed, lost>>
      BY <2>1 DEF vars, serviceVars
    <3>2. Kept \subseteq Kept' /\ \A id \in Batches : HearsNoMore(id)
      BY <3>1, HearsLess DEF Kept, Heard
    <3>. QED BY <3>1, <3>2, BenchStays
  <2>2. CASE ServiceNext /\ UNCHANGED benchVars
    BY <2>2, ServiceIsHeard, BenchStays
  <2>3. CASE StreamNext /\ UNCHANGED benchVars
    BY <2>0, <2>3, StreamLeavesBatches, BenchStays
  <2>4. CASE LivePosts /\ UNCHANGED benchVars
    BY <2>0, <2>4, LiveLeavesBatches, BenchStays
  <2>5. CASE BenchNext
    BY <2>5, SendBatchKeeps, BatchReturnsKeeps, BatchRaisesKeeps, SizeEndsKeeps, LevelEndsKeeps,
       SubmitKeeps, ReapKeeps, DeadlineKeeps, DrainKeeps, SummaryKeeps DEF BenchNext
  <2>. QED BY <2>1, <2>2, <2>3, <2>4, <2>5 DEF Next
<1>. QED BY <1>1, <1>2, WritesStayKept, PTL DEF Spec

(* The throughput the benchmark reports is not overstated: every row in    *)
(* total_sent is in the graph, or was refused and answered ok, whatever    *)
(* became of the batches that timed out and those nobody waited for        *)
(* (benchmark_ingest_endpoint.py, lines 155-165 and 184).                  *)
THEOREM SentStaysInTheGraph == Spec => []SentIsWritten
<1>1. BenchInv => SentIsWritten
  BY DEF BenchInv, SentCounts
<1>. QED BY <1>1, BenchInvHolds, PTL

(* All rows of the run that won the second phase were answered ok, and are *)
(* in the graph unless they were refused late: no run with an error is     *)
(* crowned (benchmark_ingest_endpoint.py, line 117).                       *)
THEOREM WinnersWroteAll == Spec => []WinnerWroteAll
<1>1. BenchInv => WinnerWroteAll
  BY DEF BenchInv
<1>. QED BY <1>1, BenchInvHolds, PTL

-----------------------------------------------------------------------------
(* The types: a stream stays within its rows and its window, ...           *)

StreamFits(s) ==
  /\ total[s] + count[s] <= StreamRows
  /\ done[s] <= count[s]
  /\ spc[s] \in {"new", "window"} => done[s] = 0
  /\ targets[s] \subseteq Counted(s)
  /\ recent[s] \in Seq(Counted(s))
  /\ Len(recent[s]) <= Recency

StreamsFit ==
  /\ second \in [Streams -> Seconds]
  /\ \A s \in Streams : StreamFits(s)

\* A stream does not count the row it is at.
LEMMA CountedIsSynthetic ==
  ASSUME StreamTypes, StreamsFit, NEW s \in Streams
  PROVE  Counted(s) \subseteq SynTxs /\ TxOf(s) \notin Counted(s)
<1>1. total[s] \in Nat /\ done[s] \in Nat /\ count[s] \in Nat /\ total[s] + done[s] <= StreamRows
  BY SyntheticStreamAssumption DEF StreamTypes, StreamsFit, StreamFits
<1>2. \A i \in 0 .. total[s] + done[s] - 1 : i \in 0 .. StreamRows - 1 /\ i # total[s] + done[s]
  BY <1>1, SyntheticStreamAssumption
<1>. QED BY <1>1, <1>2 DEF Counted, TxOf, SynTxs, SynTx, StreamsFit

LEMMA OneStreamFits ==
  ASSUME StreamsFit, UNCHANGED second, NEW s \in Streams, StreamFits(s)',
         \A r \in Streams :
           r # s => /\ spc'[r] = spc[r] /\ total'[r] = total[r] /\ count'[r] = count[r]
                    /\ done'[r] = done[r] /\ targets'[r] = targets[r] /\ recent'[r] = recent[r]
  PROVE  StreamsFit'
<1>1. ASSUME NEW r \in Streams, r # s PROVE StreamFits(r)'
  <2>1. Counted(r)' = Counted(r)
    BY <1>1 DEF Counted
  <2>. QED BY <1>1, <2>1 DEF StreamsFit, StreamFits
<1>. QED BY <1>1 DEF StreamsFit

\* recent_ids has room, or loses its first.
LEMMA RememberIsBounded ==
  ASSUME NEW S, NEW ids \in Seq(S), NEW t \in S, Len(ids) <= Recency
  PROVE  Len(Remember(ids, t)) <= Recency
<1>1. CASE Len(ids) < Recency
  <2>1. Len(Append(ids, t)) = Len(ids) + 1
    OBVIOUS
  <2>. QED BY <1>1, <2>1, SyntheticStreamAssumption DEF Remember
<1>2. CASE ~(Len(ids) < Recency)
  <2>1. ids # << >>
    BY <1>2, SyntheticStreamAssumption
  <2>2. Tail(ids) \in Seq(S) /\ Len(Tail(ids)) = Len(ids) - 1
    BY <2>1, HeadTailProperties
  <2>3. Len(Append(Tail(ids), t)) = Len(Tail(ids)) + 1
    BY <2>2
  <2>. QED BY <1>2, <2>2, <2>3, SyntheticStreamAssumption DEF Remember
<1>. QED BY <1>1, <1>2

LEMMA StreamsFitAtFirst ==
  ASSUME Init
  PROVE  StreamsFit
<1>1. /\ second \in [Streams -> Seconds]
      /\ \A s \in Streams : /\ total[s] = 0 /\ count[s] = 0 /\ done[s] = 0
                            /\ targets[s] = {} /\ recent[s] = << >>
  BY DEF Init, StreamInit
<1>2. ASSUME NEW s \in Streams PROVE StreamFits(s)
  <2>1. << >> \in Seq(Counted(s)) /\ Len(<< >>) = 0
    OBVIOUS
  <2>2. recent[s] \in Seq(Counted(s)) /\ Len(recent[s]) = 0
    BY <1>1, <2>1
  <2>3. total[s] + count[s] <= StreamRows /\ done[s] <= count[s] /\ Len(recent[s]) <= Recency
    BY <1>1, <2>2, SyntheticStreamAssumption
  <2>. QED BY <1>1, <2>2, <2>3 DEF StreamFits
<1>. QED BY <1>1, <1>2 DEF StreamsFit

LEMMA StreamsStayFit ==
  ASSUME WritesAreKept, StreamsFit, StreamNext
  PROVE  StreamsFit'
<1>. PICK s \in Streams :
       \/ StartStream(s) \/ NextWindow(s) \/ SendTransaction(s) \/ TransactionReturns(s)
       \/ SendEdge(s) \/ EdgeReturns(s) \/ EndRow(s) \/ StreamRaises(s) \/ StopStream(s)
  BY DEF StreamNext
<1>a. /\ StreamTypes /\ Keeps(s) /\ StreamFits(s)
      /\ spc \in [Streams -> Going \cup {"new", "stopped", "raised"}]
  BY DEF WritesAreKept, StreamsKeep, StoresAreSafe, StreamsFit
<1>b. /\ total[s] \in Nat /\ count[s] \in Nat /\ done[s] \in Nat
       /\ DOMAIN total = Streams /\ DOMAIN count = Streams /\ DOMAIN done = Streams
       /\ DOMAIN targets = Streams /\ DOMAIN recent = Streams /\ DOMAIN spc = Streams
  BY <1>a DEF StreamTypes
<1>1. ASSUME UNCHANGED <<second, total, count, done, recent>>, NEW l, At(s, l),
             l \in {"new", "window"} => spc[s] \in {"new", "window"},
             targets'[s] \subseteq Counted(s), \A r \in Streams : r # s => targets'[r] = targets[r]
      PROVE  StreamsFit'
  <2>1. Counted(s)' = Counted(s) /\ spc'[s] = l
    BY <1>b, <1>1 DEF Counted, At
  <2>2. StreamFits(s)'
    BY <1>a, <1>1, <2>1 DEF StreamFits
  <2>3. \A r \in Streams : r # s => spc'[r] = spc[r]
    BY <1>1 DEF At
  <2>. QED BY <1>1, <2>2, <2>3, OneStreamFits
<1>2. CASE StartStream(s)
  <2>1. UNCHANGED <<second, total, count, done, recent, targets>>
    BY <1>2 DEF StartStream
  <2>2. spc[s] = "new" /\ (At(s, "window") \/ At(s, "raised"))
    BY <1>2 DEF StartStream
  <2>. QED BY <1>a, <1>1, <2>1, <2>2 DEF StreamFits
<1>3. CASE SendTransaction(s) \/ EdgeReturns(s) \/ StreamRaises(s) \/ StopStream(s)
  <2>1. UNCHANGED <<second, total, count, done, recent, targets>>
    BY <1>3 DEF SendTransaction, EdgeReturns, StreamRaises, StopStream
  <2>2. \E l \in {"transaction", "edges", "raised", "stopped"} : At(s, l)
    BY <1>3 DEF SendTransaction, EdgeReturns, StreamRaises, StopStream
  <2>. QED BY <1>a, <1>1, <2>1, <2>2 DEF StreamFits
<1>4. CASE TransactionReturns(s)
  <2>1. PICK ts \in SomeRecent(s) : targets' = [targets EXCEPT ![s] = ts]
    BY <1>4 DEF TransactionReturns
  <2>2. ts \subseteq Counted(s)
    BY <1>a DEF SomeRecent, StreamFits
  <2>3. UNCHANGED <<second, total, count, done, recent>> /\ At(s, "edges")
    BY <1>4 DEF TransactionReturns
  <2>4. targets'[s] = ts /\ \A r \in Streams : r # s => targets'[r] = targets[r]
    BY <1>b, <2>1
  <2>. QED BY <1>1, <2>2, <2>3, <2>4
<1>5. CASE SendEdge(s)
  <2>1. PICK t \in targets[s] : targets' = [targets EXCEPT ![s] = @ \ {t}]
    BY <1>5 DEF SendEdge
  <2>2. UNCHANGED <<second, total, count, done, recent>> /\ At(s, "edge")
    BY <1>5 DEF SendEdge
  <2>3. targets'[s] \subseteq targets[s] /\ \A r \in Streams : r # s => targets'[r] = targets[r]
    BY <1>b, <2>1
  <2>. QED BY <1>a, <1>1, <2>2, <2>3 DEF StreamFits
<1>6. CASE NextWindow(s)
  <2>1. PICK n \in 1 .. StreamRows - total[s] : count' = [count EXCEPT ![s] = n]
    BY <1>6 DEF NextWindow
  <2>2. UNCHANGED <<second, total, targets, recent>> /\ done' = [done EXCEPT ![s] = 0] /\ At(s, "row")
    BY <1>6 DEF NextWindow
  <2>3. /\ count'[s] = n /\ done'[s] = 0 /\ spc'[s] = "row"
        /\ \A r \in Streams : r # s => count'[r] = count[r] /\ done'[r] = done[r] /\ spc'[r] = spc[r]
    BY <1>b, <2>1, <2>2 DEF At
  <2>4. done[s] = 0
    BY <1>a, <1>6 DEF NextWindow, StreamFits
  <2>5. Counted(s)' = Counted(s)
    BY <2>2, <2>3, <2>4 DEF Counted
  <2>6. n \in Nat /\ total[s] + n <= StreamRows
    BY <1>b, SyntheticStreamAssumption
  <2>7. StreamFits(s)'
    BY <1>a, <2>2, <2>3, <2>5, <2>6 DEF StreamFits
  <2>. QED BY <2>2, <2>3, <2>7, OneStreamFits
<1>7. CASE EndRow(s)
  <2>1. /\ done[s] < count[s] /\ targets[s] = {} /\ UNCHANGED <<second, targets>>
        /\ recent' = [recent EXCEPT ![s] = Remember(@, TxOf(s))]
        /\ spc[s] = "edges"
    BY <1>a, <1>7 DEF EndRow, Keeps
  <2>2. \/ /\ done[s] + 1 < count[s]
           /\ done'[s] = done[s] + 1 /\ total'[s] = total[s] /\ count'[s] = count[s] /\ spc'[s] = "row"
        \/ /\ done[s] + 1 = count[s]
           /\ done'[s] = 0 /\ total'[s] = total[s] + count[s] /\ count'[s] = 0 /\ spc'[s] = "window"
    <3>1. CASE done[s] + 1 < count[s]
      BY <1>b, <1>7, <3>1 DEF EndRow, At
    <3>2. CASE ~(done[s] + 1 < count[s])
      BY <1>b, <1>7, <2>1, <3>2 DEF EndRow, At
    <3>. QED BY <3>1, <3>2
  <2>3. /\ total'[s] + done'[s] = total[s] + done[s] + 1
        /\ total'[s] + count'[s] <= StreamRows /\ done'[s] <= count'[s]
        /\ spc'[s] \in {"new", "window"} => done'[s] = 0
    BY <1>a, <1>b, <2>2 DEF StreamFits
  <2>4. Counted(s)' = Counted(s) \cup {TxOf(s)}
    <3>0. total'[s] \in Nat /\ done'[s] \in Nat
      BY <1>b, <2>2
    <3>1. PICK n \in Nat : n = total[s] + done[s]
      BY <1>b
    <3>2. total'[s] + done'[s] - 1 = n
      BY <1>b, <2>3, <3>0, <3>1
    <3>3. Counted(s)' = {SynTx(second[s], i) : i \in 0 .. n}
      BY <2>1, <3>2 DEF Counted, SynTx
    <3>4. Counted(s) = {SynTx(second[s], i) : i \in 0 .. n - 1} /\ TxOf(s) = SynTx(second[s], n)
      BY <1>b, <3>1 DEF Counted, TxOf
    <3>5. 0 .. n = (0 .. n - 1) \cup {n}
      OBVIOUS
    <3>. QED BY <3>3, <3>4, <3>5
  <2>5. PICK S : S = Counted(s) \cup {TxOf(s)}
    OBVIOUS
  <2>6. recent[s] \in Seq(S) /\ TxOf(s) \in S
    BY <1>a, <2>5, SeqMonotonic DEF StreamFits
  <2>7. recent'[s] \in Seq(S) /\ Len(recent'[s]) <= Recency
    <3>1. recent'[s] = Remember(recent[s], TxOf(s))
      BY <1>b, <2>1
    <3>2. Len(recent[s]) <= Recency
      BY <1>a DEF StreamFits
    <3>. QED BY <2>6, <3>1, <3>2, RememberKeeps, RememberIsBounded
  <2>8. StreamFits(s)'
    BY <2>1, <2>3, <2>4, <2>5, <2>7 DEF StreamFits
  <2>9. ASSUME NEW r \in Streams, r # s
        PROVE  /\ spc'[r] = spc[r] /\ total'[r] = total[r] /\ count'[r] = count[r]
               /\ done'[r] = done[r] /\ targets'[r] = targets[r] /\ recent'[r] = recent[r]
    <3>1. recent'[r] = recent[r] /\ targets'[r] = targets[r]
      BY <1>b, <2>1, <2>9
    <3>2. CASE done[s] + 1 < count[s]
      BY <1>b, <1>7, <2>9, <3>1, <3>2 DEF EndRow, At
    <3>3. CASE ~(done[s] + 1 < count[s])
      BY <1>b, <1>7, <2>9, <3>1, <3>3 DEF EndRow, At
    <3>. QED BY <3>2, <3>3
  <2>. QED BY <2>1, <2>8, <2>9, OneStreamFits
<1>. QED BY <1>2, <1>3, <1>4, <1>5, <1>6, <1>7

-----------------------------------------------------------------------------
(* ... and calls mention txIds there are, and saw nodes that are there.    *)

CallFits(k) ==
  /\ k.via \in {"api", "driver"}
  /\ k.what \in {"transaction", "edge"}
  /\ k.rows \subseteq Txs
  /\ k.saw \subseteq {t \in k.rows : copies[t] > 0}

ServiceFits ==
  /\ constraint \in BOOLEAN
  /\ cached \in BOOLEAN
  /\ classed \subseteq {t \in Txs : copies[t] > 0}
  /\ lost \subseteq Txs
  /\ faults \in 0 .. MaxFaults
  /\ \A k \in calls : CallFits(k)

SameCall(j, k) == j.via = k.via /\ j.what = k.what /\ j.rows = k.rows /\ j.saw = k.saw

\* A call that goes on or is not heard any more is the same call.
LEMMA GotoIsSame ==
  ASSUME NEW k, IsCall(k), NEW l
  PROVE  SameCall([k EXCEPT !.pc = l], k)
BY DEF IsCall, SameCall

LEMMA UnheardIsSame ==
  ASSUME NEW k, IsCall(k)
  PROVE  SameCall([k EXCEPT !.heard = FALSE], k)
BY DEF IsCall, SameCall

LEMMA FaultFits ==
  ASSUME faults \in 0 .. MaxFaults, Fault \/ UNCHANGED faults
  PROVE  faults' \in 0 .. MaxFaults
BY IngestServiceAssumption DEF Fault

\* Nodes are not deleted, so what fitted the store fits it still.
LEMMA ServiceStaysFit ==
  ASSUME ServiceFits, constraint' \in BOOLEAN, cached' \in BOOLEAN,
         Fault \/ UNCHANGED faults,
         \A t \in Txs : copies[t] > 0 => copies'[t] > 0,
         \A j \in calls' : (\E k \in calls : SameCall(j, k)) \/ CallFits(j)',
         classed' \subseteq {t \in Txs : copies'[t] > 0}, lost' \subseteq Txs
  PROVE  ServiceFits'
<1>1. ASSUME NEW j \in calls' PROVE CallFits(j)'
  <2>1. ASSUME NEW k \in calls, SameCall(j, k) PROVE CallFits(j)'
    BY <2>1 DEF ServiceFits, CallFits, SameCall
  <2>. QED BY <2>1
<1>. QED BY <1>1, FaultFits DEF ServiceFits

\* A step that writes nothing, or a client's.
LEMMA NothingIsWritten ==
  ASSUME ServiceFits, constraint' \in BOOLEAN, cached' \in BOOLEAN,
         Fault \/ UNCHANGED faults, UNCHANGED <<copies, classed>>, lost' \subseteq Txs,
         \A j \in calls' : (\E k \in calls : SameCall(j, k)) \/ CallFits(j)'
  PROVE  ServiceFits'
<1>1. classed' \subseteq {t \in Txs : copies'[t] > 0} /\ \A t \in Txs : copies[t] > 0 => copies'[t] > 0
  BY DEF ServiceFits
<1>. QED BY <1>1, ServiceStaysFit

LEMMA ServiceNextFits ==
  ASSUME StoresAreSafe, ServiceFits, ServiceNext
  PROVE  ServiceFits'
<1>0. /\ constraint \in BOOLEAN /\ cached \in BOOLEAN /\ lost \subseteq Txs
      /\ \A k \in calls : IsCall(k)
      /\ copies \in [Txs -> 0 .. 1]
  BY DEF ServiceFits, StoresAreSafe
<1>1. \A j : SameCall(j, j)
  BY DEF SameCall
<1>2. CASE Restart
  <2>1. \A j \in calls' : j \in calls \/ \E k \in calls : j = [k EXCEPT !.heard = FALSE]
    BY <1>2 DEF Restart
  <2>2. \A j \in calls' : \E k \in calls : SameCall(j, k)
    BY <1>0, <1>1, <2>1, UnheardIsSame
  <2>3. Fault /\ cached' = FALSE /\ UNCHANGED <<constraint, copies, classed, lost>>
    BY <1>2 DEF Restart
  <2>. QED BY <1>0, <2>2, <2>3, NothingIsWritten
<1>3. ASSUME NEW k \in calls, NEW l, Goto(k, l)
      PROVE  \A j \in calls' : \E c \in calls : SameCall(j, c)
  <2>1. \A j \in calls' : j \in calls \/ j = [k EXCEPT !.pc = l]
    BY <1>3, StepLeaves DEF Goto
  <2>2. SameCall([k EXCEPT !.pc = l], k)
    BY <1>0, GotoIsSame
  <2>. QED BY <1>1, <2>1, <2>2
<1>4. ASSUME NEW k \in calls, GetCached(k) \/ BuildStore(k) \/ EnsureConstraints(k) \/ NoStore(k)
      PROVE  ServiceFits'
  <2>1. \A j \in calls' : \E c \in calls : SameCall(j, c)
    BY <1>3, <1>4 DEF GetCached, BuildStore, EnsureConstraints, NoStore
  <2>2. /\ constraint' \in BOOLEAN /\ cached' \in BOOLEAN /\ (Fault \/ UNCHANGED faults)
        /\ UNCHANGED <<copies, classed, lost>>
    BY <1>0, <1>4 DEF GetCached, BuildStore, EnsureConstraints, NoStore
  <2>. QED BY <1>0, <2>1, <2>2, NothingIsWritten
<1>5. ASSUME NEW k \in calls, Begin(k) PROVE ServiceFits'
  <2>. DEFINE new == [k EXCEPT !.pc = "open", !.saw = {t \in k.rows : copies[t] > 0}]
  <2>1. new.via = k.via /\ new.what = k.what /\ new.rows = k.rows /\ new.saw = {t \in k.rows : copies[t] > 0}
    BY <1>0 DEF IsCall
  <2>2. \A j \in calls' : j \in calls \/ j = new
    BY <1>5, StepLeaves DEF Begin
  <2>. HIDE DEF new
  <2>3. UNCHANGED <<constraint, cached, copies, classed, lost, faults>>
    BY <1>5 DEF Begin
  <2>4. ASSUME NEW j \in calls', j = new PROVE CallFits(j)'
    BY <2>1, <2>3, <2>4 DEF ServiceFits, CallFits
  <2>. QED BY <1>0, <1>1, <2>2, <2>3, <2>4, NothingIsWritten
<1>6. ASSUME NEW k \in calls, Commit(k) \/ CommitUnheard(k) PROVE ServiceFits'
  <2>1. \A j \in calls' : \E c \in calls : SameCall(j, c)
    BY <1>3, <1>6 DEF Commit, CommitUnheard
  <2>2. Merge(k) /\ (Fault \/ UNCHANGED faults) /\ UNCHANGED <<constraint, cached, lost>>
    BY <1>6 DEF Commit, CommitUnheard
  <2>3. ASSUME NEW t \in Txs PROVE (copies[t] > 0 => copies'[t] > 0) /\ (t \in k.rows => copies'[t] > 0)
    <3>1. t \in k.saw => copies[t] > 0
      BY DEF ServiceFits, CallFits
    <3>2. copies[t] \in Nat
      BY <1>0
    <3>3. copies'[t] = IF t \in k.rows \ k.saw THEN copies[t] + 1 ELSE copies[t]
      BY <2>2 DEF Merge
    <3>. QED BY <3>1, <3>2, <3>3
  <2>4. k.rows \subseteq Txs /\ classed' \subseteq classed \cup k.rows
    BY <2>2 DEF ServiceFits, CallFits, Merge
  <2>5. classed' \subseteq {t \in Txs : copies'[t] > 0}
    BY <2>3, <2>4 DEF ServiceFits
  <2>. QED BY <1>0, <2>1, <2>2, <2>3, <2>5, ServiceStaysFit
<1>7. ASSUME NEW k \in calls, Refused(k) PROVE ServiceFits'
  <2>1. \A j \in calls' : \E c \in calls : SameCall(j, c)
    BY <1>3, <1>7 DEF Refused
  <2>2. (Fault \/ UNCHANGED faults) /\ UNCHANGED <<constraint, cached, copies, classed>>
    BY <1>7 DEF Refused
  <2>3. k.rows \subseteq Txs
    BY DEF ServiceFits, CallFits
  <2>4. lost' \subseteq Txs
    BY <1>0, <1>7, <2>3 DEF Refused
  <2>. QED BY <1>0, <2>1, <2>2, <2>4, NothingIsWritten
<1>. QED BY <1>2, <1>4, <1>5, <1>6, <1>7 DEF ServiceNext

\* A client that posts, or hears of what it posted, or gives up.
LEMMA PostFits ==
  ASSUME ServiceFits, UNCHANGED <<constraint, cached, copies, classed, lost, faults>>,
         NEW id, NEW via \in {"api", "driver"}, NEW what \in {"transaction", "edge"},
         NEW rows \in SUBSET Txs, calls' = calls \cup {Call(id, via, what, rows)}
  PROVE  ServiceFits'
<1>. DEFINE new == Call(id, via, what, rows)
<1>1. new.via = via /\ new.what = what /\ new.rows = rows /\ new.saw = {}
  BY DEF Call
<1>2. \A j \in calls' : j \in calls \/ j = new
  OBVIOUS
<1>. HIDE DEF new
<1>3. ASSUME NEW j \in calls', j = new PROVE CallFits(j)'
  BY <1>1, <1>3 DEF CallFits
<1>4. \A j : SameCall(j, j)
  BY DEF SameCall
<1>. QED BY <1>2, <1>3, <1>4, NothingIsWritten DEF ServiceFits

LEMMA AnswerFits ==
  ASSUME StoresAreSafe, ServiceFits, UNCHANGED <<constraint, cached, copies, classed, lost>>,
         NEW id, Raises(id) \/ Returns(id)
  PROVE  ServiceFits'
<1>1. \A j \in calls' : j \in calls \/ \E k \in calls : j = [k EXCEPT !.heard = FALSE]
  BY RaisesLeaves, ReturnsLeaves
<1>2. Fault \/ UNCHANGED faults
  BY DEF Raises, Returns, TimesOut
<1>3. \A j : SameCall(j, j)
  BY DEF SameCall
<1>4. \A j \in calls' : \E k \in calls : SameCall(j, k)
  BY <1>1, <1>3, UnheardIsSame DEF StoresAreSafe
<1>. QED BY <1>2, <1>4, NothingIsWritten DEF ServiceFits

LEMMA StreamServiceFits ==
  ASSUME WritesAreKept, StreamsFit, ServiceFits, StreamNext
  PROVE  ServiceFits'
<1>. PICK s \in Streams :
       \/ StartStream(s) \/ NextWindow(s) \/ SendTransaction(s) \/ TransactionReturns(s)
       \/ SendEdge(s) \/ EdgeReturns(s) \/ EndRow(s) \/ StreamRaises(s) \/ StopStream(s)
  BY DEF StreamNext
<1>0. /\ StoresAreSafe /\ StreamTypes /\ Keeps(s) /\ StreamFits(s) /\ sink[s] \in {"api", "driver"}
      /\ SynTxs \subseteq Txs
  BY IngestAssumption DEF WritesAreKept, StreamsKeep, StoresAreSafe, StreamsFit
<1>1. ASSUME UNCHANGED <<copies, classed, lost, calls>>, constraint' \in BOOLEAN, cached' \in BOOLEAN,
             Fault \/ UNCHANGED faults
      PROVE  ServiceFits'
  BY <1>1, NothingIsWritten DEF ServiceFits, SameCall
<1>2. CASE StartStream(s) \/ NextWindow(s) \/ EndRow(s)
  <2>1. /\ UNCHANGED <<copies, classed, lost, calls, cached>>
        /\ constraint' = constraint \/ constraint' = TRUE
        /\ Fault \/ UNCHANGED faults
    BY <1>2 DEF StartStream, NextWindow, EndRow, serviceVars
  <2>. QED BY <1>1, <2>1 DEF ServiceFits
<1>3. ASSUME spc[s] \in {"row", "edges"}, done[s] < count[s] PROVE TxOf(s) \in SynTxs
  <2>1. total[s] \in Nat /\ done[s] \in Nat /\ count[s] \in Nat /\ second[s] \in Seconds
    BY <1>0 DEF StreamTypes, StreamsFit
  <2>2. total[s] + done[s] \in 0 .. StreamRows - 1
    BY <1>0, <1>3, <2>1, SyntheticStreamAssumption DEF StreamFits
  <2>. QED BY <2>1, <2>2 DEF TxOf, SynTxs
<1>4. CASE SendTransaction(s)
  <2>1. {TxOf(s)} \in SUBSET Txs
    BY <1>0, <1>3, <1>4 DEF SendTransaction, Keeps
  <2>. QED BY <1>0, <1>4, <2>1, PostFits DEF SendTransaction
<1>5. CASE SendEdge(s)
  <2>1. PICK t \in targets[s] : calls' = calls \cup {Call(Id(s), sink[s], "edge", {TxOf(s), t})}
    BY <1>5 DEF SendEdge
  <2>2. t \in SynTxs
    BY <1>0, CountedIsSynthetic DEF StreamFits
  <2>3. {TxOf(s), t} \in SUBSET Txs
    BY <1>0, <1>3, <1>5, <2>2 DEF SendEdge, Keeps
  <2>. QED BY <1>0, <1>5, <2>1, <2>3, PostFits DEF SendEdge
<1>6. CASE TransactionReturns(s) \/ EdgeReturns(s) \/ StreamRaises(s)
  BY <1>0, <1>6, AnswerFits DEF TransactionReturns, EdgeReturns, StreamRaises
<1>7. CASE StopStream(s)
  <2>1. \A j \in calls' : j \in calls \/ \E k \in calls : j = [k EXCEPT !.heard = FALSE]
    BY <1>7 DEF StopStream, Heard
  <2>2. \A j : SameCall(j, j)
    BY DEF SameCall
  <2>3. \A j \in calls' : \E k \in calls : SameCall(j, k)
    BY <1>0, <2>1, <2>2, UnheardIsSame DEF StoresAreSafe
  <2>4. UNCHANGED <<constraint, cached, copies, classed, lost, faults>>
    BY <1>7 DEF StopStream
  <2>. QED BY <2>3, <2>4, NothingIsWritten DEF ServiceFits
<1>. QED BY <1>2, <1>4, <1>5, <1>6, <1>7

\* The txIds of every run.
LEMMA RunsAreOfBench ==
  /\ \A l \in Sizes : RunTxs(1, l, RowsBisect) \subseteq BenchTxs
  /\ \A l \in Levels : RunTxs(2, l, RowsLevel) \subseteq BenchTxs
  /\ SustainedTxs \subseteq BenchTxs
<1>. DEFINE sizes == UNION {RunTxs(1, l, RowsBisect) : l \in Sizes}
            levels == UNION {RunTxs(2, l, RowsLevel) : l \in Levels}
<1>1. \A l \in Sizes : RunTxs(1, l, RowsBisect) \subseteq sizes
  OBVIOUS
<1>2. \A l \in Levels : RunTxs(2, l, RowsLevel) \subseteq levels
  OBVIOUS
<1>3. BenchTxs = sizes \cup levels \cup SustainedTxs
  BY Zenon DEF BenchTxs
<1>. HIDE DEF sizes, levels
<1>. QED BY <1>1, <1>2, <1>3

\* Where a batch starts, the rows it sends are rows of its run.
LEMMA BatchFits ==
  ASSUME BenchTypes, phase \in 1 .. 3, NEW f \in Nat
  PROVE  RowsOf(f) \in SUBSET Txs
<1>. DEFINE rows == IF phase = 1 THEN RowsBisect ELSE IF phase = 2 THEN RowsLevel ELSE MaxStart
<1>1. Width \in Nat /\ rows \in Nat
  BY BenchNumbers, EndpointBenchmarkAssumption DEF Width
<1>2. Min({f + Width, rows}) <= rows /\ Min({f + Width, rows}) \in Nat
  <2>1. {f + Width, rows} \in SUBSET Nat /\ {f + Width, rows} # {}
    BY <1>1
  <2>. HIDE DEF rows
  <2>. QED BY <2>1, MinIs
<1>3. \A i \in f .. Min({f + Width, rows}) - 1 : i \in 0 .. rows - 1
  <2>. HIDE DEF rows
  <2>. QED BY <1>1, <1>2
<1>4. RowsOf(f) \subseteq {<<RunOf(phase, level), i>> : i \in 0 .. rows - 1}
  BY <1>3 DEF RowsOf
<1>5. {<<RunOf(phase, level), i>> : i \in 0 .. rows - 1} \subseteq BenchTxs
  <2>1. CASE phase = 1
    <3>1. RunTxs(1, level, RowsBisect) \subseteq BenchTxs
      BY <2>1, RunsAreOfBench DEF BenchTypes
    <3>. QED BY <2>1, <3>1 DEF RunTxs
  <2>2. CASE phase = 2
    <3>1. RunTxs(2, level, RowsLevel) \subseteq BenchTxs
      BY <2>2, RunsAreOfBench DEF BenchTypes
    <3>. QED BY <2>2, <3>1 DEF RunTxs
  <2>3. CASE phase = 3
    <3>1. RunTxs(3, 0, MaxStart) \subseteq BenchTxs
      BY RunsAreOfBench DEF SustainedTxs
    <3>. QED BY <2>3, <3>1 DEF RunTxs, RunOf
  <2>. QED BY <2>1, <2>2, <2>3
<1>. QED BY <1>4, <1>5, IngestAssumption

LEMMA BenchServiceFits ==
  ASSUME StoresAreSafe, BenchInv, ServiceFits, BenchNext
  PROVE  ServiceFits'
<1>1. UNCHANGED <<constraint, cached, copies, classed, lost>>
  BY DEF BenchNext, SendBatch, BatchReturns, BatchRaises, SizeEnds, LevelEnds, Submit, Reap,
         Deadline, Drain, Summary, serviceVars
<1>2. \/ UNCHANGED <<calls, faults>>
      \/ phase \in 1 .. 3 /\ Post(start) /\ UNCHANGED faults
      \/ \E id : Raises(id) \/ Returns(id)
  <2>1. CASE SendBatch \/ Submit
    BY <2>1 DEF SendBatch, Submit, Owed
  <2>2. CASE BatchReturns \/ BatchRaises \/ Reap \/ Drain
    BY <2>2 DEF BatchReturns, BatchRaises, Reap, Drain
  <2>3. CASE SizeEnds \/ LevelEnds \/ Deadline \/ Summary
    BY <2>3 DEF SizeEnds, LevelEnds, Deadline, Summary, serviceVars
  <2>. QED BY <2>1, <2>2, <2>3 DEF BenchNext
<1>3. CASE UNCHANGED <<calls, faults>>
  BY <1>1, <1>3, NothingIsWritten DEF ServiceFits, SameCall
<1>4. CASE phase \in 1 .. 3 /\ Post(start) /\ UNCHANGED faults
  <2>1. RowsOf(start) \in SUBSET Txs
    BY <1>4, BatchFits, BenchNumbers DEF BenchInv
  <2>. QED BY <1>1, <1>4, <2>1, PostFits DEF Post
<1>5. CASE \E id : Raises(id) \/ Returns(id)
  BY <1>1, <1>5, AnswerFits
<1>. QED BY <1>2, <1>3, <1>4, <1>5

LEMMA LiveServiceFits ==
  ASSUME ServiceFits, LivePosts
  PROVE  ServiceFits'
<1>1. PICK what \in {"transaction", "edge"}, rows \in SUBSET LiveTxs :
        calls' = calls \cup {[Call(<<<<"live", 0>>, live>>, "api", what, rows) EXCEPT !.heard = FALSE]}
  BY DEF LivePosts
<1>. DEFINE new == [Call(<<<<"live", 0>>, live>>, "api", what, rows) EXCEPT !.heard = FALSE]
<1>2. new.via = "api" /\ new.what = what /\ new.rows = rows /\ new.saw = {}
  BY DEF Call
<1>3. \A j \in calls' : j \in calls \/ j = new
  BY <1>1
<1>. HIDE DEF new
<1>4. ASSUME NEW j \in calls', j = new PROVE CallFits(j)'
  BY <1>2, <1>4, IngestAssumption DEF CallFits
<1>5. \A j : SameCall(j, j)
  BY DEF SameCall
<1>6. UNCHANGED <<constraint, cached, copies, classed, lost, faults>>
  BY DEF LivePosts
<1>. QED BY <1>3, <1>4, <1>5, <1>6, NothingIsWritten DEF ServiceFits

AllFit == StreamsFit /\ ServiceFits /\ live \in 0 .. LiveCalls

\* Everybody's steps keep what they mention within the txIds there are.
LEMMA AllStaysFit == Spec => []AllFit
<1>1. Init => AllFit
  <2>. SUFFICES ASSUME Init PROVE AllFit
    OBVIOUS
  <2>1. ServiceFits
    <3>1. constraint = FALSE /\ cached = FALSE /\ classed = {} /\ lost = {} /\ calls = {} /\ faults = 0
      BY DEF Init, ServiceInit
    <3>2. faults \in 0 .. MaxFaults
      BY <3>1, IngestServiceAssumption
    <3>3. classed \subseteq {t \in Txs : copies[t] > 0} /\ lost \subseteq Txs
      BY <3>1
    <3>4. \A k \in calls : CallFits(k)
      BY <3>1
    <3>5. constraint \in BOOLEAN /\ cached \in BOOLEAN
      BY <3>1
    <3>. QED BY <3>2, <3>3, <3>4, <3>5 DEF ServiceFits
  <2>2. live \in 0 .. LiveCalls
    BY IngestAssumption DEF Init
  <2>. QED BY <2>1, <2>2, StreamsFitAtFirst DEF AllFit
<1>2. WritesAreKept /\ BenchInv /\ AllFit /\ [Next]_vars => AllFit'
  <2>. SUFFICES ASSUME WritesAreKept, BenchInv, AllFit, [Next]_vars PROVE AllFit'
    OBVIOUS
  <2>0. StoresAreSafe /\ StreamsFit /\ ServiceFits /\ live \in 0 .. LiveCalls
    BY DEF WritesAreKept, AllFit
  <2>1. ASSUME UNCHANGED streamVars PROVE StreamsFit'
    <3>1. ASSUME NEW s \in Streams PROVE StreamFits(s)'
      <4>1. StreamFits(s) /\ Counted(s)' = Counted(s)
        BY <2>0, <2>1 DEF streamVars, StreamsFit, Counted
      <4>. QED BY <2>1, <4>1 DEF streamVars, StreamFits
    <3>. QED BY <2>0, <2>1, <3>1 DEF streamVars, StreamsFit
  <2>2. ASSUME UNCHANGED serviceVars PROVE ServiceFits'
    BY <2>0, <2>2 DEF serviceVars, ServiceFits, CallFits
  <2>3. CASE UNCHANGED vars
    BY <2>0, <2>1, <2>2, <2>3 DEF vars, AllFit
  <2>4. CASE ServiceNext /\ UNCHANGED <<streamVars, live>>
    BY <2>0, <2>1, <2>4, ServiceNextFits DEF AllFit
  <2>5. CASE StreamNext /\ UNCHANGED live
    BY <2>0, <2>5, StreamsStayFit, StreamServiceFits DEF AllFit
  <2>6. CASE BenchNext /\ UNCHANGED <<streamVars, live>>
    BY <2>0, <2>1, <2>6, BenchServiceFits DEF AllFit
  <2>7. CASE LivePosts /\ UNCHANGED streamVars
    <3>1. live' \in 0 .. LiveCalls
      BY <2>0, <2>7, IngestAssumption DEF LivePosts
    <3>. QED BY <2>0, <2>1, <2>7, <3>1, LiveServiceFits DEF AllFit
  <2>. QED BY <2>3, <2>4, <2>5, <2>6, <2>7 DEF Next
<1>. QED BY <1>1, <1>2, WritesStayKept, BenchInvHolds, PTL DEF Spec

(* Every variable of the service, the streams, the benchmark and the live  *)
(* source has its type and stays within its bounds, which for recent_ids   *)
(* is RECENCY_WINDOW (generate_synthetic_stream.py, lines 228-230), and    *)
(* for the batches under way the workers of the pool                       *)
(* (benchmark_ingest_endpoint.py, lines 95-107 and 148-165).               *)
THEOREM IngestTypesHold == Spec => []TypeOK
<1>1. WritesAreKept /\ BenchInv /\ AllFit => TypeOK
  <2>. SUFFICES ASSUME WritesAreKept, BenchInv, AllFit PROVE TypeOK
    OBVIOUS
  <2>0. StoresAreSafe /\ StreamsKeep /\ StreamTypes /\ StreamsFit /\ ServiceFits
    BY DEF WritesAreKept, StreamsKeep, AllFit
  <2>1. ServiceTypeOK
    <3>1. copies \in [Txs -> 0 .. 1]
      BY <2>0 DEF StoresAreSafe
    <3>2. ASSUME NEW k \in calls
          PROVE  /\ k.via \in {"api", "driver"} /\ k.what \in {"transaction", "edge"}
                 /\ k.saw \subseteq k.rows /\ k.rows \subseteq Txs
                 /\ k.pc \in {"asked", "building", "ready", "open"} \cup Answers
                 /\ k.heard \in BOOLEAN
      <4>1. k.heard \in BOOLEAN /\ k.pc \in Pcs
        BY <2>0 DEF StoresAreSafe, IsCall
      <4>2. CallFits(k)
        BY <2>0 DEF ServiceFits
      <4>. QED BY <4>1, <4>2 DEF CallFits, Pcs
    <3>3. DOMAIN copies = Txs /\ \A t \in Txs : copies[t] \in 0 .. 2
      BY <3>1
    <3>. QED BY <2>0, <3>2, <3>3 DEF ServiceTypeOK, ServiceFits
  <2>2. StreamTypeOK
    <3>1. /\ spc \in [Streams -> Going \cup {"new", "stopped", "raised"}]
          /\ sink \in [Streams -> {"api", "driver"}] /\ second \in [Streams -> Seconds]
      BY <2>0 DEF StoresAreSafe, StreamsFit
    <3>2. ASSUME NEW s \in Streams
          PROVE  /\ total[s] + count[s] \in 0 .. StreamRows
                 /\ done[s] \in 0 .. count[s]
                 /\ targets[s] \subseteq SynTxs
                 /\ Len(recent[s]) <= Recency
                 /\ \A i \in DOMAIN recent[s] : recent[s][i] \in SynTxs \ {TxOf(s)}
      <4>1. total[s] \in Nat /\ count[s] \in Nat /\ done[s] \in Nat /\ StreamFits(s)
        BY <2>0 DEF StreamTypes, StreamsFit
      <4>2. Counted(s) \subseteq SynTxs /\ TxOf(s) \notin Counted(s)
        BY <2>0, CountedIsSynthetic
      <4>3. total[s] + count[s] \in 0 .. StreamRows /\ done[s] \in 0 .. count[s]
        BY <4>1, SyntheticStreamAssumption DEF StreamFits
      <4>4. \A i \in DOMAIN recent[s] : recent[s][i] \in Counted(s)
        BY <4>1 DEF StreamFits
      <4>. QED BY <4>1, <4>2, <4>3, <4>4 DEF StreamFits
    <3>. QED BY <3>1, <3>2 DEF StreamTypeOK, Going
  <2>3. BenchTypeOK
    <3>1. sent \in 0 .. MaxStart
      BY DEF BenchInv, BenchTypes, SentCounts
    <3>. QED BY <3>1 DEF BenchInv, BenchTypes, BenchTypeOK
  <2>. QED BY <2>1, <2>2, <2>3 DEF TypeOK, AllFit
<1>. QED BY <1>1, WritesStayKept, BenchInvHolds, AllStaysFit, PTL
=============================================================================
