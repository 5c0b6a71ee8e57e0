--------------------------- MODULE IngestService ----------------------------
(***************************************************************************)
(* The ingestion service: the handlers of api/v1/routers/ingest.py, the    *)
(* cached get_graph_store they depend on, and the upserts of               *)
(* MemgraphStore as the transactions they are.  A handler runs in a thread *)
(* of its own.  A MERGE looks for a node in the snapshot its transaction   *)
(* started from, so two of them may both decide to make it, and only the   *)
(* unique constraint, which get_graph_store creates before it hands out a  *)
(* store, stands in the way.                                               *)
(*                                                                         *)
(* Whoever calls the service stops listening at a timeout, and the handler *)
(* goes on.  What the driver and Memgraph do of their own accord is taken  *)
(* as nondeterminism: a transaction may be refused, or committed and then  *)
(* reported as an error, and, because session.run is not consumed, refused *)
(* without an error.  There are at most MaxFaults of these.                *)
(* Relationships and features are left out: MERGE (a)-[:SENT_TO]->(b)      *)
(* comes down to the nodes it makes.                                       *)
(***************************************************************************)
EXTENDS Naturals, FiniteSets

CONSTANTS
  Txs,        \* the txIds anybody may mention
  MaxFaults   \* a bound on faults

ASSUME IngestServiceAssumption == MaxFaults \in Nat

VARIABLES
  constraint,  \* txId is UNIQUE
  cached,      \* the process has a store in the lru_cache of get_graph_store
  copies,      \* how many nodes have a txId
  classed,     \* the txIds whose node has a class
  lost,        \* the transactions that were refused without an error
  calls,       \* upserts under way, or answered and not yet heard
  faults       \* faults so far

serviceVars == <<constraint, cached, copies, classed, lost, calls, faults>>

Answers == {"ok", "error"}

ServiceTypeOK ==
  /\ constraint \in BOOLEAN
  /\ cached \in BOOLEAN
  /\ DOMAIN copies = Txs /\ \A t \in Txs : copies[t] \in 0 .. 2
  /\ classed \subseteq {t \in Txs : copies[t] > 0}
  /\ lost \subseteq Txs
  /\ faults \in 0 .. MaxFaults
  /\ \A k \in calls :
       /\ k.via \in {"api", "driver"}
       /\ k.what \in {"transaction", "edge"}
       /\ k.saw \subseteq k.rows /\ k.rows \subseteq Txs
       /\ k.pc \in {"asked", "building", "ready", "open"} \cup Answers
       /\ k.heard \in BOOLEAN

ServiceInit ==
  /\ constraint = FALSE
  /\ cached = FALSE
  /\ copies = [t \in Txs |-> 0]
  /\ classed = {}
  /\ lost = {}
  /\ calls = {}
  /\ faults = 0

Fault == faults < MaxFaults /\ faults' = faults + 1

-----------------------------------------------------------------------------
(* The caller's end.                                                       *)

\* A POST to the API, or an upsert of a store of one's own.
Call(id, via, what, rows) ==
  [id |-> id, via |-> via, what |-> what, rows |-> rows, saw |-> {}, heard |-> TRUE,
   pc |-> IF via = "api" THEN "asked" ELSE "ready"]

Heard(id) == {k \in calls : k.id = id /\ k.heard}

\* The client's 10, 30 or 60 seconds are over; the handler goes on.
TimesOut(id) ==
  /\ Fault
  /\ \E k \in Heard(id) :
       /\ k.via = "api"
       /\ k.pc \notin Answers
       /\ calls' = (calls \ {k}) \cup {[k EXCEPT !.heard = FALSE]}

\* raise_for_status, a connection that went with the server, a timeout.
Raises(id) ==
  \/ (Heard(id) = {} /\ UNCHANGED <<calls, faults>>)
  \/ \E k \in Heard(id) : k.pc = "error" /\ calls' = calls \ {k} /\ UNCHANGED faults
  \/ TimesOut(id)

Returns(id) == \E k \in Heard(id) : k.pc = "ok" /\ calls' = calls \ {k} /\ UNCHANGED faults

-----------------------------------------------------------------------------
(* The handler's end.                                                      *)

\* A call goes on; nobody waits for the answer of one that is not heard.
Step(k, new) ==
  calls' = (calls \ {k}) \cup (IF new.pc \in Answers /\ ~k.heard THEN {} ELSE {new})

Goto(k, l) == Step(k, [k EXCEPT !.pc = l])

GetCached(k) ==
  /\ k.pc = "asked"
  /\ cached
  /\ Goto(k, "ready")
  /\ UNCHANGED <<constraint, cached, copies, classed, lost, faults>>

(* lru_cache has nothing yet: this thread builds a store, and so may any   *)
(* other that comes before the first of them is done.                      *)
BuildStore(k) ==
  /\ k.pc = "asked"
  /\ ~cached
  /\ Goto(k, "building")
  /\ UNCHANGED <<constraint, cached, copies, classed, lost, faults>>

\* CREATE CONSTRAINT needs the storage for itself, and no txId twice.
MayConstrain == \A t \in Txs : copies[t] <= 1 /\ \A k \in calls : k.pc # "open"

\* Mutant: the store is handed out without ensure_constraints.
EnsureConstraints_Never(k) ==
  /\ k.pc = "building"
  /\ Goto(k, "ready")
  /\ cached' = TRUE
  /\ UNCHANGED <<constraint, copies, classed, lost, faults>>

EnsureConstraints(k) ==
  /\ k.pc = "building"
  /\ MayConstrain
  /\ constraint' = TRUE
  /\ cached' = TRUE
  /\ Goto(k, "ready")
  /\ UNCHANGED <<copies, classed, lost, faults>>

(* No server, no Memgraph, or no store: the exception is the answer, and   *)
(* lru_cache keeps nothing.                                                *)
NoStore(k) ==
  /\ k.pc \in {"asked", "building"}
  /\ IF k.pc = "building" /\ ~MayConstrain THEN UNCHANGED faults ELSE Fault
  /\ Goto(k, "error")
  /\ UNCHANGED <<constraint, cached, copies, classed, lost>>

\* session.run: the transaction starts, and with it its snapshot.
Begin(k) ==
  /\ k.pc = "ready"
  /\ Step(k, [k EXCEPT !.pc = "open", !.saw = {t \in k.rows : copies[t] > 0}])
  /\ UNCHANGED <<constraint, cached, copies, classed, lost, faults>>

\* Somebody has since made a node that MERGE is about to make.
Conflict(k) == constraint /\ \E t \in k.rows \ k.saw : copies[t] > 0

Merge(k) ==
  /\ ~Conflict(k)
  /\ copies' = [t \in Txs |-> IF t \in k.rows \ k.saw THEN copies[t] + 1 ELSE copies[t]]
  /\ classed' = IF k.what = "transaction" THEN classed \cup k.rows ELSE classed

Commit(k) ==
  /\ k.pc = "open"
  /\ Merge(k)
  /\ Goto(k, "ok")
  /\ UNCHANGED <<constraint, cached, lost, faults>>

\* It is committed, and the connection goes before the driver hears of it.
CommitUnheard(k) ==
  /\ k.pc = "open"
  /\ Fault
  /\ Merge(k)
  /\ Goto(k, "error")
  /\ UNCHANGED <<constraint, cached, lost>>

(* It is refused: at once, and session.run raises; or late, and it is left *)
(* to the closing of the session, which may say nothing.                   *)
Refused(k) ==
  /\ k.pc = "open"
  /\ IF Conflict(k) THEN UNCHANGED faults ELSE Fault
  /\ \/ Goto(k, "error") /\ UNCHANGED lost
     \/ /\ Goto(k, "ok")
        /\ lost' = IF k.what = "transaction" THEN lost \cup k.rows ELSE lost
  /\ UNCHANGED <<constraint, cached, copies, classed>>

(* The API process is restarted: the cache is empty and nobody is answered, *)
(* but a transaction that Memgraph has is still committed or not.          *)
Restart ==
  /\ Fault
  /\ cached \/ \E k \in calls : k.via = "api"
  /\ cached' = FALSE
  /\ calls' = {k \in calls : k.via = "driver"} \cup
              {[k EXCEPT !.heard = FALSE] : k \in {j \in calls : j.via = "api" /\ j.pc = "open"}}
  /\ UNCHANGED <<constraint, copies, classed, lost>>

ServiceNext ==
  \/ Restart
  \/ \E k \in calls :
       \/ GetCached(k) \/ BuildStore(k) \/ EnsureConstraints(k) \/ NoStore(k)
       \/ Begin(k) \/ Commit(k) \/ CommitUnheard(k) \/ Refused(k)

-----------------------------------------------------------------------------
(* MERGE is an upsert (memgraph_client.py, lines 31-52): however many       *)
(* requests name a txId at once, on a service that has just started and    *)
(* several threads of which are building their store, it has one node.     *)
OneNodePerTx == \A t \in Txs : copies[t] <= 1
=============================================================================
