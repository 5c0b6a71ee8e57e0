------------------------------ MODULE HotGraph ------------------------------
(***************************************************************************)
(* The hot store: the Transaction nodes Memgraph keeps, as MemgraphStore   *)
(* (infra/graph/memgraph_client.py) writes them.  A graph is a function    *)
(* from txId to the node's class property: Absent where there is no node,  *)
(* Null where a node exists and no write has given it a class yet.         *)
(*                                                                         *)
(* A txId is a string in the code; all that is ever done with it is        *)
(* equality and "<", so it is a number here, and 0 stands for Python's     *)
(* None in a cursor or a checkpoint.  Feature properties are left out:     *)
(* nothing outside Memgraph reads them.                                    *)
(***************************************************************************)
EXTENDS Integers

CONSTANTS
  MaxTx,     \* the txIds are 1 .. MaxTx, in the order ORDER BY gives them
  TxClass,   \* the classes a transaction can have
  Null,      \* the class of a node that only an edge has mentioned
  Absent     \* no node

ASSUME HotGraphAssumption ==
  /\ MaxTx \in Nat \ {0}
  /\ Null \notin TxClass
  /\ Absent \notin TxClass
  /\ Null # Absent

TxIds == 1 .. MaxTx

Graph == [TxIds -> TxClass \cup {Null, Absent}]

\* MATCH (t:Transaction): every node, classed or not.
Nodes(g) == {t \in TxIds : g[t] # Absent}

\* The nodes whose record _validate_row keeps.
Classed(g) == {t \in TxIds : g[t] \in TxClass}

-----------------------------------------------------------------------------
(* MERGE (t {txId}) SET t.class: the node is created, or its class is      *)
(* overwritten.                                                            *)
UpsertTransaction(g, t, c) == [g EXCEPT ![t] = c]

(* Two MERGEs, no SET: endpoints that do not exist yet are created with    *)
(* their txId and nothing else.  The relationship is not modelled.         *)
UpsertEdge(g, from, to) ==
  [t \in TxIds |-> IF t \in {from, to} /\ g[t] = Absent THEN Null ELSE g[t]]
=============================================================================
