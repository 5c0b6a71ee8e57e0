---------------------------- MODULE ModelRegistry ----------------------------
(***************************************************************************)
(* LocalRegistry (ml/registry/local_registry.py): one model's versions and *)
(* stage pointers, as files that several processes read and write with no  *)
(* lock and no rename.  A step is one file-system call; between any two of *)
(* them another process may run, and any process may be killed or see the  *)
(* call fail, which leaves the files as they are.                          *)
(*                                                                         *)
(* A client is one call of register, get, list_versions, promote or        *)
(* get_stage.  What a file holds is the call that wrote it; what a stage   *)
(* file holds is the version it points at.                                 *)
(***************************************************************************)
EXTENDS Integers, FiniteSets

CONSTANTS
  Clients,   \* calls of the registry
  Versions,  \* version ids
  Stages,    \* "production", "staging"
  Missing,   \* no such file
  Torn,      \* opened for writing, which empties it, and not written yet
  Mixed      \* two writers' bytes, which json.loads refuses

ASSUME ModelRegistryAssumption ==
  /\ Missing \notin Clients \cup Versions
  /\ Torn \notin Clients \cup Versions
  /\ Mixed \notin Clients \cup Versions
  /\ Cardinality({Missing, Torn, Mixed}) = 3

VARIABLES
  dir,      \* the version directories there are
  weights,  \* model.pt of each version
  meta,     \* metadata.json of each version
  pointer,  \* the file of each stage
  again,    \* history: versions registered again after they were whole
  pc,       \* where a call is
  op,       \* which call it is
  ver,      \* the version it is about, or reading
  stg,      \* the stage it is about
  todo,     \* list_versions: directories it listed and has not read
  got       \* versions whose artifact it has

fileVars == <<dir, weights, meta, pointer>>
callVars == <<op, ver, stg>>
vars == <<fileVars, again, pc, callVars, todo, got>>

RegisterPcs == {"mkdir", "openWeights", "copyWeights", "openMeta", "writeMeta"}
GetPcs == {"metaExists", "weightsExist", "readMeta"}
Over == {"returned", "notFound", "stopped"}

Whole(v) == weights[v] \in Clients /\ meta[v] \in Clients

TypeOK ==
  /\ dir \subseteq Versions
  /\ weights \in [Versions -> Clients \cup {Missing, Torn}]
  /\ meta \in [Versions -> Clients \cup {Missing, Torn}]
  /\ pointer \in [Stages -> Versions \cup {Missing, Torn, Mixed}]
  /\ again \subseteq Versions
  /\ pc \in [Clients -> RegisterPcs \cup GetPcs \cup Over \cup
                        {"idle", "list", "openStage", "writeStage", "stageExists", "readStage"}]
  /\ op \in [Clients -> {"register", "get", "list", "promote", "get_stage"}]
  /\ ver \in [Clients -> Versions]
  /\ stg \in [Clients -> Stages]
  /\ todo \in [Clients -> SUBSET Versions]
  /\ got \in [Clients -> SUBSET Versions]

Init ==
  /\ dir = {}
  /\ weights = [v \in Versions |-> Missing]
  /\ meta = [v \in Versions |-> Missing]
  /\ pointer = [s \in Stages |-> Missing]
  /\ again = {}
  /\ pc = [c \in Clients |-> "idle"]
  /\ op = [c \in Clients |-> "get"]
  /\ ver \in [Clients -> Versions]
  /\ stg \in [Clients -> Stages]
  /\ todo = [c \in Clients |-> {}]
  /\ got = [c \in Clients |-> {}]

Goto(c, l) == pc' = [pc EXCEPT ![c] = l]

Begin(c, o, l) ==
  /\ pc[c] = "idle"
  /\ op' = [op EXCEPT ![c] = o]
  /\ Goto(c, l)

-----------------------------------------------------------------------------
(* register.                                                               *)

\* Mutant: metadata.json is written before the weights are copied.
AfterRegister_MetaFirst(l) ==
  CASE l = "mkdir"       -> "openMeta"
    [] l = "openMeta"    -> "writeMeta"
    [] l = "writeMeta"   -> "openWeights"
    [] l = "openWeights" -> "copyWeights"
    [] l = "copyWeights" -> "returned"

\* The order of the statements of register.
AfterRegister(l) ==
  CASE l = "mkdir"       -> "openWeights"
    [] l = "openWeights" -> "copyWeights"
    [] l = "copyWeights" -> "openMeta"
    [] l = "openMeta"    -> "writeMeta"
    [] l = "writeMeta"   -> "returned"

RegisterStep(c, l) == pc[c] = l /\ Goto(c, AfterRegister(l))

(* A version is one training run's (make_version), so one call at a time   *)
(* registers it; a run may do so again, after a failure or to replace it.  *)
BeginRegister(c) ==
  /\ Begin(c, "register", "mkdir")
  /\ \A d \in Clients : pc[d] \in RegisterPcs => ver[d] # ver[c]
  /\ again' = IF Whole(ver[c]) THEN again \cup {ver[c]} ELSE again
  /\ UNCHANGED <<fileVars, ver, stg, todo, got>>

\* mkdir(parents=True, exist_ok=True).
MakeVersionDir(c) ==
  /\ RegisterStep(c, "mkdir")
  /\ dir' = dir \cup {ver[c]}
  /\ UNCHANGED <<weights, meta, pointer, again, callVars, todo, got>>

(* shutil.copy2 opens the destination, emptying it, then copies.           *)
OpenWeights(c) ==
  /\ RegisterStep(c, "openWeights")
  /\ weights' = [weights EXCEPT ![ver[c]] = Torn]
  /\ UNCHANGED <<dir, meta, pointer, again, callVars, todo, got>>

CopyWeights(c) ==
  /\ RegisterStep(c, "copyWeights")
  /\ weights' = [weights EXCEPT ![ver[c]] = c]
  /\ UNCHANGED <<dir, meta, pointer, again, callVars, todo, got>>

\* weights_path is the destination itself: nothing is copied.
KeepWeights(c) ==
  /\ pc[c] = "openWeights"
  /\ weights[ver[c]] \in Clients
  /\ Goto(c, AfterRegister("copyWeights"))
  /\ UNCHANGED <<fileVars, again, callVars, todo, got>>

\* write_text opens the file, emptying it, then writes.
OpenMeta(c) ==
  /\ RegisterStep(c, "openMeta")
  /\ meta' = [meta EXCEPT ![ver[c]] = Torn]
  /\ UNCHANGED <<dir, weights, pointer, again, callVars, todo, got>>

WriteMeta(c) ==
  /\ RegisterStep(c, "writeMeta")
  /\ meta' = [meta EXCEPT ![ver[c]] = c]
  /\ UNCHANGED <<dir, weights, pointer, again, callVars, todo, got>>

-----------------------------------------------------------------------------
(* get, on its own and as the other calls make it.                         *)

BeginGet(c) ==
  /\ Begin(c, "get", "metaExists")
  /\ UNCHANGED <<fileVars, again, ver, stg, todo, got>>

MetaExists(c) ==
  /\ pc[c] = "metaExists"
  /\ Goto(c, IF meta[ver[c]] = Missing THEN "notFound" ELSE "weightsExist")
  /\ UNCHANGED <<fileVars, again, callVars, todo, got>>

WeightsExist(c) ==
  /\ pc[c] = "weightsExist"
  /\ Goto(c, IF weights[ver[c]] = Missing THEN "notFound" ELSE "readMeta")
  /\ UNCHANGED <<fileVars, again, callVars, todo, got>>

\* What the caller of get goes on with.
AfterGet(c) ==
  CASE op[c] = "list"    -> "list"
    [] op[c] = "promote" -> "openStage"
    [] OTHER             -> "returned"

\* json.loads raises on a file that is not all there.
ReadMeta(c) ==
  /\ pc[c] = "readMeta"
  /\ IF meta[ver[c]] \in Clients
     THEN Goto(c, AfterGet(c)) /\ got' = [got EXCEPT ![c] = @ \cup {ver[c]}]
     ELSE Goto(c, "stopped") /\ UNCHANGED got
  /\ UNCHANGED <<fileVars, again, callVars, todo>>

-----------------------------------------------------------------------------
(* list_versions.                                                          *)

\* iterdir(), in whatever order; an exception of get is the call's.
BeginList(c) ==
  /\ Begin(c, "list", "list")
  /\ todo' = [todo EXCEPT ![c] = dir]
  /\ UNCHANGED <<fileVars, again, ver, stg, got>>

ListNext(c) ==
  /\ pc[c] = "list"
  /\ \E v \in todo[c] :
       /\ ver' = [ver EXCEPT ![c] = v]
       /\ todo' = [todo EXCEPT ![c] = @ \ {v}]
  /\ Goto(c, "metaExists")
  /\ UNCHANGED <<fileVars, again, op, stg, got>>

ListEnds(c) ==
  /\ pc[c] = "list"
  /\ todo[c] = {}
  /\ Goto(c, "returned")
  /\ UNCHANGED <<fileVars, again, callVars, todo, got>>

-----------------------------------------------------------------------------
(* promote and get_stage.                                                  *)

\* Mutant: the version is not looked up first.
BeginPromote_NoGet(c) ==
  /\ Begin(c, "promote", "openStage")
  /\ UNCHANGED <<fileVars, again, ver, stg, todo, got>>

BeginPromote(c) ==
  /\ Begin(c, "promote", "metaExists")
  /\ UNCHANGED <<fileVars, again, ver, stg, todo, got>>

OpenStage(c) ==
  /\ pc[c] = "openStage"
  /\ Goto(c, "writeStage")
  /\ pointer' = [pointer EXCEPT ![stg[c]] = Torn]
  /\ UNCHANGED <<dir, weights, meta, again, callVars, todo, got>>

(* Two promotes may have the file open at once: the second to write may    *)
(* leave the tail of what the first wrote behind its own, shorter, text.   *)
WriteStage(c) ==
  /\ pc[c] = "writeStage"
  /\ Goto(c, "returned")
  /\ \E p \in {ver[c]} \cup (IF pointer[stg[c]] \in {Torn, ver[c]} THEN {} ELSE {Mixed}) :
       pointer' = [pointer EXCEPT ![stg[c]] = p]
  /\ UNCHANGED <<dir, weights, meta, again, callVars, todo, got>>

BeginGetStage(c) ==
  /\ Begin(c, "get_stage", "stageExists")
  /\ UNCHANGED <<fileVars, again, ver, stg, todo, got>>

StageExists(c) ==
  /\ pc[c] = "stageExists"
  /\ Goto(c, IF pointer[stg[c]] = Missing THEN "notFound" ELSE "readStage")
  /\ UNCHANGED <<fileVars, again, callVars, todo, got>>

\* Mutant: an empty stage file is not refused.
ReadStage_Lenient(c) ==
  /\ pc[c] = "readStage"
  /\ Goto(c, "metaExists")
  /\ ver' = [ver EXCEPT ![c] = pointer[stg[c]]]
  /\ UNCHANGED <<fileVars, again, op, stg, todo, got>>

ReadStage(c) ==
  /\ pc[c] = "readStage"
  /\ IF pointer[stg[c]] \in Versions
     THEN Goto(c, "metaExists") /\ ver' = [ver EXCEPT ![c] = pointer[stg[c]]]
     ELSE Goto(c, "stopped") /\ UNCHANGED ver
  /\ UNCHANGED <<fileVars, again, op, stg, todo, got>>

-----------------------------------------------------------------------------
\* Killed, or out of disk, between any two steps.
Stops(c) ==
  /\ pc[c] \notin Over \cup {"idle"}
  /\ Goto(c, "stopped")
  /\ UNCHANGED <<fileVars, again, callVars, todo, got>>

Next ==
  \E c \in Clients :
    \/ BeginRegister(c) \/ MakeVersionDir(c) \/ OpenWeights(c) \/ CopyWeights(c)
    \/ KeepWeights(c) \/ OpenMeta(c) \/ WriteMeta(c)
    \/ BeginGet(c) \/ MetaExists(c) \/ WeightsExist(c) \/ ReadMeta(c)
    \/ BeginList(c) \/ ListNext(c) \/ ListEnds(c)
    \/ BeginPromote(c) \/ OpenStage(c) \/ WriteStage(c)
    \/ BeginGetStage(c) \/ StageExists(c) \/ ReadStage(c)
    \/ Stops(c)

Spec == Init /\ [][Next]_vars

-----------------------------------------------------------------------------
(* Why register writes metadata.json last (lines 40-44) and get asks for   *)
(* it (line 52): an artifact in a caller's hands has all its weights,      *)
(* however many registrations of that version were cut short, and stays    *)
(* so unless a whole version is registered once more.                      *)
ArtifactsAreWhole ==
  \A c \in Clients : \A v \in got[c] \ again : Whole(v)

(* Why promote looks the version up first (lines 66-67): a stage never     *)
(* points at a version that is not whole, which get_stage would refuse or  *)
(* a server would fail to load.                                            *)
StagesAreWhole ==
  \A s \in Stages : pointer[s] \in Versions \ again => Whole(pointer[s])

-----------------------------------------------------------------------------
(* "All registered versions for `name`, newest first" (base.py, line 79;   *)
(* local_registry.py, lines 57-63): a call that lists the versions has an  *)
(* answer, and does not fail for want of a version that was cut short.     *)
ListAnswers ==
  \A c \in Clients : op[c] = "list" => pc[c] # "notFound"
=============================================================================
