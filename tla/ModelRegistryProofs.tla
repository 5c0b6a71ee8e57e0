------------------------ MODULE ModelRegistryProofs ------------------------
(***************************************************************************)
(* LocalRegistry hands on whole versions only, for any number of processes, *)
(* versions and stages.  The argument is about the order of the file        *)
(* operations: metadata.json is written last, so where it is there the     *)
(* weights are, unless a whole version is being registered once more.      *)
(***************************************************************************)
EXTENDS ModelRegistry, TLAPS

\* Somebody is registering v.
Registers(c, v) == pc[c] \in RegisterPcs /\ ver[c] = v

\* A version is registered by one call at a time (make_version).
OneAtATime == \A c, d \in Clients : pc[c] \in RegisterPcs /\ pc[d] \in RegisterPcs /\ c # d => ver[c] # ver[d]

\* metadata.json comes last: where it is, everything is, and nobody is at it.
MetaIsLast ==
  \A v \in Versions \ again :
    meta[v] \in Clients =>
      /\ weights[v] \in Clients
      /\ \A c \in Clients : ~Registers(c, v)

\* By the time register writes it, the weights are there.
WeightsBefore ==
  \A c \in Clients : pc[c] \in {"openMeta", "writeMeta"} => weights[ver[c]] \in Clients

\* promote has looked up what it writes.
PromotesWhatItGot ==
  \A c \in Clients : pc[c] \in {"openStage", "writeStage"} => ver[c] \in got[c]

IInv ==
  /\ TypeOK
  /\ OneAtATime /\ MetaIsLast /\ WeightsBefore /\ PromotesWhatItGot
  /\ ArtifactsAreWhole /\ StagesAreWhole

-----------------------------------------------------------------------------
LEMMA TypeStep == ASSUME TypeOK, [Next]_vars PROVE TypeOK'
<1>. USE DEF TypeOK, RegisterPcs, GetPcs, Over
<1>1. CASE UNCHANGED vars
  BY <1>1 DEF vars, fileVars, callVars
<1>2. ASSUME NEW c \in Clients,
             \/ BeginRegister(c) \/ BeginGet(c) \/ BeginList(c) \/ BeginPromote(c) \/ BeginGetStage(c)
      PROVE  TypeOK'
  BY <1>2 DEF BeginRegister, BeginGet, BeginList, BeginPromote, BeginGetStage, Begin, Goto, fileVars
<1>3. ASSUME NEW c \in Clients,
             MakeVersionDir(c) \/ OpenWeights(c) \/ CopyWeights(c) \/ KeepWeights(c)
      PROVE  TypeOK'
  BY <1>3 DEF MakeVersionDir, OpenWeights, CopyWeights, KeepWeights, RegisterStep, AfterRegister,
              Goto, fileVars, callVars
<1>4. ASSUME NEW c \in Clients, OpenMeta(c) \/ WriteMeta(c) PROVE TypeOK'
  BY <1>4 DEF OpenMeta, WriteMeta, RegisterStep, AfterRegister, Goto, fileVars, callVars
<1>5. ASSUME NEW c \in Clients, MetaExists(c) \/ WeightsExist(c) \/ ReadMeta(c) PROVE TypeOK'
  BY <1>5 DEF MetaExists, WeightsExist, ReadMeta, AfterGet, Goto, fileVars, callVars
<1>6. ASSUME NEW c \in Clients, ListNext(c) \/ ListEnds(c) \/ Stops(c) PROVE TypeOK'
  BY <1>6 DEF ListNext, ListEnds, Stops, Goto, fileVars, callVars
<1>7. ASSUME NEW c \in Clients, OpenStage(c) \/ WriteStage(c) PROVE TypeOK'
  BY <1>7 DEF OpenStage, WriteStage, Goto, callVars
<1>8. ASSUME NEW c \in Clients, StageExists(c) \/ ReadStage(c) PROVE TypeOK'
  BY <1>8 DEF StageExists, ReadStage, Goto, fileVars, callVars
<1>. QED BY <1>1, <1>2, <1>3, <1>4, <1>5, <1>6, <1>7, <1>8 DEF Next

-----------------------------------------------------------------------------
(* One call moves; what is to be shown of it is shown of that call alone.  *)

Moves(c) ==
  /\ \A d \in Clients : d # c => pc'[d] = pc[d] /\ ver'[d] = ver[d] /\ got'[d] = got[d]

\* No file changes, and nobody begins to register.
LEMMA QuietStep ==
  ASSUME IInv, TypeOK', NEW c \in Clients, Moves(c),
         UNCHANGED <<weights, meta, pointer, again>>,
         pc'[c] \in RegisterPcs => pc[c] \in RegisterPcs /\ ver'[c] = ver[c],
         pc'[c] \in {"openMeta", "writeMeta"} => weights[ver'[c]] \in Clients,
         pc'[c] \in {"openStage", "writeStage"} => ver'[c] \in got'[c],
         \A v \in got'[c] \ again : Whole(v)
  PROVE  IInv'
<1>0. \A v \in Versions : Whole(v)' = Whole(v)
  BY DEF Whole
<1>1. OneAtATime'
  BY DEF IInv, OneAtATime, Moves
<1>2. MetaIsLast'
  BY DEF IInv, MetaIsLast, Registers, Moves
<1>3. WeightsBefore' /\ PromotesWhatItGot'
  BY DEF IInv, WeightsBefore, PromotesWhatItGot, Moves
<1>4. ArtifactsAreWhole'
  BY <1>0 DEF IInv, TypeOK, ArtifactsAreWhole, Moves
<1>5. StagesAreWhole'
  BY <1>0 DEF IInv, StagesAreWhole
<1>. QED BY <1>1, <1>2, <1>3, <1>4, <1>5 DEF IInv

\* register moves on and changes the files of its own version, and no other.
LEMMA RegisterMoves ==
  ASSUME IInv, TypeOK', NEW c \in Clients, Moves(c),
         UNCHANGED <<pointer, again, ver, got>>,
         pc[c] \in RegisterPcs,
         pc'[c] \in RegisterPcs => ver[c] \in again \/ meta'[ver[c]] \notin Clients,
         pc'[c] \notin RegisterPcs => weights'[ver[c]] \in Clients,
         pc'[c] \in {"openMeta", "writeMeta"} => weights'[ver[c]] \in Clients,
         pc'[c] \notin {"openStage", "writeStage"},
         \A v \in Versions : v # ver[c] => weights'[v] = weights[v] /\ meta'[v] = meta[v]
  PROVE  IInv'
<1>. DEFINE w == ver[c]
<1>0. w \in Versions
  BY DEF IInv, TypeOK
\* A version that is whole once has nobody registering it.
<1>1. \A v \in Versions \ again : Whole(v) => v # w /\ Whole(v)'
  BY DEF IInv, MetaIsLast, Registers, Whole
<1>2. \A d \in Clients : d # c /\ pc[d] \in RegisterPcs => ver[d] # w
  BY DEF IInv, OneAtATime
<1>3. OneAtATime'
  BY DEF IInv, OneAtATime, Moves
<1>4. MetaIsLast'
  <2>. SUFFICES ASSUME NEW v \in Versions \ again, meta'[v] \in Clients
                PROVE  weights'[v] \in Clients /\ \A d \in Clients : ~Registers(d, v)'
    BY DEF MetaIsLast
  <2>1. CASE v = w
    BY <1>2, <2>1 DEF Registers, Moves
  <2>2. CASE v # w
    BY <2>2 DEF IInv, MetaIsLast, Registers, Moves
  <2>. QED BY <2>1, <2>2
<1>5. WeightsBefore'
  BY <1>2 DEF IInv, TypeOK, WeightsBefore, Moves, RegisterPcs
<1>6. PromotesWhatItGot'
  BY DEF IInv, PromotesWhatItGot, Moves
<1>7. ArtifactsAreWhole' /\ StagesAreWhole'
  BY <1>1 DEF IInv, TypeOK, ArtifactsAreWhole, StagesAreWhole
<1>. QED BY <1>3, <1>4, <1>5, <1>6, <1>7 DEF IInv

-----------------------------------------------------------------------------
LEMMA RegisterStarts ==
  ASSUME IInv, TypeOK', NEW c \in Clients, BeginRegister(c)
  PROVE  IInv'
<1>1. /\ Moves(c) /\ pc'[c] = "mkdir" /\ UNCHANGED <<weights, meta, pointer, ver, got>>
      /\ again \subseteq again' /\ (Whole(ver[c]) => ver[c] \in again')
      /\ \A d \in Clients : pc[d] \in RegisterPcs => ver[d] # ver[c]
  BY DEF BeginRegister, Begin, Goto, Moves, fileVars, IInv, TypeOK
<1>2. \A v \in Versions : Whole(v)' = Whole(v)
  BY <1>1 DEF Whole
<1>3. OneAtATime'
  BY <1>1 DEF IInv, OneAtATime, Moves
<1>4. MetaIsLast'
  <2>. SUFFICES ASSUME NEW v \in Versions \ again', meta[v] \in Clients
                PROVE  weights[v] \in Clients /\ \A d \in Clients : ~Registers(d, v)'
    BY <1>1 DEF MetaIsLast
  <2>1. weights[v] \in Clients /\ \A d \in Clients : ~Registers(d, v)
    BY <1>1 DEF IInv, MetaIsLast
  <2>2. v # ver[c]
    BY <1>1, <2>1 DEF Whole
  <2>. QED BY <1>1, <2>1, <2>2 DEF Registers, Moves
<1>5. WeightsBefore' /\ PromotesWhatItGot'
  BY <1>1 DEF IInv, WeightsBefore, PromotesWhatItGot, Moves
<1>6. ArtifactsAreWhole' /\ StagesAreWhole'
  BY <1>1, <1>2 DEF IInv, TypeOK, ArtifactsAreWhole, StagesAreWhole
<1>. QED BY <1>3, <1>4, <1>5, <1>6 DEF IInv

\* A stage file is emptied, or gets the version that was looked up, or a mixture.
LEMMA StageMoves ==
  ASSUME IInv, TypeOK', NEW c \in Clients, OpenStage(c) \/ WriteStage(c)
  PROVE  IInv'
<1>1. /\ Moves(c) /\ UNCHANGED <<weights, meta, again, ver, got>>
      /\ pc'[c] \in {"writeStage", "returned"}
      /\ pc[c] \in {"openStage", "writeStage"}
  BY DEF OpenStage, WriteStage, Goto, Moves, callVars, IInv, TypeOK
<1>2. ver[c] \in got[c]
  BY <1>1 DEF IInv, PromotesWhatItGot
<1>3. \A s \in Stages : pointer'[s] \in {pointer[s], Torn, Mixed, ver[c]}
  BY DEF OpenStage, WriteStage, IInv, TypeOK
<1>4. \A v \in Versions : Whole(v)' = Whole(v)
  BY <1>1 DEF Whole
<1>5. OneAtATime' /\ MetaIsLast' /\ WeightsBefore' /\ PromotesWhatItGot'
  BY <1>1, <1>2 DEF IInv, OneAtATime, MetaIsLast, WeightsBefore, PromotesWhatItGot, Registers, Moves,
                    RegisterPcs
<1>6. ArtifactsAreWhole'
  BY <1>1, <1>4 DEF IInv, TypeOK, ArtifactsAreWhole
<1>7. StagesAreWhole'
  BY <1>1, <1>2, <1>3, <1>4, ModelRegistryAssumption DEF IInv, ArtifactsAreWhole, StagesAreWhole
<1>. QED BY <1>5, <1>6, <1>7 DEF IInv

LEMMA IInvStep == ASSUME IInv, [Next]_vars PROVE IInv'
<1>0. TypeOK /\ TypeOK'
  BY TypeStep DEF IInv
<1>1. CASE UNCHANGED vars
  BY <1>0, <1>1
  DEF vars, fileVars, callVars, IInv, OneAtATime, MetaIsLast, WeightsBefore, PromotesWhatItGot,
      ArtifactsAreWhole, StagesAreWhole, Registers, Whole
<1>2. ASSUME NEW c \in Clients,
             \/ BeginGet(c) \/ BeginList(c) \/ BeginPromote(c) \/ BeginGetStage(c)
             \/ MetaExists(c) \/ WeightsExist(c) \/ ListNext(c) \/ ListEnds(c)
             \/ StageExists(c) \/ ReadStage(c) \/ Stops(c)
      PROVE  IInv'
  <2>1. /\ Moves(c) /\ UNCHANGED <<weights, meta, pointer, again, got>>
        /\ pc'[c] \notin RegisterPcs \cup {"openStage", "writeStage"}
    BY <1>0, <1>2
    DEF BeginGet, BeginList, BeginPromote, BeginGetStage, MetaExists, WeightsExist, ListNext, ListEnds,
        StageExists, ReadStage, Stops, Begin, Goto, Moves, fileVars, callVars, TypeOK, RegisterPcs
  <2>2. \A v \in got'[c] \ again : Whole(v)
    BY <2>1 DEF IInv, ArtifactsAreWhole
  <2>. QED BY <1>0, <2>1, <2>2, QuietStep DEF RegisterPcs
<1>3. ASSUME NEW c \in Clients, ReadMeta(c) PROVE IInv'
  <2>1. /\ Moves(c) /\ UNCHANGED <<weights, meta, pointer, again, ver>>
        /\ pc[c] = "readMeta" /\ pc'[c] \notin RegisterPcs \cup {"writeStage"}
        /\ got'[c] = got[c] \/ (got'[c] = got[c] \cup {ver[c]} /\ meta[ver[c]] \in Clients)
        /\ pc'[c] = "openStage" => ver[c] \in got'[c]
    BY <1>0, <1>3 DEF ReadMeta, AfterGet, Goto, Moves, fileVars, callVars, TypeOK, RegisterPcs
  <2>2. \A v \in got'[c] \ again : Whole(v)
    BY <1>0, <2>1 DEF IInv, ArtifactsAreWhole, MetaIsLast, Whole, TypeOK
  <2>. QED BY <1>0, <2>1, <2>2, QuietStep DEF RegisterPcs
<1>4. ASSUME NEW c \in Clients, MakeVersionDir(c) \/ KeepWeights(c) PROVE IInv'
  <2>1. /\ Moves(c) /\ UNCHANGED <<weights, meta, pointer, again, ver, got>>
        /\ pc[c] \in RegisterPcs /\ pc'[c] \in {"openWeights", "openMeta"}
        /\ pc'[c] = "openMeta" => weights[ver[c]] \in Clients
    BY <1>0, <1>4 DEF MakeVersionDir, KeepWeights, RegisterStep, AfterRegister, Goto, Moves, fileVars,
                      callVars, TypeOK, RegisterPcs
  <2>2. \A v \in got'[c] \ again : Whole(v)
    BY <2>1 DEF IInv, ArtifactsAreWhole
  <2>. QED BY <1>0, <2>1, <2>2, QuietStep
<1>5. ASSUME NEW c \in Clients, OpenWeights(c) \/ CopyWeights(c) \/ OpenMeta(c) \/ WriteMeta(c)
      PROVE  IInv'
  <2>1. /\ Moves(c) /\ UNCHANGED <<pointer, again, ver, got>>
        /\ \A v \in Versions : v # ver[c] => weights'[v] = weights[v] /\ meta'[v] = meta[v]
        /\ pc[c] \in RegisterPcs
    BY <1>0, <1>5 DEF OpenWeights, CopyWeights, OpenMeta, WriteMeta, RegisterStep, Goto, Moves, callVars,
                      TypeOK, RegisterPcs
  <2>2. ver[c] \in Versions /\ (ver[c] \in again \/ meta[ver[c]] \notin Clients)
    BY <1>0, <2>1 DEF IInv, MetaIsLast, Registers, TypeOK
  <2>3. pc[c] \in {"openMeta", "writeMeta"} => weights[ver[c]] \in Clients
    BY DEF IInv, WeightsBefore
  <2>4. CASE OpenWeights(c)
    <3>1. pc'[c] = "copyWeights" /\ UNCHANGED meta
      BY <1>0, <2>4 DEF OpenWeights, RegisterStep, AfterRegister, Goto, TypeOK
    <3>. QED BY <1>0, <2>1, <2>2, <3>1, RegisterMoves DEF RegisterPcs
  <2>5. CASE CopyWeights(c)
    <3>1. pc'[c] = "openMeta" /\ UNCHANGED meta /\ weights'[ver[c]] = c
      BY <1>0, <2>2, <2>5 DEF CopyWeights, RegisterStep, AfterRegister, Goto, TypeOK
    <3>. QED BY <1>0, <2>1, <2>2, <3>1, RegisterMoves DEF RegisterPcs
  <2>6. CASE OpenMeta(c)
    <3>1. /\ pc[c] = "openMeta" /\ pc'[c] = "writeMeta" /\ UNCHANGED weights
          /\ meta'[ver[c]] = Torn
      BY <1>0, <2>2, <2>6 DEF OpenMeta, RegisterStep, AfterRegister, Goto, TypeOK
    <3>. QED BY <1>0, <2>1, <2>3, <3>1, RegisterMoves, ModelRegistryAssumption DEF RegisterPcs
  <2>7. CASE WriteMeta(c)
    <3>1. pc[c] = "writeMeta" /\ pc'[c] = "returned" /\ UNCHANGED weights
      BY <1>0, <2>7 DEF WriteMeta, RegisterStep, AfterRegister, Goto, TypeOK
    <3>. QED BY <1>0, <2>1, <2>3, <3>1, RegisterMoves DEF RegisterPcs
  <2>. QED BY <1>5, <2>4, <2>5, <2>6, <2>7
<1>6. ASSUME NEW c \in Clients, BeginRegister(c) PROVE IInv'
  BY <1>0, <1>6, RegisterStarts
<1>7. ASSUME NEW c \in Clients, OpenStage(c) \/ WriteStage(c) PROVE IInv'
  BY <1>0, <1>7, StageMoves
<1>. QED BY <1>1, <1>2, <1>3, <1>4, <1>5, <1>6, <1>7 DEF Next

(* Every state of every behaviour satisfies IInv.                          *)
LEMMA IInvHolds == Spec => []IInv
<1>1. Init => IInv
  BY ModelRegistryAssumption
  DEF Init, IInv, TypeOK, OneAtATime, MetaIsLast, WeightsBefore, PromotesWhatItGot, ArtifactsAreWhole,
      StagesAreWhole, Registers, RegisterPcs
<1>2. IInv /\ [Next]_vars => IInv'
  BY IInvStep
<1>. QED BY <1>1, <1>2, PTL DEF Spec

(* The files, stages and calls of the registry keep their types            *)
(* (local_registry.py, lines 34-83).                                       *)
THEOREM RegistryTypeCorrect == Spec => []TypeOK
<1>1. IInv => TypeOK
  BY DEF IInv
<1>. QED BY <1>1, IInvHolds, PTL

(* An artifact that get handed out has all its weights, however many       *)
(* processes register, list and promote, and wherever they are killed      *)
(* (local_registry.py, lines 40-44 and 50-55).                             *)
THEOREM ArtifactsStayWhole == Spec => []ArtifactsAreWhole
<1>1. IInv => ArtifactsAreWhole
  BY DEF IInv
<1>. QED BY <1>1, IInvHolds, PTL

(* A stage never points at a version that is not whole, whichever          *)
(* promotions overlap (local_registry.py, lines 65-70).                    *)
THEOREM StagesStayWhole == Spec => []StagesAreWhole
<1>1. IInv => StagesAreWhole
  BY DEF IInv
<1>. QED BY <1>1, IInvHolds, PTL
=============================================================================
