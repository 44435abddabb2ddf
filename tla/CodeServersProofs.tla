-------------------------- MODULE CodeServersProofs --------------------------
(***************************************************************************)
(* Proofs about the code-server manager, for any number of goroutines,     *)
(* ids, folders, failing commands and crashes.                             *)
(***************************************************************************)
EXTENDS CodeServers, FiniteSetTheorems, TLAPS

(* The three parts of TypeOK: the maps, the goroutines, and everything else. *)
MapsType ==
    /\ instances \in [Ids -> Gens \cup {0}]
    /\ rec \in [Ids -> [Gens -> Record]]
    /\ proxies \subseteq Ids

LocalsType ==
    /\ pc \in [Workers -> Positions]
    /\ folder \in [Workers -> Folders \cup {Nobody}]
    /\ target \in [Workers -> Ids \cup {Nobody}]
    /\ held \in [Workers -> Gens \cup {0}]
    /\ channel \in [Workers -> Nat]
    /\ seen \in [Workers -> SUBSET Ids]
    /\ ownErr \in [Workers -> BOOLEAN]

WorldType ==
    /\ commandMu \in Workers \cup {Nobody}
    /\ shutdownRequested \in BOOLEAN
    /\ shutdown \in {"no", "running", "complete"}
    /\ attempt \in Nat
    /\ live \subseteq Ids
    /\ tagged \subseteq Ids
    /\ folderOf \in [Ids -> Folders \cup {Nobody}]
    /\ dirs \subseteq Ids
    /\ acked \subseteq Ids
    /\ faults \in Nat
    /\ crashes \in Nat
    /\ up \in BOOLEAN

(* Where a goroutine's locals hold a folder, an id, a record object. *)
HoldsFolder == {"reserve", "reconcile", "decide", "insert", "getChan", "cWait", "cRead"}

HoldsRecord ==
    LaunchPositions \cup StopPositions \cup
    {"getChan", "cWait", "cRead", "dPhase", "dWait", "dRead"}

HoldsId ==
    HoldsRecord \cup
    {"delete", "dReconcile", "dRemove", "dStopUnknown", "pKnown", "pDiscover", "pReconcile",
     "pSocket", "pEvict", "pCheck", "pVerify", "pRemove", "pFinal"}

LocalsMatchPc ==
    \A w \in Workers :
        /\ pc[w] \in HoldsFolder => folder[w] \in Folders
        /\ pc[w] \in HoldsId => target[w] \in Ids
        /\ pc[w] \in HoldsRecord => held[w] \in Gens

TypeInv == MapsType /\ LocalsType /\ WorldType /\ LocalsMatchPc

LEMMA TypeParts == TypeOK <=> MapsType /\ LocalsType /\ WorldType
BY DEF TypeOK, MapsType, LocalsType, WorldType

-----------------------------------------------------------------------------
(* Records and the operators that change them.                             *)

LEMMA FreshGenIsFree ==
    ASSUME NEW i \in Ids, HasFree(i)
    PROVE  FreshGen(i) \in Gens /\ rec[i][FreshGen(i)].phase = "free"
BY DEF HasFree, FreshGen

LEMMA RecordTypes ==
    /\ Free \in Record /\ Launching \in Record /\ Found \in Record
    /\ \A r \in Record : Verified(r) \in Record /\ BeingStopped(r) \in Record
    /\ \A r \in Record, phase \in Phases, err, fresh \in BOOLEAN :
          AfterTransition(r, phase, err, fresh) \in Record
BY DEF Free, Launching, Found, Verified, BeingStopped, AfterTransition, NewRecord, Record, Phases

LEMMA RecordFields ==
    ASSUME NEW r \in Record
    PROVE  /\ r.phase \in Phases
           /\ r.err \in BOOLEAN
           /\ r.open \in BOOLEAN
           /\ r.epoch \in Nat
           /\ r.fresh \in BOOLEAN
BY DEF Record

LEMMA ReconciledType ==
    ASSUME MapsType, NEW list \in SUBSET Ids, Reconciled(list)
    PROVE  MapsType'
<1> DEFINE A == Adopted(list)  E == Evicted(list)
<1>1. \A i \in A : i \in Ids /\ i \notin Recorded /\ FreshGen(i) \in Gens
  BY FreshGenIsFree DEF Reconciled, Adopted
<1>2. A \cap E = {}
  BY DEF Adopted, Evicted
<1>3. instances' = [i \in Ids |-> CASE i \in A -> FreshGen(i)
                                    [] i \in E -> 0
                                    [] OTHER -> instances[i]]
  BY DEF Reconciled
<1>4. instances' \in [Ids -> Gens \cup {0}]
  <2> SUFFICES ASSUME NEW i \in Ids
               PROVE  (CASE i \in A -> FreshGen(i)
                         [] i \in E -> 0
                         [] OTHER -> instances[i]) \in Gens \cup {0}
    BY <1>3, Zenon
  <2> HIDE DEF A, E
  <2>1. CASE i \in A /\ i \notin E
    BY <1>1, <2>1
  <2>2. CASE i \notin A
    BY <2>2 DEF MapsType
  <2> QED BY <2>1, <2>2, <1>2
<1>5. rec' \in [Ids -> [Gens -> Record]]
  <2> DEFINE R(i, g) == CASE i \in A /\ g = FreshGen(i) -> Found
                          [] i \in list /\ g = instances[i] /\ rec[i][g].phase = "active"
                               -> Verified(rec[i][g])
                          [] OTHER -> rec[i][g]
  <2>1. rec' = [i \in Ids |-> [g \in Gens |-> R(i, g)]]
    BY DEF Reconciled
  <2>2. ASSUME NEW i \in Ids, NEW g \in Gens
        PROVE  R(i, g) \in Record
    <3> rec[i][g] \in Record /\ Found \in Record /\ Verified(rec[i][g]) \in Record
      BY RecordTypes DEF MapsType
    <3> HIDE DEF A
    <3>1. CASE i \in A /\ g = FreshGen(i)
      BY <3>1, <1>1, GensAssumption DEF Recorded
    <3>2. CASE ~(i \in A /\ g = FreshGen(i))
      BY <3>2
    <3> QED BY <3>1, <3>2
  <2> HIDE DEF R
  <2> QED BY <2>1, <2>2
<1>6. proxies' \subseteq Ids
  BY DEF Reconciled, MapsType
<1> QED BY <1>4, <1>5, <1>6 DEF MapsType

LEMMA ClosedType ==
    ASSUME rec \in [Ids -> [Gens -> Record]], NEW i \in Ids, NEW g \in Gens,
           NEW phase \in Phases, NEW err \in BOOLEAN, NEW fresh \in BOOLEAN,
           Closed(i, g, phase, err, fresh)
    PROVE  rec' \in [Ids -> [Gens -> Record]]
<1> AfterTransition(rec[i][g], phase, err, fresh) \in Record
  BY RecordTypes
<1> QED BY DEF Closed

-----------------------------------------------------------------------------
(* Every variable keeps its type. Four lemmas, one for each part of the    *)
(* invariant, cover the steps that one goroutine takes.                    *)

LEMMA InitType == Init => TypeInv
<1> SUFFICES ASSUME Init PROVE TypeInv
  OBVIOUS
<1>1. MapsType
  BY RecordTypes DEF Init, MapsType
<1>2. LocalsType /\ LocalsMatchPc
  BY DEF Init, LocalsType, LocalsMatchPc, Nowhere, Zeros, Positions, HoldsFolder, HoldsId, HoldsRecord,
     LaunchPositions, StopPositions
<1>3. WorldType
  BY DEF Init, WorldType
<1> QED BY <1>1, <1>2, <1>3 DEF TypeInv

LEMMA ReturnKeepsLocals ==
    ASSUME LocalsType, LocalsMatchPc, NEW w \in Workers, Return(w)
    PROVE  LocalsType' /\ LocalsMatchPc'
<1>1. LocalsType'
  BY DEF LocalsType, Return, Goto, Positions
<1>2. LocalsMatchPc'
  BY DEF LocalsType, LocalsMatchPc, Return, Goto, HoldsFolder, HoldsId, HoldsRecord, LaunchPositions, StopPositions
<1> QED BY <1>1, <1>2

LEMMA CreateLocals ==
    ASSUME TypeInv, NEW w \in Workers, CreateStep(w)
    PROVE  LocalsType' /\ LocalsMatchPc'
<1> USE DEF TypeInv
<1>0. Return(w) => LocalsType' /\ LocalsMatchPc'
  BY ReturnKeepsLocals
<1>1. CASE Reserve(w)
  <2>1. LocalsType'
    BY <1>1, <1>0 DEF Reserve, Discover, Visible, locals, LocalsType, Goto, Positions, HoldsCommandMu, WorldType
  <2>2. LocalsMatchPc'
    BY <1>1, <1>0 DEF Reserve, Discover, Visible, locals, LocalsType, LocalsMatchPc, Goto, HoldsFolder, HoldsId, HoldsRecord, LaunchPositions, StopPositions
  <2> QED BY <2>1, <2>2
<1>2. CASE ReserveReconcile(w)
  <2>1. LocalsType'
    BY <1>2, <1>0 DEF ReserveReconcile, LocalsType, Goto, Positions, HoldsCommandMu
  <2>2. LocalsMatchPc'
    BY <1>2, <1>0 DEF ReserveReconcile, LocalsType, LocalsMatchPc, Goto, HoldsFolder, HoldsId, HoldsRecord, LaunchPositions, StopPositions
  <2> QED BY <2>1, <2>2
<1>3. CASE Decide(w)
  <2>0. \A i \in Recorded : instances[i] \in Gens
    BY DEF Recorded, MapsType
  <2>1. LocalsType'
    BY <1>3, <1>0, <2>0 DEF Decide, SameFolder, Recorded, locals, LocalsType, Goto, Positions, HoldsCommandMu
  <2>2. LocalsMatchPc'
    BY <1>3, <1>0, <2>0 DEF Decide, SameFolder, Recorded, locals, LocalsType, LocalsMatchPc, Goto, HoldsFolder, HoldsId, HoldsRecord, LaunchPositions, StopPositions
  <2> QED BY <2>1, <2>2
<1>4. CASE GetChannel(w)
  <2>0. Mine(w).epoch \in Nat
    BY <1>4, RecordFields DEF GetChannel, Mine, MapsType, LocalsMatchPc, HoldsId, HoldsRecord
  <2>1. LocalsType'
    BY <1>4, <1>0, <2>0 DEF GetChannel, locals, LocalsType, Goto, Positions, HoldsCommandMu
  <2>2. LocalsMatchPc'
    BY <1>4, <1>0, <2>0 DEF GetChannel, locals, LocalsType, LocalsMatchPc, Goto, HoldsFolder, HoldsId, HoldsRecord, LaunchPositions, StopPositions
  <2> QED BY <2>1, <2>2
<1>5. CASE CreateWoken(w)
  <2>1. LocalsType'
    BY <1>5, <1>0 DEF CreateWoken, locals, LocalsType, Goto, Positions, HoldsCommandMu
  <2>2. LocalsMatchPc'
    BY <1>5, <1>0 DEF CreateWoken, locals, LocalsType, LocalsMatchPc, Goto, HoldsFolder, HoldsId, HoldsRecord, LaunchPositions, StopPositions
  <2> QED BY <2>1, <2>2
<1>6. CASE CreateReadsOutcome(w)
  <2>1. LocalsType'
    BY <1>6, <1>0 DEF CreateReadsOutcome, LocalsType, Goto, Positions, HoldsCommandMu
  <2>2. LocalsMatchPc'
    BY <1>6, <1>0 DEF CreateReadsOutcome, LocalsType, LocalsMatchPc, Goto, HoldsFolder, HoldsId, HoldsRecord, LaunchPositions, StopPositions
  <2> QED BY <2>1, <2>2
<1>7. CASE Insert(w)
  <2>1. LocalsType'
    BY <1>7, <1>0, FreshGenIsFree DEF Insert, locals, LocalsType, Goto, Positions, HoldsCommandMu
  <2>2. LocalsMatchPc'
    BY <1>7, <1>0, FreshGenIsFree DEF Insert, locals, LocalsType, LocalsMatchPc, Goto, HoldsFolder, HoldsId, HoldsRecord, LaunchPositions, StopPositions
  <2> QED BY <2>1, <2>2
<1>8. CASE Launch(w)
  <2>1. LocalsType'
    BY <1>8, <1>0 DEF Launch, locals, LocalsType, Goto, Positions, HoldsCommandMu
  <2>2. LocalsMatchPc'
    BY <1>8, <1>0 DEF Launch, locals, LocalsType, LocalsMatchPc, Goto, HoldsFolder, HoldsId, HoldsRecord, LaunchPositions, StopPositions
  <2> QED BY <2>1, <2>2
<1>9. CASE Tag(w)
  <2>1. LocalsType'
    BY <1>9, <1>0 DEF Tag, locals, LocalsType, Goto, Positions, HoldsCommandMu
  <2>2. LocalsMatchPc'
    BY <1>9, <1>0 DEF Tag, locals, LocalsType, LocalsMatchPc, Goto, HoldsFolder, HoldsId, HoldsRecord, LaunchPositions, StopPositions
  <2> QED BY <2>1, <2>2
<1>10. CASE Verify(w)
  <2>1. LocalsType'
    BY <1>10, <1>0 DEF Verify, Visible, locals, LocalsType, Goto, Positions, HoldsCommandMu, WorldType
  <2>2. LocalsMatchPc'
    BY <1>10, <1>0 DEF Verify, Visible, locals, LocalsType, LocalsMatchPc, Goto, HoldsFolder, HoldsId, HoldsRecord, LaunchPositions, StopPositions
  <2> QED BY <2>1, <2>2
<1>11. CASE Relink(w)
  <2>1. LocalsType'
    BY <1>11, <1>0 DEF Relink, LocalsType, Goto, Positions, HoldsCommandMu
  <2>2. LocalsMatchPc'
    BY <1>11, <1>0 DEF Relink, LocalsType, LocalsMatchPc, Goto, HoldsFolder, HoldsId, HoldsRecord, LaunchPositions, StopPositions
  <2> QED BY <2>1, <2>2
<1>12. CASE BecomesReady(w)
  <2>1. LocalsType'
    BY <1>12, <1>0 DEF BecomesReady, locals, LocalsType, Goto, Positions, HoldsCommandMu
  <2>2. LocalsMatchPc'
    BY <1>12, <1>0 DEF BecomesReady, locals, LocalsType, LocalsMatchPc, Goto, HoldsFolder, HoldsId, HoldsRecord, LaunchPositions, StopPositions
  <2> QED BY <2>1, <2>2
<1>13. CASE NotReady(w)
  <2>1. LocalsType'
    BY <1>13, <1>0 DEF NotReady, locals, LocalsType, Goto, Positions, HoldsCommandMu
  <2>2. LocalsMatchPc'
    BY <1>13, <1>0 DEF NotReady, locals, LocalsType, LocalsMatchPc, Goto, HoldsFolder, HoldsId, HoldsRecord, LaunchPositions, StopPositions
  <2> QED BY <2>1, <2>2
<1>14. CASE Activate(w)
  <2>1. LocalsType'
    BY <1>14, <1>0 DEF Activate, locals, LocalsType, Goto, Positions, HoldsCommandMu
  <2>2. LocalsMatchPc'
    BY <1>14, <1>0 DEF Activate, locals, LocalsType, LocalsMatchPc, Goto, HoldsFolder, HoldsId, HoldsRecord, LaunchPositions, StopPositions
  <2> QED BY <2>1, <2>2
<1>15. CASE FailLaunch(w)
  <2>1. LocalsType'
    BY <1>15, <1>0 DEF FailLaunch, locals, LocalsType, Goto, Positions, HoldsCommandMu
  <2>2. LocalsMatchPc'
    BY <1>15, <1>0 DEF FailLaunch, locals, LocalsType, LocalsMatchPc, Goto, HoldsFolder, HoldsId, HoldsRecord, LaunchPositions, StopPositions
  <2> QED BY <2>1, <2>2
<1>16. CASE Cleanup(w)
  <2>1. LocalsType'
    BY <1>16, <1>0 DEF Cleanup, locals, LocalsType, Goto, Positions, HoldsCommandMu
  <2>2. LocalsMatchPc'
    BY <1>16, <1>0 DEF Cleanup, locals, LocalsType, LocalsMatchPc, Goto, HoldsFolder, HoldsId, HoldsRecord, LaunchPositions, StopPositions
  <2> QED BY <2>1, <2>2
<1>17. CASE Unlaunch(w)
  <2>1. LocalsType'
    BY <1>17, <1>0 DEF Unlaunch, LocalsType, Goto, Positions, HoldsCommandMu
  <2>2. LocalsMatchPc'
    BY <1>17, <1>0 DEF Unlaunch, LocalsType, LocalsMatchPc, Goto, HoldsFolder, HoldsId, HoldsRecord, LaunchPositions, StopPositions
  <2> QED BY <2>1, <2>2
<1>18. CASE MarkFailed(w)
  <2>1. LocalsType'
    BY <1>18, <1>0 DEF MarkFailed, LocalsType, Goto, Positions, HoldsCommandMu
  <2>2. LocalsMatchPc'
    BY <1>18, <1>0 DEF MarkFailed, LocalsType, LocalsMatchPc, Goto, HoldsFolder, HoldsId, HoldsRecord, LaunchPositions, StopPositions
  <2> QED BY <2>1, <2>2
<1> QED BY <1>1, <1>2, <1>3, <1>4, <1>5, <1>6, <1>7, <1>8, <1>9, <1>10, <1>11, <1>12, <1>13, <1>14, <1>15, <1>16, <1>17, <1>18 DEF CreateStep

LEMMA DeleteLocals ==
    ASSUME TypeInv, NEW w \in Workers, DeleteStep(w)
    PROVE  LocalsType' /\ LocalsMatchPc'
<1> USE DEF TypeInv
<1>0. Return(w) => LocalsType' /\ LocalsMatchPc'
  BY ReturnKeepsLocals
<1>1. CASE DeleteLookup(w)
  <2>0. target[w] \in Recorded => instances[target[w]] \in Gens
    BY DEF Recorded, MapsType
  <2>1. LocalsType'
    BY <1>1, <1>0, <2>0 DEF DeleteLookup, Visible, locals, LocalsType, Goto, Positions, HoldsCommandMu, WorldType
  <2>2. LocalsMatchPc'
    BY <1>1, <1>0, <2>0 DEF DeleteLookup, Visible, locals, LocalsType, LocalsMatchPc, Goto, HoldsFolder, HoldsId, HoldsRecord, LaunchPositions, StopPositions
  <2> QED BY <2>1, <2>2
<1>2. CASE DeleteReconcile(w)
  <2>0. instances'[target[w]] # 0 => instances'[target[w]] \in Gens
    <3>1. seen[w] \in SUBSET Ids /\ target[w] \in Ids
      BY <1>2 DEF DeleteReconcile, LocalsType, LocalsMatchPc, HoldsId
    <3>2. MapsType'
      BY <1>2, <3>1, ReconciledType DEF DeleteReconcile
    <3> QED BY <3>1, <3>2 DEF MapsType
  <2>1. LocalsType'
    BY <1>2, <1>0, <2>0 DEF DeleteReconcile, LocalsType, Goto, Positions, HoldsCommandMu
  <2>2. LocalsMatchPc'
    BY <1>2, <1>0, <2>0 DEF DeleteReconcile, LocalsType, LocalsMatchPc, Goto, HoldsFolder, HoldsId, HoldsRecord, LaunchPositions, StopPositions
  <2> QED BY <2>1, <2>2
<1>3. CASE BeginStop(w)
  <2>1. LocalsType'
    BY <1>3, <1>0 DEF BeginStop, locals, LocalsType, Goto, Positions, HoldsCommandMu
  <2>2. LocalsMatchPc'
    BY <1>3, <1>0 DEF BeginStop, locals, LocalsType, LocalsMatchPc, Goto, HoldsFolder, HoldsId, HoldsRecord, LaunchPositions, StopPositions
  <2> QED BY <2>1, <2>2
<1>4. CASE AwaitTransition(w)
  <2>0. Mine(w).epoch \in Nat
    BY <1>4, RecordFields DEF AwaitTransition, Mine, MapsType, LocalsMatchPc, HoldsId, HoldsRecord
  <2>1. LocalsType'
    BY <1>4, <1>0, <2>0 DEF AwaitTransition, locals, LocalsType, Goto, Positions, HoldsCommandMu
  <2>2. LocalsMatchPc'
    BY <1>4, <1>0, <2>0 DEF AwaitTransition, locals, LocalsType, LocalsMatchPc, Goto, HoldsFolder, HoldsId, HoldsRecord, LaunchPositions, StopPositions
  <2> QED BY <2>1, <2>2
<1>5. CASE DeleteWoken(w)
  <2>1. LocalsType'
    BY <1>5, <1>0 DEF DeleteWoken, locals, LocalsType, Goto, Positions, HoldsCommandMu
  <2>2. LocalsMatchPc'
    BY <1>5, <1>0 DEF DeleteWoken, locals, LocalsType, LocalsMatchPc, Goto, HoldsFolder, HoldsId, HoldsRecord, LaunchPositions, StopPositions
  <2> QED BY <2>1, <2>2
<1>6. CASE DeleteReadsOutcome(w)
  <2>1. LocalsType'
    BY <1>6, <1>0 DEF DeleteReadsOutcome, LocalsType, Goto, Positions, HoldsCommandMu
  <2>2. LocalsMatchPc'
    BY <1>6, <1>0 DEF DeleteReadsOutcome, LocalsType, LocalsMatchPc, Goto, HoldsFolder, HoldsId, HoldsRecord, LaunchPositions, StopPositions
  <2> QED BY <2>1, <2>2
<1>7. CASE StopSession(w)
  <2>1. LocalsType'
    BY <1>7, <1>0 DEF StopSession, locals, LocalsType, Goto, Positions, HoldsCommandMu
  <2>2. LocalsMatchPc'
    BY <1>7, <1>0 DEF StopSession, locals, LocalsType, LocalsMatchPc, Goto, HoldsFolder, HoldsId, HoldsRecord, LaunchPositions, StopPositions
  <2> QED BY <2>1, <2>2
<1>8. CASE FinishStop(w)
  <2>1. LocalsType'
    BY <1>8, <1>0 DEF FinishStop, LocalsType, Goto, Positions, HoldsCommandMu
  <2>2. LocalsMatchPc'
    BY <1>8, <1>0 DEF FinishStop, LocalsType, LocalsMatchPc, Goto, HoldsFolder, HoldsId, HoldsRecord, LaunchPositions, StopPositions
  <2> QED BY <2>1, <2>2
<1>9. CASE FinishUnconfirmedStop(w)
  <2>1. LocalsType'
    BY <1>9, <1>0 DEF FinishUnconfirmedStop, LocalsType, Goto, Positions, HoldsCommandMu
  <2>2. LocalsMatchPc'
    BY <1>9, <1>0 DEF FinishUnconfirmedStop, LocalsType, LocalsMatchPc, Goto, HoldsFolder, HoldsId, HoldsRecord, LaunchPositions, StopPositions
  <2> QED BY <2>1, <2>2
<1>10. CASE RemoveStoppedRuntime(w)
  <2>1. LocalsType'
    BY <1>10, <1>0 DEF RemoveStoppedRuntime, LocalsType, Goto, Positions, HoldsCommandMu
  <2>2. LocalsMatchPc'
    BY <1>10, <1>0 DEF RemoveStoppedRuntime, LocalsType, LocalsMatchPc, Goto, HoldsFolder, HoldsId, HoldsRecord, LaunchPositions, StopPositions
  <2> QED BY <2>1, <2>2
<1>11. CASE StopUnknown(w)
  <2>1. LocalsType'
    BY <1>11, <1>0, ZenonT(60) DEF StopUnknown, LocalsType, Goto, Positions, HoldsCommandMu
  <2>2. LocalsMatchPc'
    BY <1>11, <1>0, ZenonT(60) DEF StopUnknown, LocalsType, LocalsMatchPc, Goto, HoldsFolder, HoldsId, HoldsRecord, LaunchPositions, StopPositions
  <2> QED BY <2>1, <2>2
<1> QED BY <1>1, <1>2, <1>3, <1>4, <1>5, <1>6, <1>7, <1>8, <1>9, <1>10, <1>11 DEF DeleteStep

LEMMA ProxyLocals ==
    ASSUME TypeInv, NEW w \in Workers, ProxyStep(w)
    PROVE  LocalsType' /\ LocalsMatchPc'
<1> USE DEF TypeInv
<1>0. Return(w) => LocalsType' /\ LocalsMatchPc'
  BY ReturnKeepsLocals
<1>1. CASE ProxyKnown(w)
  <2>1. LocalsType'
    BY <1>1, <1>0 DEF ProxyKnown, locals, LocalsType, Goto, Positions, HoldsCommandMu
  <2>2. LocalsMatchPc'
    BY <1>1, <1>0 DEF ProxyKnown, locals, LocalsType, LocalsMatchPc, Goto, HoldsFolder, HoldsId, HoldsRecord, LaunchPositions, StopPositions
  <2> QED BY <2>1, <2>2
<1>2. CASE ProxyDiscover(w)
  <2>1. LocalsType'
    BY <1>2, <1>0 DEF ProxyDiscover, Discover, Visible, locals, LocalsType, Goto, Positions, HoldsCommandMu, WorldType
  <2>2. LocalsMatchPc'
    BY <1>2, <1>0 DEF ProxyDiscover, Discover, Visible, locals, LocalsType, LocalsMatchPc, Goto, HoldsFolder, HoldsId, HoldsRecord, LaunchPositions, StopPositions
  <2> QED BY <2>1, <2>2
<1>3. CASE ProxyReconcile(w)
  <2>1. LocalsType'
    BY <1>3, <1>0 DEF ProxyReconcile, LocalsType, Goto, Positions, HoldsCommandMu
  <2>2. LocalsMatchPc'
    BY <1>3, <1>0 DEF ProxyReconcile, LocalsType, LocalsMatchPc, Goto, HoldsFolder, HoldsId, HoldsRecord, LaunchPositions, StopPositions
  <2> QED BY <2>1, <2>2
<1>4. CASE ProxySocket(w)
  <2>1. LocalsType'
    BY <1>4, <1>0 DEF ProxySocket, locals, LocalsType, Goto, Positions, HoldsCommandMu
  <2>2. LocalsMatchPc'
    BY <1>4, <1>0 DEF ProxySocket, locals, LocalsType, LocalsMatchPc, Goto, HoldsFolder, HoldsId, HoldsRecord, LaunchPositions, StopPositions
  <2> QED BY <2>1, <2>2
<1>5. CASE EvictIfDead(w)
  <2>1. LocalsType'
    BY <1>5, <1>0 DEF EvictIfDead, LocalsType, Goto, Positions, HoldsCommandMu
  <2>2. LocalsMatchPc'
    BY <1>5, <1>0 DEF EvictIfDead, LocalsType, LocalsMatchPc, Goto, HoldsFolder, HoldsId, HoldsRecord, LaunchPositions, StopPositions
  <2> QED BY <2>1, <2>2
<1>6. CASE ProxyCheck(w)
  <2>1. LocalsType'
    BY <1>6, <1>0 DEF ProxyCheck, ProxyHandler, locals, LocalsType, Goto, Positions, HoldsCommandMu
  <2>2. LocalsMatchPc'
    BY <1>6, <1>0 DEF ProxyCheck, ProxyHandler, locals, LocalsType, LocalsMatchPc, Goto, HoldsFolder, HoldsId, HoldsRecord, LaunchPositions, StopPositions
  <2> QED BY <2>1, <2>2
<1>7. CASE ProxyVerify(w)
  <2>1. LocalsType'
    BY <1>7, <1>0 DEF ProxyVerify, locals, LocalsType, Goto, Positions, HoldsCommandMu
  <2>2. LocalsMatchPc'
    BY <1>7, <1>0 DEF ProxyVerify, locals, LocalsType, LocalsMatchPc, Goto, HoldsFolder, HoldsId, HoldsRecord, LaunchPositions, StopPositions
  <2> QED BY <2>1, <2>2
<1>8. CASE ProxyRemovesRuntime(w)
  <2>1. LocalsType'
    BY <1>8, <1>0 DEF ProxyRemovesRuntime, LocalsType, Goto, Positions, HoldsCommandMu
  <2>2. LocalsMatchPc'
    BY <1>8, <1>0 DEF ProxyRemovesRuntime, LocalsType, LocalsMatchPc, Goto, HoldsFolder, HoldsId, HoldsRecord, LaunchPositions, StopPositions
  <2> QED BY <2>1, <2>2
<1>9. CASE ProxyFinal(w)
  <2>1. LocalsType'
    BY <1>9, <1>0 DEF ProxyFinal, ProxyHandler, locals, LocalsType, Goto, Positions, HoldsCommandMu
  <2>2. LocalsMatchPc'
    BY <1>9, <1>0 DEF ProxyFinal, ProxyHandler, locals, LocalsType, LocalsMatchPc, Goto, HoldsFolder, HoldsId, HoldsRecord, LaunchPositions, StopPositions
  <2> QED BY <2>1, <2>2
<1> QED BY <1>1, <1>2, <1>3, <1>4, <1>5, <1>6, <1>7, <1>8, <1>9 DEF ProxyStep

LEMMA ListLocals ==
    ASSUME TypeInv, NEW w \in Workers, ListDiscover(w) \/ ListReconcile(w)
    PROVE  LocalsType' /\ LocalsMatchPc'
<1> USE DEF TypeInv
<1>0. Return(w) => LocalsType' /\ LocalsMatchPc'
  BY ReturnKeepsLocals
<1>1. CASE ListDiscover(w)
  <2>1. LocalsType'
    BY <1>1, <1>0 DEF ListDiscover, Discover, Visible, locals, LocalsType, Goto, Positions, HoldsCommandMu, WorldType
  <2>2. LocalsMatchPc'
    BY <1>1, <1>0 DEF ListDiscover, Discover, Visible, locals, LocalsType, LocalsMatchPc, Goto, HoldsFolder, HoldsId, HoldsRecord, LaunchPositions, StopPositions
  <2> QED BY <2>1, <2>2
<1>2. CASE ListReconcile(w)
  <2>1. LocalsType'
    BY <1>2, <1>0 DEF ListReconcile, LocalsType, Goto, Positions, HoldsCommandMu
  <2>2. LocalsMatchPc'
    BY <1>2, <1>0 DEF ListReconcile, LocalsType, LocalsMatchPc, Goto, HoldsFolder, HoldsId, HoldsRecord, LaunchPositions, StopPositions
  <2> QED BY <2>1, <2>2
<1> QED BY <1>1, <1>2

LEMMA ShutdownLocals ==
    ASSUME TypeInv, NEW w \in Workers, ShutdownStep(w)
    PROVE  LocalsType' /\ LocalsMatchPc'
<1> USE DEF TypeInv
<1>0. Return(w) => LocalsType' /\ LocalsMatchPc'
  BY ReturnKeepsLocals
<1>1. CASE ShutdownBegin(w)
  <2>1. LocalsType'
    BY <1>1, <1>0 DEF ShutdownBegin, WorldType, locals, LocalsType, Goto, Positions, HoldsCommandMu
  <2>2. LocalsMatchPc'
    BY <1>1, <1>0 DEF ShutdownBegin, WorldType, locals, LocalsType, LocalsMatchPc, Goto, HoldsFolder, HoldsId, HoldsRecord, LaunchPositions, StopPositions
  <2> QED BY <2>1, <2>2
<1>2. CASE ShutdownWoken(w)
  <2>1. LocalsType'
    BY <1>2, <1>0 DEF ShutdownWoken, LocalsType, Goto, Positions, HoldsCommandMu
  <2>2. LocalsMatchPc'
    BY <1>2, <1>0 DEF ShutdownWoken, LocalsType, LocalsMatchPc, Goto, HoldsFolder, HoldsId, HoldsRecord, LaunchPositions, StopPositions
  <2> QED BY <2>1, <2>2
<1>3. CASE ShutdownInterrupt(w)
  <2>1. LocalsType'
    BY <1>3, <1>0 DEF ShutdownInterrupt, locals, LocalsType, Goto, Positions, HoldsCommandMu
  <2>2. LocalsMatchPc'
    BY <1>3, <1>0 DEF ShutdownInterrupt, locals, LocalsType, LocalsMatchPc, Goto, HoldsFolder, HoldsId, HoldsRecord, LaunchPositions, StopPositions
  <2> QED BY <2>1, <2>2
<1>4. CASE ShutdownKill(w)
  <2>1. LocalsType'
    BY <1>4, <1>0 DEF ShutdownKill, locals, LocalsType, Goto, Positions, HoldsCommandMu
  <2>2. LocalsMatchPc'
    BY <1>4, <1>0 DEF ShutdownKill, locals, LocalsType, LocalsMatchPc, Goto, HoldsFolder, HoldsId, HoldsRecord, LaunchPositions, StopPositions
  <2> QED BY <2>1, <2>2
<1>5. CASE ShutdownClear(w)
  <2>1. LocalsType'
    BY <1>5, <1>0 DEF ShutdownClear, locals, LocalsType, Goto, Positions, HoldsCommandMu
  <2>2. LocalsMatchPc'
    BY <1>5, <1>0 DEF ShutdownClear, locals, LocalsType, LocalsMatchPc, Goto, HoldsFolder, HoldsId, HoldsRecord, LaunchPositions, StopPositions
  <2> QED BY <2>1, <2>2
<1>6. CASE ShutdownEnd(w)
  <2>1. LocalsType'
    BY <1>6, <1>0 DEF ShutdownEnd, LocalsType, Goto, Positions, HoldsCommandMu
  <2>2. LocalsMatchPc'
    BY <1>6, <1>0 DEF ShutdownEnd, LocalsType, LocalsMatchPc, Goto, HoldsFolder, HoldsId, HoldsRecord, LaunchPositions, StopPositions
  <2> QED BY <2>1, <2>2
<1> QED BY <1>1, <1>2, <1>3, <1>4, <1>5, <1>6 DEF ShutdownStep

LEMMA RequestLocals ==
    ASSUME TypeInv, NEW w \in Workers, Request(w) \/ Cancel(w)
    PROVE  LocalsType' /\ LocalsMatchPc'
<1> USE DEF TypeInv
<1>0. Return(w) => LocalsType' /\ LocalsMatchPc'
  BY ReturnKeepsLocals
<1>1. CASE \E f \in Folders : StartCreate(w, f)
  <2>1. LocalsType'
    BY <1>1, <1>0 DEF StartCreate, locals, LocalsType, Goto, Positions, HoldsCommandMu
  <2>2. LocalsMatchPc'
    BY <1>1, <1>0 DEF StartCreate, locals, LocalsType, LocalsMatchPc, Goto, HoldsFolder, HoldsId, HoldsRecord, LaunchPositions, StopPositions
  <2> QED BY <2>1, <2>2
<1>2. CASE \E i \in Ids : StartDelete(w, i) \/ StartProxy(w, i)
  <2>1. LocalsType'
    BY <1>2, <1>0 DEF StartDelete, StartProxy, locals, LocalsType, Goto, Positions, HoldsCommandMu
  <2>2. LocalsMatchPc'
    BY <1>2, <1>0 DEF StartDelete, StartProxy, locals, LocalsType, LocalsMatchPc, Goto, HoldsFolder, HoldsId, HoldsRecord, LaunchPositions, StopPositions
  <2> QED BY <2>1, <2>2
<1>3. CASE StartList(w)
  <2>1. LocalsType'
    BY <1>3, <1>0 DEF StartList, locals, LocalsType, Goto, Positions, HoldsCommandMu
  <2>2. LocalsMatchPc'
    BY <1>3, <1>0 DEF StartList, locals, LocalsType, LocalsMatchPc, Goto, HoldsFolder, HoldsId, HoldsRecord, LaunchPositions, StopPositions
  <2> QED BY <2>1, <2>2
<1>4. CASE StartShutdown(w)
  <2>1. LocalsType'
    BY <1>4, <1>0 DEF StartShutdown, locals, LocalsType, Goto, Positions, HoldsCommandMu
  <2>2. LocalsMatchPc'
    BY <1>4, <1>0 DEF StartShutdown, locals, LocalsType, LocalsMatchPc, Goto, HoldsFolder, HoldsId, HoldsRecord, LaunchPositions, StopPositions
  <2> QED BY <2>1, <2>2
<1>5. CASE Cancel(w)
  <2>1. LocalsType'
    BY <1>5, <1>0 DEF Cancel, LocalsType, Goto, Positions, HoldsCommandMu
  <2>2. LocalsMatchPc'
    BY <1>5, <1>0 DEF Cancel, LocalsType, LocalsMatchPc, Goto, HoldsFolder, HoldsId, HoldsRecord, LaunchPositions, StopPositions
  <2> QED BY <2>1, <2>2
<1> QED BY <1>1, <1>2, <1>3, <1>4, <1>5 DEF Request

LEMMA CreateMaps ==
    ASSUME TypeInv, NEW w \in Workers, CreateStep(w)
    PROVE  MapsType'
<1> USE DEF TypeInv
<1>0. UNCHANGED mgr => MapsType'
  BY DEF mgr, MapsType
<1>1. CASE Reserve(w) \/ Decide(w) \/ GetChannel(w) \/ CreateWoken(w) \/ CreateReadsOutcome(w) \/ Launch(w) \/ Tag(w) \/ Verify(w) \/ BecomesReady(w) \/ NotReady(w) \/ FailLaunch(w) \/ Cleanup(w)
  BY <1>0, <1>1 DEF Reserve, Decide, GetChannel, CreateWoken, CreateReadsOutcome, Launch, Tag, Verify, BecomesReady, NotReady, FailLaunch, Cleanup
<1>2. CASE ReserveReconcile(w)
  BY <1>2, ReconciledType DEF ReserveReconcile, LocalsType
<1>3. CASE Insert(w)
  <2>1. CASE UNCHANGED <<instances, rec>>
    BY <1>3, <2>1 DEF Insert, MapsType
  <2>2. CASE ~UNCHANGED <<instances, rec>>
    <3>1. PICK i \in Ids : /\ HasFree(i)
                           /\ instances' = [instances EXCEPT ![i] = FreshGen(i)]
                           /\ rec' = [rec EXCEPT ![i][FreshGen(i)] = Launching]
      BY <1>3, <2>2 DEF Insert
    <3> QED BY <1>3, <3>1, FreshGenIsFree, RecordTypes DEF Insert, MapsType
  <2> QED BY <2>1, <2>2
<1>4. CASE Relink(w)
  BY <1>4, ReconciledType DEF Relink, LocalsType
<1>5. CASE Activate(w)
  <2>1. target[w] \in Ids /\ held[w] \in Gens
    BY <1>5 DEF Activate, MapsType, LocalsMatchPc, HoldsId, HoldsRecord, LaunchPositions, StopPositions
  <2>2. Mine(w).phase \in Phases /\ Mine(w).fresh \in BOOLEAN
    BY <2>1, RecordFields DEF Mine, MapsType
  <2>3. rec' \in [Ids -> [Gens -> Record]]
    BY <1>5, <2>1, <2>2, ClosedType DEF Activate, MapsType, Phases
  <2> QED BY <1>5, <2>3 DEF Activate, MapsType
<1>6. CASE Unlaunch(w)
  <2>1. target[w] \in Ids /\ held[w] \in Gens
    BY <1>6 DEF Unlaunch, MapsType, LocalsMatchPc, HoldsId, HoldsRecord, LaunchPositions, StopPositions
  <2>2. Mine(w).phase \in Phases /\ Mine(w).fresh \in BOOLEAN
    BY <2>1, RecordFields DEF Mine, MapsType
  <2>3. rec' \in [Ids -> [Gens -> Record]]
    BY <1>6, <2>1, <2>2, ClosedType, ZenonT(60) DEF Unlaunch, MapsType, Phases
  <2> QED BY <1>6, <2>3 DEF Unlaunch, MapsType
<1>7. CASE MarkFailed(w)
  <2>1. target[w] \in Ids /\ held[w] \in Gens
    BY <1>7 DEF MarkFailed, MapsType, LocalsMatchPc, HoldsId, HoldsRecord, LaunchPositions, StopPositions
  <2>2. Mine(w).phase \in Phases /\ Mine(w).fresh \in BOOLEAN
    BY <2>1, RecordFields DEF Mine, MapsType
  <2>3. rec' \in [Ids -> [Gens -> Record]]
    BY <1>7, <2>1, <2>2, ClosedType DEF MarkFailed, MapsType, Phases
  <2> QED BY <1>7, <2>3 DEF MarkFailed, MapsType
<1> QED BY <1>1, <1>2, <1>3, <1>4, <1>5, <1>6, <1>7 DEF CreateStep

LEMMA DeleteMaps ==
    ASSUME TypeInv, NEW w \in Workers, DeleteStep(w)
    PROVE  MapsType'
<1> USE DEF TypeInv
<1>0. UNCHANGED mgr => MapsType'
  BY DEF mgr, MapsType
<1>1. CASE DeleteLookup(w) \/ AwaitTransition(w) \/ DeleteWoken(w) \/ DeleteReadsOutcome(w) \/ StopSession(w) \/ RemoveStoppedRuntime(w) \/ StopUnknown(w)
  BY <1>0, <1>1 DEF DeleteLookup, AwaitTransition, DeleteWoken, DeleteReadsOutcome, StopSession, RemoveStoppedRuntime, StopUnknown
<1>2. CASE DeleteReconcile(w)
  BY <1>2, ReconciledType DEF DeleteReconcile, LocalsType
<1>3. CASE BeginStop(w)
  <2>1. BeingStopped(Mine(w)) \in Record
    BY <1>3, RecordTypes DEF BeginStop, Mine, MapsType, LocalsMatchPc, HoldsId, HoldsRecord, LaunchPositions, StopPositions
  <2> QED BY <1>3, <2>1 DEF BeginStop, MapsType
<1>4. CASE FinishStop(w)
  <2>1. target[w] \in Ids /\ held[w] \in Gens
    BY <1>4 DEF FinishStop, MapsType, LocalsMatchPc, HoldsId, HoldsRecord, LaunchPositions, StopPositions
  <2>2. Mine(w).phase \in Phases /\ Mine(w).fresh \in BOOLEAN
    BY <2>1, RecordFields DEF Mine, MapsType
  <2>3. rec' \in [Ids -> [Gens -> Record]]
    BY <1>4, <2>1, <2>2, ClosedType DEF FinishStop, MapsType, Phases
  <2> QED BY <1>4, <2>3 DEF FinishStop, MapsType
<1>5. CASE FinishUnconfirmedStop(w)
  <2>1. target[w] \in Ids /\ held[w] \in Gens
    BY <1>5 DEF FinishUnconfirmedStop, MapsType, LocalsMatchPc, HoldsId, HoldsRecord, LaunchPositions, StopPositions
  <2>2. Mine(w).phase \in Phases /\ Mine(w).fresh \in BOOLEAN
    BY <2>1, RecordFields DEF Mine, MapsType
  <2>3. rec' \in [Ids -> [Gens -> Record]]
    BY <1>5, <2>1, <2>2, ClosedType DEF FinishUnconfirmedStop, MapsType, Phases
  <2> QED BY <1>5, <2>3 DEF FinishUnconfirmedStop, MapsType
<1> QED BY <1>1, <1>2, <1>3, <1>4, <1>5 DEF DeleteStep

LEMMA ProxyMaps ==
    ASSUME TypeInv, NEW w \in Workers, ProxyStep(w)
    PROVE  MapsType'
<1> USE DEF TypeInv
<1>0. UNCHANGED mgr => MapsType'
  BY DEF mgr, MapsType
<1>1. CASE ProxyKnown(w) \/ ProxyDiscover(w) \/ ProxySocket(w) \/ ProxyRemovesRuntime(w)
  BY <1>0, <1>1 DEF ProxyKnown, ProxyDiscover, ProxySocket, ProxyRemovesRuntime
<1>2. CASE ProxyReconcile(w)
  BY <1>2, ReconciledType DEF ProxyReconcile, LocalsType
<1>3. CASE EvictIfDead(w)
  BY <1>0, <1>3 DEF EvictIfDead, EvictActive, ProxyHandler, mgr, MapsType, LocalsMatchPc, HoldsId, HoldsRecord, LaunchPositions, StopPositions
<1>4. CASE ProxyCheck(w)
  BY <1>0, <1>4 DEF ProxyCheck, EvictActive, ProxyHandler, mgr, MapsType, LocalsMatchPc, HoldsId, HoldsRecord, LaunchPositions, StopPositions
<1>5. CASE ProxyVerify(w)
  <2>1. IsActive(target[w]) => Verified(Current(target[w])) \in Record
    BY <1>5, RecordTypes DEF IsActive, Recorded, Current, MapsType
  <2> QED BY <1>0, <1>5, <2>1 DEF ProxyVerify, EvictActive, MapsType
<1>6. CASE ProxyFinal(w)
  BY <1>0, <1>6 DEF ProxyFinal, EvictActive, ProxyHandler, mgr, MapsType, LocalsMatchPc, HoldsId, HoldsRecord, LaunchPositions, StopPositions
<1> QED BY <1>1, <1>2, <1>3, <1>4, <1>5, <1>6 DEF ProxyStep

LEMMA ListMaps ==
    ASSUME TypeInv, NEW w \in Workers, ListDiscover(w) \/ ListReconcile(w)
    PROVE  MapsType'
<1> USE DEF TypeInv
<1>0. UNCHANGED mgr => MapsType'
  BY DEF mgr, MapsType
<1>1. CASE ListDiscover(w)
  BY <1>0, <1>1 DEF ListDiscover
<1>2. CASE ListReconcile(w)
  BY <1>2, ReconciledType DEF ListReconcile, LocalsType
<1> QED BY <1>1, <1>2

LEMMA ShutdownMaps ==
    ASSUME TypeInv, NEW w \in Workers, ShutdownStep(w)
    PROVE  MapsType'
<1> USE DEF TypeInv
<1>0. UNCHANGED mgr => MapsType'
  BY DEF mgr, MapsType
<1>1. CASE ShutdownBegin(w) \/ ShutdownWoken(w) \/ ShutdownInterrupt(w) \/ ShutdownKill(w) \/ ShutdownEnd(w)
  BY <1>0, <1>1 DEF ShutdownBegin, ShutdownWoken, ShutdownInterrupt, ShutdownKill, ShutdownEnd
<1>2. CASE ShutdownClear(w)
  BY <1>0, <1>2 DEF ShutdownClear, EvictActive, ProxyHandler, mgr, MapsType, LocalsMatchPc, HoldsId, HoldsRecord, LaunchPositions, StopPositions
<1> QED BY <1>1, <1>2 DEF ShutdownStep

LEMMA CreateWorld ==
    ASSUME TypeInv, NEW w \in Workers, UNCHANGED <<crashes, up>>, CreateStep(w)
    PROVE  WorldType'
<1> USE DEF TypeInv, WorldType, shut, tmux, Fault, NoFault, Acquire, Release, Passes
<1>1. CASE Reserve(w)
  BY <1>1 DEF Reserve, Discover
<1>2. CASE ReserveReconcile(w)
  BY <1>2 DEF ReserveReconcile, StaleRuntimeRemoved
<1>3. CASE Decide(w)
  BY <1>3 DEF Decide
<1>4. CASE GetChannel(w)
  BY <1>4 DEF GetChannel
<1>5. CASE CreateWoken(w)
  BY <1>5 DEF CreateWoken
<1>6. CASE CreateReadsOutcome(w)
  BY <1>6 DEF CreateReadsOutcome
<1>7. CASE Insert(w)
  BY <1>7 DEF Insert, LocalsMatchPc, HoldsFolder
<1>8. CASE Launch(w)
  BY <1>8, BoundsAssumption DEF Launch, MapsType, LocalsMatchPc, HoldsId, HoldsRecord, LaunchPositions, StopPositions
<1>9. CASE Tag(w)
  BY <1>9 DEF Tag, MapsType, LocalsMatchPc, HoldsId, HoldsRecord, LaunchPositions, StopPositions
<1>10. CASE Verify(w)
  BY <1>10 DEF Verify
<1>11. CASE Relink(w)
  BY <1>11 DEF Relink
<1>12. CASE BecomesReady(w)
  BY <1>12 DEF BecomesReady
<1>13. CASE NotReady(w)
  BY <1>13 DEF NotReady
<1>14. CASE Activate(w)
  BY <1>14 DEF Activate
<1>15. CASE FailLaunch(w)
  BY <1>15 DEF FailLaunch
<1>16. CASE Cleanup(w)
  BY <1>16 DEF Cleanup, Stopped
<1>17. CASE Unlaunch(w)
  BY <1>17 DEF Unlaunch
<1>18. CASE MarkFailed(w)
  BY <1>18 DEF MarkFailed
<1> QED BY <1>1, <1>2, <1>3, <1>4, <1>5, <1>6, <1>7, <1>8, <1>9, <1>10, <1>11, <1>12, <1>13, <1>14, <1>15, <1>16, <1>17, <1>18 DEF CreateStep

LEMMA DeleteWorld ==
    ASSUME TypeInv, NEW w \in Workers, UNCHANGED <<crashes, up>>, DeleteStep(w)
    PROVE  WorldType'
<1> USE DEF TypeInv, WorldType, shut, tmux, Fault, NoFault, Acquire, Release, Passes
<1>1. CASE DeleteLookup(w)
  BY <1>1 DEF DeleteLookup
<1>2. CASE DeleteReconcile(w)
  BY <1>2 DEF DeleteReconcile
<1>3. CASE BeginStop(w)
  BY <1>3 DEF BeginStop
<1>4. CASE AwaitTransition(w)
  BY <1>4 DEF AwaitTransition
<1>5. CASE DeleteWoken(w)
  BY <1>5 DEF DeleteWoken
<1>6. CASE DeleteReadsOutcome(w)
  BY <1>6 DEF DeleteReadsOutcome, MapsType, LocalsMatchPc, HoldsId, HoldsRecord, LaunchPositions, StopPositions
<1>7. CASE StopSession(w)
  BY <1>7 DEF StopSession, Stopped
<1>8. CASE FinishStop(w)
  BY <1>8 DEF FinishStop
<1>9. CASE FinishUnconfirmedStop(w)
  BY <1>9 DEF FinishUnconfirmedStop
<1>10. CASE RemoveStoppedRuntime(w)
  BY <1>10 DEF RemoveStoppedRuntime, MapsType, LocalsMatchPc, HoldsId, HoldsRecord, LaunchPositions, StopPositions
<1>11. CASE StopUnknown(w)
  BY <1>11 DEF StopUnknown, Stopped
<1> QED BY <1>1, <1>2, <1>3, <1>4, <1>5, <1>6, <1>7, <1>8, <1>9, <1>10, <1>11 DEF DeleteStep

LEMMA ProxyWorld ==
    ASSUME TypeInv, NEW w \in Workers, UNCHANGED <<crashes, up>>, ProxyStep(w)
    PROVE  WorldType'
<1> USE DEF TypeInv, WorldType, shut, tmux, Fault, NoFault, Acquire, Release, Passes
<1>1. CASE ProxyKnown(w)
  BY <1>1 DEF ProxyKnown
<1>2. CASE ProxyDiscover(w)
  BY <1>2 DEF ProxyDiscover, Discover
<1>3. CASE ProxyReconcile(w)
  BY <1>3 DEF ProxyReconcile, StaleRuntimeRemoved
<1>4. CASE ProxySocket(w)
  BY <1>4 DEF ProxySocket
<1>5. CASE EvictIfDead(w)
  BY <1>5 DEF EvictIfDead
<1>6. CASE ProxyCheck(w)
  BY <1>6 DEF ProxyCheck
<1>7. CASE ProxyVerify(w)
  BY <1>7 DEF ProxyVerify
<1>8. CASE ProxyRemovesRuntime(w)
  BY <1>8 DEF ProxyRemovesRuntime
<1>9. CASE ProxyFinal(w)
  BY <1>9 DEF ProxyFinal
<1> QED BY <1>1, <1>2, <1>3, <1>4, <1>5, <1>6, <1>7, <1>8, <1>9 DEF ProxyStep

LEMMA ListWorld ==
    ASSUME TypeInv, NEW w \in Workers, UNCHANGED <<crashes, up>>, ListDiscover(w) \/ ListReconcile(w)
    PROVE  WorldType'
<1> USE DEF TypeInv, WorldType, shut, tmux, Fault, NoFault, Acquire, Release, Passes
<1>1. CASE ListDiscover(w)
  BY <1>1 DEF ListDiscover, Discover
<1>2. CASE ListReconcile(w)
  BY <1>2 DEF ListReconcile, StaleRuntimeRemoved
<1> QED BY <1>1, <1>2

LEMMA ShutdownWorld ==
    ASSUME TypeInv, NEW w \in Workers, UNCHANGED <<crashes, up>>, ShutdownStep(w)
    PROVE  WorldType'
<1> USE DEF TypeInv, WorldType, shut, tmux, Fault, NoFault, Acquire, Release, Passes
<1>1. CASE ShutdownBegin(w)
  BY <1>1 DEF ShutdownBegin
<1>2. CASE ShutdownWoken(w)
  BY <1>2 DEF ShutdownWoken
<1>3. CASE ShutdownInterrupt(w)
  BY <1>3 DEF ShutdownInterrupt
<1>4. CASE ShutdownKill(w)
  BY <1>4 DEF ShutdownKill
<1>5. CASE ShutdownClear(w)
  BY <1>5 DEF ShutdownClear
<1>6. CASE ShutdownEnd(w)
  BY <1>6 DEF ShutdownEnd
<1> QED BY <1>1, <1>2, <1>3, <1>4, <1>5, <1>6 DEF ShutdownStep

LEMMA RequestKeepsRest ==
    ASSUME TypeInv, NEW w \in Workers, UNCHANGED <<crashes, up>>, Request(w) \/ Cancel(w)
    PROVE  MapsType' /\ WorldType'
<1> USE DEF TypeInv, MapsType, WorldType, mgr, shut, tmux, NoFault
<1>1. CASE \E f \in Folders : StartCreate(w, f)
  BY <1>1 DEF StartCreate
<1>2. CASE \E i \in Ids : StartDelete(w, i) \/ StartProxy(w, i)
  BY <1>2 DEF StartDelete, StartProxy
<1>3. CASE StartList(w)
  BY <1>3 DEF StartList
<1>4. CASE StartShutdown(w)
  BY <1>4 DEF StartShutdown
<1>5. CASE Cancel(w)
  BY <1>5 DEF Cancel
<1> QED BY <1>1, <1>2, <1>3, <1>4, <1>5 DEF Request

LEMMA TypeStep == TypeInv /\ [Next]_vars => TypeInv'
<1> SUFFICES ASSUME TypeInv, [Next]_vars
             PROVE  TypeInv'
  OBVIOUS
<1>1. ASSUME NEW w \in Workers, Running(Request(w) \/ Cancel(w) \/ Progress(w))
      PROVE  TypeInv'
  <2>0. UNCHANGED <<crashes, up>>
    BY <1>1 DEF Running
  <2>1. CASE Request(w) \/ Cancel(w)
    BY <2>0, <2>1, RequestLocals, RequestKeepsRest DEF TypeInv
  <2>2. CASE CreateStep(w)
    BY <2>0, <2>2, CreateMaps, CreateLocals, CreateWorld DEF TypeInv
  <2>3. CASE DeleteStep(w)
    BY <2>0, <2>3, DeleteMaps, DeleteLocals, DeleteWorld DEF TypeInv
  <2>4. CASE ProxyStep(w)
    BY <2>0, <2>4, ProxyMaps, ProxyLocals, ProxyWorld DEF TypeInv
  <2>5. CASE ListDiscover(w) \/ ListReconcile(w)
    BY <2>0, <2>5, ListMaps, ListLocals, ListWorld DEF TypeInv
  <2>6. CASE ShutdownStep(w)
    BY <2>0, <2>6, ShutdownMaps, ShutdownLocals, ShutdownWorld DEF TypeInv
  <2> QED BY <1>1, <2>1, <2>2, <2>3, <2>4, <2>5, <2>6 DEF Running, Progress
<1>2. ASSUME NEW i \in Ids, Exit(i)
      PROVE  TypeInv'
  BY <1>2 DEF Exit, TypeInv, MapsType, LocalsType, WorldType, LocalsMatchPc, mgr, shut, locals
<1>3. CASE Crash
  <2>1. MapsType'
    BY <1>3, RecordTypes DEF Crash, MapsType
  <2>2. LocalsType' /\ LocalsMatchPc'
    BY <1>3 DEF Crash, LocalsType, LocalsMatchPc, Nowhere, Zeros, Positions, HoldsFolder, HoldsId, HoldsRecord,
       LaunchPositions, StopPositions
  <2>3. /\ UNCHANGED <<live, tagged, folderOf, dirs, acked, faults>>
        /\ crashes' = crashes + 1
        /\ commandMu' = Nobody
        /\ shutdownRequested' = FALSE /\ shutdown' = "no" /\ attempt' = 0
        /\ up' = FALSE
    BY <1>3 DEF Crash, tmux
  <2>4. WorldType'
    <3>1. WorldType
      BY DEF TypeInv
    <3>2. crashes' \in Nat
      BY <2>3, <3>1 DEF WorldType
    <3>3. up' \in BOOLEAN /\ shutdownRequested' \in BOOLEAN
      BY <2>3
    <3> QED BY <2>3, <3>1, <3>2, <3>3 DEF WorldType
  <2> QED BY <2>1, <2>2, <2>4 DEF TypeInv
<1>4. CASE Initialize
  BY <1>4 DEF Initialize, TypeInv, MapsType, LocalsType, WorldType, LocalsMatchPc, mgr, shut, locals
<1>5. CASE UNCHANGED vars
  BY <1>5 DEF vars, TypeInv, MapsType, LocalsType, WorldType, LocalsMatchPc
<1> QED BY <1>1, <1>2, <1>3, <1>4, <1>5 DEF Next

THEOREM TypeInvariant == Spec => []TypeInv
BY InitType, TypeStep, PTL DEF Spec

\* Every variable keeps its type, whatever the goroutines, the failing commands
\* and the crashes do.
THEOREM TypeCorrect == Spec => []TypeOK
<1>1. TypeInv => TypeOK
  BY TypeParts DEF TypeInv
<1> QED BY <1>1, TypeInvariant, PTL

-----------------------------------------------------------------------------
(* commandMu serialises the sections it guards.                            *)

LEMMA CommandMuStep ==
    ASSUME TypeInv, CommandsSerialized, NEW w \in Workers, Request(w) \/ Cancel(w) \/ Progress(w)
    PROVE  CommandsSerialized'
<1> USE NobodyAssumption DEF TypeInv, LocalsType, WorldType, CommandsSerialized, Goto, Return,
       Acquire, Release, Passes, HoldsCommandMu
<1>1. CASE Request(w) \/ Cancel(w)
  BY <1>1 DEF Request, Cancel, StartCreate, StartDelete, StartProxy, StartList, StartShutdown
<1>2. CASE CreateStep(w)
  <2>1. CASE Reserve(w)
    BY <2>1 DEF Reserve, Discover
  <2>2. CASE ReserveReconcile(w)
    BY <2>2 DEF ReserveReconcile
  <2>3. CASE Decide(w)
    BY <2>3 DEF Decide
  <2>4. CASE GetChannel(w)
    BY <2>4 DEF GetChannel
  <2>5. CASE CreateWoken(w)
    BY <2>5 DEF CreateWoken
  <2>6. CASE CreateReadsOutcome(w)
    BY <2>6 DEF CreateReadsOutcome
  <2>7. CASE Insert(w)
    BY <2>7 DEF Insert
  <2>8. CASE Launch(w)
    BY <2>8 DEF Launch
  <2>9. CASE Tag(w)
    BY <2>9 DEF Tag
  <2>10. CASE Verify(w)
    BY <2>10 DEF Verify
  <2>11. CASE Relink(w)
    BY <2>11 DEF Relink
  <2>12. CASE BecomesReady(w)
    BY <2>12 DEF BecomesReady
  <2>13. CASE NotReady(w)
    BY <2>13 DEF NotReady
  <2>14. CASE Activate(w)
    BY <2>14, ZenonT(60) DEF Activate
  <2>15. CASE FailLaunch(w)
    BY <2>15 DEF FailLaunch
  <2>16. CASE Cleanup(w)
    BY <2>16 DEF Cleanup
  <2>17. CASE Unlaunch(w)
    BY <2>17 DEF Unlaunch
  <2>18. CASE MarkFailed(w)
    BY <2>18 DEF MarkFailed
  <2> QED BY <1>2, <2>1, <2>2, <2>3, <2>4, <2>5, <2>6, <2>7, <2>8, <2>9, <2>10, <2>11, <2>12, <2>13, <2>14, <2>15, <2>16, <2>17, <2>18 DEF CreateStep
<1>3. CASE DeleteStep(w)
  <2>1. CASE DeleteLookup(w)
    BY <2>1 DEF DeleteLookup
  <2>2. CASE DeleteReconcile(w)
    BY <2>2 DEF DeleteReconcile
  <2>3. CASE BeginStop(w)
    BY <2>3 DEF BeginStop
  <2>4. CASE AwaitTransition(w)
    BY <2>4 DEF AwaitTransition
  <2>5. CASE DeleteWoken(w)
    BY <2>5 DEF DeleteWoken
  <2>6. CASE DeleteReadsOutcome(w)
    BY <2>6 DEF DeleteReadsOutcome
  <2>7. CASE StopSession(w)
    BY <2>7 DEF StopSession
  <2>8. CASE FinishStop(w)
    BY <2>8 DEF FinishStop
  <2>9. CASE FinishUnconfirmedStop(w)
    BY <2>9 DEF FinishUnconfirmedStop
  <2>10. CASE RemoveStoppedRuntime(w)
    BY <2>10 DEF RemoveStoppedRuntime
  <2>11. CASE StopUnknown(w)
    BY <2>11, ZenonT(60) DEF StopUnknown
  <2> QED BY <1>3, <2>1, <2>2, <2>3, <2>4, <2>5, <2>6, <2>7, <2>8, <2>9, <2>10, <2>11 DEF DeleteStep
<1>4. CASE ProxyStep(w)
  <2>1. CASE ProxyKnown(w)
    BY <2>1 DEF ProxyKnown
  <2>2. CASE ProxyDiscover(w)
    BY <2>2 DEF ProxyDiscover, Discover
  <2>3. CASE ProxyReconcile(w)
    BY <2>3 DEF ProxyReconcile
  <2>4. CASE ProxySocket(w)
    BY <2>4 DEF ProxySocket
  <2>5. CASE EvictIfDead(w)
    BY <2>5 DEF EvictIfDead
  <2>6. CASE ProxyCheck(w)
    BY <2>6 DEF ProxyCheck, ProxyHandler
  <2>7. CASE ProxyVerify(w)
    BY <2>7 DEF ProxyVerify
  <2>8. CASE ProxyRemovesRuntime(w)
    BY <2>8 DEF ProxyRemovesRuntime
  <2>9. CASE ProxyFinal(w)
    BY <2>9 DEF ProxyFinal, ProxyHandler
  <2> QED BY <1>4, <2>1, <2>2, <2>3, <2>4, <2>5, <2>6, <2>7, <2>8, <2>9 DEF ProxyStep
<1>5. CASE ListDiscover(w)
  BY <1>5 DEF ListDiscover, Discover
<1>6. CASE ListReconcile(w)
  BY <1>6 DEF ListReconcile
<1>7. CASE ShutdownStep(w)
  <2>1. CASE ShutdownBegin(w)
    BY <2>1 DEF ShutdownBegin
  <2>2. CASE ShutdownWoken(w)
    BY <2>2 DEF ShutdownWoken
  <2>3. CASE ShutdownInterrupt(w)
    BY <2>3 DEF ShutdownInterrupt
  <2>4. CASE ShutdownKill(w)
    BY <2>4 DEF ShutdownKill
  <2>5. CASE ShutdownClear(w)
    BY <2>5 DEF ShutdownClear
  <2>6. CASE ShutdownEnd(w)
    BY <2>6 DEF ShutdownEnd
  <2> QED BY <1>7, <2>1, <2>2, <2>3, <2>4, <2>5, <2>6 DEF ShutdownStep
<1> QED BY <1>1, <1>2, <1>3, <1>4, <1>5, <1>6, <1>7 DEF Progress

\* Whoever is inside a section under commandMu owns it, and nobody else is
\* inside: the tmux commands of two requests never interleave there.
THEOREM CommandMuSerializes == Spec => []CommandsSerialized
<1>1. Init => CommandsSerialized
  BY NobodyAssumption DEF Init, CommandsSerialized, HoldsCommandMu
<1>2. TypeInv /\ CommandsSerialized /\ [Next]_vars => CommandsSerialized'
  <2> SUFFICES ASSUME TypeInv, CommandsSerialized, [Next]_vars
               PROVE  CommandsSerialized'
    OBVIOUS
  <2>1. ASSUME NEW w \in Workers, Running(Request(w) \/ Cancel(w) \/ Progress(w))
        PROVE  CommandsSerialized'
    BY <2>1, CommandMuStep DEF Running
  <2>2. CASE \E i \in Ids : Exit(i)
    BY <2>2 DEF Exit, CommandsSerialized
  <2>3. CASE Crash
    BY <2>3, NobodyAssumption DEF Crash, CommandsSerialized, HoldsCommandMu
  <2>4. CASE Initialize \/ UNCHANGED vars
    BY <2>4 DEF Initialize, vars, CommandsSerialized
  <2> QED BY <2>1, <2>2, <2>3, <2>4 DEF Next
<1> QED BY <1>1, <1>2, TypeInvariant, PTL DEF Spec

-----------------------------------------------------------------------------
(* Shutdown is final: once an attempt has cleared the manager nothing that  *)
(* was under way can bring a session, a record or a runtime directory back. *)

(* The goroutine that carries out an attempt, and all inside Shutdown. *)
RunnerPositions   == {"sInterrupt", "sKill", "sClear", "sDone", "sFailed"}
ShutdownPositions == RunnerPositions \cup {"sBegin", "sWait"}

(* The positions that still could add a record, a session or a directory. *)
Adding == {"reconcile", "decide", "insert", "launch", "tag", "verify", "relink"}
Listing == {"dReconcile", "pReconcile", "lReconcile"}

FlagUp ==
    shutdown # "no" \/ (\E w \in Workers : pc[w] \in ShutdownPositions) => shutdownRequested

OneRunner ==
    /\ \A w \in Workers : pc[w] \in RunnerPositions => shutdown = "running"
    /\ \A v, w \in Workers : pc[v] \in RunnerPositions /\ pc[w] \in RunnerPositions => v = w

KilledFirst == \A w \in Workers : pc[w] = "sClear" => live = {}

Cleared ==
    /\ live = {} /\ dirs = {} /\ proxies = {} /\ Recorded = {}
    /\ \A w \in Workers : pc[w] \notin Adding
    /\ \A w \in Workers : pc[w] \in Listing => seen[w] = {}

Final ==
    shutdown = "complete" \/ (\E w \in Workers : pc[w] = "sDone") => Cleared

ShutdownInv == FlagUp /\ OneRunner /\ KilledFirst /\ Final

Inv == TypeInv /\ CommandsSerialized /\ ShutdownInv

-----------------------------------------------------------------------------
\* A step of a goroutine that is not inside Shutdown.
Outside(w) ==
    /\ UNCHANGED shut
    /\ \A v \in Workers : pc'[v] \in ShutdownPositions => pc[v] \in ShutdownPositions /\ pc'[v] = pc[v]
    /\ live' \subseteq live \/ pc[w] = "launch"

LEMMA OutsideKeeps ==
    ASSUME Inv, NEW w \in Workers, Outside(w), shutdownRequested /\ Cleared => Cleared'
    PROVE  ShutdownInv'
<1> USE DEF Inv, ShutdownInv, Outside, shut, RunnerPositions, ShutdownPositions
<1>1. FlagUp'
  BY DEF FlagUp
<1>2. OneRunner'
  BY DEF OneRunner
<1>3. KilledFirst'
  <2> SUFFICES ASSUME NEW v \in Workers, pc'[v] = "sClear"
               PROVE  live' = {}
    BY DEF KilledFirst
  <2>1. pc[v] = "sClear"
    OBVIOUS
  <2>2. commandMu = v /\ live = {}
    BY <2>1 DEF CommandsSerialized, HoldsCommandMu, KilledFirst
  <2>3. pc[w] # "launch"
    BY <2>1, <2>2 DEF CommandsSerialized, HoldsCommandMu
  <2> QED BY <2>2, <2>3
<1>4. Final'
  BY DEF Final, FlagUp
<1> QED BY <1>1, <1>2, <1>3, <1>4

LEMMA NothingReconciled ==
    ASSUME TypeInv, Recorded = {}, proxies = {}, Reconciled({})
    PROVE  Recorded' = {} /\ proxies' = {}
<1>1. Adopted({}) = {} /\ Evicted({}) = {}
  BY DEF Adopted, Evicted
<1>2. \A i \in Ids : instances'[i] = instances[i]
  BY <1>1 DEF Reconciled
<1> QED BY <1>1, <1>2 DEF Reconciled, Recorded

LEMMA CreateKeepsFinal ==
    ASSUME Inv, NEW w \in Workers, CreateStep(w)
    PROVE  ShutdownInv'
<1> USE DEF Inv, TypeInv
<1>1. CASE Reserve(w)
  <2>1. Outside(w)
    BY <1>1 DEF Reserve, Discover, Visible, Outside, LocalsType, Goto, Return, locals, tmux, ShutdownPositions, RunnerPositions
  <2>2. shutdownRequested /\ Cleared => Cleared'
    BY <1>1 DEF Reserve, Discover, Visible, Cleared, Adding, Listing, LocalsType, Goto, Return, locals, tmux, mgr, Recorded
  <2> QED BY <2>1, <2>2, OutsideKeeps
<1>2. CASE ReserveReconcile(w)
  <2>1. Outside(w)
    BY <1>2 DEF ReserveReconcile, Outside, LocalsType, Goto, Return, locals, tmux, ShutdownPositions, RunnerPositions
  <2>2. ~Cleared
    BY <1>2 DEF ReserveReconcile, Cleared, Adding
  <2> QED BY <2>1, <2>2, OutsideKeeps
<1>3. CASE Decide(w)
  <2>1. Outside(w)
    BY <1>3 DEF Decide, SameFolder, Outside, LocalsType, Goto, Return, locals, tmux, ShutdownPositions, RunnerPositions
  <2>2. ~Cleared
    BY <1>3 DEF Decide, Cleared, Adding
  <2> QED BY <2>1, <2>2, OutsideKeeps
<1>4. CASE GetChannel(w)
  <2>1. Outside(w)
    BY <1>4 DEF GetChannel, Outside, LocalsType, Goto, Return, locals, tmux, ShutdownPositions, RunnerPositions
  <2>2. shutdownRequested /\ Cleared => Cleared'
    BY <1>4 DEF GetChannel, Cleared, Adding, Listing, LocalsType, Goto, Return, locals, tmux, mgr, Recorded
  <2> QED BY <2>1, <2>2, OutsideKeeps
<1>5. CASE CreateWoken(w)
  <2>1. Outside(w)
    BY <1>5 DEF CreateWoken, Outside, LocalsType, Goto, Return, locals, tmux, ShutdownPositions, RunnerPositions
  <2>2. shutdownRequested /\ Cleared => Cleared'
    BY <1>5 DEF CreateWoken, Cleared, Adding, Listing, LocalsType, Goto, Return, locals, tmux, mgr, Recorded
  <2> QED BY <2>1, <2>2, OutsideKeeps
<1>6. CASE CreateReadsOutcome(w)
  <2>1. Outside(w)
    BY <1>6 DEF CreateReadsOutcome, Outside, LocalsType, Goto, Return, locals, tmux, ShutdownPositions, RunnerPositions
  <2>2. shutdownRequested /\ Cleared => Cleared'
    BY <1>6 DEF CreateReadsOutcome, Cleared, Adding, Listing, LocalsType, Goto, Return, locals, tmux, mgr, Recorded
  <2> QED BY <2>1, <2>2, OutsideKeeps
<1>7. CASE Insert(w)
  <2>1. Outside(w)
    BY <1>7 DEF Insert, Outside, LocalsType, Goto, Return, locals, tmux, ShutdownPositions, RunnerPositions
  <2>2. ~Cleared
    BY <1>7 DEF Insert, Cleared, Adding
  <2> QED BY <2>1, <2>2, OutsideKeeps
<1>8. CASE Launch(w)
  <2>1. Outside(w)
    BY <1>8 DEF Launch, Outside, LocalsType, Goto, Return, locals, tmux, ShutdownPositions, RunnerPositions
  <2>2. ~Cleared
    BY <1>8 DEF Launch, Cleared, Adding
  <2> QED BY <2>1, <2>2, OutsideKeeps
<1>9. CASE Tag(w)
  <2>1. Outside(w)
    BY <1>9 DEF Tag, Outside, LocalsType, Goto, Return, locals, tmux, ShutdownPositions, RunnerPositions
  <2>2. ~Cleared
    BY <1>9 DEF Tag, Cleared, Adding
  <2> QED BY <2>1, <2>2, OutsideKeeps
<1>10. CASE Verify(w)
  <2>1. Outside(w)
    BY <1>10 DEF Verify, Visible, Outside, LocalsType, Goto, Return, locals, tmux, ShutdownPositions, RunnerPositions
  <2>2. ~Cleared
    BY <1>10 DEF Verify, Cleared, Adding
  <2> QED BY <2>1, <2>2, OutsideKeeps
<1>11. CASE Relink(w)
  <2>1. Outside(w)
    BY <1>11 DEF Relink, Outside, LocalsType, Goto, Return, locals, tmux, ShutdownPositions, RunnerPositions
  <2>2. ~Cleared
    BY <1>11 DEF Relink, Cleared, Adding
  <2> QED BY <2>1, <2>2, OutsideKeeps
<1>12. CASE BecomesReady(w)
  <2>1. Outside(w)
    BY <1>12 DEF BecomesReady, Outside, LocalsType, Goto, Return, locals, tmux, ShutdownPositions, RunnerPositions
  <2>2. shutdownRequested /\ Cleared => Cleared'
    BY <1>12 DEF BecomesReady, Cleared, Adding, Listing, LocalsType, Goto, Return, locals, tmux, mgr, Recorded
  <2> QED BY <2>1, <2>2, OutsideKeeps
<1>13. CASE NotReady(w)
  <2>1. Outside(w)
    BY <1>13 DEF NotReady, Outside, LocalsType, Goto, Return, locals, tmux, ShutdownPositions, RunnerPositions
  <2>2. shutdownRequested /\ Cleared => Cleared'
    BY <1>13 DEF NotReady, Cleared, Adding, Listing, LocalsType, Goto, Return, locals, tmux, mgr, Recorded
  <2> QED BY <2>1, <2>2, OutsideKeeps
<1>14. CASE Activate(w)
  <2>1. Outside(w)
    BY <1>14 DEF Activate, Outside, LocalsType, Goto, Return, locals, tmux, ShutdownPositions, RunnerPositions
  <2>2. shutdownRequested /\ Cleared => Cleared'
    BY <1>14 DEF Activate, Cleared, Adding, Listing, LocalsType, Goto, Return, locals, tmux, mgr, Recorded
  <2> QED BY <2>1, <2>2, OutsideKeeps
<1>15. CASE FailLaunch(w)
  <2>1. Outside(w)
    BY <1>15 DEF FailLaunch, Outside, LocalsType, Goto, Return, locals, tmux, ShutdownPositions, RunnerPositions
  <2>2. shutdownRequested /\ Cleared => Cleared'
    BY <1>15 DEF FailLaunch, Cleared, Adding, Listing, LocalsType, Goto, Return, locals, tmux, mgr, Recorded
  <2> QED BY <2>1, <2>2, OutsideKeeps
<1>16. CASE Cleanup(w)
  <2>1. Outside(w)
    BY <1>16 DEF Cleanup, Stopped, Outside, LocalsType, Goto, Return, locals, tmux, ShutdownPositions, RunnerPositions
  <2>2. shutdownRequested /\ Cleared => Cleared'
    BY <1>16 DEF Cleanup, Stopped, Cleared, Adding, Listing, LocalsType, Goto, Return, locals, tmux, mgr, Recorded
  <2> QED BY <2>1, <2>2, OutsideKeeps
<1>17. CASE Unlaunch(w)
  <2>1. Outside(w)
    BY <1>17 DEF Unlaunch, Outside, LocalsType, Goto, Return, locals, tmux, ShutdownPositions, RunnerPositions
  <2>2. shutdownRequested /\ Cleared => Cleared'
    BY <1>17 DEF Unlaunch, Cleared, Adding, Listing, LocalsType, Goto, Return, locals, tmux, mgr, Recorded
  <2> QED BY <2>1, <2>2, OutsideKeeps
<1>18. CASE MarkFailed(w)
  <2>1. Outside(w)
    BY <1>18 DEF MarkFailed, Outside, LocalsType, Goto, Return, locals, tmux, ShutdownPositions, RunnerPositions
  <2>2. shutdownRequested /\ Cleared => Cleared'
    BY <1>18 DEF MarkFailed, Cleared, Adding, Listing, LocalsType, Goto, Return, locals, tmux, mgr, Recorded
  <2> QED BY <2>1, <2>2, OutsideKeeps
<1> QED BY <1>1, <1>2, <1>3, <1>4, <1>5, <1>6, <1>7, <1>8, <1>9, <1>10, <1>11, <1>12, <1>13, <1>14, <1>15, <1>16, <1>17, <1>18 DEF CreateStep

LEMMA DeleteKeepsFinal ==
    ASSUME Inv, NEW w \in Workers, DeleteStep(w)
    PROVE  ShutdownInv'
<1> USE DEF Inv, TypeInv
<1>1. CASE DeleteLookup(w)
  <2>1. Outside(w)
    BY <1>1 DEF DeleteLookup, Visible, Outside, LocalsType, Goto, Return, locals, tmux, ShutdownPositions, RunnerPositions
  <2>2. shutdownRequested /\ Cleared => Cleared'
    BY <1>1 DEF DeleteLookup, Visible, Cleared, Adding, Listing, LocalsType, Goto, Return, locals, tmux, mgr, Recorded
  <2> QED BY <2>1, <2>2, OutsideKeeps
<1>2. CASE DeleteReconcile(w)
  <2>1. Outside(w)
    BY <1>2 DEF DeleteReconcile, Outside, LocalsType, Goto, Return, locals, tmux, ShutdownPositions, RunnerPositions
  <2>2. ASSUME Cleared PROVE Cleared'
    <3>1. Reconciled({})
      BY <1>2, <2>2 DEF DeleteReconcile, Cleared, Listing
    <3>2. Recorded' = {} /\ proxies' = {}
      BY <2>2, <3>1, NothingReconciled DEF Cleared
    <3>3. live' = {} /\ dirs' = {}
      BY <1>2, <2>2 DEF DeleteReconcile, StaleRuntimeRemoved, Cleared, tmux
    <3>4. pc'[w] \notin Adding \cup Listing /\ \A v \in Workers \ {w} : pc'[v] = pc[v] /\ seen'[v] = seen[v]
      BY <1>2, <2>2, <3>2 DEF DeleteReconcile, LocalsType, LocalsMatchPc, HoldsId, Recorded, Goto, Return, Adding, Listing
    <3> QED BY <2>2, <3>2, <3>3, <3>4 DEF Cleared
  <2> QED BY <2>1, <2>2, OutsideKeeps
<1>3. CASE BeginStop(w)
  <2>1. Outside(w)
    BY <1>3 DEF BeginStop, Outside, LocalsType, Goto, Return, locals, tmux, ShutdownPositions, RunnerPositions
  <2>2. shutdownRequested /\ Cleared => Cleared'
    BY <1>3 DEF BeginStop, Cleared, Adding, Listing, LocalsType, Goto, Return, locals, tmux, mgr, Recorded
  <2> QED BY <2>1, <2>2, OutsideKeeps
<1>4. CASE AwaitTransition(w)
  <2>1. Outside(w)
    BY <1>4 DEF AwaitTransition, Outside, LocalsType, Goto, Return, locals, tmux, ShutdownPositions, RunnerPositions
  <2>2. shutdownRequested /\ Cleared => Cleared'
    BY <1>4 DEF AwaitTransition, Cleared, Adding, Listing, LocalsType, Goto, Return, locals, tmux, mgr, Recorded
  <2> QED BY <2>1, <2>2, OutsideKeeps
<1>5. CASE DeleteWoken(w)
  <2>1. Outside(w)
    BY <1>5 DEF DeleteWoken, Outside, LocalsType, Goto, Return, locals, tmux, ShutdownPositions, RunnerPositions
  <2>2. shutdownRequested /\ Cleared => Cleared'
    BY <1>5 DEF DeleteWoken, Cleared, Adding, Listing, LocalsType, Goto, Return, locals, tmux, mgr, Recorded
  <2> QED BY <2>1, <2>2, OutsideKeeps
<1>6. CASE DeleteReadsOutcome(w)
  <2>1. Outside(w)
    BY <1>6 DEF DeleteReadsOutcome, Outside, LocalsType, Goto, Return, locals, tmux, ShutdownPositions, RunnerPositions
  <2>2. shutdownRequested /\ Cleared => Cleared'
    BY <1>6 DEF DeleteReadsOutcome, Cleared, Adding, Listing, LocalsType, Goto, Return, locals, tmux, mgr, Recorded
  <2> QED BY <2>1, <2>2, OutsideKeeps
<1>7. CASE StopSession(w)
  <2>1. Outside(w)
    BY <1>7 DEF StopSession, Stopped, Outside, LocalsType, Goto, Return, locals, tmux, ShutdownPositions, RunnerPositions
  <2>2. shutdownRequested /\ Cleared => Cleared'
    BY <1>7 DEF StopSession, Stopped, Cleared, Adding, Listing, LocalsType, Goto, Return, locals, tmux, mgr, Recorded
  <2> QED BY <2>1, <2>2, OutsideKeeps
<1>8. CASE FinishStop(w)
  <2>1. Outside(w)
    BY <1>8 DEF FinishStop, Outside, LocalsType, Goto, Return, locals, tmux, ShutdownPositions, RunnerPositions
  <2>2. shutdownRequested /\ Cleared => Cleared'
    BY <1>8 DEF FinishStop, Cleared, Adding, Listing, LocalsType, Goto, Return, locals, tmux, mgr, Recorded
  <2> QED BY <2>1, <2>2, OutsideKeeps
<1>9. CASE FinishUnconfirmedStop(w)
  <2>1. Outside(w)
    BY <1>9 DEF FinishUnconfirmedStop, Outside, LocalsType, Goto, Return, locals, tmux, ShutdownPositions, RunnerPositions
  <2>2. shutdownRequested /\ Cleared => Cleared'
    BY <1>9 DEF FinishUnconfirmedStop, Cleared, Adding, Listing, LocalsType, Goto, Return, locals, tmux, mgr, Recorded
  <2> QED BY <2>1, <2>2, OutsideKeeps
<1>10. CASE RemoveStoppedRuntime(w)
  <2>1. Outside(w)
    BY <1>10 DEF RemoveStoppedRuntime, Outside, LocalsType, Goto, Return, locals, tmux, ShutdownPositions, RunnerPositions
  <2>2. shutdownRequested /\ Cleared => Cleared'
    BY <1>10 DEF RemoveStoppedRuntime, Cleared, Adding, Listing, LocalsType, Goto, Return, locals, tmux, mgr, Recorded
  <2> QED BY <2>1, <2>2, OutsideKeeps
<1>11. CASE StopUnknown(w)
  <2>1. Outside(w)
    BY <1>11 DEF StopUnknown, Stopped, Outside, LocalsType, Goto, Return, locals, tmux, ShutdownPositions, RunnerPositions
  <2>2. shutdownRequested /\ Cleared => Cleared'
    BY <1>11 DEF StopUnknown, Stopped, Cleared, Adding, Listing, LocalsType, Goto, Return, locals, tmux, mgr, Recorded
  <2> QED BY <2>1, <2>2, OutsideKeeps
<1> QED BY <1>1, <1>2, <1>3, <1>4, <1>5, <1>6, <1>7, <1>8, <1>9, <1>10, <1>11 DEF DeleteStep

LEMMA ProxyKeepsFinal ==
    ASSUME Inv, NEW w \in Workers, ProxyStep(w)
    PROVE  ShutdownInv'
<1> USE DEF Inv, TypeInv
<1>1. CASE ProxyKnown(w)
  <2>1. Outside(w)
    BY <1>1 DEF ProxyKnown, Outside, LocalsType, Goto, Return, locals, tmux, ShutdownPositions, RunnerPositions
  <2>2. shutdownRequested /\ Cleared => Cleared'
    BY <1>1 DEF ProxyKnown, Cleared, Adding, Listing, LocalsType, Goto, Return, locals, tmux, mgr, Recorded
  <2> QED BY <2>1, <2>2, OutsideKeeps
<1>2. CASE ProxyDiscover(w)
  <2>1. Outside(w)
    BY <1>2 DEF ProxyDiscover, Discover, Visible, Outside, LocalsType, Goto, Return, locals, tmux, ShutdownPositions, RunnerPositions
  <2>2. shutdownRequested /\ Cleared => Cleared'
    BY <1>2 DEF ProxyDiscover, Discover, Visible, Cleared, Adding, Listing, LocalsType, Goto, Return, locals, tmux, mgr, Recorded
  <2> QED BY <2>1, <2>2, OutsideKeeps
<1>3. CASE ProxyReconcile(w)
  <2>1. Outside(w)
    BY <1>3 DEF ProxyReconcile, Outside, LocalsType, Goto, Return, locals, tmux, ShutdownPositions, RunnerPositions
  <2>2. ASSUME Cleared PROVE Cleared'
    <3>1. Reconciled({})
      BY <1>3, <2>2 DEF ProxyReconcile, Cleared, Listing
    <3>2. Recorded' = {} /\ proxies' = {}
      BY <2>2, <3>1, NothingReconciled DEF Cleared
    <3>3. live' = {} /\ dirs' = {}
      BY <1>3, <2>2 DEF ProxyReconcile, StaleRuntimeRemoved, Cleared, tmux
    <3>4. pc'[w] \notin Adding \cup Listing /\ \A v \in Workers \ {w} : pc'[v] = pc[v] /\ seen'[v] = seen[v]
      BY <1>3, <2>2, <3>2 DEF ProxyReconcile, LocalsType, LocalsMatchPc, HoldsId, Recorded, Goto, Return, Adding, Listing
    <3> QED BY <2>2, <3>2, <3>3, <3>4 DEF Cleared
  <2> QED BY <2>1, <2>2, OutsideKeeps
<1>4. CASE ProxySocket(w)
  <2>1. Outside(w)
    BY <1>4 DEF ProxySocket, Outside, LocalsType, Goto, Return, locals, tmux, ShutdownPositions, RunnerPositions
  <2>2. shutdownRequested /\ Cleared => Cleared'
    BY <1>4 DEF ProxySocket, Cleared, Adding, Listing, LocalsType, Goto, Return, locals, tmux, mgr, Recorded
  <2> QED BY <2>1, <2>2, OutsideKeeps
<1>5. CASE EvictIfDead(w)
  <2>1. Outside(w)
    BY <1>5 DEF EvictIfDead, EvictActive, Outside, LocalsType, Goto, Return, locals, tmux, ShutdownPositions, RunnerPositions
  <2>2. shutdownRequested /\ Cleared => Cleared'
    BY <1>5 DEF EvictIfDead, EvictActive, Cleared, Adding, Listing, LocalsType, Goto, Return, locals, tmux, mgr, Recorded
  <2> QED BY <2>1, <2>2, OutsideKeeps
<1>6. CASE ProxyCheck(w)
  <2>1. Outside(w)
    BY <1>6 DEF ProxyCheck, ProxyHandler, IsActive, Outside, LocalsType, Goto, Return, locals, tmux, ShutdownPositions, RunnerPositions
  <2>2. shutdownRequested /\ Cleared => Cleared'
    BY <1>6 DEF ProxyCheck, ProxyHandler, IsActive, Cleared, Adding, Listing, LocalsType, Goto, Return, locals, tmux, mgr, Recorded
  <2> QED BY <2>1, <2>2, OutsideKeeps
<1>7. CASE ProxyVerify(w)
  <2>1. Outside(w)
    BY <1>7 DEF ProxyVerify, EvictActive, IsActive, Outside, LocalsType, Goto, Return, locals, tmux, ShutdownPositions, RunnerPositions
  <2>2. shutdownRequested /\ Cleared => Cleared'
    BY <1>7 DEF ProxyVerify, EvictActive, IsActive, Cleared, Adding, Listing, LocalsType, Goto, Return, locals, tmux, mgr, Recorded
  <2> QED BY <2>1, <2>2, OutsideKeeps
<1>8. CASE ProxyRemovesRuntime(w)
  <2>1. Outside(w)
    BY <1>8 DEF ProxyRemovesRuntime, Outside, LocalsType, Goto, Return, locals, tmux, ShutdownPositions, RunnerPositions
  <2>2. shutdownRequested /\ Cleared => Cleared'
    BY <1>8 DEF ProxyRemovesRuntime, Cleared, Adding, Listing, LocalsType, Goto, Return, locals, tmux, mgr, Recorded
  <2> QED BY <2>1, <2>2, OutsideKeeps
<1>9. CASE ProxyFinal(w)
  <2>1. Outside(w)
    BY <1>9 DEF ProxyFinal, ProxyHandler, IsActive, Outside, LocalsType, Goto, Return, locals, tmux, ShutdownPositions, RunnerPositions
  <2>2. shutdownRequested /\ Cleared => Cleared'
    BY <1>9 DEF ProxyFinal, ProxyHandler, IsActive, Cleared, Adding, Listing, LocalsType, Goto, Return, locals, tmux, mgr, Recorded
  <2> QED BY <2>1, <2>2, OutsideKeeps
<1> QED BY <1>1, <1>2, <1>3, <1>4, <1>5, <1>6, <1>7, <1>8, <1>9 DEF ProxyStep

LEMMA ListKeepsFinal ==
    ASSUME Inv, NEW w \in Workers, ListDiscover(w) \/ ListReconcile(w)
    PROVE  ShutdownInv'
<1> USE DEF Inv, TypeInv
<1>1. CASE ListDiscover(w)
  <2>1. Outside(w)
    BY <1>1 DEF ListDiscover, Discover, Visible, Outside, LocalsType, Goto, Return, locals, tmux, ShutdownPositions, RunnerPositions
  <2>2. shutdownRequested /\ Cleared => Cleared'
    BY <1>1 DEF ListDiscover, Discover, Visible, Cleared, Adding, Listing, LocalsType, Goto, Return, locals, tmux, mgr, Recorded
  <2> QED BY <2>1, <2>2, OutsideKeeps
<1>2. CASE ListReconcile(w)
  <2>1. Outside(w)
    BY <1>2 DEF ListReconcile, Outside, LocalsType, Goto, Return, locals, tmux, ShutdownPositions, RunnerPositions
  <2>2. ASSUME Cleared PROVE Cleared'
    <3>1. Reconciled({})
      BY <1>2, <2>2 DEF ListReconcile, Cleared, Listing
    <3>2. Recorded' = {} /\ proxies' = {}
      BY <2>2, <3>1, NothingReconciled DEF Cleared
    <3>3. live' = {} /\ dirs' = {}
      BY <1>2, <2>2 DEF ListReconcile, StaleRuntimeRemoved, Cleared, tmux
    <3>4. pc'[w] \notin Adding \cup Listing /\ \A v \in Workers \ {w} : pc'[v] = pc[v] /\ seen'[v] = seen[v]
      BY <1>2, <2>2, <3>2 DEF ListReconcile, LocalsType, LocalsMatchPc, HoldsId, Recorded, Goto, Return, Adding, Listing
    <3> QED BY <2>2, <3>2, <3>3, <3>4 DEF Cleared
  <2> QED BY <2>1, <2>2, OutsideKeeps
<1> QED BY <1>1, <1>2

LEMMA ShutdownKeepsFinal ==
    ASSUME Inv, NEW w \in Workers, ShutdownStep(w)
    PROVE  ShutdownInv'
<1> USE DEF Inv, TypeInv, ShutdownInv, LocalsType, WorldType, RunnerPositions, ShutdownPositions, shut
<1>0. pc[w] \in ShutdownPositions /\ shutdownRequested /\ UNCHANGED shutdownRequested
  BY DEF ShutdownStep, ShutdownBegin, ShutdownWoken, ShutdownInterrupt, ShutdownKill, ShutdownClear,
     ShutdownEnd, FlagUp
<1>1. FlagUp'
  BY <1>0 DEF FlagUp
<1>2. CASE ShutdownBegin(w)
  <2>1. OneRunner'
    BY <1>2 DEF ShutdownBegin, OneRunner, Goto, Return, locals
  <2>2. KilledFirst'
    BY <1>2 DEF ShutdownBegin, KilledFirst, Goto, Return, tmux
  <2>3. Cleared => Cleared'
    BY <1>2 DEF ShutdownBegin, Cleared, Adding, Listing, Goto, Return, locals, tmux, mgr, Recorded
  <2>4. Final'
    BY <1>2, <2>3 DEF ShutdownBegin, Final, OneRunner, Goto, Return
  <2> QED BY <1>1, <2>1, <2>2, <2>4
<1>3. CASE ShutdownWoken(w)
  <2>1. OneRunner'
    BY <1>3 DEF ShutdownWoken, OneRunner, Goto, Return
  <2>2. KilledFirst'
    BY <1>3 DEF ShutdownWoken, KilledFirst, Goto, Return, tmux
  <2>3. Cleared => Cleared'
    BY <1>3 DEF ShutdownWoken, Cleared, Adding, Listing, Goto, Return, tmux, mgr, Recorded
  <2>4. Final'
    BY <1>3, <2>3 DEF ShutdownWoken, Final, Goto, Return
  <2> QED BY <1>1, <2>1, <2>2, <2>4
<1>4. CASE ShutdownInterrupt(w)
  <2>1. OneRunner' /\ KilledFirst'
    BY <1>4 DEF ShutdownInterrupt, OneRunner, KilledFirst, Goto, tmux
  <2>2. Final'
    BY <1>4 DEF ShutdownInterrupt, Final, OneRunner, Goto
  <2> QED BY <1>1, <2>1, <2>2
<1>5. CASE ShutdownKill(w)
  <2>1. OneRunner'
    BY <1>5 DEF ShutdownKill, OneRunner, Goto
  <2>2. KilledFirst'
    BY <1>5 DEF ShutdownKill, KilledFirst, OneRunner, Goto
  <2>3. Final'
    BY <1>5 DEF ShutdownKill, Final, OneRunner, Goto
  <2> QED BY <1>1, <2>1, <2>2, <2>3
<1>6. CASE ShutdownClear(w)
  <2>1. OneRunner' /\ KilledFirst'
    BY <1>6 DEF ShutdownClear, OneRunner, KilledFirst, Goto, tmux
  <2>2. pc'[w] = "sDone" => Cleared'
    <3> SUFFICES ASSUME pc'[w] = "sDone"
                 PROVE  Cleared'
      OBVIOUS
    <3>1. \A v \in Workers : v # w => pc[v] \notin HoldsCommandMu
      BY <1>6 DEF ShutdownClear, CommandsSerialized, HoldsCommandMu
    <3>2. \A v \in Workers : pc'[v] \notin Adding \cup Listing
      BY <1>6, <3>1 DEF ShutdownClear, Goto, Adding, Listing, HoldsCommandMu
    <3>3. live' = {} /\ dirs' = {} /\ proxies' = {} /\ Recorded' = {}
      BY <1>6 DEF ShutdownClear, KilledFirst, Goto, tmux, Recorded
    <3> QED BY <3>2, <3>3 DEF Cleared
  <2>3. \A v \in Workers : pc'[v] = "sDone" => v = w
    BY <1>6 DEF ShutdownClear, OneRunner, Goto
  <2>4. shutdown' # "complete"
    BY <1>6 DEF ShutdownClear, OneRunner
  <2>5. Final'
    BY <2>2, <2>3, <2>4 DEF Final
  <2> QED BY <1>1, <2>1, <2>5
<1>7. CASE ShutdownEnd(w)
  <2>1. OneRunner'
    BY <1>7 DEF ShutdownEnd, OneRunner, Goto, Return
  <2>2. KilledFirst'
    BY <1>7 DEF ShutdownEnd, KilledFirst, Goto, Return, tmux
  <2>3. Cleared => Cleared'
    BY <1>7 DEF ShutdownEnd, Cleared, Adding, Listing, Goto, Return, tmux, mgr, Recorded
  <2>4. Final'
    BY <1>7, <2>3 DEF ShutdownEnd, Final, OneRunner, Goto, Return
  <2> QED BY <1>1, <2>1, <2>2, <2>4
<1> QED BY <1>2, <1>3, <1>4, <1>5, <1>6, <1>7 DEF ShutdownStep

LEMMA RequestKeepsFinal ==
    ASSUME Inv, NEW w \in Workers, Request(w) \/ Cancel(w)
    PROVE  ShutdownInv'
<1> USE DEF Inv, TypeInv, LocalsType, ShutdownPositions, RunnerPositions
<1>1. CASE StartShutdown(w)
  <2> USE DEF ShutdownInv
  <2>1. FlagUp'
    BY <1>1 DEF StartShutdown, FlagUp
  <2>2. OneRunner' /\ KilledFirst'
    BY <1>1 DEF StartShutdown, OneRunner, KilledFirst, Goto, tmux
  <2>3. Cleared => Cleared'
    BY <1>1 DEF StartShutdown, Cleared, Adding, Listing, Goto, locals, tmux, mgr, Recorded
  <2>4. Final'
    BY <1>1, <2>3 DEF StartShutdown, Final, Goto
  <2> QED BY <2>1, <2>2, <2>4
<1>2. CASE Cancel(w)
  <2>1. Outside(w)
    BY <1>2 DEF Cancel, Outside, Goto, Return, tmux
  <2>2. Cleared => Cleared'
    BY <1>2 DEF Cancel, Cleared, Adding, Listing, Goto, Return, tmux, mgr, Recorded
  <2> QED BY <2>1, <2>2, OutsideKeeps
<1>3. CASE Request(w) /\ ~StartShutdown(w)
  <2>1. Outside(w)
    BY <1>3 DEF Request, StartCreate, StartDelete, StartProxy, StartList, Outside, Goto, tmux
  <2>2. ~shutdownRequested
    BY <1>3 DEF Request, StartCreate, StartDelete, StartProxy, StartList
  <2> QED BY <2>1, <2>2, OutsideKeeps
<1> QED BY <1>1, <1>2, <1>3

-----------------------------------------------------------------------------
LEMMA FinalStep == Inv /\ [Next]_vars => ShutdownInv'
<1> SUFFICES ASSUME Inv, [Next]_vars
             PROVE  ShutdownInv'
  OBVIOUS
<1>1. ASSUME NEW w \in Workers, Running(Request(w) \/ Cancel(w) \/ Progress(w))
      PROVE  ShutdownInv'
  BY <1>1, RequestKeepsFinal, CreateKeepsFinal, DeleteKeepsFinal, ProxyKeepsFinal, ListKeepsFinal,
     ShutdownKeepsFinal DEF Running, Progress
<1>2. CASE Crash
  BY <1>2 DEF Crash, ShutdownInv, FlagUp, OneRunner, KilledFirst, Final, RunnerPositions, ShutdownPositions
<1>3. CASE Initialize \/ (\E i \in Ids : Exit(i)) \/ UNCHANGED vars
  <2>1. /\ UNCHANGED <<instances, proxies, pc, seen, shutdown, shutdownRequested>>
        /\ live' \subseteq live /\ dirs' \subseteq dirs
    BY <1>3 DEF Initialize, Exit, vars, mgr, locals, shut
  <2> QED BY <2>1 DEF Inv, ShutdownInv, FlagUp, OneRunner, KilledFirst, Final, Cleared, Recorded
<1> QED BY <1>1, <1>2, <1>3 DEF Next

\* Once a shutdown has completed no session, record, proxy or runtime
\* directory is left, and none comes back from what was under way.
THEOREM ShutdownStaysFinal == Spec => []ShutdownIsFinal
<1>1. Init => ShutdownInv
  BY DEF Init, ShutdownInv, FlagUp, OneRunner, KilledFirst, Final, RunnerPositions, ShutdownPositions
<1>2. Inv => ShutdownIsFinal
  BY DEF Inv, ShutdownInv, Final, Cleared, ShutdownIsFinal
<1>3. TypeInv /\ TypeInv' /\ CommandsSerialized /\ CommandsSerialized' /\ ShutdownInv /\ [Next]_vars
      => ShutdownInv'
  BY FinalStep DEF Inv
<1> QED BY <1>1, <1>2, <1>3, TypeInvariant, CommandMuSerializes, PTL DEF Spec, Inv

-----------------------------------------------------------------------------
(***************************************************************************)
(* Who may end a transition: proofs that a launching or stopping record    *)
(* has exactly one goroutine that will close its channel, and that only    *)
(* active records have a cached proxy. From that: what List, Proxy,        *)
(* Delete, a failed launch and a shutdown clean up is never in use, and    *)
(* MaxServers bounds the records.                                          *)
(***************************************************************************)

OwnerPositions == LaunchPositions \cup StopPositions

Owns(w, i, g) == pc[w] \in OwnerPositions /\ target[w] = i /\ held[w] = g

(* The record of an owner is in transition and its channel is open. *)
OwnersWork ==
    \A w \in Workers :
        /\ pc[w] \in OwnerPositions => Mine(w).open
        /\ pc[w] \in LaunchPositions => Mine(w).phase = "launching"
        /\ pc[w] \in StopPositions => Mine(w).phase = "stopping"

OwnersDistinct ==
    \A i \in Ids, g \in Gens : \A v, w \in Workers : Owns(v, i, g) /\ Owns(w, i, g) => v = w

OpenOwned ==
    \A i \in Ids, g \in Gens : rec[i][g].open => \E w \in Workers : Owns(w, i, g)

OwnersInv == OwnersWork /\ OwnersDistinct /\ OpenOwned

(* Only ids that some Create allocated are ever heard of. *)
AllocatedOnly ==
    /\ \A i \in live \cup Recorded : folderOf[i] # Nobody
    /\ \A w \in Workers : \A i \in seen[w] : folderOf[i] # Nobody
    /\ \A w \in Workers : pc[w] \in HoldsId => folderOf[target[w]] # Nobody

MapsInv == AllocatedOnly /\ TransitionMatchesPhase /\ ProxiesOnlyActive

OwnerInv == TypeInv /\ OwnersInv /\ MapsInv

-----------------------------------------------------------------------------
(* What a goroutine that does not begin or end a transition leaves alone.  *)

LEMMA PositionsApart ==
    /\ LaunchPositions \cap StopPositions = {}
    /\ OwnerPositions \subseteq HoldsRecord
    /\ HoldsRecord \subseteq HoldsId
BY DEF LaunchPositions, StopPositions, OwnerPositions, HoldsRecord, HoldsId

\* A record in transition stays as it is and no other becomes one.
SameTransitions ==
    \A i \in Ids, g \in Gens :
        /\ rec[i][g].open => rec'[i][g] = rec[i][g]
        /\ rec'[i][g].open => rec[i][g].open

\* The owners stay owners of what they own.
SameOwners ==
    \A w \in Workers :
        /\ pc'[w] \in LaunchPositions <=> pc[w] \in LaunchPositions
        /\ pc'[w] \in StopPositions <=> pc[w] \in StopPositions
        /\ pc[w] \in OwnerPositions => target'[w] = target[w] /\ held'[w] = held[w]

LEMMA KeepsOwners ==
    ASSUME TypeInv, OwnersInv, SameTransitions, SameOwners
    PROVE  OwnersInv'
<1>1. \A w \in Workers, i \in Ids, g \in Gens : Owns(w, i, g)' <=> Owns(w, i, g)
  BY DEF SameOwners, Owns, OwnerPositions
<1>2. OwnersWork'
  <2> SUFFICES ASSUME NEW w \in Workers, pc'[w] \in OwnerPositions
               PROVE  /\ Mine(w)'.open
                      /\ pc'[w] \in LaunchPositions => Mine(w)'.phase = "launching"
                      /\ pc'[w] \in StopPositions => Mine(w)'.phase = "stopping"
    BY DEF OwnersWork, OwnerPositions
  <2>1. pc[w] \in OwnerPositions /\ target'[w] = target[w] /\ held'[w] = held[w]
    BY DEF SameOwners, OwnerPositions
  <2>2. target[w] \in Ids /\ held[w] \in Gens
    BY <2>1, PositionsApart DEF TypeInv, LocalsMatchPc
  <2>3. Mine(w)' = Mine(w) /\ Mine(w).open
    BY <2>1, <2>2 DEF OwnersInv, OwnersWork, SameTransitions, Mine
  <2> QED BY <2>1, <2>3 DEF OwnersInv, OwnersWork, SameOwners
<1>3. OwnersDistinct'
  BY <1>1 DEF OwnersInv, OwnersDistinct
<1>4. OpenOwned'
  BY <1>1 DEF OwnersInv, OpenOwned, SameTransitions
<1> QED BY <1>2, <1>3, <1>4 DEF OwnersInv

LEMMA ReconciledTransitions ==
    ASSUME TypeInv, OwnersInv, NEW list \in SUBSET Ids, Reconciled(list)
    PROVE  SameTransitions
<1> SUFFICES ASSUME NEW i \in Ids, NEW g \in Gens
             PROVE  /\ rec[i][g].open => rec'[i][g] = rec[i][g]
                    /\ rec'[i][g].open => rec[i][g].open
  BY DEF SameTransitions
<1>1. rec[i][g].open => rec[i][g].phase \in Transient
  <2> SUFFICES ASSUME rec[i][g].open PROVE rec[i][g].phase \in Transient
    OBVIOUS
  <2>1. PICK w \in Workers : Owns(w, i, g)
    BY DEF OwnersInv, OpenOwned
  <2> QED BY <2>1 DEF Owns, OwnersInv, OwnersWork, OwnerPositions, Mine, Transient
<1>2. \A j \in Adopted(list) : rec[j][FreshGen(j)].phase = "free"
  BY FreshGenIsFree DEF Reconciled, Adopted
<1>3. \/ rec'[i][g] = Found /\ i \in Adopted(list) /\ g = FreshGen(i)
      \/ rec'[i][g] = Verified(rec[i][g]) /\ rec[i][g].phase = "active"
      \/ rec'[i][g] = rec[i][g]
  <2> DEFINE R(j, h) == CASE j \in Adopted(list) /\ h = FreshGen(j) -> Found
                          [] j \in list /\ h = instances[j] /\ rec[j][h].phase = "active"
                               -> Verified(rec[j][h])
                          [] OTHER -> rec[j][h]
  <2>1. rec' = [j \in Ids |-> [h \in Gens |-> R(j, h)]]
    BY DEF Reconciled
  <2>2. \/ R(i, g) = Found /\ i \in Adopted(list) /\ g = FreshGen(i)
        \/ R(i, g) = Verified(rec[i][g]) /\ rec[i][g].phase = "active"
        \/ R(i, g) = rec[i][g]
    OBVIOUS
  <2> HIDE DEF R
  <2> QED BY <2>1, <2>2
<1> QED BY <1>1, <1>2, <1>3 DEF Found, Verified, NewRecord, Transient

\* The locals of the other goroutines are their own.
OthersStay(w) ==
    \A v \in Workers \ {w} : pc'[v] = pc[v] /\ target'[v] = target[v] /\ held'[v] = held[v]

LEMMA BeginsTransition ==
    ASSUME TypeInv, OwnersInv, NEW w \in Workers, NEW i \in Ids, NEW g \in Gens, NEW r \in Record,
           rec' = [rec EXCEPT ![i][g] = r], r.open, ~rec[i][g].open,
           pc[w] \notin OwnerPositions, OthersStay(w), target'[w] = i, held'[w] = g,
           \/ pc'[w] \in LaunchPositions /\ r.phase = "launching"
           \/ pc'[w] \in StopPositions /\ r.phase = "stopping"
    PROVE  OwnersInv'
<1>1. /\ rec'[i][g] = r
      /\ \A j \in Ids, h \in Gens : j # i \/ h # g => rec'[j][h] = rec[j][h]
  BY DEF TypeInv, MapsType
<1>2. Owns(w, i, g)' /\ \A v \in Workers \ {w} : \A j \in Ids, h \in Gens : Owns(v, j, h)' <=> Owns(v, j, h)
  BY DEF Owns, OthersStay, OwnerPositions
<1>3. \A v \in Workers : pc[v] \in OwnerPositions => target[v] \in Ids /\ held[v] \in Gens
  BY PositionsApart DEF TypeInv, LocalsMatchPc
<1>4. \A v \in Workers : ~Owns(v, i, g)
  BY DEF OwnersInv, OwnersWork, Owns, Mine
<1>5. OwnersWork'
  <2>1. CASE pc'[w] \in LaunchPositions
    <3>1. ASSUME NEW v \in Workers, v # w, pc[v] \in OwnerPositions
          PROVE  rec'[target[v]][held[v]] = Mine(v)
      BY <1>1, <1>3, <1>4, <3>1 DEF Owns, Mine
    <3> QED BY <1>1, <2>1, <3>1, PositionsApart DEF OwnersInv, OwnersWork, OthersStay, OwnerPositions, Mine
  <2>2. CASE pc'[w] \in StopPositions
    <3>1. ASSUME NEW v \in Workers, v # w, pc[v] \in OwnerPositions
          PROVE  rec'[target[v]][held[v]] = Mine(v)
      BY <1>1, <1>3, <1>4, <3>1 DEF Owns, Mine
    <3> QED BY <1>1, <2>2, <3>1, PositionsApart DEF OwnersInv, OwnersWork, OthersStay, OwnerPositions, Mine
  <2> QED BY <2>1, <2>2
<1>6. OwnersDistinct'
  <2> SUFFICES ASSUME NEW j \in Ids, NEW h \in Gens, NEW u \in Workers, NEW v \in Workers,
                      Owns(u, j, h)', Owns(v, j, h)'
               PROVE  u = v
    BY DEF OwnersDistinct
  <2>1. CASE u # w /\ v # w
    BY <1>2, <2>1 DEF OwnersInv, OwnersDistinct
  <2>2. CASE u = w \/ v = w
    <3>1. j = i /\ h = g
      BY <2>2 DEF Owns
    <3> QED BY <1>2, <1>4, <2>2, <3>1
  <2> QED BY <2>1, <2>2
<1>7. OpenOwned'
  <2> SUFFICES ASSUME NEW j \in Ids, NEW h \in Gens, rec'[j][h].open
               PROVE  \E v \in Workers : Owns(v, j, h)'
    BY DEF OpenOwned
  <2>1. CASE j = i /\ h = g
    BY <1>2, <2>1
  <2>2. CASE j # i \/ h # g
    <3>1. PICK v \in Workers : Owns(v, j, h)
      BY <1>1, <2>2 DEF OwnersInv, OpenOwned
    <3>2. v # w
      BY <3>1 DEF Owns
    <3> QED BY <1>2, <3>1, <3>2
  <2> QED BY <2>1, <2>2
<1> QED BY <1>5, <1>6, <1>7 DEF OwnersInv

LEMMA EndsTransition ==
    ASSUME TypeInv, OwnersInv, NEW w \in Workers, NEW phase, NEW err, NEW fresh,
           Closed(target[w], held[w], phase, err, fresh),
           pc[w] \in OwnerPositions, pc'[w] \notin OwnerPositions, OthersStay(w)
    PROVE  OwnersInv'
<1> DEFINE i == target[w]  g == held[w]
<1>0. i \in Ids /\ g \in Gens
  BY PositionsApart DEF TypeInv, LocalsMatchPc
<1>1. /\ ~rec'[i][g].open
      /\ \A j \in Ids, h \in Gens : j # i \/ h # g => rec'[j][h] = rec[j][h]
  BY <1>0 DEF TypeInv, MapsType, Closed, AfterTransition, NewRecord
<1>2. Owns(w, i, g) /\ \A v \in Workers \ {w} : \A j \in Ids, h \in Gens : Owns(v, j, h)' <=> Owns(v, j, h)
  BY DEF Owns, OthersStay, OwnerPositions
<1>3. \A v \in Workers : pc[v] \in OwnerPositions => target[v] \in Ids /\ held[v] \in Gens
  BY PositionsApart DEF TypeInv, LocalsMatchPc
<1>4. \A v \in Workers \ {w} : ~Owns(v, i, g)
  BY <1>0, <1>2 DEF OwnersInv, OwnersDistinct
<1> HIDE DEF i, g
<1>5. OwnersWork'
  <2>1. ASSUME NEW v \in Workers, v # w, pc[v] \in OwnerPositions
        PROVE  rec'[target[v]][held[v]] = Mine(v)
    BY <1>1, <1>3, <1>4, <2>1 DEF Owns, Mine
  <2> QED BY <2>1 DEF OwnersInv, OwnersWork, OthersStay, OwnerPositions, Mine
<1>6. OwnersDistinct'
  <2>1. \A j \in Ids, h \in Gens : ~Owns(w, j, h)'
    BY DEF Owns
  <2> QED BY <1>2, <2>1 DEF OwnersInv, OwnersDistinct
<1>7. OpenOwned'
  <2> SUFFICES ASSUME NEW j \in Ids, NEW h \in Gens, rec'[j][h].open
               PROVE  \E v \in Workers : Owns(v, j, h)'
    BY DEF OpenOwned
  <2>1. j # i \/ h # g
    BY <1>1
  <2>2. PICK v \in Workers : Owns(v, j, h)
    BY <1>1, <2>1 DEF OwnersInv, OpenOwned
  <2>3. v # w
    BY <1>2, <2>1, <2>2 DEF Owns
  <2> QED BY <1>2, <2>2, <2>3
<1> QED BY <1>5, <1>6, <1>7 DEF OwnersInv

-----------------------------------------------------------------------------
(* Every step of a goroutine keeps the owners.                             *)

LEMMA OpenInTransition ==
    ASSUME OwnersInv, NEW i \in Ids, NEW g \in Gens, rec[i][g].open
    PROVE  rec[i][g].phase \in Transient
<1>1. PICK w \in Workers : Owns(w, i, g)
  BY DEF OwnersInv, OpenOwned
<1> QED BY <1>1 DEF Owns, OwnersInv, OwnersWork, OwnerPositions, Mine, Transient

LEMMA CreateKeepsOwners ==
    ASSUME OwnerInv, NEW w \in Workers, CreateStep(w)
    PROVE  OwnersInv'
<1> USE DEF OwnerInv, TypeInv
<1>0. UNCHANGED rec => SameTransitions
  BY DEF SameTransitions
<1>1. CASE Reserve(w)
  <2>1. SameOwners
    BY <1>1 DEF Reserve, Discover, SameOwners, LocalsType, Goto, Return, locals, OwnerPositions, LaunchPositions, StopPositions
  <2> QED BY <1>1, <2>1, <1>0, KeepsOwners DEF Reserve, mgr
<1>2. CASE ReserveReconcile(w)
  <2>1. SameOwners
    BY <1>2 DEF ReserveReconcile, SameOwners, LocalsType, Goto, Return, locals, OwnerPositions, LaunchPositions, StopPositions
  <2>2. SameTransitions
    BY <1>2, ReconciledTransitions DEF ReserveReconcile, LocalsType
  <2> QED BY <2>1, <2>2, KeepsOwners
<1>3. CASE Decide(w)
  <2>1. SameOwners
    BY <1>3 DEF Decide, SameOwners, LocalsType, Goto, Return, locals, OwnerPositions, LaunchPositions, StopPositions
  <2> QED BY <1>3, <2>1, <1>0, KeepsOwners DEF Decide, mgr
<1>4. CASE GetChannel(w)
  <2>1. SameOwners
    BY <1>4 DEF GetChannel, SameOwners, LocalsType, Goto, Return, locals, OwnerPositions, LaunchPositions, StopPositions
  <2> QED BY <1>4, <2>1, <1>0, KeepsOwners DEF GetChannel, mgr
<1>5. CASE CreateWoken(w)
  <2>1. SameOwners
    BY <1>5 DEF CreateWoken, SameOwners, LocalsType, Goto, Return, locals, OwnerPositions, LaunchPositions, StopPositions
  <2> QED BY <1>5, <2>1, <1>0, KeepsOwners DEF CreateWoken, mgr
<1>6. CASE CreateReadsOutcome(w)
  <2>1. SameOwners
    BY <1>6 DEF CreateReadsOutcome, SameOwners, LocalsType, Goto, Return, locals, OwnerPositions, LaunchPositions, StopPositions
  <2> QED BY <1>6, <2>1, <1>0, KeepsOwners DEF CreateReadsOutcome, mgr
<1>7. CASE Insert(w)
  <2>1. CASE UNCHANGED rec /\ Return(w)
    <3>1. SameOwners
      BY <1>7, <2>1 DEF Insert, SameOwners, LocalsType, Goto, Return, locals, OwnerPositions, LaunchPositions, StopPositions
    <3> QED BY <2>1, <3>1, <1>0, KeepsOwners
  <2>2. CASE ~(UNCHANGED rec /\ Return(w))
    <3>1. PICK i \in Ids :
            /\ HasFree(i)
            /\ rec' = [rec EXCEPT ![i][FreshGen(i)] = Launching]
            /\ target' = [target EXCEPT ![w] = i]
            /\ held' = [held EXCEPT ![w] = FreshGen(i)]
            /\ Goto(w, "launch")
      BY <1>7, <2>2 DEF Insert
    <3>2. FreshGen(i) \in Gens /\ rec[i][FreshGen(i)].phase = "free"
      BY <3>1, FreshGenIsFree
    <3>3. ~rec[i][FreshGen(i)].open
      BY <3>2, OpenInTransition DEF Transient
    <3>4. Launching \in Record /\ Launching.open /\ Launching.phase = "launching"
      BY RecordTypes DEF Launching, NewRecord
    <3>5. /\ OthersStay(w) /\ target'[w] = i /\ held'[w] = FreshGen(i)
          /\ pc[w] \notin OwnerPositions /\ pc'[w] \in LaunchPositions
      BY <1>7, <3>1 DEF Insert, OthersStay, LocalsType, Goto, OwnerPositions, LaunchPositions, StopPositions
    <3> QED BY <3>1, <3>2, <3>3, <3>4, <3>5, BeginsTransition
  <2> QED BY <2>1, <2>2
<1>8. CASE Launch(w)
  <2>1. SameOwners
    BY <1>8 DEF Launch, SameOwners, LocalsType, Goto, Return, locals, OwnerPositions, LaunchPositions, StopPositions
  <2> QED BY <1>8, <2>1, <1>0, KeepsOwners DEF Launch, mgr
<1>9. CASE Tag(w)
  <2>1. SameOwners
    BY <1>9 DEF Tag, SameOwners, LocalsType, Goto, Return, locals, OwnerPositions, LaunchPositions, StopPositions
  <2> QED BY <1>9, <2>1, <1>0, KeepsOwners DEF Tag, mgr
<1>10. CASE Verify(w)
  <2>1. SameOwners
    BY <1>10 DEF Verify, SameOwners, LocalsType, Goto, Return, locals, OwnerPositions, LaunchPositions, StopPositions
  <2> QED BY <1>10, <2>1, <1>0, KeepsOwners DEF Verify, mgr
<1>11. CASE Relink(w)
  <2>1. SameOwners
    BY <1>11 DEF Relink, SameOwners, LocalsType, Goto, Return, locals, OwnerPositions, LaunchPositions, StopPositions
  <2>2. SameTransitions
    BY <1>11, ReconciledTransitions DEF Relink, LocalsType
  <2> QED BY <2>1, <2>2, KeepsOwners
<1>12. CASE BecomesReady(w)
  <2>1. SameOwners
    BY <1>12 DEF BecomesReady, SameOwners, LocalsType, Goto, Return, locals, OwnerPositions, LaunchPositions, StopPositions
  <2> QED BY <1>12, <2>1, <1>0, KeepsOwners DEF BecomesReady, mgr
<1>13. CASE NotReady(w)
  <2>1. SameOwners
    BY <1>13 DEF NotReady, SameOwners, LocalsType, Goto, Return, locals, OwnerPositions, LaunchPositions, StopPositions
  <2> QED BY <1>13, <2>1, <1>0, KeepsOwners DEF NotReady, mgr
<1>14. CASE Activate(w)
  <2>1. CASE shutdownRequested
    <3>1. SameOwners
      BY <1>14, <2>1 DEF Activate, SameOwners, LocalsType, Goto, Return, locals, OwnerPositions, LaunchPositions, StopPositions
    <3> QED BY <1>14, <2>1, <3>1, <1>0, KeepsOwners DEF Activate
  <2>2. CASE ~shutdownRequested
    <3>1. OthersStay(w) /\ pc[w] \in OwnerPositions /\ pc'[w] \notin OwnerPositions
      BY <1>14, <2>2 DEF Activate, OthersStay, LocalsType, Goto, Return, OwnerPositions, LaunchPositions, StopPositions
    <3> QED BY <1>14, <2>2, <3>1, EndsTransition DEF Activate
  <2> QED BY <2>1, <2>2
<1>15. CASE FailLaunch(w)
  <2>1. SameOwners
    BY <1>15 DEF FailLaunch, SameOwners, LocalsType, Goto, Return, locals, OwnerPositions, LaunchPositions, StopPositions
  <2> QED BY <1>15, <2>1, <1>0, KeepsOwners DEF FailLaunch, mgr
<1>16. CASE Cleanup(w)
  <2>1. SameOwners
    BY <1>16 DEF Cleanup, SameOwners, LocalsType, Goto, Return, locals, OwnerPositions, LaunchPositions, StopPositions
  <2> QED BY <1>16, <2>1, <1>0, KeepsOwners DEF Cleanup, mgr
<1>17. CASE Unlaunch(w)
  <2>1. OthersStay(w) /\ pc[w] \in OwnerPositions /\ pc'[w] \notin OwnerPositions
    BY <1>17 DEF Unlaunch, OthersStay, LocalsType, Goto, Return, OwnerPositions, LaunchPositions, StopPositions
  <2> QED BY <1>17, <2>1, EndsTransition DEF Unlaunch
<1>18. CASE MarkFailed(w)
  <2>1. OthersStay(w) /\ pc[w] \in OwnerPositions /\ pc'[w] \notin OwnerPositions
    BY <1>18 DEF MarkFailed, OthersStay, LocalsType, Goto, Return, OwnerPositions, LaunchPositions, StopPositions
  <2> QED BY <1>18, <2>1, EndsTransition DEF MarkFailed
<1> QED BY <1>1, <1>2, <1>3, <1>4, <1>5, <1>6, <1>7, <1>8, <1>9, <1>10, <1>11, <1>12, <1>13, <1>14, <1>15, <1>16, <1>17, <1>18 DEF CreateStep

LEMMA DeleteKeepsOwners ==
    ASSUME OwnerInv, NEW w \in Workers, DeleteStep(w)
    PROVE  OwnersInv'
<1> USE DEF OwnerInv, TypeInv
<1>0. UNCHANGED rec => SameTransitions
  BY DEF SameTransitions
<1>1. CASE DeleteLookup(w)
  <2>1. SameOwners
    BY <1>1 DEF DeleteLookup, SameOwners, LocalsType, Goto, Return, locals, OwnerPositions, LaunchPositions, StopPositions
  <2> QED BY <1>1, <2>1, <1>0, KeepsOwners DEF DeleteLookup, mgr
<1>2. CASE DeleteReconcile(w)
  <2>1. SameOwners
    BY <1>2 DEF DeleteReconcile, SameOwners, LocalsType, Goto, Return, locals, OwnerPositions, LaunchPositions, StopPositions
  <2>2. SameTransitions
    BY <1>2, ReconciledTransitions DEF DeleteReconcile, LocalsType
  <2> QED BY <2>1, <2>2, KeepsOwners
<1>3. CASE BeginStop(w)
  <2>1. target[w] \in Ids /\ held[w] \in Gens
    BY <1>3 DEF BeginStop, LocalsMatchPc, HoldsId, HoldsRecord
  <2>2. ~Mine(w).open
    BY <1>3, <2>1, OpenInTransition DEF BeginStop, Stoppable, Mine, Transient
  <2>3. BeingStopped(Mine(w)) \in Record /\ BeingStopped(Mine(w)).open /\ BeingStopped(Mine(w)).phase = "stopping"
    BY <2>1, RecordTypes DEF Mine, MapsType, BeingStopped, NewRecord
  <2>4. /\ OthersStay(w) /\ target'[w] = target[w] /\ held'[w] = held[w]
        /\ pc[w] \notin OwnerPositions /\ pc'[w] \in StopPositions
    BY <1>3 DEF BeginStop, OthersStay, LocalsType, locals, Goto, OwnerPositions, LaunchPositions, StopPositions
  <2> QED BY <1>3, <2>1, <2>2, <2>3, <2>4, BeginsTransition DEF BeginStop, Mine
<1>4. CASE AwaitTransition(w)
  <2>1. SameOwners
    BY <1>4 DEF AwaitTransition, SameOwners, LocalsType, Goto, Return, locals, OwnerPositions, LaunchPositions, StopPositions
  <2> QED BY <1>4, <2>1, <1>0, KeepsOwners DEF AwaitTransition, mgr
<1>5. CASE DeleteWoken(w)
  <2>1. SameOwners
    BY <1>5 DEF DeleteWoken, SameOwners, LocalsType, Goto, Return, locals, OwnerPositions, LaunchPositions, StopPositions
  <2> QED BY <1>5, <2>1, <1>0, KeepsOwners DEF DeleteWoken, mgr
<1>6. CASE DeleteReadsOutcome(w)
  <2>1. SameOwners
    BY <1>6 DEF DeleteReadsOutcome, SameOwners, LocalsType, Goto, Return, locals, OwnerPositions, LaunchPositions, StopPositions
  <2> QED BY <1>6, <2>1, <1>0, KeepsOwners DEF DeleteReadsOutcome, mgr
<1>7. CASE StopSession(w)
  <2>1. SameOwners
    BY <1>7 DEF StopSession, SameOwners, LocalsType, Goto, Return, locals, OwnerPositions, LaunchPositions, StopPositions
  <2> QED BY <1>7, <2>1, <1>0, KeepsOwners DEF StopSession, mgr
<1>8. CASE FinishStop(w)
  <2>1. OthersStay(w) /\ pc[w] \in OwnerPositions /\ pc'[w] \notin OwnerPositions
    BY <1>8 DEF FinishStop, OthersStay, LocalsType, Goto, Return, OwnerPositions, LaunchPositions, StopPositions
  <2> QED BY <1>8, <2>1, EndsTransition DEF FinishStop
<1>9. CASE FinishUnconfirmedStop(w)
  <2>1. OthersStay(w) /\ pc[w] \in OwnerPositions /\ pc'[w] \notin OwnerPositions
    BY <1>9 DEF FinishUnconfirmedStop, OthersStay, LocalsType, Goto, Return, OwnerPositions, LaunchPositions, StopPositions
  <2> QED BY <1>9, <2>1, EndsTransition DEF FinishUnconfirmedStop
<1>10. CASE RemoveStoppedRuntime(w)
  <2>1. SameOwners
    BY <1>10 DEF RemoveStoppedRuntime, SameOwners, LocalsType, Goto, Return, locals, OwnerPositions, LaunchPositions, StopPositions
  <2> QED BY <1>10, <2>1, <1>0, KeepsOwners DEF RemoveStoppedRuntime, mgr
<1>11. CASE StopUnknown(w)
  <2>1. SameOwners
    BY <1>11 DEF StopUnknown, SameOwners, LocalsType, Goto, Return, locals, OwnerPositions, LaunchPositions, StopPositions
  <2> QED BY <1>11, <2>1, <1>0, KeepsOwners DEF StopUnknown, mgr
<1> QED BY <1>1, <1>2, <1>3, <1>4, <1>5, <1>6, <1>7, <1>8, <1>9, <1>10, <1>11 DEF DeleteStep

LEMMA ProxyKeepsOwners ==
    ASSUME OwnerInv, NEW w \in Workers, ProxyStep(w)
    PROVE  OwnersInv'
<1> USE DEF OwnerInv, TypeInv
<1>0. UNCHANGED rec => SameTransitions
  BY DEF SameTransitions
<1>1. CASE ProxyKnown(w)
  <2>1. SameOwners
    BY <1>1 DEF ProxyKnown, SameOwners, LocalsType, Goto, Return, locals, OwnerPositions, LaunchPositions, StopPositions
  <2> QED BY <1>1, <2>1, <1>0, KeepsOwners DEF ProxyKnown, mgr
<1>2. CASE ProxyDiscover(w)
  <2>1. SameOwners
    BY <1>2 DEF ProxyDiscover, Discover, SameOwners, LocalsType, Goto, Return, locals, OwnerPositions, LaunchPositions, StopPositions
  <2> QED BY <1>2, <2>1, <1>0, KeepsOwners DEF ProxyDiscover, mgr
<1>3. CASE ProxyReconcile(w)
  <2>1. SameOwners
    BY <1>3 DEF ProxyReconcile, SameOwners, LocalsType, Goto, Return, locals, OwnerPositions, LaunchPositions, StopPositions
  <2>2. SameTransitions
    BY <1>3, ReconciledTransitions DEF ProxyReconcile, LocalsType
  <2> QED BY <2>1, <2>2, KeepsOwners
<1>4. CASE ProxySocket(w)
  <2>1. SameOwners
    BY <1>4 DEF ProxySocket, SameOwners, LocalsType, Goto, Return, locals, OwnerPositions, LaunchPositions, StopPositions
  <2> QED BY <1>4, <2>1, <1>0, KeepsOwners DEF ProxySocket, mgr
<1>5. CASE EvictIfDead(w)
  <2>1. SameOwners
    BY <1>5 DEF EvictIfDead, SameOwners, LocalsType, Goto, Return, locals, OwnerPositions, LaunchPositions, StopPositions
  <2> QED BY <1>5, <2>1, <1>0, KeepsOwners DEF EvictIfDead, mgr
<1>6. CASE ProxyCheck(w)
  <2>1. SameOwners
    BY <1>6 DEF ProxyCheck, ProxyHandler, SameOwners, LocalsType, Goto, Return, locals, OwnerPositions, LaunchPositions, StopPositions
  <2> QED BY <1>6, <2>1, <1>0, KeepsOwners DEF ProxyCheck, mgr
<1>7. CASE ProxyVerify(w)
  <2>1. SameOwners
    BY <1>7 DEF ProxyVerify, SameOwners, LocalsType, Goto, Return, locals, OwnerPositions, LaunchPositions, StopPositions
  <2>2. SameTransitions
    <3>1. CASE UNCHANGED rec
      BY <3>1, <1>0
    <3>2. CASE ~UNCHANGED rec
      <4> DEFINE i == target[w]
      <4>1. i \in Ids /\ instances[i] \in Gens /\ IsActive(i)
            /\ rec' = [rec EXCEPT ![i][instances[i]] = Verified(Current(i))]
        BY <1>7, <3>2 DEF ProxyVerify, mgr, IsActive, Recorded, MapsType
      <4>2. ~Current(i).open /\ ~Verified(Current(i)).open
        BY <4>1, OpenInTransition DEF IsActive, Current, Transient, Verified, NewRecord
      <4> HIDE DEF i
      <4> QED BY <4>1, <4>2 DEF SameTransitions, MapsType, Current
    <3> QED BY <3>1, <3>2
  <2> QED BY <2>1, <2>2, KeepsOwners
<1>8. CASE ProxyRemovesRuntime(w)
  <2>1. SameOwners
    BY <1>8 DEF ProxyRemovesRuntime, SameOwners, LocalsType, Goto, Return, locals, OwnerPositions, LaunchPositions, StopPositions
  <2> QED BY <1>8, <2>1, <1>0, KeepsOwners DEF ProxyRemovesRuntime, mgr
<1>9. CASE ProxyFinal(w)
  <2>1. SameOwners
    BY <1>9 DEF ProxyFinal, ProxyHandler, SameOwners, LocalsType, Goto, Return, locals, OwnerPositions, LaunchPositions, StopPositions
  <2> QED BY <1>9, <2>1, <1>0, KeepsOwners DEF ProxyFinal, mgr
<1> QED BY <1>1, <1>2, <1>3, <1>4, <1>5, <1>6, <1>7, <1>8, <1>9 DEF ProxyStep

LEMMA ListKeepsOwners ==
    ASSUME OwnerInv, NEW w \in Workers, ListDiscover(w) \/ ListReconcile(w)
    PROVE  OwnersInv'
<1> USE DEF OwnerInv, TypeInv
<1>0. UNCHANGED rec => SameTransitions
  BY DEF SameTransitions
<1>1. CASE ListDiscover(w)
  <2>1. SameOwners
    BY <1>1 DEF ListDiscover, Discover, SameOwners, LocalsType, Goto, Return, locals, OwnerPositions, LaunchPositions, StopPositions
  <2> QED BY <1>1, <2>1, <1>0, KeepsOwners DEF ListDiscover, mgr
<1>2. CASE ListReconcile(w)
  <2>1. SameOwners
    BY <1>2 DEF ListReconcile, SameOwners, LocalsType, Goto, Return, locals, OwnerPositions, LaunchPositions, StopPositions
  <2>2. SameTransitions
    BY <1>2, ReconciledTransitions DEF ListReconcile, LocalsType
  <2> QED BY <2>1, <2>2, KeepsOwners
<1> QED BY <1>1, <1>2

LEMMA ShutdownKeepsOwners ==
    ASSUME OwnerInv, NEW w \in Workers, ShutdownStep(w)
    PROVE  OwnersInv'
<1> USE DEF OwnerInv, TypeInv
<1>0. UNCHANGED rec => SameTransitions
  BY DEF SameTransitions
<1>1. CASE ShutdownBegin(w)
  <2>1. SameOwners
    BY <1>1 DEF ShutdownBegin, SameOwners, LocalsType, Goto, Return, locals, OwnerPositions, LaunchPositions, StopPositions
  <2> QED BY <1>1, <2>1, <1>0, KeepsOwners DEF ShutdownBegin, mgr
<1>2. CASE ShutdownWoken(w)
  <2>1. SameOwners
    BY <1>2 DEF ShutdownWoken, SameOwners, LocalsType, Goto, Return, locals, OwnerPositions, LaunchPositions, StopPositions
  <2> QED BY <1>2, <2>1, <1>0, KeepsOwners DEF ShutdownWoken, mgr
<1>3. CASE ShutdownInterrupt(w)
  <2>1. SameOwners
    BY <1>3 DEF ShutdownInterrupt, SameOwners, LocalsType, Goto, Return, locals, OwnerPositions, LaunchPositions, StopPositions
  <2> QED BY <1>3, <2>1, <1>0, KeepsOwners DEF ShutdownInterrupt, mgr
<1>4. CASE ShutdownKill(w)
  <2>1. SameOwners
    BY <1>4 DEF ShutdownKill, SameOwners, LocalsType, Goto, Return, locals, OwnerPositions, LaunchPositions, StopPositions
  <2> QED BY <1>4, <2>1, <1>0, KeepsOwners DEF ShutdownKill, mgr
<1>5. CASE ShutdownClear(w)
  <2>1. SameOwners
    BY <1>5 DEF ShutdownClear, SameOwners, LocalsType, Goto, Return, locals, OwnerPositions, LaunchPositions, StopPositions
  <2> QED BY <1>5, <2>1, <1>0, KeepsOwners DEF ShutdownClear, mgr
<1>6. CASE ShutdownEnd(w)
  <2>1. SameOwners
    BY <1>6 DEF ShutdownEnd, SameOwners, LocalsType, Goto, Return, locals, OwnerPositions, LaunchPositions, StopPositions
  <2> QED BY <1>6, <2>1, <1>0, KeepsOwners DEF ShutdownEnd, mgr
<1> QED BY <1>1, <1>2, <1>3, <1>4, <1>5, <1>6 DEF ShutdownStep

LEMMA RequestKeepsOwners ==
    ASSUME OwnerInv, NEW w \in Workers, Request(w) \/ Cancel(w)
    PROVE  OwnersInv'
<1> USE DEF OwnerInv, TypeInv
<1>1. UNCHANGED rec
  BY DEF Request, Cancel, StartCreate, StartDelete, StartProxy, StartList, StartShutdown, mgr
<1>2. SameTransitions
  BY <1>1 DEF SameTransitions
<1>3. SameOwners
  BY DEF Request, Cancel, StartCreate, StartDelete, StartProxy, StartList, StartShutdown, SameOwners, LocalsType, Goto, Return, locals, OwnerPositions, LaunchPositions, StopPositions
<1> QED BY <1>2, <1>3, KeepsOwners

-----------------------------------------------------------------------------
(* Every step keeps the maps: what is recorded was allocated, a record in  *)
(* the map is open exactly while in transition, a proxy's record is active. *)

LEMMA ReconciledMaps ==
    ASSUME OwnerInv, NEW list \in SUBSET Ids, Reconciled(list)
    PROVE  /\ TransitionMatchesPhase' /\ ProxiesOnlyActive'
           /\ Recorded' \subseteq Recorded \cup list
<1> USE DEF OwnerInv, TypeInv
<1> DEFINE R(j, h) == CASE j \in Adopted(list) /\ h = FreshGen(j) -> Found
                        [] j \in list /\ h = instances[j] /\ rec[j][h].phase = "active"
                             -> Verified(rec[j][h])
                        [] OTHER -> rec[j][h]
           I(j) == CASE j \in Adopted(list) -> FreshGen(j)
                     [] j \in Evicted(list) -> 0
                     [] OTHER -> instances[j]
<1>1. /\ rec' = [j \in Ids |-> [h \in Gens |-> R(j, h)]]
      /\ instances' = [j \in Ids |-> I(j)]
      /\ proxies' = proxies \ Evicted(list)
  BY DEF Reconciled
<1>2. \A i \in Adopted(list) : FreshGen(i) \in Gens
  BY FreshGenIsFree DEF Reconciled, Adopted
<1>3. ASSUME NEW i \in Adopted(list)
      PROVE  /\ instances'[i] = FreshGen(i) /\ rec'[i][instances'[i]] = Found
             /\ i \in list /\ i \notin Recorded
  <2>1. i \in Ids /\ i \in list /\ i \notin Recorded
    BY DEF Adopted
  <2>2. I(i) = FreshGen(i) /\ R(i, FreshGen(i)) = Found
    BY <2>1, <1>2, GensAssumption DEF Recorded, Evicted
  <2> HIDE DEF I, R
  <2> QED BY <1>1, <1>2, <2>1, <2>2
<1>4. ASSUME NEW i \in Ids, i \notin Adopted(list), instances'[i] # 0
      PROVE  /\ instances'[i] = instances[i] /\ i \in Recorded /\ i \notin Evicted(list)
             /\ rec'[i][instances[i]].phase = Current(i).phase
             /\ rec'[i][instances[i]].open = Current(i).open
  <2>1. I(i) = instances[i] /\ i \notin Evicted(list)
    <3>1. instances'[i] = I(i)
      BY <1>1
    <3> QED BY <1>4, <3>1
  <2>2. instances'[i] = instances[i] /\ i \in Recorded /\ instances[i] \in Gens
    <3>1. instances'[i] = I(i)
      BY <1>1
    <3> QED BY <1>4, <2>1, <3>1 DEF Recorded, MapsType
  <2>3. R(i, instances[i]) = rec[i][instances[i]] \/ R(i, instances[i]) = Verified(rec[i][instances[i]])
    BY <1>4
  <2>4. rec'[i][instances[i]] = R(i, instances[i])
    <3> HIDE DEF R
    <3> QED BY <1>1, <2>2
  <2> HIDE DEF R
  <2> QED BY <2>1, <2>2, <2>3, <2>4 DEF Current, Verified, NewRecord
<1> HIDE DEF R, I
<1>5. Recorded' \subseteq Recorded \cup list
  BY <1>3, <1>4 DEF Recorded
<1>6. TransitionMatchesPhase'
  BY <1>3, <1>4 DEF MapsInv, TransitionMatchesPhase, Recorded, Current, Transient, Found, NewRecord
<1>7. ProxiesOnlyActive'
  <2> SUFFICES ASSUME NEW i \in proxies'
               PROVE  IsActive(i)'
    BY DEF ProxiesOnlyActive
  <2>1. i \in proxies /\ i \in Ids /\ IsActive(i) /\ i \notin Evicted(list)
    BY <1>1 DEF MapsInv, ProxiesOnlyActive, MapsType
  <2>2. instances'[i] = instances[i] /\ i \notin Adopted(list)
    <3>1. i \in Recorded /\ i \notin Adopted(list)
      BY <2>1 DEF IsActive, Adopted
    <3>2. I(i) = instances[i]
      BY <2>1, <3>1 DEF I
    <3> QED BY <1>1, <2>1, <3>1, <3>2
  <2> QED BY <1>4, <2>1, <2>2 DEF IsActive, Recorded, Current
<1> QED BY <1>5, <1>6, <1>7

LEMMA CreateKeepsMaps ==
    ASSUME OwnerInv, NEW w \in Workers, CreateStep(w)
    PROVE  TransitionMatchesPhase' /\ ProxiesOnlyActive'
<1> USE DEF OwnerInv, TypeInv, MapsInv
<1>0. UNCHANGED mgr => TransitionMatchesPhase' /\ ProxiesOnlyActive'
  BY DEF mgr, TransitionMatchesPhase, ProxiesOnlyActive, IsActive, Recorded, Current, Transient
<1>1. CASE Reserve(w) \/ Decide(w) \/ GetChannel(w) \/ CreateWoken(w) \/ CreateReadsOutcome(w) \/ Launch(w) \/ Tag(w) \/ Verify(w) \/ BecomesReady(w) \/ NotReady(w) \/ FailLaunch(w) \/ Cleanup(w)
  BY <1>0, <1>1 DEF Reserve, Decide, GetChannel, CreateWoken, CreateReadsOutcome, Launch, Tag, Verify, BecomesReady, NotReady, FailLaunch, Cleanup
<1>2. CASE ReserveReconcile(w)
  BY <1>2, ReconciledMaps DEF ReserveReconcile, LocalsType
<1>3. CASE Insert(w)
  <2>1. CASE UNCHANGED <<instances, rec>>
    BY <1>0, <1>3, <2>1 DEF Insert, mgr
  <2>2. CASE ~UNCHANGED <<instances, rec>>
    <3>1. PICK i \in Ids : /\ folderOf[i] = Nobody /\ HasFree(i)
                           /\ instances' = [instances EXCEPT ![i] = FreshGen(i)]
                           /\ rec' = [rec EXCEPT ![i][FreshGen(i)] = Launching]
      BY <1>3, <2>2 DEF Insert
    <3>2. FreshGen(i) \in Gens /\ i \notin proxies /\ UNCHANGED proxies
      BY <1>3, <3>1, FreshGenIsFree DEF Insert, AllocatedOnly, ProxiesOnlyActive, IsActive
    <3>3. /\ instances'[i] = FreshGen(i) /\ rec'[i][FreshGen(i)] = Launching
          /\ \A j \in Ids \ {i} : instances'[j] = instances[j] /\ rec'[j] = rec[j]
      BY <3>1, <3>2 DEF MapsType
    <3> QED BY <3>2, <3>3 DEF MapsType, Launching, NewRecord, TransitionMatchesPhase, ProxiesOnlyActive, IsActive, Recorded, Current, Transient
  <2> QED BY <2>1, <2>2
<1>4. CASE Relink(w)
  BY <1>4, ReconciledMaps DEF Relink, LocalsType
<1>5. CASE Activate(w)
  <2>0. CASE UNCHANGED rec
    BY <1>0, <1>5, <2>0 DEF Activate, mgr
  <2>1. target[w] \in Ids /\ held[w] \in Gens
    BY <1>5 DEF Activate, MapsType, LocalsMatchPc, HoldsId, HoldsRecord, LaunchPositions, StopPositions
  <2>2. Mine(w).open /\ Mine(w).phase \in Transient
    BY <1>5 DEF Activate, OwnersInv, OwnersWork, OwnerPositions, LaunchPositions, StopPositions, Transient
  <2>3. CASE ~UNCHANGED rec
    <3>1. UNCHANGED <<instances, proxies>>
      BY <1>5 DEF Activate
    <3>2. /\ rec'[target[w]][held[w]].phase = "active" /\ ~rec'[target[w]][held[w]].open
         /\ \A i \in Ids, g \in Gens : i # target[w] \/ g # held[w] => rec'[i][g] = rec[i][g]
      BY <1>5, <2>3, <2>1 DEF Activate, Closed, AfterTransition, NewRecord, MapsType
    <3>3. ASSUME NEW i \in Recorded, i # target[w] \/ instances[i] # held[w]
         PROVE  Current(i)' = Current(i)
      BY <3>1, <3>2, <3>3 DEF MapsType, Current, Recorded
    <3> QED BY <2>1, <2>2, <3>1, <3>2, <3>3 DEF Mine, TransitionMatchesPhase, ProxiesOnlyActive, IsActive, Recorded, Current, Transient
  <2> QED BY <2>0, <2>3
<1>6. CASE Unlaunch(w)
  <2>1. target[w] \in Ids /\ held[w] \in Gens
    BY <1>6 DEF Unlaunch, MapsType, LocalsMatchPc, HoldsId, HoldsRecord, LaunchPositions, StopPositions
  <2>2. Mine(w).open /\ Mine(w).phase \in Transient
    BY <1>6 DEF Unlaunch, OwnersInv, OwnersWork, OwnerPositions, LaunchPositions, StopPositions, Transient
  <2>3. /\ instances' = [instances EXCEPT ![target[w]] = 0] /\ proxies' = proxies \ {target[w]}
        /\ \A i \in Ids \ {target[w]} : \A g \in Gens : rec'[i][g] = rec[i][g]
    BY <1>6, <2>1 DEF Unlaunch, Closed, MapsType
  <2>4. \A i \in Ids : instances'[i] # 0 => i # target[w] /\ instances'[i] = instances[i] /\ rec'[i][instances[i]] = Current(i)
    BY <2>1, <2>3 DEF MapsType, Current
  <2> QED BY <2>1, <2>3, <2>4 DEF MapsType, TransitionMatchesPhase, ProxiesOnlyActive, IsActive, Recorded, Current, Transient
<1>7. CASE MarkFailed(w)
  <2>1. target[w] \in Ids /\ held[w] \in Gens
    BY <1>7 DEF MarkFailed, MapsType, LocalsMatchPc, HoldsId, HoldsRecord, LaunchPositions, StopPositions
  <2>2. Mine(w).open /\ Mine(w).phase \in Transient
    BY <1>7 DEF MarkFailed, OwnersInv, OwnersWork, OwnerPositions, LaunchPositions, StopPositions, Transient
  <2>3. UNCHANGED <<instances, proxies>>
    BY <1>7 DEF MarkFailed
  <2>4. /\ rec'[target[w]][held[w]].phase = "failed" /\ ~rec'[target[w]][held[w]].open
       /\ \A i \in Ids, g \in Gens : i # target[w] \/ g # held[w] => rec'[i][g] = rec[i][g]
    BY <1>7, <2>1 DEF MarkFailed, Closed, AfterTransition, NewRecord, MapsType
  <2>5. ASSUME NEW i \in Recorded, i # target[w] \/ instances[i] # held[w]
       PROVE  Current(i)' = Current(i)
    BY <2>3, <2>4, <2>5 DEF MapsType, Current, Recorded
  <2> QED BY <2>1, <2>2, <2>3, <2>4, <2>5 DEF Mine, TransitionMatchesPhase, ProxiesOnlyActive, IsActive, Recorded, Current, Transient
<1> QED BY <1>1, <1>2, <1>3, <1>4, <1>5, <1>6, <1>7 DEF CreateStep

LEMMA DeleteKeepsMaps ==
    ASSUME OwnerInv, NEW w \in Workers, DeleteStep(w)
    PROVE  TransitionMatchesPhase' /\ ProxiesOnlyActive'
<1> USE DEF OwnerInv, TypeInv, MapsInv
<1>0. UNCHANGED mgr => TransitionMatchesPhase' /\ ProxiesOnlyActive'
  BY DEF mgr, TransitionMatchesPhase, ProxiesOnlyActive, IsActive, Recorded, Current, Transient
<1>1. CASE DeleteLookup(w) \/ AwaitTransition(w) \/ DeleteWoken(w) \/ DeleteReadsOutcome(w) \/ StopSession(w) \/ RemoveStoppedRuntime(w) \/ StopUnknown(w)
  BY <1>0, <1>1 DEF DeleteLookup, AwaitTransition, DeleteWoken, DeleteReadsOutcome, StopSession, RemoveStoppedRuntime, StopUnknown
<1>2. CASE DeleteReconcile(w)
  BY <1>2, ReconciledMaps DEF DeleteReconcile, LocalsType
<1>3. CASE BeginStop(w)
  <2>1. target[w] \in Ids /\ held[w] \in Gens
    BY <1>3 DEF BeginStop, LocalsMatchPc, HoldsId, HoldsRecord
  <2>2. /\ rec'[target[w]][held[w]].phase = "stopping" /\ rec'[target[w]][held[w]].open
        /\ \A i \in Ids, g \in Gens : i # target[w] \/ g # held[w] => rec'[i][g] = rec[i][g]
        /\ UNCHANGED instances /\ proxies' = proxies \ {target[w]}
    BY <1>3, <2>1 DEF BeginStop, BeingStopped, NewRecord, MapsType
  <2>3. ASSUME NEW i \in Recorded, i # target[w] \/ instances[i] # held[w]
        PROVE  Current(i)' = Current(i)
    BY <2>2, <2>3 DEF MapsType, Current, Recorded
  <2> QED BY <2>1, <2>2, <2>3 DEF TransitionMatchesPhase, ProxiesOnlyActive, IsActive, Recorded, Current, Transient
<1>4. CASE FinishStop(w)
  <2>1. target[w] \in Ids /\ held[w] \in Gens
    BY <1>4 DEF FinishStop, MapsType, LocalsMatchPc, HoldsId, HoldsRecord, LaunchPositions, StopPositions
  <2>2. Mine(w).open /\ Mine(w).phase \in Transient
    BY <1>4 DEF FinishStop, OwnersInv, OwnersWork, OwnerPositions, LaunchPositions, StopPositions, Transient
  <2>3. /\ instances' = [instances EXCEPT ![target[w]] = 0] /\ proxies' = proxies \ {target[w]}
        /\ \A i \in Ids \ {target[w]} : \A g \in Gens : rec'[i][g] = rec[i][g]
    BY <1>4, <2>1 DEF FinishStop, Closed, MapsType
  <2>4. \A i \in Ids : instances'[i] # 0 => i # target[w] /\ instances'[i] = instances[i] /\ rec'[i][instances[i]] = Current(i)
    BY <2>1, <2>3 DEF MapsType, Current
  <2> QED BY <2>1, <2>3, <2>4 DEF MapsType, TransitionMatchesPhase, ProxiesOnlyActive, IsActive, Recorded, Current, Transient
<1>5. CASE FinishUnconfirmedStop(w)
  <2>1. target[w] \in Ids /\ held[w] \in Gens
    BY <1>5 DEF FinishUnconfirmedStop, MapsType, LocalsMatchPc, HoldsId, HoldsRecord, LaunchPositions, StopPositions
  <2>2. Mine(w).open /\ Mine(w).phase \in Transient
    BY <1>5 DEF FinishUnconfirmedStop, OwnersInv, OwnersWork, OwnerPositions, LaunchPositions, StopPositions, Transient
  <2>3. UNCHANGED <<instances, proxies>>
    BY <1>5 DEF FinishUnconfirmedStop
  <2>4. /\ rec'[target[w]][held[w]].phase = "active" /\ ~rec'[target[w]][held[w]].open
       /\ \A i \in Ids, g \in Gens : i # target[w] \/ g # held[w] => rec'[i][g] = rec[i][g]
    BY <1>5, <2>1 DEF FinishUnconfirmedStop, Closed, AfterTransition, NewRecord, MapsType
  <2>5. ASSUME NEW i \in Recorded, i # target[w] \/ instances[i] # held[w]
       PROVE  Current(i)' = Current(i)
    BY <2>3, <2>4, <2>5 DEF MapsType, Current, Recorded
  <2> QED BY <2>1, <2>2, <2>3, <2>4, <2>5 DEF Mine, TransitionMatchesPhase, ProxiesOnlyActive, IsActive, Recorded, Current, Transient
<1> QED BY <1>1, <1>2, <1>3, <1>4, <1>5 DEF DeleteStep

LEMMA ProxyKeepsMaps ==
    ASSUME OwnerInv, NEW w \in Workers, ProxyStep(w)
    PROVE  TransitionMatchesPhase' /\ ProxiesOnlyActive'
<1> USE DEF OwnerInv, TypeInv, MapsInv
<1>0. UNCHANGED mgr => TransitionMatchesPhase' /\ ProxiesOnlyActive'
  BY DEF mgr, TransitionMatchesPhase, ProxiesOnlyActive, IsActive, Recorded, Current, Transient
<1>1. CASE ProxyKnown(w) \/ ProxyDiscover(w) \/ ProxySocket(w) \/ ProxyRemovesRuntime(w)
  BY <1>0, <1>1 DEF ProxyKnown, ProxyDiscover, ProxySocket, ProxyRemovesRuntime
<1>2. CASE ProxyReconcile(w)
  BY <1>2, ReconciledMaps DEF ProxyReconcile, LocalsType
<1>3. CASE EvictIfDead(w)
  BY <1>0, <1>3 DEF EvictIfDead, EvictActive, ProxyHandler, MapsType, LocalsMatchPc, HoldsId, TransitionMatchesPhase, ProxiesOnlyActive, IsActive, Recorded, Current, Transient
<1>4. CASE ProxyCheck(w)
  BY <1>0, <1>4 DEF ProxyCheck, EvictActive, ProxyHandler, MapsType, LocalsMatchPc, HoldsId, TransitionMatchesPhase, ProxiesOnlyActive, IsActive, Recorded, Current, Transient
<1>5. CASE ProxyVerify(w)
  <2>1. CASE UNCHANGED rec
    <3>1. CASE UNCHANGED mgr
      BY <1>0, <3>1
    <3>2. CASE ~UNCHANGED mgr
      <4>1. EvictActive(target[w])
        BY <1>5, <2>1, <3>2 DEF ProxyVerify, mgr
      <4> QED BY <2>1, <4>1 DEF EvictActive, MapsType, TransitionMatchesPhase, ProxiesOnlyActive, IsActive, Recorded, Current, Transient
    <3> QED BY <3>1, <3>2
  <2>2. CASE ~UNCHANGED rec
    <3> DEFINE i == target[w]
    <3>1. /\ i \in Recorded /\ UNCHANGED <<instances, proxies>>
          /\ rec' = [rec EXCEPT ![i][instances[i]] = Verified(Current(i))]
      BY <1>5, <2>2 DEF ProxyVerify, mgr, IsActive
    <3>2. \A j \in Recorded : Current(j)'.phase = Current(j).phase /\ Current(j)'.open = Current(j).open
      BY <3>1 DEF Verified, NewRecord, MapsType, Current, Recorded
    <3> QED BY <3>1, <3>2 DEF TransitionMatchesPhase, ProxiesOnlyActive, IsActive, Recorded, Current, Transient
  <2> QED BY <2>1, <2>2
<1>6. CASE ProxyFinal(w)
  BY <1>0, <1>6 DEF ProxyFinal, EvictActive, ProxyHandler, MapsType, LocalsMatchPc, HoldsId, TransitionMatchesPhase, ProxiesOnlyActive, IsActive, Recorded, Current, Transient
<1> QED BY <1>1, <1>2, <1>3, <1>4, <1>5, <1>6 DEF ProxyStep

LEMMA ListKeepsMaps ==
    ASSUME OwnerInv, NEW w \in Workers, ListDiscover(w) \/ ListReconcile(w)
    PROVE  TransitionMatchesPhase' /\ ProxiesOnlyActive'
<1> USE DEF OwnerInv, TypeInv, MapsInv
<1>0. UNCHANGED mgr => TransitionMatchesPhase' /\ ProxiesOnlyActive'
  BY DEF mgr, TransitionMatchesPhase, ProxiesOnlyActive, IsActive, Recorded, Current, Transient
<1>1. CASE ListDiscover(w)
  BY <1>0, <1>1 DEF ListDiscover
<1>2. CASE ListReconcile(w)
  BY <1>2, ReconciledMaps DEF ListReconcile, LocalsType
<1> QED BY <1>1, <1>2

LEMMA ShutdownKeepsMaps ==
    ASSUME OwnerInv, NEW w \in Workers, ShutdownStep(w)
    PROVE  TransitionMatchesPhase' /\ ProxiesOnlyActive'
<1> USE DEF OwnerInv, TypeInv, MapsInv
<1>0. UNCHANGED mgr => TransitionMatchesPhase' /\ ProxiesOnlyActive'
  BY DEF mgr, TransitionMatchesPhase, ProxiesOnlyActive, IsActive, Recorded, Current, Transient
<1>1. CASE ShutdownBegin(w) \/ ShutdownWoken(w) \/ ShutdownInterrupt(w) \/ ShutdownKill(w) \/ ShutdownEnd(w)
  BY <1>0, <1>1 DEF ShutdownBegin, ShutdownWoken, ShutdownInterrupt, ShutdownKill, ShutdownEnd
<1>2. CASE ShutdownClear(w)
  BY <1>0, <1>2 DEF ShutdownClear, EvictActive, ProxyHandler, MapsType, LocalsMatchPc, HoldsId, TransitionMatchesPhase, ProxiesOnlyActive, IsActive, Recorded, Current, Transient
<1> QED BY <1>1, <1>2 DEF ShutdownStep

-----------------------------------------------------------------------------
(* Only allocated ids are in use.                                          *)

\* What a step of w may add to the ids in use.
NoNewIds(w) ==
    /\ UNCHANGED folderOf
    /\ \A i \in live' : i \in live \/ (pc[w] \in HoldsId /\ i = target[w])
    /\ \A i \in Recorded' : i \in Recorded \/ i \in seen[w]
    /\ \A v \in Workers : \A i \in seen'[v] : i \in seen[v] \/ i \in live
    /\ \A v \in Workers : pc'[v] \in HoldsId =>
          \/ pc[v] \in HoldsId /\ target'[v] = target[v]
          \/ target'[v] \in Recorded
          \/ folderOf[target'[v]] # Nobody

LEMMA StillAllocated ==
    ASSUME AllocatedOnly, NEW w \in Workers, NoNewIds(w)
    PROVE  AllocatedOnly'
BY DEF AllocatedOnly, NoNewIds

LEMMA CreateKeepsAllocation ==
    ASSUME OwnerInv, NEW w \in Workers, CreateStep(w)
    PROVE  AllocatedOnly'
<1> USE DEF OwnerInv, TypeInv, MapsInv
<1>1. CASE Reserve(w)
  <2>1. NoNewIds(w)
    BY <1>1 DEF Reserve, Discover, Visible, Recorded, NoNewIds, LocalsType, Goto, Return, locals, tmux, mgr, MapsType, HoldsId, HoldsRecord, LaunchPositions, StopPositions
  <2> QED BY <2>1, StillAllocated
<1>2. CASE ReserveReconcile(w)
  <2>1. \A i \in Recorded' : i \in Recorded \/ i \in seen[w]
    BY <1>2, ReconciledMaps DEF ReserveReconcile, LocalsType
  <2>2. NoNewIds(w)
    BY <1>2, <2>1 DEF ReserveReconcile, NoNewIds, LocalsType, Goto, Return, locals, tmux, mgr, MapsType, HoldsId, HoldsRecord, LaunchPositions, StopPositions
  <2> QED BY <2>2, StillAllocated
<1>3. CASE Decide(w)
  <2>1. NoNewIds(w)
    BY <1>3, SMTT(30) DEF Decide, SameFolder, Recorded, NoNewIds, LocalsType, Goto, Return, locals, tmux, mgr, MapsType, HoldsId, HoldsRecord, LaunchPositions, StopPositions
  <2> QED BY <2>1, StillAllocated
<1>4. CASE GetChannel(w)
  <2>1. NoNewIds(w)
    BY <1>4 DEF GetChannel, Recorded, NoNewIds, LocalsType, Goto, Return, locals, tmux, mgr, MapsType, HoldsId, HoldsRecord, LaunchPositions, StopPositions
  <2> QED BY <2>1, StillAllocated
<1>5. CASE CreateWoken(w)
  <2>1. NoNewIds(w)
    BY <1>5 DEF CreateWoken, Recorded, NoNewIds, LocalsType, Goto, Return, locals, tmux, mgr, MapsType, HoldsId, HoldsRecord, LaunchPositions, StopPositions
  <2> QED BY <2>1, StillAllocated
<1>6. CASE CreateReadsOutcome(w)
  <2>1. NoNewIds(w)
    BY <1>6 DEF CreateReadsOutcome, Recorded, NoNewIds, LocalsType, Goto, Return, locals, tmux, mgr, MapsType, HoldsId, HoldsRecord, LaunchPositions, StopPositions
  <2> QED BY <2>1, StillAllocated
<1>7. CASE Insert(w)
  <2>1. CASE UNCHANGED <<instances, folderOf>> /\ Return(w)
    <3>1. NoNewIds(w)
      BY <1>7, <2>1 DEF Insert, Recorded, NoNewIds, LocalsType, Goto, Return, locals, tmux, mgr, MapsType, HoldsId, HoldsRecord, LaunchPositions, StopPositions
    <3> QED BY <3>1, StillAllocated
  <2>2. CASE ~(UNCHANGED <<instances, folderOf>> /\ Return(w))
    <3>1. PICK i \in Ids : /\ folderOf' = [folderOf EXCEPT ![i] = folder[w]]
                           /\ instances' = [instances EXCEPT ![i] = FreshGen(i)]
                           /\ target' = [target EXCEPT ![w] = i]
      BY <1>7, <2>2 DEF Insert
    <3>2. folder[w] # Nobody /\ UNCHANGED <<live, seen>> /\ Goto(w, "launch")
      BY <1>7, <2>2, NobodyAssumption DEF Insert, LocalsMatchPc, HoldsFolder
    <3>3. \A j \in Ids : folderOf[j] # Nobody => folderOf'[j] # Nobody
      BY <3>1, <3>2 DEF WorldType
    <3>4. \A j \in Recorded' : j \in Recorded \/ j = i
      BY <3>1 DEF Recorded, MapsType
    <3>5. folderOf'[i] # Nobody
      BY <3>1, <3>2 DEF WorldType
    <3>6. \A v \in Workers : pc'[v] \in HoldsId => v = w \/ pc[v] \in HoldsId
      BY <3>2 DEF Goto, LocalsType
    <3>7. target'[w] = i /\ \A v \in Workers \ {w} : target'[v] = target[v]
      BY <3>1 DEF LocalsType
    <3>8. /\ \A v \in Workers : pc[v] \in HoldsId => target[v] \in Ids
          /\ \A v \in Workers : seen[v] \subseteq Ids
          /\ live \cup Recorded \subseteq Ids
      BY DEF LocalsType, LocalsMatchPc, WorldType, Recorded
    <3> QED BY <3>2, <3>3, <3>4, <3>5, <3>6, <3>7, <3>8 DEF AllocatedOnly
  <2> QED BY <2>1, <2>2
<1>8. CASE Launch(w)
  <2>1. NoNewIds(w)
    BY <1>8 DEF Launch, Recorded, NoNewIds, LocalsType, Goto, Return, locals, tmux, mgr, MapsType, HoldsId, HoldsRecord, LaunchPositions, StopPositions
  <2> QED BY <2>1, StillAllocated
<1>9. CASE Tag(w)
  <2>1. NoNewIds(w)
    BY <1>9 DEF Tag, Recorded, NoNewIds, LocalsType, Goto, Return, locals, tmux, mgr, MapsType, HoldsId, HoldsRecord, LaunchPositions, StopPositions
  <2> QED BY <2>1, StillAllocated
<1>10. CASE Verify(w)
  <2>1. NoNewIds(w)
    BY <1>10 DEF Verify, Visible, Recorded, NoNewIds, LocalsType, Goto, Return, locals, tmux, mgr, MapsType, HoldsId, HoldsRecord, LaunchPositions, StopPositions
  <2> QED BY <2>1, StillAllocated
<1>11. CASE Relink(w)
  <2>1. \A i \in Recorded' : i \in Recorded \/ i \in seen[w]
    BY <1>11, ReconciledMaps DEF Relink, LocalsType
  <2>2. NoNewIds(w)
    BY <1>11, <2>1 DEF Relink, NoNewIds, LocalsType, Goto, Return, locals, tmux, mgr, MapsType, HoldsId, HoldsRecord, LaunchPositions, StopPositions
  <2> QED BY <2>2, StillAllocated
<1>12. CASE BecomesReady(w)
  <2>1. NoNewIds(w)
    BY <1>12 DEF BecomesReady, Recorded, NoNewIds, LocalsType, Goto, Return, locals, tmux, mgr, MapsType, HoldsId, HoldsRecord, LaunchPositions, StopPositions
  <2> QED BY <2>1, StillAllocated
<1>13. CASE NotReady(w)
  <2>1. NoNewIds(w)
    BY <1>13 DEF NotReady, Recorded, NoNewIds, LocalsType, Goto, Return, locals, tmux, mgr, MapsType, HoldsId, HoldsRecord, LaunchPositions, StopPositions
  <2> QED BY <2>1, StillAllocated
<1>14. CASE Activate(w)
  <2>1. NoNewIds(w)
    <3>1. CASE Return(w)
      BY <1>14, <3>1 DEF Activate, Recorded, NoNewIds, LocalsType, Goto, Return, locals, tmux, mgr, MapsType, HoldsId, HoldsRecord, LaunchPositions, StopPositions
    <3>2. CASE ~Return(w)
      BY <1>14, <3>2 DEF Activate, Recorded, NoNewIds, LocalsType, Goto, locals, tmux, mgr, MapsType, HoldsId, HoldsRecord, LaunchPositions, StopPositions
    <3> QED BY <3>1, <3>2
  <2> QED BY <2>1, StillAllocated
<1>15. CASE FailLaunch(w)
  <2>1. NoNewIds(w)
    BY <1>15 DEF FailLaunch, Recorded, NoNewIds, LocalsType, Goto, Return, locals, tmux, mgr, MapsType, HoldsId, HoldsRecord, LaunchPositions, StopPositions
  <2> QED BY <2>1, StillAllocated
<1>16. CASE Cleanup(w)
  <2>1. NoNewIds(w)
    BY <1>16 DEF Cleanup, Stopped, Recorded, NoNewIds, LocalsType, Goto, Return, locals, tmux, mgr, MapsType, HoldsId, HoldsRecord, LaunchPositions, StopPositions
  <2> QED BY <2>1, StillAllocated
<1>17. CASE Unlaunch(w)
  <2>1. NoNewIds(w)
    BY <1>17 DEF Unlaunch, Recorded, NoNewIds, LocalsType, Goto, Return, locals, tmux, mgr, MapsType, HoldsId, HoldsRecord, LaunchPositions, StopPositions
  <2> QED BY <2>1, StillAllocated
<1>18. CASE MarkFailed(w)
  <2>1. NoNewIds(w)
    BY <1>18 DEF MarkFailed, Recorded, NoNewIds, LocalsType, Goto, Return, locals, tmux, mgr, MapsType, HoldsId, HoldsRecord, LaunchPositions, StopPositions
  <2> QED BY <2>1, StillAllocated
<1> QED BY <1>1, <1>2, <1>3, <1>4, <1>5, <1>6, <1>7, <1>8, <1>9, <1>10, <1>11, <1>12, <1>13, <1>14, <1>15, <1>16, <1>17, <1>18 DEF CreateStep

LEMMA DeleteKeepsAllocation ==
    ASSUME OwnerInv, NEW w \in Workers, DeleteStep(w)
    PROVE  AllocatedOnly'
<1> USE DEF OwnerInv, TypeInv, MapsInv
<1>1. CASE DeleteLookup(w)
  <2>1. NoNewIds(w)
    BY <1>1 DEF DeleteLookup, Visible, Recorded, NoNewIds, LocalsType, Goto, Return, locals, tmux, mgr, MapsType, HoldsId, HoldsRecord, LaunchPositions, StopPositions
  <2> QED BY <2>1, StillAllocated
<1>2. CASE DeleteReconcile(w)
  <2>1. \A i \in Recorded' : i \in Recorded \/ i \in seen[w]
    BY <1>2, ReconciledMaps DEF DeleteReconcile, LocalsType
  <2>2. NoNewIds(w)
    BY <1>2, <2>1 DEF DeleteReconcile, NoNewIds, LocalsType, Goto, Return, locals, tmux, mgr, MapsType, HoldsId, HoldsRecord, LaunchPositions, StopPositions
  <2> QED BY <2>2, StillAllocated
<1>3. CASE BeginStop(w)
  <2>1. NoNewIds(w)
    BY <1>3 DEF BeginStop, Recorded, NoNewIds, LocalsType, Goto, Return, locals, tmux, mgr, MapsType, HoldsId, HoldsRecord, LaunchPositions, StopPositions
  <2> QED BY <2>1, StillAllocated
<1>4. CASE AwaitTransition(w)
  <2>1. NoNewIds(w)
    BY <1>4 DEF AwaitTransition, Recorded, NoNewIds, LocalsType, Goto, Return, locals, tmux, mgr, MapsType, HoldsId, HoldsRecord, LaunchPositions, StopPositions
  <2> QED BY <2>1, StillAllocated
<1>5. CASE DeleteWoken(w)
  <2>1. NoNewIds(w)
    BY <1>5 DEF DeleteWoken, Recorded, NoNewIds, LocalsType, Goto, Return, locals, tmux, mgr, MapsType, HoldsId, HoldsRecord, LaunchPositions, StopPositions
  <2> QED BY <2>1, StillAllocated
<1>6. CASE DeleteReadsOutcome(w)
  <2>1. NoNewIds(w)
    BY <1>6, SMTT(30) DEF DeleteReadsOutcome, Recorded, NoNewIds, LocalsType, Goto, Return, locals, tmux, mgr, MapsType, HoldsId, HoldsRecord, LaunchPositions, StopPositions
  <2> QED BY <2>1, StillAllocated
<1>7. CASE StopSession(w)
  <2>1. NoNewIds(w)
    BY <1>7 DEF StopSession, Stopped, Recorded, NoNewIds, LocalsType, Goto, Return, locals, tmux, mgr, MapsType, HoldsId, HoldsRecord, LaunchPositions, StopPositions
  <2> QED BY <2>1, StillAllocated
<1>8. CASE FinishStop(w)
  <2>1. NoNewIds(w)
    BY <1>8 DEF FinishStop, Recorded, NoNewIds, LocalsType, Goto, Return, locals, tmux, mgr, MapsType, HoldsId, HoldsRecord, LaunchPositions, StopPositions
  <2> QED BY <2>1, StillAllocated
<1>9. CASE FinishUnconfirmedStop(w)
  <2>1. NoNewIds(w)
    BY <1>9 DEF FinishUnconfirmedStop, Recorded, NoNewIds, LocalsType, Goto, Return, locals, tmux, mgr, MapsType, HoldsId, HoldsRecord, LaunchPositions, StopPositions
  <2> QED BY <2>1, StillAllocated
<1>10. CASE RemoveStoppedRuntime(w)
  <2>1. NoNewIds(w)
    BY <1>10 DEF RemoveStoppedRuntime, Recorded, NoNewIds, LocalsType, Goto, Return, locals, tmux, mgr, MapsType, HoldsId, HoldsRecord, LaunchPositions, StopPositions
  <2> QED BY <2>1, StillAllocated
<1>11. CASE StopUnknown(w)
  <2>1. NoNewIds(w)
    BY <1>11 DEF StopUnknown, Stopped, Recorded, NoNewIds, LocalsType, Goto, Return, locals, tmux, mgr, MapsType, HoldsId, HoldsRecord, LaunchPositions, StopPositions
  <2> QED BY <2>1, StillAllocated
<1> QED BY <1>1, <1>2, <1>3, <1>4, <1>5, <1>6, <1>7, <1>8, <1>9, <1>10, <1>11 DEF DeleteStep

LEMMA ProxyKeepsAllocation ==
    ASSUME OwnerInv, NEW w \in Workers, ProxyStep(w)
    PROVE  AllocatedOnly'
<1> USE DEF OwnerInv, TypeInv, MapsInv
<1>1. CASE ProxyKnown(w)
  <2>1. NoNewIds(w)
    BY <1>1 DEF ProxyKnown, Recorded, NoNewIds, LocalsType, Goto, Return, locals, tmux, mgr, MapsType, HoldsId, HoldsRecord, LaunchPositions, StopPositions
  <2> QED BY <2>1, StillAllocated
<1>2. CASE ProxyDiscover(w)
  <2>1. NoNewIds(w)
    BY <1>2 DEF ProxyDiscover, Discover, Visible, Recorded, NoNewIds, LocalsType, Goto, Return, locals, tmux, mgr, MapsType, HoldsId, HoldsRecord, LaunchPositions, StopPositions
  <2> QED BY <2>1, StillAllocated
<1>3. CASE ProxyReconcile(w)
  <2>1. \A i \in Recorded' : i \in Recorded \/ i \in seen[w]
    BY <1>3, ReconciledMaps DEF ProxyReconcile, LocalsType
  <2>2. NoNewIds(w)
    <3>1. CASE Return(w)
      BY <1>3, <2>1, <3>1 DEF ProxyReconcile, NoNewIds, LocalsType, Goto, Return, locals, tmux, mgr, MapsType, HoldsId, HoldsRecord, LaunchPositions, StopPositions
    <3>2. CASE ~Return(w)
      <4>1. Goto(w, "pSocket") /\ target' = target /\ seen' = [seen EXCEPT ![w] = {}]
        BY <1>3, <3>2 DEF ProxyReconcile
      <4>2. UNCHANGED <<live, folderOf>> /\ pc[w] \in HoldsId
        BY <1>3 DEF ProxyReconcile, tmux, HoldsId
      <4> QED BY <2>1, <4>1, <4>2 DEF NoNewIds, Goto, LocalsType
    <3> QED BY <3>1, <3>2
  <2> QED BY <2>2, StillAllocated
<1>4. CASE ProxySocket(w)
  <2>1. NoNewIds(w)
    BY <1>4 DEF ProxySocket, Recorded, NoNewIds, LocalsType, Goto, Return, locals, tmux, mgr, MapsType, HoldsId, HoldsRecord, LaunchPositions, StopPositions
  <2> QED BY <2>1, StillAllocated
<1>5. CASE EvictIfDead(w)
  <2>1. NoNewIds(w)
    BY <1>5 DEF EvictIfDead, EvictActive, Recorded, NoNewIds, LocalsType, Goto, Return, locals, tmux, mgr, MapsType, HoldsId, HoldsRecord, LaunchPositions, StopPositions
  <2> QED BY <2>1, StillAllocated
<1>6. CASE ProxyCheck(w)
  <2>1. NoNewIds(w)
    BY <1>6, SMTT(30) DEF ProxyCheck, ProxyHandler, Recorded, NoNewIds, LocalsType, Goto, Return, locals, tmux, mgr, MapsType, HoldsId, HoldsRecord, LaunchPositions, StopPositions
  <2> QED BY <2>1, StillAllocated
<1>7. CASE ProxyVerify(w)
  <2>1. NoNewIds(w)
    BY <1>7 DEF ProxyVerify, EvictActive, Recorded, NoNewIds, LocalsType, Goto, Return, locals, tmux, mgr, MapsType, HoldsId, HoldsRecord, LaunchPositions, StopPositions
  <2> QED BY <2>1, StillAllocated
<1>8. CASE ProxyRemovesRuntime(w)
  <2>1. NoNewIds(w)
    BY <1>8 DEF ProxyRemovesRuntime, Recorded, NoNewIds, LocalsType, Goto, Return, locals, tmux, mgr, MapsType, HoldsId, HoldsRecord, LaunchPositions, StopPositions
  <2> QED BY <2>1, StillAllocated
<1>9. CASE ProxyFinal(w)
  <2>1. NoNewIds(w)
    BY <1>9, SMTT(30) DEF ProxyFinal, ProxyHandler, Recorded, NoNewIds, LocalsType, Goto, Return, locals, tmux, mgr, MapsType, HoldsId, HoldsRecord, LaunchPositions, StopPositions
  <2> QED BY <2>1, StillAllocated
<1> QED BY <1>1, <1>2, <1>3, <1>4, <1>5, <1>6, <1>7, <1>8, <1>9 DEF ProxyStep

LEMMA ListKeepsAllocation ==
    ASSUME OwnerInv, NEW w \in Workers, ListDiscover(w) \/ ListReconcile(w)
    PROVE  AllocatedOnly'
<1> USE DEF OwnerInv, TypeInv, MapsInv
<1>1. CASE ListDiscover(w)
  <2>1. NoNewIds(w)
    BY <1>1 DEF ListDiscover, Discover, Visible, Recorded, NoNewIds, LocalsType, Goto, Return, locals, tmux, mgr, MapsType, HoldsId, HoldsRecord, LaunchPositions, StopPositions
  <2> QED BY <2>1, StillAllocated
<1>2. CASE ListReconcile(w)
  <2>1. \A i \in Recorded' : i \in Recorded \/ i \in seen[w]
    BY <1>2, ReconciledMaps DEF ListReconcile, LocalsType
  <2>2. NoNewIds(w)
    BY <1>2, <2>1 DEF ListReconcile, NoNewIds, LocalsType, Goto, Return, locals, tmux, mgr, MapsType, HoldsId, HoldsRecord, LaunchPositions, StopPositions
  <2> QED BY <2>2, StillAllocated
<1> QED BY <1>1, <1>2

LEMMA ShutdownKeepsAllocation ==
    ASSUME OwnerInv, NEW w \in Workers, ShutdownStep(w)
    PROVE  AllocatedOnly'
<1> USE DEF OwnerInv, TypeInv, MapsInv
<1>1. CASE ShutdownBegin(w)
  <2>1. NoNewIds(w)
    BY <1>1, SMTT(30) DEF ShutdownBegin, Recorded, NoNewIds, LocalsType, Goto, Return, locals, tmux, mgr, MapsType, HoldsId, HoldsRecord, LaunchPositions, StopPositions
  <2> QED BY <2>1, StillAllocated
<1>2. CASE ShutdownWoken(w)
  <2>1. NoNewIds(w)
    BY <1>2 DEF ShutdownWoken, Recorded, NoNewIds, LocalsType, Goto, Return, locals, tmux, mgr, MapsType, HoldsId, HoldsRecord, LaunchPositions, StopPositions
  <2> QED BY <2>1, StillAllocated
<1>3. CASE ShutdownInterrupt(w)
  <2>1. NoNewIds(w)
    BY <1>3 DEF ShutdownInterrupt, Recorded, NoNewIds, LocalsType, Goto, Return, locals, tmux, mgr, MapsType, HoldsId, HoldsRecord, LaunchPositions, StopPositions
  <2> QED BY <2>1, StillAllocated
<1>4. CASE ShutdownKill(w)
  <2>1. NoNewIds(w)
    BY <1>4 DEF ShutdownKill, Recorded, NoNewIds, LocalsType, Goto, Return, locals, tmux, mgr, MapsType, HoldsId, HoldsRecord, LaunchPositions, StopPositions
  <2> QED BY <2>1, StillAllocated
<1>5. CASE ShutdownClear(w)
  <2>1. NoNewIds(w)
    BY <1>5 DEF ShutdownClear, Recorded, NoNewIds, LocalsType, Goto, Return, locals, tmux, mgr, MapsType, HoldsId, HoldsRecord, LaunchPositions, StopPositions
  <2> QED BY <2>1, StillAllocated
<1>6. CASE ShutdownEnd(w)
  <2>1. NoNewIds(w)
    BY <1>6 DEF ShutdownEnd, Recorded, NoNewIds, LocalsType, Goto, Return, locals, tmux, mgr, MapsType, HoldsId, HoldsRecord, LaunchPositions, StopPositions
  <2> QED BY <2>1, StillAllocated
<1> QED BY <1>1, <1>2, <1>3, <1>4, <1>5, <1>6 DEF ShutdownStep

LEMMA RequestKeepsMaps ==
    ASSUME OwnerInv, NEW w \in Workers, Request(w) \/ Cancel(w)
    PROVE  MapsInv'
<1> USE DEF OwnerInv, TypeInv, MapsInv
<1>1. TransitionMatchesPhase' /\ ProxiesOnlyActive'
  BY DEF Request, Cancel, StartCreate, StartDelete, StartProxy, StartList, StartShutdown, mgr,
     TransitionMatchesPhase, ProxiesOnlyActive, IsActive, Recorded, Current, Transient
<1>2. NoNewIds(w)
  <2>1. CASE \E f \in Folders : StartCreate(w, f)
    BY <2>1 DEF StartCreate, Recorded, NoNewIds, LocalsType, Goto, Return, locals, tmux, mgr, MapsType, HoldsId, HoldsRecord, LaunchPositions, StopPositions
  <2>2. CASE \E i \in Ids : StartDelete(w, i) \/ StartProxy(w, i)
    BY <2>2 DEF StartDelete, StartProxy, Recorded, NoNewIds, LocalsType, Goto, Return, locals, tmux, mgr, MapsType, HoldsId, HoldsRecord, LaunchPositions, StopPositions
  <2>3. CASE StartList(w) \/ StartShutdown(w) \/ Cancel(w)
    BY <2>3 DEF StartList, StartShutdown, Cancel, Recorded, NoNewIds, LocalsType, Goto, Return, locals, tmux, mgr, MapsType, HoldsId, HoldsRecord, LaunchPositions, StopPositions
  <2> QED BY <2>1, <2>2, <2>3 DEF Request
<1> QED BY <1>1, <1>2, StillAllocated

-----------------------------------------------------------------------------
(* The invariant and what follows from it.                                 *)

LEMMA OwnerInit == Init => OwnerInv
<1> SUFFICES ASSUME Init PROVE OwnerInv
  OBVIOUS
<1>1. TypeInv
  BY InitType
<1>2. OwnersInv
  BY DEF Init, OwnersInv, OwnersWork, OwnersDistinct, OpenOwned, Owns, OwnerPositions, LaunchPositions, StopPositions,
     Free, NewRecord
<1>3. MapsInv
  BY DEF Init, MapsInv, AllocatedOnly, TransitionMatchesPhase, ProxiesOnlyActive, Recorded, HoldsId, HoldsRecord,
     LaunchPositions, StopPositions
<1> QED BY <1>1, <1>2, <1>3 DEF OwnerInv

LEMMA OwnerStep == OwnerInv /\ [Next]_vars => OwnerInv'
<1> SUFFICES ASSUME OwnerInv, [Next]_vars
             PROVE  OwnersInv' /\ MapsInv'
  BY TypeStep DEF OwnerInv
<1>1. ASSUME NEW w \in Workers, Running(Request(w) \/ Cancel(w) \/ Progress(w))
      PROVE  OwnersInv' /\ MapsInv'
  <2>1. CASE Request(w) \/ Cancel(w)
    BY <2>1, RequestKeepsOwners, RequestKeepsMaps
  <2>2. CASE CreateStep(w)
    BY <2>2, CreateKeepsOwners, CreateKeepsMaps, CreateKeepsAllocation DEF MapsInv
  <2>3. CASE DeleteStep(w)
    BY <2>3, DeleteKeepsOwners, DeleteKeepsMaps, DeleteKeepsAllocation DEF MapsInv
  <2>4. CASE ProxyStep(w)
    BY <2>4, ProxyKeepsOwners, ProxyKeepsMaps, ProxyKeepsAllocation DEF MapsInv
  <2>5. CASE ListDiscover(w) \/ ListReconcile(w)
    BY <2>5, ListKeepsOwners, ListKeepsMaps, ListKeepsAllocation DEF MapsInv
  <2>6. CASE ShutdownStep(w)
    BY <2>6, ShutdownKeepsOwners, ShutdownKeepsMaps, ShutdownKeepsAllocation DEF MapsInv
  <2> QED BY <1>1, <2>1, <2>2, <2>3, <2>4, <2>5, <2>6 DEF Running, Progress
<1>2. CASE Crash
  <2>1. OwnersInv'
    BY <1>2 DEF Crash, OwnersInv, OwnersWork, OwnersDistinct, OpenOwned, Owns, OwnerPositions, LaunchPositions,
       StopPositions, Free, NewRecord
  <2>2. MapsInv'
    BY <1>2 DEF Crash, tmux, OwnerInv, MapsInv, AllocatedOnly, TransitionMatchesPhase, ProxiesOnlyActive, Recorded,
       HoldsId, HoldsRecord, LaunchPositions, StopPositions
  <2> QED BY <2>1, <2>2
<1>3. CASE Initialize \/ (\E i \in Ids : Exit(i)) \/ UNCHANGED vars
  <2>1. /\ UNCHANGED <<instances, rec, proxies, pc, target, held, seen, folderOf>>
        /\ live' \subseteq live
    BY <1>3 DEF Initialize, Exit, vars, mgr, locals
  <2>2. OwnersInv'
    BY <2>1 DEF OwnerInv, OwnersInv, OwnersWork, OwnersDistinct, OpenOwned, Owns, Mine
  <2>3. MapsInv'
    BY <2>1 DEF OwnerInv, MapsInv, AllocatedOnly, TransitionMatchesPhase, ProxiesOnlyActive, IsActive, Recorded, Current
  <2> QED BY <2>2, <2>3
<1> QED BY <1>1, <1>2, <1>3 DEF Next

THEOREM OwnerInvariant == Spec => []OwnerInv
BY OwnerInit, OwnerStep, PTL DEF Spec

\* Nobody waits on a transition that has ended, and nobody overlooks one that
\* has not: in the map, open channel and transient phase come together.
THEOREM TransitionsMatch == Spec => []TransitionMatchesPhase
<1>1. OwnerInv => TransitionMatchesPhase
  BY DEF OwnerInv, MapsInv
<1> QED BY <1>1, OwnerInvariant, PTL

\* The reverse proxy of an instance that is launching, stopping, failed or
\* gone is never cached.
THEOREM ProxiesAreActive == Spec => []ProxiesOnlyActive
<1>1. OwnerInv => ProxiesOnlyActive
  BY DEF OwnerInv, MapsInv
<1> QED BY <1>1, OwnerInvariant, PTL

\* Every transition in the map has exactly one goroutine that will end it: no
\* folder stays blocked for want of one, no channel is closed twice.
THEOREM TransitionsHaveOneWorker == Spec => []OneWorkerPerTransition
<1>1. OwnerInv => OneWorkerPerTransition
  <2> SUFFICES ASSUME OwnerInv, NEW i \in Recorded, Current(i).phase \in Transient
               PROVE  /\ \E w \in Workers : Works(w, i)
                      /\ \A v, w \in Workers : Works(v, i) /\ Works(w, i) => v = w
    BY DEF OneWorkerPerTransition
  <2>1. i \in Ids /\ instances[i] \in Gens /\ Current(i).open
    BY DEF OwnerInv, TypeInv, MapsType, MapsInv, TransitionMatchesPhase, Recorded
  <2>2. PICK w \in Workers : Owns(w, i, instances[i])
    BY <2>1 DEF OwnerInv, OwnersInv, OpenOwned, Current
  <2>3. Works(w, i)
    BY <2>2 DEF Works, Owns, OwnerInv, OwnersInv, OwnersWork, OwnerPositions, Mine, Current
  <2>4. \A v \in Workers : Works(v, i) => Owns(v, i, instances[i])
    BY DEF Works, Owns, OwnerPositions
  <2> QED BY <2>1, <2>3, <2>4 DEF OwnerInv, OwnersInv, OwnersDistinct
<1> QED BY <1>1, OwnerInvariant, PTL

\* The two together: a launching or stopping record of the map has an open
\* channel and exactly one goroutine that will close it, and every other
\* record has none.
THEOREM TransitionsAreOwned == Spec => []TransitionsOwned
<1>1. TransitionMatchesPhase /\ OneWorkerPerTransition => TransitionsOwned
  BY DEF TransitionsOwned
<1> QED BY <1>1, TransitionsMatch, TransitionsHaveOneWorker, PTL

-----------------------------------------------------------------------------
(* What is cleaned up is never in use.                                      *)

(* Between taking a list of the sessions and applying it. *)
Reconciling == {"reconcile", "relink", "dReconcile", "pReconcile", "lReconcile"}

(* Stopping a session or removing a directory while holding neither lock. *)
Unlocked == {"dStop", "dFinish", "dRemove", "dStopUnknown", "pRemove"}

(* What a goroutine relies on between two of its steps. *)
KeptAt(w) ==
    /\ pc[w] = "launch" => target[w] \notin live \cup tagged
    /\ pc[w] \in {"launch", "tag"} => target[w] \in Recorded \cap dirs
    /\ pc[w] = "unlaunch" => target[w] \notin Visible
    /\ pc[w] \in {"dFinish", "dRemove", "pRemove"} => target[w] \notin live
    /\ pc[w] \in Reconciling => Visible \subseteq seen[w]
    /\ pc[w] = "sClear" => live = {}

\* What a listing of the sessions shows has a record and a runtime directory.
VisibleKept == up => Visible \subseteq Recorded \cap dirs

TaggedAllocated == \A i \in tagged : folderOf[i] # Nobody

(* An id that is being launched is nobody else's: it is fresh, and whoever *)
(* works on an id without a lock has heard of it before.                   *)
LaunchedApart ==
    \A v, w \in Workers : pc[v] \in {"launch", "tag"} /\ pc[w] \in Unlocked => target[v] # target[w]

DownIdle == ~up => \A w \in Workers : pc[w] = "idle"

KeptInv ==
    /\ DownIdle
    /\ VisibleKept
    /\ TaggedAllocated
    /\ \A w \in Workers : KeptAt(w)
    /\ LaunchedApart

Bounded(S) == IsFiniteSet(S) /\ Cardinality(S) <= MaxServers

(* A list that was taken under commandMu adds nothing to the records. *)
CountAt(w) ==
    /\ pc[w] = "insert" => Cardinality(Recorded) < MaxServers
    /\ pc[w] \in Reconciling => Bounded(Recorded \cup seen[w])

LimitInv == Bounded(Recorded) /\ \A w \in Workers : CountAt(w)

(* Who answers for a session that no listing shows. *)
Launches(w, i) == target[w] = i /\ (pc[w] = "tag" \/ (pc[w] = "cleanup" /\ faults = MaxFaults))

UntaggedKept ==
    up => \A i \in live \ tagged : i \in Recorded \cap dirs /\ \E w \in Workers : Launches(w, i)

UnlaunchedDead == \A w \in Workers : pc[w] = "unlaunch" => target[w] \notin live

LiveInv == UntaggedKept /\ UnlaunchedDead

World == TypeInv /\ CommandsSerialized /\ AllocatedOnly

-----------------------------------------------------------------------------
(* What a step of a goroutine may do to the sessions, records, directories *)
(* and to its own position.                                                *)

(* A record or directory that goes is not in use by anybody. *)
Drops(w, i) ==
    /\ \/ commandMu \in {w, Nobody}
       \/ i = target[w] /\ pc[w] \in {"dFinish", "dRemove", "pRemove"}
    /\ \/ i \notin live'
       \/ pc[w] \in Reconciling /\ i \notin seen[w]
       \/ pc[w] = "unlaunch" /\ i = target[w]

SessionsMove(w) ==
    /\ tagged \subseteq tagged'
    /\ \A i \in tagged' : i \in tagged \/ (pc[w] = "tag" /\ i = target[w])
    /\ \A i \in live' : i \in live \/ (pc[w] = "launch" /\ i = target[w])
    /\ \A i \in Ids : folderOf[i] # Nobody => folderOf'[i] # Nobody

RecordsMove(w) ==
    /\ \A i \in Recorded : i \in Recorded' \/ Drops(w, i)
    /\ \A i \in dirs : i \in dirs' \/ Drops(w, i)
    /\ \A i \in Recorded' :
          \/ i \in Recorded
          \/ pc[w] \in Reconciling /\ i \in seen[w]
          \/ pc[w] = "insert" /\ i = target'[w]

WorkerMoves(w) ==
    /\ OthersStay(w)
    /\ \A v \in Workers \ {w} : seen'[v] = seen[v]
    /\ pc'[w] \in Unlocked =>
          \/ pc[w] \in Unlocked /\ target'[w] = target[w]
          \/ commandMu \in {w, Nobody}
    /\ pc'[w] \in {"launch", "tag"} =>
          \/ pc[w] = "launch" /\ target'[w] = target[w]
          \/ pc[w] = "insert" /\ folderOf[target'[w]] = Nobody
    /\ faults = MaxFaults => faults' = faults

Moves(w) == SessionsMove(w) /\ RecordsMove(w) /\ WorkerMoves(w)

(* The steps that make and unmake a session are looked at one by one. *)
Steady(w) == pc[w] \notin {"launch", "tag", "cleanup"} /\ pc'[w] # "unlaunch"

Settled(w) == Steady(w) \/ Launch(w) \/ Tag(w) \/ Cleanup(w)

Fits(w) == Moves(w) /\ KeptAt(w)' /\ CountAt(w)' /\ Settled(w)

LEMMA BoundedSubset ==
    ASSUME NEW S, NEW T, Bounded(S), T \subseteq S
    PROVE  Bounded(T)
BY FS_Subset, FS_CardinalityType, BoundsAssumption DEF Bounded

LEMMA KeepsVisible ==
    ASSUME World, KeptInv, up, up', NEW w \in Workers, Moves(w), KeptAt(w)'
    PROVE  KeptInv'
<1> USE DEF World, Moves
<1>0. live \subseteq Ids /\ tagged \subseteq Ids /\ Recorded \subseteq Ids
  BY DEF TypeInv, WorldType, Recorded
<1>1. \A v, u \in Workers : pc[v] \in HoldsCommandMu /\ pc[u] \in HoldsCommandMu => v = u
  BY DEF CommandsSerialized
<1>2. ASSUME NEW i \in Ids, i \in Visible', Drops(w, i)
      PROVE  FALSE
  <2>1. pc[w] # "tag" /\ pc[w] # "launch"
    <3>1. CASE pc[w] \in {"tag", "launch"}
      BY <1>2, <3>1 DEF Drops, Visible, Reconciling
    <3> QED BY <3>1
  <2>2. i \in Visible
    BY <1>2, <2>1 DEF SessionsMove, Visible
  <2> QED BY <1>2, <2>2 DEF Drops, Visible, KeptInv, KeptAt
<1>3. VisibleKept'
  <2> SUFFICES ASSUME NEW i \in Ids, i \in Visible'
               PROVE  i \in Recorded' /\ i \in dirs'
    <3>1. live' \subseteq Ids
      <4>1. pc[w] = "launch" => target[w] \in Ids
        BY DEF TypeInv, LocalsMatchPc, HoldsId, HoldsRecord, LaunchPositions
      <4> QED BY <1>0, <4>1 DEF SessionsMove
    <3> QED BY <3>1 DEF VisibleKept, Visible
  <2>1. i \in Recorded /\ i \in dirs
    <3>1. CASE i \in Visible
      BY <3>1 DEF KeptInv, VisibleKept
    <3>2. CASE i \notin Visible
      <4>1. \/ pc[w] = "tag" /\ i = target[w]
            \/ pc[w] = "launch" /\ i = target[w] /\ i \in tagged
        BY <3>2 DEF SessionsMove, Visible
      <4> QED BY <4>1 DEF KeptInv, KeptAt
    <3> QED BY <3>1, <3>2
  <2> QED BY <1>2, <2>1 DEF RecordsMove
<1>4. TaggedAllocated'
  <2> SUFFICES ASSUME NEW i \in tagged'
               PROVE  folderOf'[i] # Nobody
    BY DEF TaggedAllocated
  <2>1. CASE i \in tagged
    BY <1>0, <2>1 DEF KeptInv, TaggedAllocated, SessionsMove
  <2>2. CASE pc[w] = "tag" /\ i = target[w]
    <3>1. pc[w] \in HoldsId
      BY <2>2 DEF HoldsId, HoldsRecord, LaunchPositions
    <3> QED BY <2>2, <3>1 DEF AllocatedOnly, TypeInv, LocalsMatchPc, SessionsMove
  <2> QED BY <2>1, <2>2 DEF SessionsMove
<1>5. ASSUME NEW v \in Workers, v # w
      PROVE  KeptAt(v)'
  <2>0. pc'[v] = pc[v] /\ target'[v] = target[v] /\ seen'[v] = seen[v]
    BY <1>5 DEF WorkerMoves, OthersStay
  <2>1. ASSUME pc[v] \in HoldsCommandMu
        PROVE  live' \subseteq live /\ tagged' = tagged /\ commandMu = v
    <3>1. pc[w] \notin HoldsCommandMu
      BY <1>1, <1>5, <2>1
    <3> QED BY <2>1, <3>1 DEF SessionsMove, HoldsCommandMu, CommandsSerialized
  <2>2. pc[v] = "launch" => target[v] \notin live' \cup tagged'
    BY <2>1 DEF HoldsCommandMu, KeptInv, KeptAt
  <2>3. pc[v] \in {"launch", "tag"} => target[v] \in Recorded' \cap dirs'
    <3> SUFFICES ASSUME pc[v] \in {"launch", "tag"}
                 PROVE  target[v] \in Recorded' \cap dirs'
      OBVIOUS
    <3>1. target[v] \in Recorded /\ target[v] \in dirs /\ commandMu = v
      BY <2>1 DEF HoldsCommandMu, KeptInv, KeptAt
    <3>2. ~Drops(w, target[v])
      BY <1>5, <3>1, NobodyAssumption DEF Drops, KeptInv, LaunchedApart, Unlocked
    <3> QED BY <3>1, <3>2 DEF RecordsMove
  <2>4. pc[v] = "unlaunch" => target[v] \notin live' \cap tagged'
    BY <2>1 DEF HoldsCommandMu, KeptInv, KeptAt, Visible
  <2>5. pc[v] \in {"dFinish", "dRemove", "pRemove"} => target[v] \notin live'
    BY DEF KeptInv, KeptAt, SessionsMove, LaunchedApart, Unlocked
  <2>6. pc[v] \in Reconciling => live' \cap tagged' \subseteq seen[v]
    BY <2>1 DEF HoldsCommandMu, Reconciling, KeptInv, KeptAt, Visible
  <2>7. pc[v] = "sClear" => live' = {}
    BY <2>1 DEF HoldsCommandMu, KeptInv, KeptAt
  <2> QED BY <2>0, <2>2, <2>3, <2>4, <2>5, <2>6, <2>7 DEF KeptAt, Visible
<1>6. LaunchedApart'
  <2> SUFFICES ASSUME NEW u \in Workers, NEW v \in Workers,
                      pc'[u] \in {"launch", "tag"}, pc'[v] \in Unlocked
               PROVE  target'[u] # target'[v]
    BY DEF LaunchedApart
  <2>1. CASE u # w /\ v # w
    BY <2>1 DEF WorkerMoves, OthersStay, KeptInv, LaunchedApart
  <2>2. CASE u = w
    <3>1. v # w
      BY <2>2 DEF Unlocked
    <3>2. pc[v] \in Unlocked /\ target'[v] = target[v]
      BY <3>1 DEF WorkerMoves, OthersStay
    <3>3. CASE pc[w] = "launch" /\ target'[w] = target[w]
      BY <2>2, <3>2, <3>3 DEF KeptInv, LaunchedApart
    <3>4. CASE folderOf[target'[w]] = Nobody
      <4>1. pc[v] \in HoldsId
        BY <3>2 DEF Unlocked, HoldsId, HoldsRecord, StopPositions
      <4> QED BY <2>2, <3>2, <3>4, <4>1 DEF AllocatedOnly
    <3> QED BY <2>2, <3>3, <3>4 DEF WorkerMoves
  <2>3. CASE u # w /\ v = w
    <3>1. pc[u] \in {"launch", "tag"} /\ target'[u] = target[u] /\ commandMu = u
      BY <2>3 DEF WorkerMoves, OthersStay, CommandsSerialized, HoldsCommandMu
    <3>2. commandMu \notin {w, Nobody}
      BY <2>3, <3>1, NobodyAssumption
    <3>3. pc[w] \in Unlocked /\ target'[w] = target[w]
      BY <2>3, <3>2 DEF WorkerMoves
    <3> QED BY <2>3, <3>1, <3>3 DEF KeptInv, LaunchedApart
  <2> QED BY <2>1, <2>2, <2>3
<1> QED BY <1>3, <1>4, <1>5, <1>6 DEF KeptInv, DownIdle

LEMMA KeepsLimit ==
    ASSUME World, LimitInv, NEW w \in Workers, Moves(w), CountAt(w)'
    PROVE  LimitInv'
<1> USE DEF World, Moves
<1>1. \A v, u \in Workers : pc[v] \in HoldsCommandMu /\ pc[u] \in HoldsCommandMu => v = u
  BY DEF CommandsSerialized
<1>2. Bounded(Recorded)'
  <2>1. CASE pc[w] \in Reconciling
    <3>1. Recorded' \subseteq Recorded \cup seen[w]
      BY <2>1 DEF RecordsMove, Reconciling
    <3> QED BY <2>1, <3>1, BoundedSubset DEF LimitInv, CountAt, Bounded
  <2>2. CASE pc[w] = "insert"
    <3>1. Recorded' \subseteq Recorded \cup {target'[w]}
      BY <2>2 DEF RecordsMove, Reconciling
    <3>2. IsFiniteSet(Recorded) /\ Cardinality(Recorded) \in Nat /\ Cardinality(Recorded) + 1 <= MaxServers
      <4>1. IsFiniteSet(Recorded) /\ Cardinality(Recorded) < MaxServers
        BY <2>2 DEF LimitInv, CountAt, Bounded
      <4>2. Cardinality(Recorded) \in Nat
        BY <4>1, FS_CardinalityType
      <4> QED BY <4>1, <4>2, BoundsAssumption
    <3>3. Bounded(Recorded \cup {target'[w]})
      <4> DEFINE x == target'[w]
      <4> HIDE DEF x
      <4>1. /\ IsFiniteSet(Recorded \cup {x})
            /\ Cardinality(Recorded \cup {x}) = IF x \in Recorded THEN Cardinality(Recorded) ELSE Cardinality(Recorded) + 1
        BY <3>2, FS_AddElement, Zenon
      <4>2. Cardinality(Recorded \cup {x}) <= MaxServers
        BY <3>2, <4>1, BoundsAssumption
      <4>3. Bounded(Recorded \cup {x})
        BY <4>1, <4>2 DEF Bounded
      <4> QED BY <4>3 DEF x
    <3> QED BY <3>1, <3>3, BoundedSubset DEF Bounded
  <2>3. CASE pc[w] \notin Reconciling /\ pc[w] # "insert"
    <3>1. Recorded' \subseteq Recorded
      BY <2>3 DEF RecordsMove
    <3> QED BY <3>1, BoundedSubset DEF LimitInv, Bounded
  <2> QED BY <2>1, <2>2, <2>3
<1>3. ASSUME NEW v \in Workers, v # w
      PROVE  CountAt(v)'
  <2>0. pc'[v] = pc[v] /\ seen'[v] = seen[v]
    BY <1>3 DEF WorkerMoves, OthersStay
  <2>1. CASE pc[v] = "insert" \/ pc[v] \in Reconciling
    <3>1. pc[w] \notin Reconciling /\ pc[w] # "insert"
      BY <1>1, <1>3, <2>1 DEF HoldsCommandMu, Reconciling
    <3>2. Recorded' \subseteq Recorded
      BY <3>1 DEF RecordsMove
    <3>3. CASE pc[v] = "insert"
      <4>1. IsFiniteSet(Recorded) /\ Cardinality(Recorded) < MaxServers
        BY <3>3 DEF LimitInv, CountAt, Bounded
      <4>2. Cardinality(Recorded') < MaxServers
        BY <3>2, <4>1, FS_Subset, FS_CardinalityType, BoundsAssumption
      <4> QED BY <2>0, <3>3, <4>2 DEF CountAt, Reconciling
    <3>4. CASE pc[v] \in Reconciling
      <4>1. Recorded' \cup seen[v] \subseteq Recorded \cup seen[v]
        BY <3>2
      <4>2. Bounded(Recorded' \cup seen[v])
        BY <3>4, <4>1, BoundedSubset DEF LimitInv, CountAt
      <4> QED BY <2>0, <3>4, <4>2 DEF CountAt, Reconciling, Bounded
    <3> QED BY <2>1, <3>3, <3>4
  <2>2. CASE pc[v] # "insert" /\ pc[v] \notin Reconciling
    BY <2>0, <2>2 DEF CountAt
  <2> QED BY <2>1, <2>2
<1> QED BY <1>2, <1>3 DEF LimitInv

LEMMA KeepsUntagged ==
    ASSUME World, KeptInv, LiveInv, up, NEW w \in Workers, Moves(w), Steady(w)
    PROVE  LiveInv'
<1> USE DEF World, Moves, Steady
<1>1. live' \subseteq live
  BY DEF SessionsMove
<1>2. UntaggedKept'
  <2> SUFFICES ASSUME NEW i \in live', i \notin tagged'
               PROVE  i \in Recorded' \cap dirs' /\ \E v \in Workers : Launches(v, i)'
    BY DEF UntaggedKept
  <2>1. i \in live \ tagged
    BY <1>1 DEF SessionsMove
  <2>2. i \in Recorded /\ i \in dirs
    BY <2>1 DEF LiveInv, UntaggedKept
  <2>3. PICK v \in Workers : Launches(v, i)
    BY <2>1 DEF LiveInv, UntaggedKept
  <2>4. v # w /\ pc[v] \in HoldsCommandMu
    BY <2>3 DEF Launches, HoldsCommandMu
  <2>5. Launches(v, i)'
    BY <2>3, <2>4 DEF Launches, WorkerMoves, OthersStay
  <2>6. ~Drops(w, i)
    <3>1. pc[w] \notin HoldsCommandMu
      BY <2>4 DEF CommandsSerialized
    <3> QED BY <3>1 DEF Drops, HoldsCommandMu, Reconciling
  <2> QED BY <2>2, <2>5, <2>6 DEF RecordsMove
<1>3. UnlaunchedDead'
  BY <1>1 DEF UnlaunchedDead, LiveInv, WorkerMoves, OthersStay
<1> QED BY <1>2, <1>3 DEF LiveInv

-----------------------------------------------------------------------------
(* Every step of a goroutine fits.                                         *)

LEMMA ReconciledRecords ==
    ASSUME MapsType, NEW list \in SUBSET Ids, Reconciled(list)
    PROVE  /\ list \subseteq Recorded'
           /\ \A i \in Recorded' : i \in Recorded \/ i \in list
           /\ \A i \in Recorded : i \in Recorded' \/ i \notin list
<1> DEFINE I(j) == CASE j \in Adopted(list) -> FreshGen(j)
                     [] j \in Evicted(list) -> 0
                     [] OTHER -> instances[j]
<1>1. instances' = [j \in Ids |-> I(j)]
  BY DEF Reconciled
<1>2. \A i \in Adopted(list) : FreshGen(i) \in Gens /\ FreshGen(i) # 0
  BY FreshGenIsFree, GensAssumption DEF Reconciled, Adopted
<1>3. ASSUME NEW i \in Ids
      PROVE  /\ i \in list => I(i) # 0
             /\ I(i) # 0 => i \in Recorded \/ i \in list
  <2>1. CASE i \in Adopted(list)
    <3>1. I(i) = FreshGen(i) /\ i \in list
      BY <2>1, <1>2 DEF Adopted, Evicted
    <3> QED BY <2>1, <3>1, <1>2
  <2>2. CASE i \notin Adopted(list) /\ i \in list
    <3>1. i \in Recorded /\ i \notin Evicted(list)
      BY <2>2 DEF Adopted, Evicted
    <3>2. I(i) = instances[i]
      BY <2>2, <3>1
    <3> QED BY <2>2, <3>1, <3>2 DEF Recorded
  <2>3. CASE i \notin Adopted(list) /\ i \notin list
    <3>1. I(i) = 0 \/ I(i) = instances[i]
      BY <2>3
    <3> QED BY <2>3, <3>1 DEF Recorded
  <2> QED BY <2>1, <2>2, <2>3
<1> HIDE DEF I
<1>4. Recorded' = {i \in Ids : I(i) # 0}
  BY <1>1 DEF Recorded
<1> QED BY <1>3, <1>4 DEF Recorded

Others(w) == OthersStay(w) /\ \A v \in Workers \ {w} : seen'[v] = seen[v]

(* The positions at which something is known of the sessions. *)
Special ==
    Reconciling \cup Unlocked \cup {"launch", "tag", "cleanup", "unlaunch", "insert", "sClear"}

(* A step that leaves sessions, records and directories as they are. *)
Quiet(w) ==
    /\ Others(w)
    /\ pc[w] \notin {"launch", "tag", "cleanup"}
    /\ pc'[w] \notin Special \ {"cleanup"}
    /\ UNCHANGED <<instances, tmux, dirs>>
    /\ Fault \/ NoFault

LEMMA QuietFits ==
    ASSUME NEW w \in Workers, Quiet(w)
    PROVE  Fits(w)
<1> USE DEF Quiet, Others, tmux, Special
<1>1. Moves(w)
  <2>1. SessionsMove(w) /\ Recorded' = Recorded /\ dirs' = dirs
    BY DEF SessionsMove, Recorded
  <2>2. RecordsMove(w)
    BY <2>1 DEF RecordsMove
  <2>3. faults = MaxFaults => faults' = faults
    BY BoundsAssumption DEF Fault, NoFault
  <2>4. WorkerMoves(w)
    BY <2>3 DEF WorkerMoves, Unlocked
  <2> QED BY <2>1, <2>2, <2>4 DEF Moves
<1>2. KeptAt(w)' /\ CountAt(w)'
  BY DEF KeptAt, CountAt, Reconciling, Unlocked
<1>3. Steady(w)
  BY DEF Steady
<1> QED BY <1>1, <1>2, <1>3 DEF Fits, Settled


Before == World /\ KeptInv /\ LimitInv /\ up

\* A goroutine takes a list of the sessions.
TakesList(w) ==
    /\ Others(w)
    /\ UNCHANGED <<instances, tmux, dirs>>
    /\ NoFault
    /\ pc[w] \notin {"launch", "tag", "cleanup"}
    /\ pc'[w] \in Reconciling
    /\ seen'[w] = Visible

LEMMA ListFits ==
    ASSUME Before, NEW w \in Workers, TakesList(w)
    PROVE  Fits(w)
<1> USE DEF TakesList, Others, tmux
<1>1. Moves(w)
  BY DEF Moves, SessionsMove, RecordsMove, WorkerMoves, Recorded, NoFault, Reconciling, Unlocked
<1>2. KeptAt(w)'
  BY DEF KeptAt, Reconciling, Visible
<1>3. CountAt(w)'
  <2>1. Recorded' = Recorded /\ Recorded \cup Visible = Recorded
    BY DEF Before, KeptInv, VisibleKept, Recorded
  <2>2. Bounded(Recorded \cup seen[w])'
    BY <2>1 DEF Before, LimitInv, Bounded
  <2> QED BY <2>2 DEF CountAt, Reconciling
<1>4. Steady(w)
  BY DEF Steady, Reconciling
<1> QED BY <1>1, <1>2, <1>3, <1>4 DEF Fits, Settled

\* A goroutine applies the list that it took.
AppliesList(w) ==
    /\ pc[w] \in Reconciling
    /\ Reconciled(seen[w])
    /\ dirs' = dirs \/ StaleRuntimeRemoved
    /\ Others(w)
    /\ UNCHANGED tmux
    /\ NoFault
    /\ pc'[w] \notin Special

LEMMA ReconcileFits ==
    ASSUME Before, NEW w \in Workers, AppliesList(w)
    PROVE  Fits(w)
<1> USE DEF AppliesList, Others, tmux
<1>0. seen[w] \in SUBSET Ids /\ dirs \subseteq Ids
  BY DEF Before, World, TypeInv, LocalsType, WorldType
<1>1. /\ seen[w] \subseteq Recorded'
      /\ \A i \in Recorded' : i \in Recorded \/ i \in seen[w]
      /\ \A i \in Recorded : i \in Recorded' \/ i \notin seen[w]
  BY <1>0, ReconciledRecords DEF Before, World, TypeInv
<1>2. commandMu = w
  BY DEF Before, World, CommandsSerialized, HoldsCommandMu, Reconciling
<1>3. RecordsMove(w)
  <2>1. \A i \in dirs : i \in dirs' \/ i \notin seen[w]
    BY <1>0, <1>1 DEF StaleRuntimeRemoved, Recorded
  <2> QED BY <1>1, <1>2, <2>1 DEF RecordsMove, Drops
<1>4. SessionsMove(w)
  BY DEF SessionsMove
<1>5. WorkerMoves(w)
  BY DEF WorkerMoves, Special, NoFault
<1>6. KeptAt(w)' /\ CountAt(w)' /\ Steady(w)
  BY DEF KeptAt, CountAt, Steady, Special, Reconciling, Unlocked
<1> QED BY <1>3, <1>4, <1>5, <1>6 DEF Fits, Moves, Settled

LEMMA CreateFits ==
    ASSUME Before, NEW w \in Workers, CreateStep(w)
    PROVE  Fits(w)
<1> USE DEF Before, World, TypeInv
<1>1. CASE Reserve(w)
  <2>1. CASE TakesList(w)
    BY <2>1, ListFits
  <2>2. CASE ~TakesList(w)
    <3>1. Quiet(w)
      BY <1>1, <2>2, SMTT(30) DEF Reserve, Discover, TakesList, Quiet, Others, OthersStay, Special, Reconciling, Unlocked, Fault, NoFault, LocalsType, Goto, Return, locals, tmux, mgr
    <3> QED BY <3>1, QuietFits
  <2> QED BY <2>1, <2>2
<1>2. CASE ReserveReconcile(w)
  <2>1. AppliesList(w)
    BY <1>2 DEF ReserveReconcile, AppliesList, Quiet, Others, OthersStay, Special, Reconciling, Unlocked, Fault, NoFault, LocalsType, Goto, Return, locals, tmux, mgr
  <2> QED BY <2>1, ReconcileFits
<1>3. CASE Decide(w)
  <2>1. CASE pc'[w] = "insert"
    <3>1. Others(w) /\ UNCHANGED <<instances, tmux, dirs>> /\ NoFault /\ pc[w] = "decide" /\ ~AtLimit
      BY <1>3, <2>1, SMTT(30) DEF Decide, Quiet, Others, OthersStay, Special, Reconciling, Unlocked, Fault, NoFault, LocalsType, Goto, Return, locals, tmux, mgr
    <3>2. Moves(w) /\ KeptAt(w)' /\ Steady(w)
      BY <2>1, <3>1 DEF Moves, SessionsMove, RecordsMove, WorkerMoves, Unlocked, NoFault, Recorded, KeptAt, Reconciling, Steady, Others, tmux
    <3>3. Cardinality(Recorded) < MaxServers
      <4>1. IsFiniteSet(Recorded) /\ ~(Cardinality(Recorded) >= MaxServers)
        BY <3>1 DEF LimitInv, Bounded, AtLimit
      <4>2. Cardinality(Recorded) \in Nat
        BY <4>1, FS_CardinalityType
      <4> QED BY <4>1, <4>2, BoundsAssumption
    <3>4. CountAt(w)'
      <4>1. Recorded' = Recorded
        BY <3>1 DEF Recorded
      <4> QED BY <2>1, <3>3, <4>1 DEF CountAt, Reconciling
    <3> QED BY <3>2, <3>4 DEF Fits, Settled
  <2>2. CASE pc'[w] # "insert"
    <3>1. Quiet(w)
      BY <1>3, <2>2, SMTT(30) DEF Decide, Quiet, Others, OthersStay, Special, Reconciling, Unlocked, Fault, NoFault, LocalsType, Goto, Return, locals, tmux, mgr
    <3> QED BY <3>1, QuietFits
  <2> QED BY <2>1, <2>2
<1>4. CASE GetChannel(w) \/ CreateWoken(w)
  <2>1. Quiet(w)
    BY <1>4 DEF GetChannel, CreateWoken, Quiet, Others, OthersStay, Special, Reconciling, Unlocked, Fault, NoFault, LocalsType, Goto, Return, locals, tmux, mgr
  <2> QED BY <2>1, QuietFits
<1>5. CASE CreateReadsOutcome(w)
  <2>1. Quiet(w)
    BY <1>5 DEF CreateReadsOutcome, Quiet, Others, OthersStay, Special, Reconciling, Unlocked, Fault, NoFault, LocalsType, Goto, Return, locals, tmux, mgr
  <2> QED BY <2>1, QuietFits
<1>6. CASE Insert(w)
  <2>1. CASE pc'[w] = "launch"
    <3>1. PICK i \in Ids :
            /\ folderOf[i] = Nobody
            /\ HasFree(i)
            /\ folderOf' = [folderOf EXCEPT ![i] = folder[w]]
            /\ dirs' = dirs \cup {i}
            /\ instances' = [instances EXCEPT ![i] = FreshGen(i)]
            /\ target' = [target EXCEPT ![w] = i]
            /\ held' = [held EXCEPT ![w] = FreshGen(i)]
            /\ UNCHANGED seen
      BY <1>6, <2>1 DEF Insert, LocalsType, Goto, Return
    <3>2. FreshGen(i) \in Gens /\ FreshGen(i) # 0
      BY <3>1, FreshGenIsFree, GensAssumption
    <3>3. Others(w) /\ pc[w] = "insert" /\ UNCHANGED <<live, tagged>> /\ target'[w] = i
      BY <1>6, <3>1 DEF Insert, Quiet, Others, OthersStay, Special, Reconciling, Unlocked, Fault, NoFault, LocalsType, Goto, Return, locals, tmux, mgr
    <3>4. Recorded' = Recorded \cup {i}
      BY <3>1, <3>2 DEF Recorded, MapsType
    <3>5. \A j \in Ids : folderOf[j] # Nobody => folderOf'[j] # Nobody
      BY <3>1 DEF WorldType
    <3>6. i \notin live \cup tagged
      BY <3>1 DEF AllocatedOnly, KeptInv, TaggedAllocated
    <3>7. faults = MaxFaults => faults' = faults
      BY <1>6, BoundsAssumption DEF Insert, Fault, NoFault
    <3>8. Moves(w)
      BY <2>1, <3>1, <3>3, <3>4, <3>5, <3>7 DEF Moves, SessionsMove, RecordsMove, WorkerMoves, Others, Unlocked
    <3>9. KeptAt(w)' /\ CountAt(w)' /\ Steady(w)
      BY <2>1, <3>1, <3>3, <3>4, <3>6 DEF KeptAt, CountAt, Reconciling, Steady
    <3> QED BY <3>8, <3>9 DEF Fits, Settled
  <2>2. CASE pc'[w] # "launch"
    <3>1. Quiet(w)
      BY <1>6, <2>2 DEF Insert, Quiet, Others, OthersStay, Special, Reconciling, Unlocked, Fault, NoFault, LocalsType, Goto, Return, locals, tmux, mgr
    <3> QED BY <3>1, QuietFits
  <2> QED BY <2>1, <2>2
<1>7. CASE Launch(w)
  <2>1. Others(w) /\ UNCHANGED <<instances, tagged, folderOf, dirs, target>> /\ pc[w] = "launch"
    BY <1>7 DEF Launch, Quiet, Others, OthersStay, Special, Reconciling, Unlocked, Fault, NoFault, LocalsType, Goto, Return, locals, tmux, mgr
  <2>2. live' = live \/ live' = live \cup {target[w]}
    BY <1>7 DEF Launch
  <2>3. pc'[w] \in {"tag", "unlaunch", "cleanup"}
    BY <1>7 DEF Launch, LocalsType, Goto
  <2>4. faults = MaxFaults => faults' = faults
    BY <1>7, BoundsAssumption DEF Launch, Fault, NoFault, WorldType
  <2>5. Recorded' = Recorded
    BY <2>1 DEF Recorded
  <2>6. Moves(w)
    BY <2>1, <2>2, <2>3, <2>4, <2>5 DEF Moves, SessionsMove, RecordsMove, WorkerMoves, Others, Unlocked
  <2>7. KeptAt(w)' /\ CountAt(w)'
    BY <2>1, <2>2, <2>3, <2>5 DEF KeptInv, KeptAt, CountAt, Reconciling, Visible
  <2> QED BY <1>7, <2>6, <2>7 DEF Fits, Settled
<1>8. CASE Tag(w)
  <2>1. Others(w) /\ UNCHANGED <<instances, live, folderOf, dirs, target>> /\ pc[w] = "tag"
    BY <1>8 DEF Tag, Quiet, Others, OthersStay, Special, Reconciling, Unlocked, Fault, NoFault, LocalsType, Goto, Return, locals, tmux, mgr
  <2>2. tagged' = tagged \/ tagged' = tagged \cup {target[w]}
    BY <1>8 DEF Tag
  <2>3. pc'[w] \in {"verify", "cleanup"}
    BY <1>8 DEF Tag, LocalsType, Goto
  <2>4. faults = MaxFaults => faults' = faults
    BY <1>8, BoundsAssumption DEF Tag, Fault, NoFault
  <2>5. Recorded' = Recorded
    BY <2>1 DEF Recorded
  <2>6. Moves(w)
    BY <2>1, <2>2, <2>3, <2>4, <2>5 DEF Moves, SessionsMove, RecordsMove, WorkerMoves, Others, Unlocked
  <2>7. KeptAt(w)' /\ CountAt(w)'
    BY <2>3 DEF KeptAt, CountAt, Reconciling
  <2> QED BY <1>8, <2>6, <2>7 DEF Fits, Settled
<1>9. CASE Verify(w)
  <2>1. CASE TakesList(w)
    BY <2>1, ListFits
  <2>2. CASE ~TakesList(w)
    <3>1. Quiet(w)
      BY <1>9, <2>2, SMTT(30) DEF Verify, TakesList, Quiet, Others, OthersStay, Special, Reconciling, Unlocked, Fault, NoFault, LocalsType, Goto, Return, locals, tmux, mgr
    <3> QED BY <3>1, QuietFits
  <2> QED BY <2>1, <2>2
<1>10. CASE Relink(w)
  <2>1. AppliesList(w)
    BY <1>10 DEF Relink, AppliesList, Quiet, Others, OthersStay, Special, Reconciling, Unlocked, Fault, NoFault, LocalsType, Goto, Return, locals, tmux, mgr
  <2> QED BY <2>1, ReconcileFits
<1>11. CASE BecomesReady(w) \/ NotReady(w) \/ Activate(w) \/ FailLaunch(w) \/ MarkFailed(w)
  <2>1. Quiet(w)
    BY <1>11 DEF BecomesReady, NotReady, Activate, FailLaunch, MarkFailed, Quiet, Others, OthersStay, Special, Reconciling, Unlocked, Fault, NoFault, LocalsType, Goto, Return, locals, tmux, mgr
  <2> QED BY <2>1, QuietFits
<1>12. CASE Cleanup(w)
  <2>1. Others(w) /\ UNCHANGED <<instances, tagged, folderOf, dirs, target>> /\ pc[w] = "cleanup"
    BY <1>12 DEF Cleanup, Quiet, Others, OthersStay, Special, Reconciling, Unlocked, Fault, NoFault, LocalsType, Goto, Return, locals, tmux, mgr
  <2>2. live' \subseteq live /\ (pc'[w] = "unlaunch" => target[w] \notin live')
    BY <1>12 DEF Cleanup, Stopped, LocalsType, Goto
  <2>3. pc'[w] \in {"unlaunch", "markFailed"}
    BY <1>12 DEF Cleanup, LocalsType, Goto
  <2>4. faults = MaxFaults => faults' = faults
    BY <1>12, BoundsAssumption DEF Cleanup, Stopped, Fault, NoFault
  <2>5. Recorded' = Recorded
    BY <2>1 DEF Recorded
  <2>6. Moves(w)
    BY <2>1, <2>2, <2>3, <2>4, <2>5 DEF Moves, SessionsMove, RecordsMove, WorkerMoves, Others, Unlocked
  <2>7. KeptAt(w)' /\ CountAt(w)'
    BY <2>1, <2>2, <2>3 DEF KeptAt, CountAt, Reconciling, Visible
  <2> QED BY <1>12, <2>6, <2>7 DEF Fits, Settled
<1>13. CASE Unlaunch(w)
  <2>1. Others(w) /\ UNCHANGED tmux /\ pc[w] = "unlaunch" /\ pc'[w] = "idle" /\ NoFault
    BY <1>13 DEF Unlaunch, Quiet, Others, OthersStay, Special, Reconciling, Unlocked, Fault, NoFault, LocalsType, Goto, Return, locals, tmux, mgr
  <2>2. Recorded' = Recorded \ {target[w]} /\ dirs' = dirs \ {target[w]}
    BY <1>13 DEF Unlaunch, Recorded, MapsType
  <2>3. commandMu = w
    BY <2>1 DEF CommandsSerialized, HoldsCommandMu
  <2>4. Moves(w)
    BY <2>1, <2>2, <2>3 DEF Moves, SessionsMove, RecordsMove, WorkerMoves, Unlocked, NoFault, Recorded, Drops, Others, tmux
  <2>5. KeptAt(w)' /\ CountAt(w)' /\ Steady(w)
    BY <2>1 DEF KeptAt, CountAt, Reconciling, Steady
  <2> QED BY <2>4, <2>5 DEF Fits, Settled
<1> QED BY <1>1, <1>2, <1>3, <1>4, <1>5, <1>6, <1>7, <1>8, <1>9, <1>10, <1>11, <1>12, <1>13 DEF CreateStep

LEMMA DeleteFits ==
    ASSUME Before, NEW w \in Workers, DeleteStep(w)
    PROVE  Fits(w)
<1> USE DEF Before, World, TypeInv
<1>1. CASE DeleteLookup(w)
  <2>1. CASE TakesList(w)
    BY <2>1, ListFits
  <2>2. CASE pc'[w] = "dStopUnknown"
    <3>1. Others(w) /\ UNCHANGED <<instances, tmux, dirs>> /\ Fault /\ commandMu = Nobody /\ pc[w] = "delete"
      BY <1>1, <2>2 DEF DeleteLookup, Passes, Quiet, Others, OthersStay, Special, Reconciling, Unlocked, Fault, NoFault, LocalsType, Goto, Return, locals, tmux, mgr
    <3>2. faults = MaxFaults => faults' = faults
      BY <3>1, BoundsAssumption DEF Fault
    <3>3. Moves(w)
      BY <2>2, <3>1, <3>2 DEF Moves, SessionsMove, RecordsMove, WorkerMoves, Unlocked, NoFault, Recorded, Others, tmux
    <3>4. KeptAt(w)' /\ CountAt(w)' /\ Steady(w)
      BY <2>2, <3>1 DEF KeptAt, CountAt, Reconciling, Steady
    <3> QED BY <3>3, <3>4 DEF Fits, Settled
  <2>3. CASE ~TakesList(w) /\ pc'[w] # "dStopUnknown"
    <3>1. Quiet(w)
      BY <1>1, <2>3, SMTT(30) DEF DeleteLookup, TakesList, Quiet, Others, OthersStay, Special, Reconciling, Unlocked, Fault, NoFault, LocalsType, Goto, Return, locals, tmux, mgr
    <3> QED BY <3>1, QuietFits
  <2> QED BY <2>1, <2>2, <2>3
<1>2. CASE DeleteReconcile(w)
  <2>1. AppliesList(w)
    BY <1>2 DEF DeleteReconcile, AppliesList, Quiet, Others, OthersStay, Special, Reconciling, Unlocked, Fault, NoFault, LocalsType, Goto, Return, locals, tmux, mgr
  <2> QED BY <2>1, ReconcileFits
<1>3. CASE BeginStop(w)
  <2>1. Others(w) /\ UNCHANGED <<instances, tmux, dirs>> /\ NoFault /\ pc[w] = "dPhase" /\ pc'[w] = "dStop"
    BY <1>3 DEF BeginStop, Quiet, Others, OthersStay, Special, Reconciling, Unlocked, Fault, NoFault, LocalsType, Goto, Return, locals, tmux, mgr
  <2>2. commandMu = w
    BY <1>3 DEF BeginStop, Release
  <2>3. Moves(w)
    BY <2>1, <2>2 DEF Moves, SessionsMove, RecordsMove, WorkerMoves, Unlocked, NoFault, Recorded, Others, tmux
  <2>4. KeptAt(w)' /\ CountAt(w)' /\ Steady(w)
    BY <2>1 DEF KeptAt, CountAt, Reconciling, Steady
  <2> QED BY <2>3, <2>4 DEF Fits, Settled
<1>4. CASE AwaitTransition(w) \/ DeleteWoken(w)
  <2>1. Quiet(w)
    BY <1>4 DEF AwaitTransition, DeleteWoken, Quiet, Others, OthersStay, Special, Reconciling, Unlocked, Fault, NoFault, LocalsType, Goto, Return, locals, tmux, mgr
  <2> QED BY <2>1, QuietFits
<1>5. CASE DeleteReadsOutcome(w)
  <2>1. Quiet(w)
    BY <1>5, SMTT(30) DEF DeleteReadsOutcome, Quiet, Others, OthersStay, Special, Reconciling, Unlocked, Fault, NoFault, LocalsType, Goto, Return, locals, tmux, mgr
  <2> QED BY <2>1, QuietFits
<1>6. CASE StopSession(w)
  <2>1. Others(w) /\ UNCHANGED <<instances, tagged, folderOf, dirs, target>> /\ pc[w] = "dStop"
    BY <1>6 DEF StopSession, Quiet, Others, OthersStay, Special, Reconciling, Unlocked, Fault, NoFault, LocalsType, Goto, Return, locals, tmux, mgr
  <2>2. live' \subseteq live /\ (pc'[w] = "dFinish" => target[w] \notin live')
    BY <1>6 DEF StopSession, Stopped, LocalsType, Goto
  <2>3. pc'[w] \in {"dFinish", "dFailed"}
    BY <1>6 DEF StopSession, LocalsType, Goto
  <2>4. faults = MaxFaults => faults' = faults
    BY <1>6, BoundsAssumption DEF StopSession, Stopped, Fault, NoFault
  <2>5. Recorded' = Recorded
    BY <2>1 DEF Recorded
  <2>6. Moves(w)
    BY <2>1, <2>2, <2>3, <2>4, <2>5 DEF Moves, SessionsMove, RecordsMove, WorkerMoves, Others, Unlocked
  <2>7. KeptAt(w)' /\ CountAt(w)' /\ Steady(w)
    BY <2>1, <2>2, <2>3 DEF KeptAt, CountAt, Reconciling, Steady
  <2> QED BY <2>6, <2>7 DEF Fits, Settled
<1>7. CASE FinishStop(w)
  <2>1. Others(w) /\ UNCHANGED <<tmux, dirs, target>> /\ NoFault /\ pc[w] = "dFinish" /\ pc'[w] = "dRemove"
    BY <1>7 DEF FinishStop, Quiet, Others, OthersStay, Special, Reconciling, Unlocked, Fault, NoFault, LocalsType, Goto, Return, locals, tmux, mgr
  <2>2. Recorded' = Recorded \ {target[w]} /\ target[w] \notin live
    BY <1>7 DEF FinishStop, Recorded, MapsType, KeptInv, KeptAt
  <2>3. Moves(w)
    BY <2>1, <2>2 DEF Moves, SessionsMove, RecordsMove, WorkerMoves, Unlocked, NoFault, Drops, Others, tmux
  <2>4. KeptAt(w)' /\ CountAt(w)' /\ Steady(w)
    BY <2>1, <2>2 DEF KeptAt, CountAt, Reconciling, Steady, tmux
  <2> QED BY <2>3, <2>4 DEF Fits, Settled
<1>8. CASE FinishUnconfirmedStop(w)
  <2>1. Quiet(w)
    BY <1>8 DEF FinishUnconfirmedStop, Quiet, Others, OthersStay, Special, Reconciling, Unlocked, Fault, NoFault, LocalsType, Goto, Return, locals, tmux, mgr
  <2> QED BY <2>1, QuietFits
<1>9. CASE RemoveStoppedRuntime(w)
  <2>1. Others(w) /\ UNCHANGED <<tmux, instances>> /\ NoFault /\ pc[w] = "dRemove" /\ pc'[w] = "idle"
    BY <1>9 DEF RemoveStoppedRuntime, Quiet, Others, OthersStay, Special, Reconciling, Unlocked, Fault, NoFault, LocalsType, Goto, Return, locals, tmux, mgr
  <2>2. dirs' = dirs \ {target[w]} /\ target[w] \notin live
    BY <1>9 DEF RemoveStoppedRuntime, KeptInv, KeptAt
  <2>3. Moves(w)
    BY <2>1, <2>2 DEF Moves, SessionsMove, RecordsMove, WorkerMoves, Unlocked, NoFault, Recorded, Drops, Others, tmux
  <2>4. KeptAt(w)' /\ CountAt(w)' /\ Steady(w)
    BY <2>1 DEF KeptAt, CountAt, Reconciling, Steady
  <2> QED BY <2>3, <2>4 DEF Fits, Settled
<1>10. CASE StopUnknown(w)
  <2>1. Others(w) /\ UNCHANGED <<instances, tagged, folderOf, dirs>> /\ pc[w] = "dStopUnknown"
    BY <1>10 DEF StopUnknown, Quiet, Others, OthersStay, Special, Reconciling, Unlocked, Fault, NoFault, LocalsType, Goto, Return, locals, tmux, mgr
  <2>2. /\ live' \subseteq live
        /\ \/ pc'[w] = "dRemove" /\ target'[w] = target[w] /\ target[w] \notin live'
           \/ pc'[w] = "idle"
    BY <1>10 DEF StopUnknown, Stopped, LocalsType, Goto, Return
  <2>3. faults = MaxFaults => faults' = faults
    BY <1>10, BoundsAssumption DEF StopUnknown, Stopped, Fault, NoFault
  <2>4. Recorded' = Recorded
    BY <2>1 DEF Recorded
  <2>5. Moves(w)
    BY <2>1, <2>2, <2>3, <2>4 DEF Moves, SessionsMove, RecordsMove, WorkerMoves, Others, Unlocked
  <2>6. KeptAt(w)' /\ CountAt(w)' /\ Steady(w)
    BY <2>1, <2>2 DEF KeptAt, CountAt, Reconciling, Steady
  <2> QED BY <2>5, <2>6 DEF Fits, Settled
<1> QED BY <1>1, <1>2, <1>3, <1>4, <1>5, <1>6, <1>7, <1>8, <1>9, <1>10 DEF DeleteStep

LEMMA ProxyFits ==
    ASSUME Before, NEW w \in Workers, ProxyStep(w)
    PROVE  Fits(w)
<1> USE DEF Before, World, TypeInv
<1>1. CASE ProxyKnown(w) \/ ProxySocket(w)
  <2>1. Quiet(w)
    BY <1>1 DEF ProxyKnown, ProxySocket, Quiet, Others, OthersStay, Special, Reconciling, Unlocked, Fault, NoFault, LocalsType, Goto, Return, locals, tmux, mgr
  <2> QED BY <2>1, QuietFits
<1>2. CASE ProxyDiscover(w)
  <2>1. CASE TakesList(w)
    BY <2>1, ListFits
  <2>2. CASE ~TakesList(w)
    <3>1. Quiet(w)
      BY <1>2, <2>2, SMTT(30) DEF ProxyDiscover, Discover, TakesList, Quiet, Others, OthersStay, Special, Reconciling, Unlocked, Fault, NoFault, LocalsType, Goto, Return, locals, tmux, mgr
    <3> QED BY <3>1, QuietFits
  <2> QED BY <2>1, <2>2
<1>3. CASE ProxyReconcile(w)
  <2>1. AppliesList(w)
    BY <1>3 DEF ProxyReconcile, AppliesList, Quiet, Others, OthersStay, Special, Reconciling, Unlocked, Fault, NoFault, LocalsType, Goto, Return, locals, tmux, mgr
  <2> QED BY <2>1, ReconcileFits
<1>4. CASE EvictIfDead(w)
  <2>1. Others(w) /\ UNCHANGED tmux /\ pc[w] = "pEvict" /\ pc'[w] = "idle" /\ commandMu = Nobody
    BY <1>4 DEF EvictIfDead, Passes, Quiet, Others, OthersStay, Special, Reconciling, Unlocked, Fault, NoFault, LocalsType, Goto, Return, locals, tmux, mgr
  <2>2. faults = MaxFaults => faults' = faults
    BY <1>4, BoundsAssumption DEF EvictIfDead, Fault, NoFault
  <2>3. CASE target[w] \notin live
    <3>1. Recorded' = Recorded \/ Recorded' = Recorded \ {target[w]}
      BY <1>4 DEF EvictIfDead, EvictActive, Recorded, MapsType
    <3>2. dirs' = dirs \/ dirs' = dirs \ {target[w]}
      BY <1>4 DEF EvictIfDead
    <3> QED BY <2>1, <2>2, <2>3, <3>1, <3>2
            DEF Fits, Settled, Steady, KeptAt, CountAt, Reconciling, Unlocked, Moves, SessionsMove, RecordsMove,
                WorkerMoves, Drops, Others, tmux
  <2>4. CASE target[w] \in live
    <3>1. Quiet(w)
      BY <1>4, <2>4 DEF EvictIfDead, Quiet, Others, OthersStay, Special, Reconciling, Unlocked, Fault, NoFault, LocalsType, Goto, Return, locals, tmux, mgr
    <3> QED BY <3>1, QuietFits
  <2> QED BY <2>3, <2>4
<1>5. CASE ProxyCheck(w)
  <2>1. Quiet(w)
    BY <1>5, SMTT(30) DEF ProxyCheck, ProxyHandler, Quiet, Others, OthersStay, Special, Reconciling, Unlocked, Fault, NoFault, LocalsType, Goto, Return, locals, tmux, mgr
  <2> QED BY <2>1, QuietFits
<1>6. CASE ProxyVerify(w)
  <2>1. CASE pc'[w] = "pRemove"
    <3>1. /\ Others(w) /\ UNCHANGED <<tmux, dirs, target>> /\ NoFault /\ pc[w] = "pVerify"
          /\ commandMu = Nobody /\ target[w] \notin live /\ EvictActive(target[w])
      BY <1>6, <2>1 DEF ProxyVerify, Passes, Quiet, Others, OthersStay, Special, Reconciling, Unlocked, Fault, NoFault, LocalsType, Goto, Return, locals, tmux, mgr
    <3>2. Recorded' = Recorded \/ Recorded' = Recorded \ {target[w]}
      BY <3>1 DEF EvictActive, Recorded, MapsType
    <3> QED BY <2>1, <3>1, <3>2
            DEF Fits, Settled, Steady, KeptAt, CountAt, Reconciling, Unlocked, Moves, SessionsMove, RecordsMove,
                WorkerMoves, Drops, Others, tmux, NoFault
  <2>2. CASE pc'[w] # "pRemove"
    <3>1. Quiet(w)
      BY <1>6, <2>2 DEF ProxyVerify, Quiet, Others, OthersStay, Special, Reconciling, Unlocked, Fault, NoFault, LocalsType, Goto, Return, locals, tmux, mgr
    <3> QED BY <3>1, QuietFits
  <2> QED BY <2>1, <2>2
<1>7. CASE ProxyRemovesRuntime(w)
  <2>1. Others(w) /\ UNCHANGED <<tmux, instances>> /\ NoFault /\ pc[w] = "pRemove" /\ pc'[w] = "idle"
    BY <1>7 DEF ProxyRemovesRuntime, Quiet, Others, OthersStay, Special, Reconciling, Unlocked, Fault, NoFault, LocalsType, Goto, Return, locals, tmux, mgr
  <2>2. dirs' = dirs \ {target[w]} /\ target[w] \notin live
    BY <1>7 DEF ProxyRemovesRuntime, KeptInv, KeptAt
  <2>3. Moves(w)
    BY <2>1, <2>2 DEF Moves, SessionsMove, RecordsMove, WorkerMoves, Unlocked, NoFault, Recorded, Drops, Others, tmux
  <2>4. KeptAt(w)' /\ CountAt(w)' /\ Steady(w)
    BY <2>1 DEF KeptAt, CountAt, Reconciling, Steady
  <2> QED BY <2>3, <2>4 DEF Fits, Settled
<1>8. CASE ProxyFinal(w)
  <2>1. Quiet(w)
    BY <1>8, SMTT(30) DEF ProxyFinal, ProxyHandler, Quiet, Others, OthersStay, Special, Reconciling, Unlocked, Fault, NoFault, LocalsType, Goto, Return, locals, tmux, mgr
  <2> QED BY <2>1, QuietFits
<1> QED BY <1>1, <1>2, <1>3, <1>4, <1>5, <1>6, <1>7, <1>8 DEF ProxyStep

LEMMA ListStepFits ==
    ASSUME Before, NEW w \in Workers, ListDiscover(w) \/ ListReconcile(w)
    PROVE  Fits(w)
<1> USE DEF Before, World, TypeInv
<1>1. CASE ListDiscover(w)
  <2>1. CASE TakesList(w)
    BY <2>1, ListFits
  <2>2. CASE ~TakesList(w)
    <3>1. Quiet(w)
      BY <1>1, <2>2, SMTT(30) DEF ListDiscover, Discover, TakesList, Quiet, Others, OthersStay, Special, Reconciling, Unlocked, Fault, NoFault, LocalsType, Goto, Return, locals, tmux, mgr
    <3> QED BY <3>1, QuietFits
  <2> QED BY <2>1, <2>2
<1>2. CASE ListReconcile(w)
  <2>1. AppliesList(w)
    BY <1>2 DEF ListReconcile, AppliesList, Quiet, Others, OthersStay, Special, Reconciling, Unlocked, Fault, NoFault, LocalsType, Goto, Return, locals, tmux, mgr
  <2> QED BY <2>1, ReconcileFits
<1> QED BY <1>1, <1>2

LEMMA ShutdownFits ==
    ASSUME Before, NEW w \in Workers, ShutdownStep(w)
    PROVE  Fits(w)
<1> USE DEF Before, World, TypeInv
<1>1. CASE ShutdownBegin(w)
  <2>1. Quiet(w)
    BY <1>1, SMTT(30) DEF ShutdownBegin, Quiet, Others, OthersStay, Special, Reconciling, Unlocked, Fault, NoFault, LocalsType, Goto, Return, locals, tmux, mgr
  <2> QED BY <2>1, QuietFits
<1>2. CASE ShutdownWoken(w) \/ ShutdownInterrupt(w)
  <2>1. Quiet(w)
    BY <1>2 DEF ShutdownWoken, ShutdownInterrupt, Quiet, Others, OthersStay, Special, Reconciling, Unlocked, Fault, NoFault, LocalsType, Goto, Return, locals, tmux, mgr
  <2> QED BY <2>1, QuietFits
<1>3. CASE ShutdownKill(w)
  <2>1. /\ Others(w) /\ UNCHANGED <<instances, tagged, folderOf, dirs>> /\ pc[w] = "sKill"
        /\ live' \in {live, {}} /\ pc'[w] \in {"sClear", "sFailed"} /\ (pc'[w] = "sClear" => live' = {})
    BY <1>3 DEF ShutdownKill, Quiet, Others, OthersStay, Special, Reconciling, Unlocked, Fault, NoFault, LocalsType, Goto, Return, locals, tmux, mgr
  <2>2. faults = MaxFaults => faults' = faults
    BY <1>3, BoundsAssumption DEF ShutdownKill, Fault, NoFault
  <2>3. Recorded' = Recorded
    BY <2>1 DEF Recorded
  <2>4. Moves(w)
    BY <2>1, <2>2, <2>3 DEF Moves, SessionsMove, RecordsMove, WorkerMoves, Others, Unlocked
  <2>5. KeptAt(w)' /\ CountAt(w)' /\ Steady(w)
    BY <2>1 DEF KeptAt, CountAt, Reconciling, Steady
  <2> QED BY <2>4, <2>5 DEF Fits, Settled
<1>4. CASE ShutdownClear(w)
  <2>1. Others(w) /\ UNCHANGED tmux /\ pc[w] = "sClear" /\ pc'[w] \in {"sDone", "sFailed"} /\ Recorded' = {}
    BY <1>4 DEF ShutdownClear, Recorded, Quiet, Others, OthersStay, Special, Reconciling, Unlocked, Fault, NoFault, LocalsType, Goto, Return, locals, tmux, mgr
  <2>2. faults = MaxFaults => faults' = faults
    BY <1>4, BoundsAssumption DEF ShutdownClear, Fault, NoFault
  <2>3. commandMu = w /\ live = {} /\ dirs' \subseteq dirs
    BY <1>4 DEF ShutdownClear, Release, KeptInv, KeptAt
  <2>4. Moves(w)
    BY <2>1, <2>2, <2>3 DEF Moves, SessionsMove, RecordsMove, WorkerMoves, Unlocked, Drops, Others, tmux
  <2>5. KeptAt(w)' /\ CountAt(w)' /\ Steady(w)
    BY <2>1 DEF KeptAt, CountAt, Reconciling, Steady
  <2> QED BY <2>4, <2>5 DEF Fits, Settled
<1>5. CASE ShutdownEnd(w)
  <2>1. Quiet(w)
    BY <1>5 DEF ShutdownEnd, Quiet, Others, OthersStay, Special, Reconciling, Unlocked, Fault, NoFault, LocalsType, Goto, Return, locals, tmux, mgr
  <2> QED BY <2>1, QuietFits
<1> QED BY <1>1, <1>2, <1>3, <1>4, <1>5 DEF ShutdownStep

LEMMA RequestFits ==
    ASSUME Before, NEW w \in Workers, Request(w) \/ Cancel(w)
    PROVE  Fits(w)
<1> USE DEF Before, World, TypeInv
<1>1. Quiet(w)
  <2>1. CASE \E f \in Folders : StartCreate(w, f)
    BY <2>1 DEF StartCreate, Quiet, Others, OthersStay, Special, Reconciling, Unlocked, Fault, NoFault, LocalsType, Goto, Return, locals, tmux, mgr
  <2>2. CASE \E i \in Ids : StartDelete(w, i) \/ StartProxy(w, i)
    BY <2>2 DEF StartDelete, StartProxy, Quiet, Others, OthersStay, Special, Reconciling, Unlocked, Fault, NoFault, LocalsType, Goto, Return, locals, tmux, mgr
  <2>3. CASE StartList(w) \/ StartShutdown(w) \/ Cancel(w)
    BY <2>3 DEF StartList, StartShutdown, Cancel, Quiet, Others, OthersStay, Special, Reconciling, Unlocked, Fault, NoFault, LocalsType, Goto, Return, locals, tmux, mgr
  <2> QED BY <2>1, <2>2, <2>3 DEF Request
<1> QED BY <1>1, QuietFits

LEMMA StepFits ==
    ASSUME Before, NEW w \in Workers, Running(Request(w) \/ Cancel(w) \/ Progress(w))
    PROVE  Fits(w)
BY CreateFits, DeleteFits, ProxyFits, ListStepFits, ShutdownFits, RequestFits DEF Running, Progress

-----------------------------------------------------------------------------
(* The invariants.                                                         *)

LEMMA KeptInit == Init => KeptInv /\ LimitInv
<1> SUFFICES ASSUME Init PROVE KeptInv /\ LimitInv
  OBVIOUS
<1>1. KeptInv
  BY DEF Init, KeptInv, DownIdle, VisibleKept, Visible, TaggedAllocated, KeptAt, Reconciling, LaunchedApart, Unlocked
<1>2. Recorded = {}
  BY DEF Init, Recorded
<1>3. Bounded({})
  BY FS_EmptySet, BoundsAssumption DEF Bounded
<1>4. LimitInv
  BY <1>2, <1>3 DEF Init, LimitInv, CountAt, Reconciling
<1> QED BY <1>1, <1>4

LEMMA KeptStep ==
    ASSUME World, KeptInv, LimitInv, [Next]_vars
    PROVE  KeptInv' /\ LimitInv'
<1>1. ASSUME NEW w \in Workers, Running(Request(w) \/ Cancel(w) \/ Progress(w))
      PROVE  KeptInv' /\ LimitInv'
  <2>1. up /\ up'
    BY <1>1 DEF Running
  <2>2. Fits(w)
    BY <1>1, <2>1, StepFits DEF Before
  <2> QED BY <2>1, <2>2, KeepsVisible, KeepsLimit DEF Fits
<1>2. CASE Crash
  <2>1. KeptInv'
    BY <1>2 DEF Crash, tmux, KeptInv, DownIdle, VisibleKept, TaggedAllocated, KeptAt, Reconciling, LaunchedApart, Unlocked
  <2>2. Recorded' = {}
    BY <1>2 DEF Crash, Recorded
  <2>3. Bounded({})
    BY FS_EmptySet, BoundsAssumption DEF Bounded
  <2>4. LimitInv'
    BY <1>2, <2>2, <2>3 DEF Crash, LimitInv, CountAt, Reconciling, Bounded
  <2> QED BY <2>1, <2>4
<1>3. CASE Initialize
  <2>1. live' = {} /\ UNCHANGED <<instances, pc, target, seen, tagged, folderOf>>
    BY <1>3 DEF Initialize, mgr, locals
  <2>2. \A w \in Workers : pc[w] \notin {"launch", "tag"}
    BY <1>3 DEF Initialize, KeptInv, DownIdle
  <2>3. KeptInv'
    BY <1>3, <2>1, <2>2 DEF Initialize, KeptInv, DownIdle, VisibleKept, Visible, TaggedAllocated, KeptAt, LaunchedApart
  <2>4. LimitInv'
    BY <2>1 DEF LimitInv, CountAt, Recorded, Bounded
  <2> QED BY <2>3, <2>4
<1>4. CASE (\E i \in Ids : Exit(i)) \/ UNCHANGED vars
  <2>1. live' \subseteq live /\ UNCHANGED <<instances, pc, target, seen, tagged, folderOf, dirs, up>>
    BY <1>4 DEF Exit, vars, mgr, locals
  <2>2. KeptInv'
    BY <2>1 DEF KeptInv, DownIdle, VisibleKept, Visible, TaggedAllocated, KeptAt, LaunchedApart, Recorded
  <2>3. LimitInv'
    BY <2>1 DEF LimitInv, CountAt, Recorded, Bounded
  <2> QED BY <2>2, <2>3
<1> QED BY <1>1, <1>2, <1>3, <1>4 DEF Next

\* The inductive invariant, for any number of failing commands and crashes.
THEOREM KeptInvariant == Spec => [](KeptInv /\ LimitInv)
<1>1. TypeInv /\ CommandsSerialized /\ OwnerInv /\ KeptInv /\ LimitInv /\ [Next]_vars => KeptInv' /\ LimitInv'
  BY KeptStep DEF World, OwnerInv, MapsInv
<1> QED BY <1>1, KeptInit, TypeInvariant, CommandMuSerializes, OwnerInvariant, PTL DEF Spec

\* The records never exceed MaxServers: neither a Create that waits between
\* its decision and its reservation, nor a list that is applied late, adds one.
THEOREM LimitIsKept == Spec => []LimitKept
<1>1. LimitInv => LimitKept
  BY DEF LimitInv, Bounded, LimitKept
<1> QED BY <1>1, KeptInvariant, PTL

\* Whatever number of commands fails: a session that a listing shows keeps its
\* record, by which Delete finds it, and its runtime directory.
THEOREM VisibleStaysKept == Spec => []VisibleKept
<1>1. KeptInv => VisibleKept
  BY DEF KeptInv
<1> QED BY <1>1, KeptInvariant, PTL

LEMMA LiveStep ==
    ASSUME MaxFaults <= 1, World, KeptInv, LimitInv, LiveInv, [Next]_vars
    PROVE  LiveInv'
<1>0. faults \in Nat /\ live \subseteq Ids /\ tagged \subseteq Ids
  BY DEF World, TypeInv, WorldType
<1>1. ASSUME NEW w \in Workers, Running(Request(w) \/ Cancel(w) \/ Progress(w))
      PROVE  LiveInv'
  <2>1. up /\ up' /\ Fits(w)
    BY <1>1, StepFits DEF Running, Before
  <2>2. CASE Steady(w)
    BY <2>1, <2>2, KeepsUntagged DEF Fits
  <2>3. /\ \A v \in Workers \ {w} : pc'[v] = pc[v] /\ target'[v] = target[v]
        /\ faults = MaxFaults => faults' = faults
    BY <2>1 DEF Fits, Moves, WorkerMoves, OthersStay
  <2>4. ASSUME pc[w] \in HoldsCommandMu
        PROVE  \A v \in Workers : pc[v] \in HoldsCommandMu => v = w
    BY <2>4 DEF World, CommandsSerialized
  <2>5. CASE Launch(w)
    <3>1. /\ pc[w] = "launch" /\ target[w] \in Recorded \cap dirs /\ target[w] \notin live
          /\ UNCHANGED <<target, instances, dirs, tagged>> /\ Recorded' = Recorded
      BY <2>5 DEF Launch, KeptInv, KeptAt, locals, mgr, Recorded
    <3>2. live \subseteq tagged
      <4>1. \A v \in Workers : pc[v] \notin {"tag", "cleanup"}
        BY <2>4, <3>1 DEF HoldsCommandMu
      <4> QED BY <2>1, <4>1 DEF LiveInv, UntaggedKept, Launches
    <3>3. \/ live' = live \cup {target[w]} /\ (pc'[w] = "tag" \/ (pc'[w] = "cleanup" /\ faults' = MaxFaults))
          \/ live' = live /\ pc'[w] = "unlaunch"
      BY <1>0, <2>5, BoundsAssumption DEF Launch, Goto, Fault, NoFault, World, TypeInv, LocalsType
    <3>4. UntaggedKept'
      BY <3>1, <3>2, <3>3 DEF UntaggedKept, Launches
    <3>5. UnlaunchedDead'
      <4>1. \A v \in Workers \ {w} : pc[v] # "unlaunch"
        BY <2>4, <3>1 DEF HoldsCommandMu
      <4> QED BY <2>3, <3>1, <3>3, <4>1 DEF UnlaunchedDead
    <3> QED BY <3>4, <3>5 DEF LiveInv
  <2>6. CASE Tag(w)
    <3>1. /\ pc[w] = "tag" /\ UNCHANGED <<target, instances, dirs, live>> /\ Recorded' = Recorded
          /\ \/ tagged' = tagged \cup {target[w]} /\ pc'[w] = "verify"
             \/ tagged' = tagged /\ target[w] \notin live
             \/ tagged' = tagged /\ pc'[w] = "cleanup" /\ faults' = MaxFaults
      BY <1>0, <2>6, BoundsAssumption DEF Tag, locals, mgr, Recorded, Goto, Fault, NoFault, World, TypeInv, LocalsType
    <3>2. \A i \in live \ tagged : i = target[w] /\ i \in Recorded \cap dirs
      <4>1. \A v \in Workers : pc[v] \in {"tag", "cleanup"} => v = w
        BY <2>4, <3>1 DEF HoldsCommandMu
      <4> QED BY <2>1, <4>1 DEF LiveInv, UntaggedKept, Launches
    <3>3. UntaggedKept'
      BY <3>1, <3>2 DEF UntaggedKept, Launches
    <3>4. UnlaunchedDead'
      BY <2>3, <2>6, <3>1 DEF LiveInv, UnlaunchedDead, Tag, Goto, World, TypeInv, LocalsType
    <3> QED BY <3>3, <3>4 DEF LiveInv
  <2>7. CASE Cleanup(w)
    <3>1. /\ pc[w] = "cleanup" /\ UNCHANGED <<target, instances, dirs, tagged>> /\ Recorded' = Recorded
          /\ live' \subseteq live
      BY <2>7 DEF Cleanup, Stopped, locals, mgr, Recorded
    <3>2. \/ live' = live \ {target[w]}
          \/ faults # MaxFaults /\ pc'[w] = "markFailed"
      BY <2>7, BoundsAssumption DEF Cleanup, Stopped, Fault, Goto, World, TypeInv, LocalsType
    <3>3. \A i \in live \ tagged : i = target[w] /\ faults = MaxFaults
      <4>1. \A v \in Workers : pc[v] \in {"tag", "cleanup"} => v = w
        BY <2>4, <3>1 DEF HoldsCommandMu
      <4> QED BY <2>1, <3>1, <4>1 DEF LiveInv, UntaggedKept, Launches
    <3>4. UntaggedKept'
      BY <3>1, <3>2, <3>3 DEF UntaggedKept
    <3>5. UnlaunchedDead'
      BY <2>3, <3>1, <3>2 DEF LiveInv, UnlaunchedDead
    <3> QED BY <3>4, <3>5 DEF LiveInv
  <2> QED BY <2>1, <2>2, <2>5, <2>6, <2>7 DEF Fits, Settled
<1>2. CASE Crash \/ Initialize
  <2>1. ~up' \/ live' = {}
    BY <1>2 DEF Crash, Initialize
  <2>2. \A w \in Workers : pc'[w] # "unlaunch"
    <3>1. CASE Crash
      BY <3>1 DEF Crash
    <3>2. CASE Initialize
      BY <3>2 DEF Initialize, KeptInv, DownIdle
    <3> QED BY <1>2, <3>1, <3>2
  <2> QED BY <2>1, <2>2 DEF LiveInv, UntaggedKept, UnlaunchedDead
<1>3. CASE (\E i \in Ids : Exit(i)) \/ UNCHANGED vars
  <2>1. live' \subseteq live /\ UNCHANGED <<instances, pc, target, tagged, dirs, faults, up>>
    BY <1>3 DEF Exit, vars, mgr, locals
  <2> QED BY <2>1 DEF LiveInv, UntaggedKept, UnlaunchedDead, Launches, Recorded
<1> QED BY <1>1, <1>2, <1>3 DEF Next

\* While one command at most has failed, no session runs without its record
\* and its runtime directory, tagged or not. (With two, a new-session that
\* fails after all and a has-session that fails too leave an untagged one.)
THEOREM LiveStaysKept ==
    ASSUME MaxFaults <= 1
    PROVE  Spec => []LiveKept
<1>1. Init => LiveInv
  BY DEF Init, LiveInv, UntaggedKept, UnlaunchedDead
<1>2. TypeInv /\ CommandsSerialized /\ OwnerInv /\ KeptInv /\ LimitInv /\ LiveInv /\ [Next]_vars => LiveInv'
  BY LiveStep DEF World, OwnerInv, MapsInv
<1>3. TypeInv /\ KeptInv /\ LiveInv => LiveKept
  BY DEF TypeInv, WorldType, KeptInv, VisibleKept, Visible, LiveInv, UntaggedKept, LiveKept
<1> QED BY <1>1, <1>2, <1>3, TypeInvariant, CommandMuSerializes, OwnerInvariant, KeptInvariant, PTL DEF Spec

=============================================================================
