--------------------------- MODULE ServicesProofs ---------------------------
(***************************************************************************)
(* The parts of MCServices together: in every instance, whichever part     *)
(* runs, its inductive invariant holds.  Each step is a step of one part,  *)
(* whose own proof is in StoreProofs, HostProofs or StreamMuxProofs.       *)
(***************************************************************************)
EXTENDS MCServices, StoreProofs, HostProofs, StreamMuxProofs

LEMMA ServicesInit == Init => ServicesInv
<1> SUFFICES ASSUME Init PROVE ServicesInv
    OBVIOUS
<1>1. ScanInit /\ StageInit /\ CfgInit /\ BakInit /\ MuxInit /\ PoolInit /\ InstInit /\ ScrInit
    BY DEF Init
<1>2. ScanInv /\ StageInv /\ CfgInv /\ BakInv /\ MuxInv /\ PoolInv /\ InstInv
    BY <1>1, ScanInitInv, StageInitInv, CfgInitInv, BakInitInv, MuxInitHolds, PoolInitInv, InstInitInv
<1>3. ScrTypeOK /\ ScrTriesLeft /\ ScrInv /\ ScrRowInv
    BY <1>1, ScrTypesInit, ScrInitInv, ScrRowInit
<1>q. QED BY <1>2, <1>3 DEF ServicesInv

LEMMA ServicesStep == ServicesInv /\ [Next]_vars => ServicesInv'
<1> SUFFICES ASSUME ServicesInv, [Next]_vars PROVE ServicesInv'
    OBVIOUS
<1>1. part' = part
    BY DEF Next, vars, ScanPart, StagePart, CfgPart, BakPart, MuxPart, PoolPart, InstPart, ScrPart
<1>2. ASSUME part = "scan" PROVE ScanInv'
  <2>1. ScanInv /\ [ScanNext]_scanVars
      BY <1>2 DEF ServicesInv, Next, vars, serviceVars, hostVars,
                  ScanPart, StagePart, CfgPart, BakPart, MuxPart, PoolPart, InstPart, ScrPart
  <2>q. QED BY <2>1, ScanInductive
<1>3. ASSUME part = "stage" PROVE StageInv'
  <2>1. StageInv /\ [StageNext]_stageVars
      BY <1>3 DEF ServicesInv, Next, vars, serviceVars, hostVars,
                  ScanPart, StagePart, CfgPart, BakPart, MuxPart, PoolPart, InstPart, ScrPart
  <2>q. QED BY <2>1, StageNextInv
<1>4. ASSUME part = "config" PROVE CfgInv'
  <2>1. CfgInv /\ [CfgNext]_cfgVars
      BY <1>4 DEF ServicesInv, Next, vars, serviceVars, hostVars,
                  ScanPart, StagePart, CfgPart, BakPart, MuxPart, PoolPart, InstPart, ScrPart
  <2>q. QED BY <2>1, CfgNextInv
<1>5. ASSUME part = "backup" PROVE BakInv'
  <2>1. BakInv /\ [BakNext]_bakVars
      BY <1>5 DEF ServicesInv, Next, vars, serviceVars, hostVars,
                  ScanPart, StagePart, CfgPart, BakPart, MuxPart, PoolPart, InstPart, ScrPart
  <2>q. QED BY <2>1, BakNextInv
<1>6. ASSUME part = "mux" PROVE MuxInv'
  <2>1. MuxInv /\ [MuxNext]_muxVars
      BY <1>6 DEF ServicesInv, Next, vars, serviceVars, hostVars,
                  ScanPart, StagePart, CfgPart, BakPart, MuxPart, PoolPart, InstPart, ScrPart
  <2>q. QED BY <2>1, MuxStepKeeps
<1>7. ASSUME part = "pool" PROVE PoolInv'
  <2>1. PoolInv /\ [PoolNext]_poolVars
      BY <1>7 DEF ServicesInv, Next, vars, serviceVars, hostVars,
                  ScanPart, StagePart, CfgPart, BakPart, MuxPart, PoolPart, InstPart, ScrPart
  <2>q. QED BY <2>1, PoolInvInductive
<1>8. ASSUME part = "install" PROVE InstInv'
  <2>1. InstInv /\ [InstNext]_instVars
      BY <1>8 DEF ServicesInv, Next, vars, serviceVars, hostVars,
                  ScanPart, StagePart, CfgPart, BakPart, MuxPart, PoolPart, InstPart, ScrPart
  <2>q. QED BY <2>1, InstInductive
<1>9. ASSUME part = "scratch" PROVE (ScrTypeOK /\ ScrTriesLeft /\ ScrInv /\ ScrRowInv)'
  <2>1. ScrTypeOK /\ ScrTriesLeft /\ ScrInv /\ ScrRowInv /\ [ScrNext]_scrVars
      BY <1>9 DEF ServicesInv, Next, vars, serviceVars, hostVars,
                  ScanPart, StagePart, CfgPart, BakPart, MuxPart, PoolPart, InstPart, ScrPart
  <2>q. QED BY <2>1, ScrTypesInductive, ScrInductive, ScrRowInductive
<1>q. QED BY <1>1, <1>2, <1>3, <1>4, <1>5, <1>6, <1>7, <1>8, <1>9 DEF ServicesInv

\* In every instance of the eight parts, whichever runs, the inductive invariant
\* from which its properties follow holds of every state.
THEOREM ServicesTheorem == Spec => []ServicesInv
<1>q. QED BY ServicesInit, ServicesStep, PTL DEF Spec
=============================================================================
