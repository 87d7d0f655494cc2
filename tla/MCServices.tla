----------------------------- MODULE MCServices -----------------------------
(***************************************************************************)
(* Small instances of the parts that keep state of their own beside the    *)
(* job queue and the outbox: the services with durable state, and the      *)
(* processes and files of a host.  They share no state, so a behaviour of  *)
(* one run is a behaviour of one of them, picked by `part`; the others     *)
(* stay in their initial states.                                           *)
(***************************************************************************)
EXTENDS StorageScan, StageTransfer, ConfigDocuments, BackupRepository, StreamMux,
        MediaPool, PluginInstall, AcquireScratch, TLC

CONSTANTS n1, n2, s1, s2, j1, j2, Parts
VARIABLE part

SameDrive == n1 :> "drive" @@ n2 :> "drive"

OneStream == s1 :> "client"
OneUpload == "client" :> (s1 :> 2) @@ "server" :> (s1 :> 0)
TwoStreams == s1 :> "client" @@ s2 :> "client"
TwoUploads == "client" :> (s1 :> 2 @@ s2 :> 0) @@ "server" :> (s1 :> 0 @@ s2 :> 0)

OneWorker == [workers |-> 1, runner |-> "worker"]
AllRunners == {OneWorker, [workers |-> 2, runner |-> "worker"],
               [workers |-> 1, runner |-> "inprocess"], [workers |-> 1, runner |-> "refuse"]}

OneBook == j1 :> "b" @@ j2 :> "b"

serviceVars == <<scanVars, stageVars, cfgVars, bakVars, muxVars>>
hostVars == <<poolVars, instVars, scrVars>>
vars == <<part, serviceVars, hostVars>>

Init == /\ part \in Parts
        /\ ScanInit /\ StageInit /\ CfgInit /\ BakInit /\ MuxInit
        /\ PoolInit /\ InstInit /\ ScrInit

ScanPart == part = "scan" /\ ScanNext /\ UNCHANGED <<part, hostVars, stageVars, cfgVars, bakVars, muxVars>>
StagePart == part = "stage" /\ StageNext /\ UNCHANGED <<part, hostVars, scanVars, cfgVars, bakVars, muxVars>>
CfgPart == part = "config" /\ CfgNext /\ UNCHANGED <<part, hostVars, scanVars, stageVars, bakVars, muxVars>>
BakPart == part = "backup" /\ BakNext /\ UNCHANGED <<part, hostVars, scanVars, stageVars, cfgVars, muxVars>>
MuxPart == part = "mux" /\ MuxNext /\ UNCHANGED <<part, hostVars, scanVars, stageVars, cfgVars, bakVars>>
PoolPart == part = "pool" /\ PoolNext /\ UNCHANGED <<part, serviceVars, instVars, scrVars>>
InstPart == part = "install" /\ InstNext /\ UNCHANGED <<part, serviceVars, poolVars, scrVars>>
ScrPart == part = "scratch" /\ ScrNext /\ UNCHANGED <<part, serviceVars, poolVars, instVars>>

Next == ScanPart \/ StagePart \/ CfgPart \/ BakPart \/ MuxPart \/ PoolPart \/ InstPart \/ ScrPart

Spec == Init /\ [][Next]_vars

\* The fairness of each component, for the part that runs.
Fairness ==
    /\ \A n \in ScanNodes : WF_scanVars(part = "scan" /\ ScanStep(n))
    /\ WF_scanVars(part = "scan" /\ ScanLeaseExpires)
    /\ WF_scanVars(part = "scan" /\ \E s \in ScanIds : ScanReclaimPage(s))
    /\ \A a \in StageAttempts : WF_stageVars(part = "stage" /\ StageStep(a))
    /\ \A r \in StageReapers : WF_stageVars(part = "stage" /\ StageReapStep(r))
    /\ WF_cfgVars(part = "config" /\ CfgTickStep) /\ WF_cfgVars(part = "config" /\ CfgReloadStep)
    /\ \A e \in MuxEnds :
          /\ WF_muxVars(part = "mux" /\ MuxWriterStep(e)) /\ WF_muxVars(part = "mux" /\ MuxRead(e))
          /\ \A s \in MuxStreams : WF_muxVars(part = "mux" /\ (MuxOwnerStep(e, s) \/ MuxLeave(e, s)))

FairSpec == Spec /\ Fairness

BackupFairSpec == Spec /\ \A p \in BakProcs : WF_bakVars(part = "backup" /\ BakStep(p))

\* Types, and what each part's steps rely on: the inductive invariants from which
\* the proofs start (an idle part keeps its Init).
ServicesInv ==
    /\ part = "scan" => ScanInv
    /\ part = "stage" => StageInv
    /\ part = "config" => CfgInv
    /\ part = "backup" => BakInv
    /\ part = "mux" => MuxInv
    /\ part = "pool" => PoolInv
    /\ part = "install" => InstInv
    /\ part = "scratch" => ScrTypeOK /\ ScrTriesLeft /\ ScrInv /\ ScrRowInv
=============================================================================
