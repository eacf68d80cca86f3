--------------------------- MODULE MCCommuThread ---------------------------
(* Instances of CommuThread for TLC.                                       *)
EXTENDS CommuThread

(***************************************************************************)
(* A bench on which nothing fails: the motors start switched off and no    *)
(* frame is lost, so the only thing that can go wrong is the interleaving  *)
(* of the shell's stores with the thread's loads.                          *)
(***************************************************************************)
FaultlessNext ==
  \/ Shell
  \/ DelayDone \/ DispatchProtocol \/ DecideEdge
  \/ Regulate \/ StoreOutput \/ Relax \/ PackCommand
  \/ \E m \in Motors : Deliver(m)
  \/ RecordEnable

FaultlessSpec ==
  /\ Init /\ \A m \in Motors : Mode(m) = 0
  /\ [][FaultlessNext]_vars
  /\ WF_vars(FaultlessNext /\ ~Shell)

\* "//exit" (test.c:210): a motor that is disabled and stays so is sent the
\* exit frame, that is, it leaves motor mode.
DisableStops ==
  \A m \in Motors :
    (motor_enable[m] = 0 /\ protocol[m] = 0)
      ~> (Mode(m) = 0 \/ motor_enable[m] = 1 \/ protocol[m] # 0)
=============================================================================
