---------------------------- MODULE MotorSwitch ----------------------------
(***************************************************************************)
(* What the operator may rely on when switching motors on and off: a motor *)
(* changes its mode only in answer to a request of its own that has not    *)
(* been answered yet, so it never starts or stops on its own and one       *)
(* request never starts it twice.  A request may go unanswered: the bench  *)
(* gives no stronger promise (see CommuThread).                            *)
(***************************************************************************)
CONSTANT Motors     \* the motors of the bench

VARIABLES want,     \* want[m]: the value of m's switch, 1 is on
          pending,  \* pending[m]: switch positions chosen and not answered yet
          mode      \* mode[m]: whether m is in motor mode

switchVars == <<want, pending, mode>>

SwitchInit ==
  /\ want = [m \in Motors |-> 0]
  /\ pending = [m \in Motors |-> {}]
  /\ mode \in [Motors -> {0, 1}]

\* The operator moves the switch of m to v; leaving it where it is asks nothing.
Request(m, v) ==
  /\ v # want[m]
  /\ want' = [want EXCEPT ![m] = v]
  /\ pending' = [pending EXCEPT ![m] = @ \cup {v}]
  /\ UNCHANGED mode

Answer(m, v) ==
  /\ v \in pending[m]
  /\ mode' = [mode EXCEPT ![m] = v]
  /\ pending' = [pending EXCEPT ![m] = @ \ {v}]
  /\ UNCHANGED want

Drop(m, v) ==
  /\ v \in pending[m]
  /\ pending' = [pending EXCEPT ![m] = @ \ {v}]
  /\ UNCHANGED <<want, mode>>

SwitchNext ==
  \E m \in Motors, v \in {0, 1} : Request(m, v) \/ Answer(m, v) \/ Drop(m, v)

SwitchSpec == SwitchInit /\ [][SwitchNext]_switchVars
=============================================================================
