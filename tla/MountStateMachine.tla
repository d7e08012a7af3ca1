-------------------------- MODULE MountStateMachine --------------------------
(* The state machine of mount/state_machine.rs.  transition reads the state under *)
(* one guard and writes it under another, then appends to the history, which      *)
(* keeps the last max_history transitions: three awaits, and callers that run at  *)
(* once interleave at each of them.                                               *)
EXTENDS Integers, Sequences

CONSTANTS Movers,       \* tasks that call transition
          MaxHistory    \* max_history

ASSUME MachineAssumption == MaxHistory \in Nat \ {0}

VARIABLES currentState,      \* the state
          mover,        \* each caller: the state it read and the one it wants
          history       \* the recorded transitions

MachineVars == <<currentState, mover, history>>

MountStates == {"Unmounted", "Mounting", "Mounted", "Failed", "Unmounting"}
Parked == [at |-> "idle", from |-> "Unmounted", to |-> "Unmounted"]

MachineTypeOK ==
  /\ currentState \in MountStates
  /\ mover \in [Movers -> [at: {"idle", "write", "record"}, from: MountStates,
                           to: MountStates]]
  /\ history \in Seq([from: MountStates, to: MountStates])

MachineInit ==
  /\ currentState = "Unmounted" /\ history = <<>>
  /\ mover = [k \in Movers |-> Parked]

Transitions ==
  {<<"Unmounted", "Mounting">>, <<"Mounting", "Mounted">>, <<"Mounting", "Failed">>,
   <<"Mounted", "Unmounting">>, <<"Mounted", "Failed">>, <<"Failed", "Mounting">>,
   <<"Failed", "Unmounted">>, <<"Unmounting", "Unmounted">>,
   <<"Unmounting", "Failed">>}
CanTransition(s, t) == s = t \/ <<s, t>> \in Transitions

\* Faulty: nothing is refused.
CheckNothing(k, t) ==
  /\ mover[k] = Parked
  /\ mover' = [mover EXCEPT ![k] = [at |-> "write", from |-> currentState, to |-> t]]
  /\ UNCHANGED <<currentState, history>>

\* An invalid transition is refused and changes nothing.
CheckTransition(k, t) ==
  /\ mover[k] = Parked /\ CanTransition(currentState, t)
  /\ mover' = [mover EXCEPT ![k] = [at |-> "write", from |-> currentState, to |-> t]]
  /\ UNCHANGED <<currentState, history>>

WriteState(k) ==
  /\ mover[k].at = "write"
  /\ currentState' = mover[k].to
  /\ mover' = [mover EXCEPT ![k].at = "record"]
  /\ UNCHANGED history

RecordTransition(k) ==
  LET longer == Append(history, [from |-> mover[k].from, to |-> mover[k].to])
  IN /\ mover[k].at = "record"
     /\ history' = IF Len(longer) > MaxHistory THEN Tail(longer) ELSE longer
     /\ mover' = [mover EXCEPT ![k] = Parked]
     /\ UNCHANGED currentState

\* reset is a transition to Unmounted.
MachineNext ==
  \E k \in Movers : \/ \E t \in MountStates : CheckTransition(k, t)
                    \/ WriteState(k) \/ RecordTransition(k)

MachineSpec == MachineInit /\ [][MachineNext]_MachineVars

-----------------------------------------------------------------------------
(* Properties *)

\* The state takes a step the transition table forbids only when another caller
\* changed it between the check and the write.
ForbiddenStepNeedsOverlap ==
  [][~CanTransition(currentState, currentState') =>
       \E k \in Movers : /\ mover[k].at = "write" /\ mover[k].from # currentState
     ]_MachineVars
=============================================================================
