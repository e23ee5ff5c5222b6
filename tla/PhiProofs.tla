----------------------------- MODULE PhiProofs ------------------------------
(***************************************************************************)
(* The philosophers, for any number of them: those of PhiCondvar keep to   *)
(* the monitor's protocol, eat when they return from cond_wait and         *)
(* implement Dining.                                                       *)
(*                                                                         *)
(* What MonitorProofs shows of every monitor holds of theirs, because each *)
(* step of a philosopher is one of Monitor's.  Those of PhiSema have an    *)
(* invariant of their own, in the second half.                             *)
(***************************************************************************)
EXTENDS PhiCondvar, SequenceFacts, FiniteSetTheorems, TLAPS

VARIABLE state_sema

USE PhiAssumption

MP == INSTANCE MonitorProofs WITH Thread <- Phi, CV <- Phi

(* The neighbours of a philosopher are philosophers.                       *)
LEMMA Neighbours ==
  /\ NULL \notin Phi
  /\ \A i \in Phi : LEFT(i) \in Phi /\ RIGHT(i) \in Phi
<1>1. \A i \in Phi : (i - 1 + N) % N \in 0..N-1 /\ (i + 1) % N \in 0..N-1
  BY DEF Phi
<1>2. QED
  BY <1>1 DEF Phi, LEFT, RIGHT

(* Nobody is its own neighbour.                                            *)
LEMMA NoSelf == \A i \in Phi : LEFT(i) \in Phi \ {i} /\ RIGHT(i) \in Phi \ {i}
<1>1. \A i \in Phi : LEFT(i) = (IF i = 0 THEN N - 1 ELSE i - 1) /\ RIGHT(i) = (IF i = N - 1 THEN 0 ELSE i + 1)
  BY DEF Phi, LEFT, RIGHT
<1>2. QED
  BY <1>1 DEF Phi

(* The monitor of the proofs is that of the philosophers.                  *)
LEMMA Same ==
  /\ Mtp!Init => MP!Init
  /\ \A t \in Phi :
       /\ Mtp!Enter(t) <=> MP!Enter(t)
       /\ Mtp!Exit(t) <=> MP!Exit(t)
       /\ Mtp!Inside(t) <=> MP!Inside(t)
       /\ Mtp!Sleep(t) <=> MP!Sleep(t)
       /\ Mtp!Quit(t) <=> MP!Quit(t)
       /\ Mtp!Schedule(t) <=> MP!Schedule(t)
       /\ Mtp!Interrupt(t) <=> MP!Interrupt(t)
       /\ Mtp!Owns(t) <=> MP!Owns(t)
       /\ \A c \in Phi : /\ Mtp!CondSignal(t, c) <=> MP!CondSignal(t, c)
                         /\ Mtp!CondWait(t, c) <=> MP!CondWait(t, c)
<1>1. Mtp!mutex = MP!mutex /\ Mtp!next = MP!next /\ \A c : Mtp!sem(c) = MP!sem(c)
  BY DEF Mtp!mutex, MP!mutex, Mtp!next, MP!next, Mtp!sem, MP!sem
<1>2. Mtp!Semaphores = MP!Semaphores
  BY <1>1, Zenon DEF Mtp!Semaphores, MP!Semaphores
<1>3. /\ \A t, s : Mtp!Down(t, s) <=> MP!Down(t, s)
      /\ \A s : Mtp!Up(s) <=> MP!Up(s)
      /\ \A t, s : Mtp!Leave(t, s) <=> MP!Leave(t, s)
      /\ \A t, from, to : Mtp!Move(t, from, to) <=> MP!Move(t, from, to)
  BY Zenon DEF Mtp!Down, MP!Down, Mtp!Up, MP!Up, Mtp!Leave, MP!Leave, Mtp!Move, MP!Move
<1>4. Mtp!Release <=> MP!Release
  BY <1>1, <1>3 DEF Mtp!Release, MP!Release
<1>5. Mtp!Init => MP!Init
  BY <1>1, <1>2 DEF Mtp!Init, MP!Init, Mtp!SemInit, MP!SemInit
<1>6. ASSUME NEW t \in Phi
      PROVE  /\ Mtp!Enter(t) <=> MP!Enter(t)
             /\ Mtp!Exit(t) <=> MP!Exit(t)
             /\ Mtp!Sleep(t) <=> MP!Sleep(t)
             /\ Mtp!Quit(t) <=> MP!Quit(t)
             /\ Mtp!Owns(t) <=> MP!Owns(t)
  BY <1>1, <1>3, <1>4 DEF Mtp!Enter, MP!Enter, Mtp!Exit, MP!Exit, Mtp!Sleep, MP!Sleep, Mtp!Quit, MP!Quit,
     Mtp!Owns, MP!Owns
<1>7. ASSUME NEW t \in Phi
      PROVE  /\ Mtp!Schedule(t) <=> MP!Schedule(t)
             /\ Mtp!Interrupt(t) <=> MP!Interrupt(t)
  BY DEF Mtp!Schedule, MP!Schedule, Mtp!Dispatch, MP!Dispatch,
     Mtp!Interrupt, MP!Interrupt, Mtp!Fire, MP!Fire
<1>8. ASSUME NEW t \in Phi PROVE Mtp!Inside(t) <=> MP!Inside(t)
  BY <1>1, <1>3 DEF Mtp!Inside, MP!Inside, Mtp!SignalDown, MP!SignalDown, Mtp!WaitDown, MP!WaitDown,
     Mtp!SignalReturn, MP!SignalReturn, Mtp!WaitReturn, MP!WaitReturn, Mtp!semVars, MP!semVars
<1>9. ASSUME NEW t \in Phi, NEW c \in Phi
      PROVE  /\ Mtp!CondSignal(t, c) <=> MP!CondSignal(t, c)
             /\ Mtp!CondWait(t, c) <=> MP!CondWait(t, c)
  BY <1>1, <1>3, <1>4 DEF Mtp!CondSignal, MP!CondSignal, Mtp!CondWait, MP!CondWait
<1>10. QED
  BY <1>5, <1>6, <1>7, <1>8, <1>9
-----------------------------------------------------------------------------
(* A step of a philosopher is a step of the monitor, or touches nothing of *)
(* it.                                                                     *)
LEMMA StepInMonitor == [Next]_vars => [Mtp!Next]_Mtp!vars
<1> SUFFICES ASSUME [Next]_vars PROVE Mtp!Next \/ UNCHANGED Mtp!vars
  OBVIOUS
<1>1. Stays => UNCHANGED Mtp!vars
  BY DEF Stays, Mtp!vars, Mtp!semVars, Mtp!monVars
<1>2. CASE UNCHANGED vars
  BY <1>1, <1>2 DEF vars, Stays
<1>3. ASSUME NEW i \in Phi, Run(i) PROVE Mtp!Run(i) \/ Stays
  <2>1. running = i
    BY <1>3 DEF Run
  <2>2. ASSUME NEW j \in Phi, Test(i, j) PROVE Mtp!CondSignal(i, j) \/ Stays
    BY <2>2 DEF Test
  <2>3. /\ Think(i) \/ Eat(i) => Mtp!Sleep(i)
        /\ Take(i) \/ Put(i) => Mtp!Enter(i)
        /\ Hungry(i) \/ Drop(i) => Stays
        /\ TestSelf(i) => Test(i, i)
        /\ Check(i) => Mtp!CondWait(i, i) \/ Stays
        /\ Served(i) \/ LeaveTable(i) => Mtp!Exit(i)
        /\ TestLeft(i) => Test(i, LEFT(i))
        /\ TestRight(i) => Test(i, RIGHT(i))
        /\ Quit(i) => Mtp!Quit(i)
        /\ InCall(i) => Mtp!Inside(i)
    BY DEF Think, Eat, Take, Put, Hungry, Drop, TestSelf, Check, Served, LeaveTable, TestLeft, TestRight,
           Quit, InCall
  <2>4. QED
    BY <1>3, <2>1, <2>2, <2>3, Neighbours DEF Run, Mtp!Run
<1>4. CASE Next
  BY <1>1, <1>3, <1>4 DEF Next, Schedule, Interrupt, AllGone, vars, Stays, Mtp!Next
<1>5. QED
  BY <1>2, <1>4

(* PhiCondvar is written with the actions of Monitor.                      *)
LEMMA KeepsProtocol == Spec => Mtp!Spec
<1>1. Init => Mtp!Init
  BY DEF Init
<1>2. QED
  BY <1>1, StepInMonitor, PTL DEF Spec, Mtp!Spec

(* So all that holds of a monitor holds of theirs.                         *)
LEMMA Monitored == Spec => []MP!MonInv
<1>1. Mtp!Init => MP!Init
  BY Same
<1>2. [Mtp!Next]_Mtp!vars => [MP!Next]_MP!vars
  <2>1. ASSUME NEW t \in Phi, Mtp!Run(t) PROVE MP!Run(t)
    BY <2>1, Same, Zenon DEF Mtp!Run, MP!Run
  <2>2. Mtp!Next => MP!Next
    BY <2>1, Same, Zenon DEF Mtp!Next, MP!Next
  <2>3. Mtp!vars = MP!vars
    BY DEF Mtp!vars, MP!vars, Mtp!semVars, MP!semVars, Mtp!monVars, MP!monVars
  <2>4. QED
    BY <2>2, <2>3 DEF Mtp!vars, MP!vars, Mtp!semVars, MP!semVars, Mtp!monVars, MP!monVars
<1>3. MP!MonitorAssumption
  BY Neighbours DEF MP!MonitorAssumption
<1>4. MP!Spec => []MP!MonInv
  BY <1>3, MP!Invariance
<1>5. QED
  BY <1>1, <1>2, <1>4, KeepsProtocol, PTL DEF Mtp!Spec, MP!Spec
-----------------------------------------------------------------------------
(* Where a philosopher is in the monitor, and what it shows the others.    *)
Where(i) ==
  /\ pc[i] \in {"think", "take", "eat", "put", "quit", "gone"} => at[i] = "out"
  /\ pc[i] \in {"hungry", "self", "drop", "left"} => at[i] = "in"
  /\ pc[i] \in {"check", "right", "leave"} => at[i] \in {"in", "sig", "sigged"}
  /\ pc[i] = "served" => at[i] \in {"in", "wait", "waited"}
  /\ on[i] \in {i, NULL}

Shown(i) ==
  /\ pc[i] \in {"think", "take", "hungry", "left", "right", "leave", "quit", "gone"}
       => state_condvar[i] = "THINKING"
  /\ pc[i] \in {"self", "check", "served"} => state_condvar[i] \in {"HUNGRY", "EATING"}
  /\ pc[i] \in {"eat", "put", "drop"} => state_condvar[i] = "EATING"

(* A philosopher that leaves cond_wait was made EATING before it woke.     *)
WokenLate(i) ==
  pc[i] = "served" => \/ state_condvar[i] = "EATING"
                      \/ at[i] = "wait"
                      \/ at[i] = "waited" /\ tstate[i] = "ksem"

PhiInv ==
  /\ state_condvar \in [Phi -> {"THINKING", "HUNGRY", "EATING"}]
  /\ pc \in [Phi -> {"think", "take", "hungry", "self", "check", "served", "eat", "put",
                     "drop", "left", "right", "leave", "quit", "gone"}]
  /\ \A i \in Phi : Where(i) /\ Shown(i) /\ WokenLate(i)

(* Everybody thinks at first.                                              *)
LEMMA PhiInit == Init => PhiInv
BY DEF Init, PhiInv, Where, Shown, WokenLate, Mtp!Init

(* What a step of t does to a philosopher v that is not running.           *)
Others(t) ==
  \A v \in Phi \ {t} :
    /\ at'[v] = at[v] /\ on'[v] = on[v] /\ pc'[v] = pc[v]
    /\ \/ state_condvar'[v] = state_condvar[v]
       \/ state_condvar[v] = "HUNGRY" /\ state_condvar'[v] = "EATING"
    /\ at[v] = "waited" /\ tstate[v] = "ksem"
         => tstate'[v] = "ksem" \/ state_condvar'[v] = "EATING"

(* A step of one program leaves the others where they are.                 *)
LEMMA OthersKeep ==
  ASSUME PhiInv, NEW t \in Phi, Others(t), NEW v \in Phi \ {t}
  PROVE  Where(v)' /\ Shown(v)' /\ WokenLate(v)'
<1>1. Where(v) /\ Shown(v) /\ WokenLate(v)
  BY DEF PhiInv
<1>2. Where(v)'
  BY <1>1 DEF Where, Others
<1>3. Shown(v)'
  BY <1>1 DEF Shown, Others, PhiInv
<1>4. WokenLate(v)'
  BY <1>1 DEF WokenLate, Shown, Others, PhiInv
<1>5. QED
  BY <1>2, <1>3, <1>4

(* Only cond_signal of v's condition variable wakes v in cond_wait.        *)
LEMMA StaysAsleep ==
  ASSUME MP!MonInv, NEW t \in Phi, running = t, NEW v \in Phi \ {t},
         at[v] = "waited", tstate[v] = "ksem",
         \/ MP!Enter(t) \/ MP!Exit(t) \/ MP!Inside(t) \/ MP!Sleep(t) \/ MP!Quit(t)
         \/ \E c \in Phi : MP!CondWait(t, c)
         \/ \E c \in Phi : c # on[v] /\ MP!CondSignal(t, c)
  PROVE  tstate'[v] = "ksem"
<1>1. /\ tstate \in [Phi -> {"ready", "ksem", "timer", "gone"}] /\ MP!MonitorAssumption
  BY Neighbours DEF MP!MonInv, MP!TypeOK, MP!SemTypeOK, MP!MonitorAssumption
<1>2. ASSUME NEW x \in {MP!mutex, MP!next}, NEW u \in Phi, MP!Handed(u, x) PROVE tstate'[v] = "ksem"
  <2>1. u # v /\ tstate' = [tstate EXCEPT ![u] = "ready"]
    BY <1>2 DEF MP!Handed, MP!SleepsOn, MP!mutex, MP!next, MP!sem
  <2>2. QED
    BY <1>1, <2>1
<1>3. CASE MP!Exit(t) \/ \E c \in Phi : MP!CondWait(t, c)
  <2>1. MP!Release /\ at[t] = "in"
    BY <1>3 DEF MP!Exit, MP!CondWait, MP!Move
  <2>2. MP!Freed \/ (\E u \in Phi : MP!Handed(u, MP!mutex)) \/ \E u \in Phi : MP!Handed(u, MP!next)
    BY <1>1, <2>1, MP!Releases
  <2>3. QED
    BY <1>2, <2>2 DEF MP!Freed
<1>4. ASSUME NEW c \in Phi, c # on[v], MP!CondSignal(t, c) PROVE tstate'[v] = "ksem"
  <2>1. PICK u \in Phi : MP!Handed(u, MP!sem(c))
    BY <1>1, <1>4, MP!CondSignalInv
  <2>2. u # v /\ tstate' = [tstate EXCEPT ![u] = "ready"]
    BY <1>4, <2>1 DEF MP!Handed, MP!SleepsOn, MP!mutex, MP!next, MP!sem
  <2>3. QED
    BY <1>1, <2>2
<1>5. CASE MP!Enter(t) \/ MP!Inside(t)
  BY <1>1, <1>5 DEF MP!Enter, MP!Inside, MP!SignalDown, MP!SignalReturn, MP!WaitDown, MP!WaitReturn,
     MP!Down, MP!semVars
<1>6. CASE MP!Sleep(t) \/ MP!Quit(t)
  BY <1>1, <1>6 DEF MP!Sleep, MP!Quit, MP!Leave
<1>7. QED
  BY <1>3, <1>4, <1>5, <1>6
-----------------------------------------------------------------------------
(* test(j), and the rest of the monitor's steps, leave the others be.      *)
LEMMA RunOthers ==
  ASSUME PhiInv, MP!MonInv, NEW t \in Phi, Run(t)
  PROVE  Others(t)
<1>1. /\ running = t
      /\ at \in [Phi -> {"out", "in", "sig", "sigged", "wait", "waited"}]
      /\ on \in [Phi -> Phi \cup {NULL}]
      /\ pc \in [Phi -> {"think", "take", "hungry", "self", "check", "served", "eat", "put",
                         "drop", "left", "right", "leave", "quit", "gone"}]
      /\ state_condvar \in [Phi -> {"THINKING", "HUNGRY", "EATING"}]
  BY DEF Run, PhiInv, MP!MonInv, MP!TypeOK
<1>2. \A v \in Phi \ {t} : pc'[v] = pc[v]
  BY <1>1 DEF Run, Think, Eat, Take, Put, Hungry, Drop, TestSelf, Check, Served, LeaveTable, TestLeft,
     TestRight, Quit, InCall, Step
<1>3. ASSUME MP!Enter(t) \/ MP!Exit(t) \/ MP!Inside(t) \/ MP!Sleep(t) \/ MP!Quit(t) \/ MP!CondWait(t, t),
             state_condvar' = state_condvar
      PROVE  Others(t)
  <2>1. \A v \in Phi \ {t} : at'[v] = at[v] /\ on'[v] = on[v]
    BY <1>1, <1>3 DEF MP!Enter, MP!Exit, MP!Inside, MP!Sleep, MP!Quit, MP!CondWait, MP!Move,
       MP!SignalDown, MP!SignalReturn, MP!WaitDown, MP!WaitReturn
  <2>2. \A v \in Phi \ {t} : at[v] = "waited" /\ tstate[v] = "ksem" => tstate'[v] = "ksem"
    BY <1>1, <1>3, StaysAsleep
  <2>3. QED
    BY <1>2, <1>3, <2>1, <2>2 DEF Others
<1>4. ASSUME Stays,
             \A v \in Phi \ {t} : \/ state_condvar'[v] = state_condvar[v]
                                  \/ state_condvar[v] = "HUNGRY" /\ state_condvar'[v] = "EATING"
      PROVE  Others(t)
  BY <1>2, <1>4 DEF Stays, Others
<1>5. ASSUME NEW j \in Phi, Test(t, j) PROVE Others(t)
  <2>1. CASE Stays
    BY <1>1, <1>4, <1>5, <2>1 DEF Test, MayEat
  <2>2. CASE MayEat(j) /\ Mtp!CondSignal(t, j) /\ state_condvar' = [state_condvar EXCEPT ![j] = "EATING"]
    <3>1. MP!CondSignal(t, j)
      BY <2>2, Same
    <3>2. \A v \in Phi \ {t} : at'[v] = at[v] /\ on'[v] = on[v]
      BY <1>1, <3>1 DEF MP!CondSignal, MP!Move
    <3>3. ASSUME NEW v \in Phi \ {t}, at[v] = "waited", tstate[v] = "ksem"
          PROVE  tstate'[v] = "ksem" \/ state_condvar'[v] = "EATING"
      <4>1. CASE on[v] = j
        <5>1. v = j
          BY <1>1, <4>1, Neighbours DEF PhiInv, Where
        <5>2. QED
          BY <1>1, <2>2, <5>1
      <4>2. CASE on[v] # j
        BY <1>1, <3>1, <3>3, <4>2, StaysAsleep
      <4>3. QED
        BY <4>1, <4>2
    <3>4. \A v \in Phi \ {t} : \/ state_condvar'[v] = state_condvar[v]
                               \/ state_condvar[v] = "HUNGRY" /\ state_condvar'[v] = "EATING"
      BY <1>1, <2>2 DEF MayEat
    <3>5. QED
      BY <1>2, <3>2, <3>3, <3>4 DEF Others
  <2>3. QED
    BY <1>5, <2>1, <2>2 DEF Test
<1>6. CASE Think(t) \/ Eat(t) \/ Quit(t)
  BY <1>3, <1>6, Same DEF Think, Eat, Quit
<1>7. CASE Take(t) \/ Put(t) \/ Served(t) \/ LeaveTable(t) \/ InCall(t)
  BY <1>3, <1>7, Same DEF Take, Put, Served, LeaveTable, InCall
<1>8. CASE Hungry(t) \/ Drop(t)
  BY <1>1, <1>4, <1>8 DEF Hungry, Drop
<1>9. CASE Check(t)
  BY <1>3, <1>4, <1>9, Same DEF Check
<1>10. CASE TestSelf(t) \/ TestLeft(t) \/ TestRight(t)
  BY <1>5, <1>10, Neighbours DEF TestSelf, TestLeft, TestRight
<1>11. QED
  BY <1>6, <1>7, <1>8, <1>9, <1>10 DEF Run

(* and the philosopher that runs gets where its program says.              *)
LEMMA RunSelf ==
  ASSUME PhiInv, MP!MonInv, NEW t \in Phi, Run(t)
  PROVE  /\ Where(t)' /\ Shown(t)' /\ WokenLate(t)'
         /\ state_condvar' \in [Phi -> {"THINKING", "HUNGRY", "EATING"}]
         /\ pc' \in [Phi -> {"think", "take", "hungry", "self", "check", "served", "eat", "put",
                             "drop", "left", "right", "leave", "quit", "gone"}]
<1>1. /\ running = t /\ tstate[t] = "ready"
      /\ at \in [Phi -> {"out", "in", "sig", "sigged", "wait", "waited"}]
      /\ on \in [Phi -> Phi \cup {NULL}]
      /\ pc \in [Phi -> {"think", "take", "hungry", "self", "check", "served", "eat", "put",
                         "drop", "left", "right", "leave", "quit", "gone"}]
      /\ state_condvar \in [Phi -> {"THINKING", "HUNGRY", "EATING"}]
      /\ Where(t) /\ Shown(t) /\ WokenLate(t) /\ MP!Place(t)
      /\ at[t] \in {"in", "out"} => on[t] = NULL
  BY DEF Run, PhiInv, MP!MonInv, MP!TypeOK, MP!Place
<1>2. CASE Think(t) \/ Eat(t) \/ Quit(t)
  BY <1>1, <1>2, Same DEF Think, Eat, Quit, Step, MP!Sleep, MP!Quit, Where, Shown, WokenLate
<1>3. CASE Take(t) \/ Put(t) \/ Served(t) \/ LeaveTable(t)
  BY <1>1, <1>3, Same DEF Take, Put, Served, LeaveTable, Step, MP!Enter, MP!Exit, MP!Move,
     Where, Shown, WokenLate
<1>4. CASE Hungry(t) \/ Drop(t)
  BY <1>1, <1>4 DEF Hungry, Drop, Step, Stays, Where, Shown, WokenLate
<1>5. CASE Check(t)
  BY <1>1, <1>5, Same DEF Check, Step, Stays, MP!CondWait, MP!Move, Where, Shown, WokenLate
<1>6. ASSUME NEW j \in Phi, Test(t, j)
      PROVE  /\ on' = on
             /\ at'[t] = at[t] \/ (at[t] = "in" /\ at'[t] = "sig")
             /\ \/ state_condvar' = state_condvar
                \/ MayEat(j) /\ state_condvar' = [state_condvar EXCEPT ![j] = "EATING"]
  BY <1>1, <1>6, Same DEF Test, Stays, MP!CondSignal, MP!Move
<1>7. CASE TestSelf(t)
  <2>1. Test(t, t) /\ pc[t] = "self" /\ pc' = [pc EXCEPT ![t] = "check"]
    BY <1>7 DEF TestSelf, Step
  <2>2. state_condvar' \in [Phi -> {"THINKING", "HUNGRY", "EATING"}] /\ state_condvar'[t] \in {"HUNGRY", "EATING"}
    BY <1>1, <1>6, <2>1 DEF Shown
  <2>3. at'[t] \in {"in", "sig"} /\ on'[t] = on[t]
    BY <1>1, <1>6, <2>1 DEF Where
  <2>4. QED
    BY <1>1, <2>1, <2>2, <2>3 DEF Where, Shown, WokenLate
<1>8. ASSUME NEW j \in Phi \ {t}, Test(t, j), pc[t] \in {"left", "right"},
             NEW to \in {"right", "leave"}, pc' = [pc EXCEPT ![t] = to],
             at[t] \in {"in", "out"}
      PROVE  /\ Where(t)' /\ Shown(t)' /\ WokenLate(t)'
             /\ state_condvar' \in [Phi -> {"THINKING", "HUNGRY", "EATING"}]
             /\ pc' \in [Phi -> {"think", "take", "hungry", "self", "check", "served", "eat", "put",
                                 "drop", "left", "right", "leave", "quit", "gone"}]
  <2>1. state_condvar' \in [Phi -> {"THINKING", "HUNGRY", "EATING"}] /\ state_condvar'[t] = "THINKING"
    BY <1>1, <1>6, <1>8 DEF Shown
  <2>2. at'[t] \in {"in", "sig"} /\ on'[t] = on[t]
    BY <1>1, <1>6, <1>8 DEF Where
  <2>3. QED
    BY <1>1, <1>8, <2>1, <2>2 DEF Where, Shown, WokenLate
<1>9. CASE TestLeft(t) \/ TestRight(t)
  <2>1. LEFT(t) \in Phi \ {t} /\ RIGHT(t) \in Phi \ {t}
    BY NoSelf
  <2>2. QED
    BY <1>8, <1>9, <2>1 DEF TestLeft, TestRight, Step
<1>10. CASE InCall(t)
  <2>1. MP!Inside(t) /\ pc' = pc /\ state_condvar' = state_condvar
    BY <1>10, Same DEF InCall
  <2>2. \/ at[t] = "sig" /\ at'[t] = "sigged" /\ on' = on
        \/ at[t] = "sigged" /\ at'[t] = "in" /\ on' = on
        \/ at[t] = "wait" /\ at'[t] = "waited" /\ on' = on /\ MP!WaitDown(t)
        \/ at[t] = "waited" /\ at'[t] = "in" /\ on'[t] = NULL
    BY <1>1, <2>1 DEF MP!Inside, MP!SignalDown, MP!SignalReturn, MP!WaitDown, MP!WaitReturn, MP!Move
  <2>3. MP!WaitDown(t) => tstate'[t] = "ksem"
    <3>1. ASSUME MP!WaitDown(t) PROVE tstate'[t] = "ksem"
      <4>1. MP!Slept(t, MP!sem(on[t])) /\ tstate \in [Phi -> {"ready", "ksem", "timer", "gone"}]
        BY <1>1, <3>1, MP!WaitDownInv, Neighbours DEF MP!MonitorAssumption, MP!MonInv, MP!TypeOK, MP!SemTypeOK
      <4>2. QED
        BY <4>1 DEF MP!Slept
    <3>2. QED
      BY <3>1
  <2>4. QED
    BY <1>1, <2>1, <2>2, <2>3 DEF Where, Shown, WokenLate
<1>11. QED
  BY <1>2, <1>3, <1>4, <1>5, <1>7, <1>9, <1>10 DEF Run
-----------------------------------------------------------------------------
(* Every step of the table keeps the invariant, given the monitor's.       *)
LEMMA PhiStep == PhiInv /\ MP!MonInv /\ [Next]_vars => PhiInv'
<1> SUFFICES ASSUME PhiInv, MP!MonInv, [Next]_vars PROVE PhiInv'
  OBVIOUS
<1>1. ASSUME NEW t \in Phi, Run(t) PROVE PhiInv'
  <2>1. \A v \in Phi \ {t} : Where(v)' /\ Shown(v)' /\ WokenLate(v)'
    BY <1>1, RunOthers, OthersKeep
  <2>2. QED
    BY <1>1, <2>1, RunSelf DEF PhiInv
<1>2. ASSUME UNCHANGED <<at, on, state_condvar, pc>>,
             \A v \in Phi : tstate[v] = "ksem" => tstate'[v] = "ksem"
      PROVE  PhiInv'
  BY <1>2 DEF PhiInv, Where, Shown, WokenLate
<1>3. ASSUME NEW t \in Phi, Schedule(t) \/ Interrupt(t) PROVE PhiInv'
  <2>1. MP!Schedule(t) \/ MP!Interrupt(t)
    BY <1>3, Same DEF Schedule, Interrupt
  <2>2. tstate \in [Phi -> {"ready", "ksem", "timer", "gone"}]
    BY DEF MP!MonInv, MP!TypeOK, MP!SemTypeOK
  <2>3. \A v \in Phi : tstate[v] = "ksem" => tstate'[v] = "ksem"
    BY <2>1, <2>2 DEF MP!Schedule, MP!Interrupt, MP!Dispatch, MP!Fire
  <2>4. QED
    BY <1>2, <1>3, <2>1, <2>3 DEF Schedule, Interrupt, MP!Schedule, MP!Interrupt
<1>4. CASE UNCHANGED vars
  BY <1>2, <1>4 DEF vars
<1>5. QED
  BY <1>1, <1>3, <1>4 DEF Next, AllGone

(* Where each philosopher is and what it shows agree in every state.       *)
THEOREM PhiInvariance == Spec => []PhiInv
<1>1. QED
  BY PhiInit, PhiStep, Monitored, PTL DEF Spec

(* phi_take_forks_condvar needs no loop: a philosopher that returns from   *)
(* cond_wait eats, and so does everyone until it puts the forks down.      *)
THEOREM WokenEatsAlways == Spec => []WokenEats
<1>1. PhiInv => WokenEats
  BY Same DEF PhiInv, WokenEats, WokenLate, Shown
<1>2. QED
  BY <1>1, PhiInvariance, PTL
-----------------------------------------------------------------------------
(* What a step shows at the table.                                         *)
LEMMA StepAtTable == PhiInv /\ [Next]_vars => [Table!Next]_state_condvar
<1> SUFFICES ASSUME PhiInv, [Next]_vars PROVE Table!Next \/ state_condvar' = state_condvar
  OBVIOUS
<1>1. CASE UNCHANGED vars
  BY <1>1 DEF vars
<1>2. ASSUME NEW i \in Phi, NEW j \in Phi, Test(i, j)
      PROVE  Table!Next \/ state_condvar' = state_condvar
  <2>1. Table!LEFT(j) = LEFT(j) /\ Table!RIGHT(j) = RIGHT(j) /\ Table!Phi = Phi
    BY DEF Table!LEFT, Table!RIGHT, LEFT, RIGHT, Table!Phi, Phi
  <2>2. CASE MayEat(j)
    BY <1>2, <2>1, <2>2 DEF Test, MayEat, Table!Eat, Table!Next
  <2>3. CASE ~MayEat(j)
    BY <1>2, <2>3 DEF Test
  <2>4. QED
    BY <2>2, <2>3
<1>3. ASSUME NEW i \in Phi, Run(i) PROVE Table!Next \/ state_condvar' = state_condvar
  <2>1. Shown(i) /\ Table!Phi = Phi
    BY DEF PhiInv, Table!Phi, Phi
  <2>2. CASE Hungry(i)
    BY <2>1, <2>2 DEF Hungry, Step, Shown, Table!Next, Table!GetHungry
  <2>3. CASE Drop(i)
    BY <2>1, <2>3 DEF Drop, Step, Shown, Table!Next, Table!Finish
  <2>4. CASE TestSelf(i) \/ TestLeft(i) \/ TestRight(i)
    BY <1>2, <2>4, Neighbours DEF TestSelf, TestLeft, TestRight
  <2>5. QED
    BY <1>3, <2>2, <2>3, <2>4 DEF Run, Think, Take, Check, Served, Eat, Put, LeaveTable, Quit, InCall
<1>4. QED
  BY <1>1, <1>3 DEF Next, Schedule, Interrupt, AllGone, vars

(* The philosophers of the monitor implement Dining: nobody eats beside an *)
(* eating neighbour, and only after it was hungry.                         *)
THEOREM CondvarDining == Spec => TableSpec
<1>1. Init => Table!Init
  BY DEF Init, Table!Init, Table!Phi, Phi
<1>2. QED
  BY <1>1, StepAtTable, PhiInvariance, PTL DEF Spec, TableSpec, Table!Spec
-----------------------------------------------------------------------------
(* The philosophers that use semaphores: what each sleeps on, where the    *)
(* permit of mutex is, and what each shows the others.                     *)
PS == INSTANCE PhiSema

SleepsOn(i, x) ==
  /\ tstate[i] = "ksem"
  /\ \/ pc[i] \in {"hungry", "drop"} /\ x = PS!mutex
     \/ pc[i] = "eat" /\ x = PS!s(i)

Queues ==
  \A x \in PS!Semaphores :
    /\ IsInjective(wait_queue[x])
    /\ \A i \in PS!Phi : i \in Range(wait_queue[x]) <=> SleepsOn(i, x)

Place(i) ==
  /\ tstate[i] = "ksem" => pc[i] \in {"hungry", "drop", "eat"}
  /\ tstate[i] = "timer" => pc[i] \in {"take", "put"}
  /\ tstate[i] = "gone" => pc[i] = "gone"
  /\ running = i => tstate[i] = "ready"

Shows(i) ==
  /\ pc[i] \in {"think", "take", "hungry", "left", "right", "leave", "quit", "gone"}
       => state_sema[i] = "THINKING"
  /\ pc[i] = "self" => state_sema[i] = "HUNGRY"
  /\ pc[i] \in {"took", "grab"} => state_sema[i] \in {"HUNGRY", "EATING"}
  /\ pc[i] = "eat" => state_sema[i] = IF tstate[i] = "ksem" THEN "HUNGRY" ELSE "EATING"
  /\ pc[i] \in {"put", "drop"} => state_sema[i] = "EATING"

MayPass(i) == state_sema[i] = "EATING" /\ pc[i] \in {"took", "grab"}

Permits ==
  /\ \A i, j \in PS!Phi : PS!Inside(i) /\ PS!Inside(j) => i = j
  /\ value[PS!mutex] = IF \E i \in PS!Phi : PS!Inside(i) THEN 0 ELSE 1
  /\ value[PS!mutex] = 1 => wait_queue[PS!mutex] = <<>>
  /\ \A i \in PS!Phi : value[PS!s(i)] = IF MayPass(i) THEN 1 ELSE 0

Apart == \A i \in PS!Phi : ~(state_sema[i] = "EATING" /\ state_sema[PS!LEFT(i)] = "EATING")

Turns == \A i \in PS!Phi : pc[i] \notin {"quit", "gone"} => iter[i] <= TIMES

SemaInv ==
  /\ PS!TypeOK /\ Queues /\ Permits /\ Apart /\ Turns
  /\ \A i \in PS!Phi : Place(i) /\ Shows(i)

(* The two programs seat the same philosophers, and none is NULL.          *)
LEMMA PhiSame == PS!Phi = Phi /\ NULL \notin PS!Phi
BY DEF PS!Phi, Phi

(* The table is round.                                                     *)
LEMMA Round ==
  \A i \in PS!Phi : /\ PS!LEFT(i) \in PS!Phi \ {i} /\ PS!RIGHT(i) \in PS!Phi \ {i}
                 /\ PS!RIGHT(PS!LEFT(i)) = i
<1>1. \A i \in PS!Phi : /\ PS!LEFT(i) = IF i = 0 THEN N - 1 ELSE i - 1
                     /\ PS!RIGHT(i) = IF i = N - 1 THEN 0 ELSE i + 1
  BY DEF PS!Phi, PS!LEFT, PS!RIGHT
<1>2. \A i \in PS!Phi : PS!LEFT(i) \in PS!Phi
  BY <1>1 DEF PS!Phi
<1>3. QED
  BY <1>1, <1>2 DEF PS!Phi

(* The semaphores are different ones.                                      *)
LEMMA SemaNames ==
  /\ PS!mutex \in PS!Semaphores
  /\ \A i \in PS!Phi : PS!s(i) \in PS!Semaphores /\ PS!s(i) # PS!mutex
  /\ \A i, j \in PS!Phi : PS!s(i) = PS!s(j) => i = j
  /\ \A x \in PS!Semaphores : x = PS!mutex \/ \E i \in PS!Phi : x = PS!s(i)
BY DEF PS!Semaphores, PS!mutex, PS!s

(* The semaphore program starts with everybody thinking too.               *)
LEMMA SemaInit == PS!Init => SemaInv
<1> SUFFICES ASSUME PS!Init PROVE SemaInv
  OBVIOUS
<1>1. PS!TypeOK
  BY PhiSame DEF PS!Init, PS!SemInit, PS!TypeOK, PS!SemTypeOK
<1>2. /\ \A x \in PS!Semaphores : Range(wait_queue[x]) = {} /\ IsInjective(wait_queue[x])
      /\ wait_queue[PS!mutex] = <<>>
  BY EmptyFacts, SemaNames DEF PS!Init, PS!SemInit
<1>3. \A i \in PS!Phi : /\ tstate[i] = "ready" /\ pc[i] = "think" /\ state_sema[i] = "THINKING"
                     /\ running # i /\ iter[i] = 1
  BY PhiSame DEF PS!Init, PS!SemInit
<1>4. Queues /\ \A i \in PS!Phi : Place(i) /\ Shows(i)
  BY <1>2, <1>3 DEF Queues, SleepsOn, Place, Shows
<1>5. Permits
  BY <1>2, <1>3, SemaNames DEF Permits, PS!Inside, MayPass, PS!Init, PS!SemInit
<1>6. Apart /\ Turns
  BY <1>3 DEF Apart, Turns
<1>7. QED
  BY <1>1, <1>4, <1>5, <1>6 DEF SemaInv
-----------------------------------------------------------------------------
(* up() of a semaphore that somebody waits for, and down() of one that     *)
(* is 0.                                                                   *)
Handed(u, x) ==
  /\ SleepsOn(u, x)
  /\ PS!SemTypeOK' /\ value' = value /\ running' = running
  /\ tstate' = [tstate EXCEPT ![u] = "ready"]
  /\ \A y \in PS!Semaphores \ {x} : wait_queue'[y] = wait_queue[y]
  /\ \A y \in PS!Semaphores :
       /\ IsInjective(wait_queue'[y])
       /\ \A v \in PS!Phi : v \in Range(wait_queue'[y]) <=> SleepsOn(v, y) /\ v # u

(* What up leaves when it wakes somebody.                                  *)
LEMMA UpHands ==
  ASSUME SemaInv, NEW x \in PS!Semaphores, wait_queue[x] # <<>>, PS!Up(x)
  PROVE  \E u \in PS!Phi : Handed(u, x)
<1> DEFINE u == Head(wait_queue[x])
<1>1. /\ wait_queue' = [wait_queue EXCEPT ![x] = Tail(@)]
      /\ tstate' = [tstate EXCEPT ![u] = "ready"]
      /\ value' = value /\ running' = running
  BY DEF PS!Up
<1>2. /\ wait_queue \in [PS!Semaphores -> Seq(PS!Phi)] /\ IsInjective(wait_queue[x])
      /\ \A y \in PS!Semaphores : IsInjective(wait_queue[y])
      /\ \A y \in PS!Semaphores, v \in PS!Phi : v \in Range(wait_queue[y]) <=> SleepsOn(v, y)
  BY DEF SemaInv, PS!TypeOK, PS!SemTypeOK, Queues
<1>3. /\ wait_queue' \in [PS!Semaphores -> Seq(PS!Phi)] /\ IsInjective(wait_queue'[x])
      /\ u \in PS!Phi /\ u \in Range(wait_queue[x])
      /\ \A y \in PS!Semaphores : y # x => wait_queue'[y] = wait_queue[y]
      /\ \A y \in PS!Semaphores : Range(wait_queue'[y]) = IF y = x THEN Range(wait_queue[y]) \ {u}
                                                               ELSE Range(wait_queue[y])
  <2>1. Popped(PS!Phi, PS!Semaphores, wait_queue, wait_queue', x)
    BY <1>1, <1>2, QueueTail, Zenon
  <2>2. QED
    BY <2>1, Zenon DEF Popped
<1> HIDE DEF u
<1>4. SleepsOn(u, x) /\ \A y \in PS!Semaphores : SleepsOn(u, y) => y = x
  BY <1>2, <1>3 DEF SleepsOn
<1>5. PS!SemTypeOK'
  BY <1>1, <1>3 DEF SemaInv, PS!TypeOK, PS!SemTypeOK
<1>6. \A y \in PS!Semaphores, v \in PS!Phi : v \in Range(wait_queue'[y]) <=> SleepsOn(v, y) /\ v # u
  BY <1>2, <1>3, <1>4
<1>7. \A y \in PS!Semaphores : IsInjective(wait_queue'[y])
  BY <1>2, <1>3
<1>8. QED
  BY <1>1, <1>3, <1>4, <1>5, <1>6, <1>7 DEF Handed

Slept(t, x) ==
  /\ PS!SemTypeOK' /\ value' = value /\ running' = NULL
  /\ tstate' = [tstate EXCEPT ![t] = "ksem"]
  /\ \A y \in PS!Semaphores \ {x} : wait_queue'[y] = wait_queue[y]
  /\ \A y \in PS!Semaphores :
       /\ IsInjective(wait_queue'[y])
       /\ \A v \in PS!Phi : v \in Range(wait_queue'[y]) <=> SleepsOn(v, y) \/ (v = t /\ y = x)

(* What down leaves when there is no permit.                               *)
LEMMA DownSleeps ==
  ASSUME SemaInv, NEW t \in PS!Phi, running = t, NEW x \in PS!Semaphores, value[x] = 0, PS!Down(t, x)
  PROVE  Slept(t, x)
<1>1. /\ wait_queue' = [wait_queue EXCEPT ![x] = Append(@, t)]
      /\ tstate' = [tstate EXCEPT ![t] = "ksem"]
      /\ value' = value /\ running' = NULL
  BY DEF PS!Down
<1>2. /\ wait_queue \in [PS!Semaphores -> Seq(PS!Phi)]
      /\ \A y \in PS!Semaphores : IsInjective(wait_queue[y])
      /\ \A y \in PS!Semaphores, v \in PS!Phi : v \in Range(wait_queue[y]) <=> SleepsOn(v, y)
  BY DEF SemaInv, PS!TypeOK, PS!SemTypeOK, Queues
<1>3. t \notin Range(wait_queue[x])
  BY <1>2 DEF SemaInv, Place, SleepsOn
<1>4. /\ wait_queue' \in [PS!Semaphores -> Seq(PS!Phi)]
      /\ \A y \in PS!Semaphores : y # x => wait_queue'[y] = wait_queue[y]
      /\ \A y \in PS!Semaphores : Range(wait_queue'[y]) = Range(wait_queue[y]) \cup (IF y = x THEN {t} ELSE {})
      /\ IsInjective(wait_queue'[x])
  <2>1. Pushed(PS!Phi, PS!Semaphores, wait_queue, wait_queue', x, t)
    BY <1>1, <1>2, QueueAppend, Zenon
  <2>2. QED
    BY <2>1, <1>2, <1>3, Zenon DEF Pushed
<1>5. PS!SemTypeOK'
  BY <1>1, <1>4 DEF SemaInv, PS!TypeOK, PS!SemTypeOK
<1>6. \A y \in PS!Semaphores : IsInjective(wait_queue'[y])
  BY <1>2, <1>4
<1>7. \A y \in PS!Semaphores, v \in PS!Phi :
        v \in Range(wait_queue'[y]) <=> SleepsOn(v, y) \/ (v = t /\ y = x)
  BY <1>2, <1>4
<1>8. QED
  BY <1>1, <1>4, <1>5, <1>6, <1>7 DEF Slept
-----------------------------------------------------------------------------
(* What each step does to the programs and to the table.                   *)
Program(t) ==
  /\ pc' \in [PS!Phi -> {"think", "take", "hungry", "self", "took", "grab", "eat", "put",
                      "drop", "left", "right", "leave", "quit", "gone"}]
  /\ iter' \in [PS!Phi -> 1..TIMES + 1] /\ Turns'
  /\ \A v \in PS!Phi \ {t} : pc'[v] = pc[v]

(* A step of the program moves only the philosopher who runs.              *)
LEMMA RunProgram ==
  ASSUME SemaInv, NEW t \in PS!Phi, PS!Run(t)
  PROVE  Program(t)
<1>1. /\ pc \in [PS!Phi -> {"think", "take", "hungry", "self", "took", "grab", "eat", "put",
                         "drop", "left", "right", "leave", "quit", "gone"}]
      /\ iter \in [PS!Phi -> 1..TIMES + 1] /\ Turns /\ TIMES \in Nat
  BY DEF SemaInv, PS!TypeOK
<1>2. \E to : /\ pc' = [pc EXCEPT ![t] = to]
              /\ to \in {"think", "take", "hungry", "self", "took", "grab", "eat", "put",
                         "drop", "left", "right", "leave", "quit", "gone"}
  BY DEF PS!Run, PS!Think, PS!Take, PS!Hungry, PS!TestSelf, PS!Took, PS!Grab, PS!Eat, PS!Put, PS!Drop, PS!TestLeft, PS!TestRight, PS!LeaveTable,
         PS!Quit, PS!Goto
<1>3. CASE PS!LeaveTable(t)
  <2>1. /\ pc[t] = "leave" /\ iter' = [iter EXCEPT ![t] = @ + 1]
        /\ pc' = [pc EXCEPT ![t] = IF iter[t] < TIMES THEN "think" ELSE "quit"]
    BY <1>3 DEF PS!LeaveTable, PS!Goto
  <2>2. iter[t] <= TIMES
    BY <1>1, <2>1 DEF Turns
  <2>3. QED
    BY <1>1, <2>1, <2>2 DEF Program, Turns
<1>4. CASE ~PS!LeaveTable(t)
  <2>1. iter' = iter /\ (pc[t] \in {"quit", "gone"} => pc'[t] \in {"quit", "gone"})
    BY <1>1, <1>4 DEF PS!Run, PS!Think, PS!Take, PS!Hungry, PS!TestSelf, PS!Took, PS!Grab, PS!Eat, PS!Put, PS!Drop, PS!TestLeft, PS!TestRight,
       PS!Quit, PS!Goto
  <2>2. /\ \A v \in PS!Phi \ {t} : pc'[v] = pc[v]
        /\ pc' \in [PS!Phi -> {"think", "take", "hungry", "self", "took", "grab", "eat", "put",
                               "drop", "left", "right", "leave", "quit", "gone"}]
    BY <1>1, <1>2
  <2>3. Turns'
    <3>1. \A v \in PS!Phi : pc[v] \in {"quit", "gone"} => pc'[v] \in {"quit", "gone"}
      BY <2>1, <2>2
    <3>2. \A v \in PS!Phi : iter'[v] = iter[v] /\ (pc[v] \notin {"quit", "gone"} => iter[v] <= TIMES)
      BY <1>1, <2>1 DEF Turns
    <3>3. \A v \in PS!Phi : pc'[v] \notin {"quit", "gone"} => iter'[v] <= TIMES
      BY <3>1, <3>2
    <3>4. QED
      BY <3>3 DEF Turns
  <2>4. QED
    BY <1>1, <2>1, <2>2, <2>3 DEF Program
<1>5. QED
  BY <1>3, <1>4

(* A thread that takes mutex at once, or waits for it.                     *)
LEMMA TakeInv ==
  ASSUME SemaInv, NEW t \in PS!Phi, running = t, PS!Take(t) \/ PS!Put(t), Program(t)
  PROVE  SemaInv'
<1>1. /\ PS!Down(t, PS!mutex) /\ UNCHANGED <<state_sema, iter>> /\ tstate[t] = "ready"
      /\ \/ pc[t] = "take" /\ pc' = [pc EXCEPT ![t] = "hungry"]
         \/ pc[t] = "put" /\ pc' = [pc EXCEPT ![t] = "drop"]
      /\ pc \in [PS!Phi -> {"think", "take", "hungry", "self", "took", "grab", "eat", "put",
                         "drop", "left", "right", "leave", "quit", "gone"}]
      /\ tstate \in [PS!Phi -> {"ready", "ksem", "timer", "gone"}]
      /\ value \in [PS!Semaphores -> Nat] /\ ~PS!Inside(t)
  BY DEF PS!Take, PS!Put, PS!Goto, SemaInv, PS!TypeOK, PS!SemTypeOK, Place, PS!Inside
<1>2. /\ pc'[t] \in {"hungry", "drop"} /\ \A v \in PS!Phi \ {t} : pc'[v] = pc[v]
      /\ pc[t] \notin {"took", "grab"}
  BY <1>1
<1>3. \A i \in PS!Phi : MayPass(i)' <=> MayPass(i)
  BY <1>1, <1>2 DEF MayPass
<1>4. Apart'
  BY <1>1 DEF SemaInv, Apart
<1>5. CASE value[PS!mutex] = 0
  <2>1. Slept(t, PS!mutex)
    BY <1>1, <1>5, DownSleeps, SemaNames
  <2>2. /\ tstate'[t] = "ksem" /\ \A u \in PS!Phi \ {t} : tstate'[u] = tstate[u]
        /\ value' = value /\ running' = NULL
    BY <1>1, <2>1 DEF Slept
  <2>3. PS!TypeOK'
    BY <1>1, <2>1 DEF Slept, SemaInv, PS!TypeOK, Program
  <2>4. \A u \in PS!Phi, x \in PS!Semaphores : SleepsOn(u, x)' <=> SleepsOn(u, x) \/ (u = t /\ x = PS!mutex)
    BY <1>1, <1>2, <2>2 DEF SleepsOn
  <2>5. Queues'
    BY <2>1, <2>4 DEF Queues, Slept
  <2>6. \A u \in PS!Phi : Place(u)' /\ Shows(u)'
    BY <1>1, <1>2, <2>2, PhiSame DEF SemaInv, Place, Shows
  <2>7. \A u \in PS!Phi : PS!Inside(u)' <=> PS!Inside(u)
    BY <1>1, <1>2, <2>2 DEF PS!Inside
  <2>8. Permits'
    BY <1>3, <1>5, <2>2, <2>7 DEF SemaInv, Permits
  <2>9. QED
    BY <1>4, <2>3, <2>5, <2>6, <2>8 DEF SemaInv, Program
<1>6. CASE value[PS!mutex] # 0
  <2>1. /\ value' = [value EXCEPT ![PS!mutex] = 0] /\ value[PS!mutex] = 1
        /\ UNCHANGED <<wait_queue, tstate, running>>
    BY <1>1, <1>6, SemaNames DEF PS!Down, SemaInv, Permits
  <2>2. PS!TypeOK'
    BY <1>1, <2>1, SemaNames DEF SemaInv, PS!TypeOK, PS!SemTypeOK, Program
  <2>3. \A u \in PS!Phi, x \in PS!Semaphores : SleepsOn(u, x)' <=> SleepsOn(u, x)
    BY <1>1, <1>2, <2>1 DEF SleepsOn
  <2>4. Queues'
    BY <2>1, <2>3 DEF Queues, SemaInv
  <2>5. \A u \in PS!Phi : Place(u)' /\ Shows(u)'
    BY <1>1, <1>2, <2>1 DEF SemaInv, Place, Shows
  <2>6. \A u \in PS!Phi : ~PS!Inside(u) /\ (PS!Inside(u)' <=> u = t)
    BY <1>1, <1>2, <2>1 DEF PS!Inside, SemaInv, Permits
  <2>7. \A i \in PS!Phi : value'[PS!s(i)] = value[PS!s(i)]
    BY <1>1, <2>1, SemaNames
  <2>8. Permits'
    BY <1>1, <1>3, <2>1, <2>6, <2>7, SemaNames DEF SemaInv, Permits
  <2>9. QED
    BY <1>4, <2>2, <2>4, <2>5, <2>8 DEF SemaInv, Program
<1>7. QED
  BY <1>5, <1>6

(* A thread that takes its own permit, or waits for it, hungry.            *)
LEMMA GrabInv ==
  ASSUME SemaInv, NEW t \in PS!Phi, running = t, PS!Grab(t), Program(t)
  PROVE  SemaInv'
<1>1. /\ PS!Down(t, PS!s(t)) /\ UNCHANGED <<state_sema, iter>> /\ tstate[t] = "ready"
      /\ pc[t] = "grab" /\ pc' = [pc EXCEPT ![t] = "eat"]
      /\ pc \in [PS!Phi -> {"think", "take", "hungry", "self", "took", "grab", "eat", "put",
                         "drop", "left", "right", "leave", "quit", "gone"}]
      /\ tstate \in [PS!Phi -> {"ready", "ksem", "timer", "gone"}]
      /\ value \in [PS!Semaphores -> Nat] /\ ~PS!Inside(t)
      /\ state_sema[t] \in {"HUNGRY", "EATING"}
      /\ value[PS!s(t)] = IF state_sema[t] = "EATING" THEN 1 ELSE 0
  BY DEF PS!Grab, PS!Goto, SemaInv, PS!TypeOK, PS!SemTypeOK, Place, PS!Inside, Shows, Permits, MayPass
<1>2. pc'[t] = "eat" /\ \A v \in PS!Phi \ {t} : pc'[v] = pc[v]
  BY <1>1
<1>3. \A i \in PS!Phi : MayPass(i)' <=> MayPass(i) /\ i # t
  BY <1>1, <1>2 DEF MayPass
<1>4. Apart'
  BY <1>1 DEF SemaInv, Apart
<1>5. CASE state_sema[t] = "HUNGRY"
  <2>1. Slept(t, PS!s(t))
    BY <1>1, <1>5, DownSleeps, SemaNames
  <2>2. /\ tstate'[t] = "ksem" /\ \A u \in PS!Phi \ {t} : tstate'[u] = tstate[u]
        /\ value' = value /\ running' = NULL /\ wait_queue'[PS!mutex] = wait_queue[PS!mutex]
    BY <1>1, <2>1, SemaNames DEF Slept
  <2>3. PS!TypeOK'
    BY <1>1, <2>1 DEF Slept, SemaInv, PS!TypeOK, Program
  <2>4. \A u \in PS!Phi, x \in PS!Semaphores : SleepsOn(u, x)' <=> SleepsOn(u, x) \/ (u = t /\ x = PS!s(t))
    BY <1>1, <1>2, <2>2 DEF SleepsOn
  <2>5. Queues'
    BY <2>1, <2>4 DEF Queues, Slept
  <2>6. \A u \in PS!Phi : Place(u)' /\ Shows(u)'
    BY <1>1, <1>2, <1>5, <2>2, PhiSame DEF SemaInv, Place, Shows
  <2>7. \A u \in PS!Phi : PS!Inside(u)' <=> PS!Inside(u)
    BY <1>1, <1>2, <2>2 DEF PS!Inside
  <2>8. ~MayPass(t)
    BY <1>5 DEF MayPass
  <2>9. Permits'
    BY <1>3, <2>2, <2>7, <2>8 DEF SemaInv, Permits
  <2>10. QED
    BY <1>4, <2>3, <2>5, <2>6, <2>9 DEF SemaInv, Program
<1>6. CASE state_sema[t] = "EATING"
  <2>1. /\ value' = [value EXCEPT ![PS!s(t)] = 0]
        /\ UNCHANGED <<wait_queue, tstate, running>>
    BY <1>1, <1>6, SemaNames DEF PS!Down
  <2>2. PS!TypeOK'
    BY <1>1, <2>1, SemaNames DEF SemaInv, PS!TypeOK, PS!SemTypeOK, Program
  <2>3. \A u \in PS!Phi, x \in PS!Semaphores : SleepsOn(u, x)' <=> SleepsOn(u, x)
    BY <1>1, <1>2, <2>1 DEF SleepsOn
  <2>4. Queues'
    BY <2>1, <2>3 DEF Queues, SemaInv
  <2>5. \A u \in PS!Phi : Place(u)' /\ Shows(u)'
    BY <1>1, <1>2, <1>6, <2>1 DEF SemaInv, Place, Shows
  <2>6. \A u \in PS!Phi : PS!Inside(u)' <=> PS!Inside(u)
    BY <1>1, <1>2, <2>1 DEF PS!Inside
  <2>7. value'[PS!mutex] = value[PS!mutex] /\ \A i \in PS!Phi : value'[PS!s(i)] = IF i = t THEN 0 ELSE value[PS!s(i)]
    BY <1>1, <2>1, SemaNames
  <2>8. Permits'
    BY <1>3, <2>1, <2>6, <2>7 DEF SemaInv, Permits
  <2>9. QED
    BY <1>4, <2>2, <2>4, <2>5, <2>8 DEF SemaInv, Program
<1>7. QED
  BY <1>1, <1>5, <1>6

(* A thread that gives mutex back, to the first that waits for it.         *)
LEMMA GiveInv ==
  ASSUME SemaInv, NEW t \in PS!Phi, running = t, PS!Took(t) \/ PS!LeaveTable(t), Program(t)
  PROVE  SemaInv'
<1>1. /\ PS!Up(PS!mutex) /\ UNCHANGED state_sema /\ tstate[t] = "ready"
      /\ \/ pc[t] = "took" /\ pc' = [pc EXCEPT ![t] = "grab"]
         \/ /\ pc[t] = "leave"
            /\ pc' = [pc EXCEPT ![t] = "think"] \/ pc' = [pc EXCEPT ![t] = "quit"]
      /\ pc \in [PS!Phi -> {"think", "take", "hungry", "self", "took", "grab", "eat", "put",
                         "drop", "left", "right", "leave", "quit", "gone"}]
      /\ tstate \in [PS!Phi -> {"ready", "ksem", "timer", "gone"}]
      /\ value \in [PS!Semaphores -> Nat] /\ PS!Inside(t)
  BY DEF PS!Took, PS!LeaveTable, PS!Goto, SemaInv, PS!TypeOK, PS!SemTypeOK, Place, PS!Inside
<1>2. /\ pc'[t] \in {"grab", "think", "quit"} /\ (pc'[t] = "grab" <=> pc[t] = "took")
      /\ pc[t] \in {"took", "leave"} /\ \A v \in PS!Phi \ {t} : pc'[v] = pc[v]
      /\ value[PS!mutex] = 0 /\ \A v \in PS!Phi : PS!Inside(v) => v = t
  BY <1>1 DEF SemaInv, Permits
<1>3. \A i \in PS!Phi : MayPass(i)' <=> MayPass(i)
  BY <1>1, <1>2 DEF MayPass
<1>4. Apart'
  BY <1>1 DEF SemaInv, Apart
<1>5. CASE wait_queue[PS!mutex] = <<>>
  <2>1. value' = [value EXCEPT ![PS!mutex] = 1] /\ UNCHANGED <<wait_queue, tstate, running>>
    BY <1>1, <1>2, <1>5, SemaNames DEF PS!Up
  <2>2. PS!TypeOK'
    BY <1>1, <2>1, SemaNames DEF SemaInv, PS!TypeOK, PS!SemTypeOK, Program
  <2>3. \A u \in PS!Phi, x \in PS!Semaphores : SleepsOn(u, x)' <=> SleepsOn(u, x)
    BY <1>1, <1>2, <2>1 DEF SleepsOn
  <2>4. Queues'
    BY <2>1, <2>3 DEF Queues, SemaInv
  <2>5. \A u \in PS!Phi : Place(u)' /\ Shows(u)'
    BY <1>1, <1>2, <2>1 DEF SemaInv, Place, Shows
  <2>6. \A u \in PS!Phi : ~PS!Inside(u)'
    BY <1>1, <1>2, <2>1 DEF PS!Inside
  <2>7. value'[PS!mutex] = 1 /\ \A i \in PS!Phi : value'[PS!s(i)] = value[PS!s(i)]
    BY <1>1, <2>1, SemaNames
  <2>8. Permits'
    BY <1>3, <1>5, <2>1, <2>6, <2>7 DEF SemaInv, Permits
  <2>9. QED
    BY <1>4, <2>2, <2>4, <2>5, <2>8 DEF SemaInv, Program
<1>6. CASE wait_queue[PS!mutex] # <<>>
  <2>1. PICK u \in PS!Phi : Handed(u, PS!mutex)
    BY <1>1, <1>6, UpHands, SemaNames
  <2>2. /\ tstate[u] = "ksem" /\ pc[u] \in {"hungry", "drop"} /\ u # t
        /\ tstate'[u] = "ready" /\ \A v \in PS!Phi \ {u} : tstate'[v] = tstate[v]
        /\ value' = value /\ running' = running
    BY <1>1, <2>1, SemaNames DEF Handed, SleepsOn
  <2>3. PS!TypeOK'
    BY <1>1, <2>1 DEF Handed, SemaInv, PS!TypeOK, Program
  <2>4. \A v \in PS!Phi, x \in PS!Semaphores : SleepsOn(v, x)' <=> SleepsOn(v, x) /\ v # u
    BY <1>1, <1>2, <2>2 DEF SleepsOn
  <2>5. Queues'
    BY <2>1, <2>4 DEF Queues, Handed
  <2>6. \A v \in PS!Phi : Place(v)' /\ Shows(v)'
    BY <1>1, <1>2, <2>2 DEF SemaInv, Place, Shows
  <2>7. \A v \in PS!Phi : PS!Inside(v)' <=> v = u
    BY <1>1, <1>2, <2>2 DEF PS!Inside
  <2>8. Permits'
    BY <1>2, <1>3, <2>2, <2>7 DEF SemaInv, Permits
  <2>9. QED
    BY <1>4, <2>3, <2>5, <2>6, <2>8 DEF SemaInv, Program
<1>7. QED
  BY <1>5, <1>6
-----------------------------------------------------------------------------
(* A thread that says what it shows: HUNGRY, or THINKING again.            *)
LEMMA ShowInv ==
  ASSUME SemaInv, NEW t \in PS!Phi, running = t, PS!Hungry(t) \/ PS!Drop(t), Program(t)
  PROVE  SemaInv'
<1>1. /\ UNCHANGED <<value, wait_queue, tstate, running, iter>> /\ tstate[t] = "ready"
      /\ \/ /\ pc[t] = "hungry" /\ pc' = [pc EXCEPT ![t] = "self"]
            /\ state_sema' = [state_sema EXCEPT ![t] = "HUNGRY"]
         \/ /\ pc[t] = "drop" /\ pc' = [pc EXCEPT ![t] = "left"]
            /\ state_sema' = [state_sema EXCEPT ![t] = "THINKING"]
      /\ pc \in [PS!Phi -> {"think", "take", "hungry", "self", "took", "grab", "eat", "put",
                         "drop", "left", "right", "leave", "quit", "gone"}]
      /\ state_sema \in [PS!Phi -> {"THINKING", "HUNGRY", "EATING"}]
  BY DEF PS!Hungry, PS!Drop, PS!Goto, SemaInv, PS!TypeOK, Place
<1>2. /\ pc'[t] \in {"self", "left"} /\ pc[t] \in {"hungry", "drop"}
      /\ state_sema'[t] = (IF pc'[t] = "self" THEN "HUNGRY" ELSE "THINKING")
      /\ \A v \in PS!Phi \ {t} : pc'[v] = pc[v] /\ state_sema'[v] = state_sema[v]
      /\ state_sema' \in [PS!Phi -> {"THINKING", "HUNGRY", "EATING"}]
  BY <1>1
<1>3. \A i \in PS!Phi : MayPass(i)' <=> MayPass(i)
  BY <1>2 DEF MayPass
<1>4. Apart'
  BY <1>2, Round DEF SemaInv, Apart
<1>5. PS!TypeOK'
  BY <1>1, <1>2 DEF SemaInv, PS!TypeOK, PS!SemTypeOK, Program
<1>6. \A u \in PS!Phi, x \in PS!Semaphores : SleepsOn(u, x)' <=> SleepsOn(u, x)
  BY <1>1, <1>2 DEF SleepsOn
<1>7. Queues'
  BY <1>1, <1>6 DEF Queues, SemaInv
<1>8. \A u \in PS!Phi : Place(u)' /\ Shows(u)'
  BY <1>1, <1>2 DEF SemaInv, Place, Shows
<1>9. \A u \in PS!Phi : PS!Inside(u)' <=> PS!Inside(u)
  BY <1>1, <1>2 DEF PS!Inside
<1>10. Permits'
  BY <1>1, <1>3, <1>9 DEF SemaInv, Permits
<1>11. QED
  BY <1>4, <1>5, <1>7, <1>8, <1>10 DEF SemaInv, Program

(* A thread that tests whether j may eat, itself or a neighbour.           *)
LEMMA TestInv ==
  ASSUME SemaInv, NEW t \in PS!Phi, running = t, NEW j \in PS!Phi, PS!Test(j), Program(t),
         iter' = iter,
         \/ pc[t] = "self" /\ pc' = [pc EXCEPT ![t] = "took"] /\ j = t
         \/ pc[t] = "left" /\ pc' = [pc EXCEPT ![t] = "right"] /\ j # t
         \/ pc[t] = "right" /\ pc' = [pc EXCEPT ![t] = "leave"] /\ j # t
  PROVE  SemaInv'
<1>1. /\ tstate[t] = "ready" /\ PS!Inside(t)
      /\ pc \in [PS!Phi -> {"think", "take", "hungry", "self", "took", "grab", "eat", "put",
                         "drop", "left", "right", "leave", "quit", "gone"}]
      /\ state_sema \in [PS!Phi -> {"THINKING", "HUNGRY", "EATING"}]
      /\ tstate \in [PS!Phi -> {"ready", "ksem", "timer", "gone"}]
      /\ value \in [PS!Semaphores -> Nat]
  BY DEF PS!Inside, SemaInv, PS!TypeOK, PS!SemTypeOK, Place
<1>2. /\ pc[t] \in {"self", "left", "right"} /\ pc'[t] \in {"took", "right", "leave"}
      /\ (pc'[t] = "took" <=> j = t) /\ (pc[t] = "self" <=> j = t)
      /\ \A v \in PS!Phi \ {t} : pc'[v] = pc[v]
      /\ \A v \in PS!Phi \ {t} : pc[v] \notin {"self", "took", "left", "right", "leave"}
      /\ Shows(t)
  BY <1>1 DEF SemaInv, Permits, PS!Inside
<1>3. CASE ~PS!MayEat(j)
  <2>1. UNCHANGED <<state_sema, value, wait_queue, tstate, running>>
    BY <1>3 DEF PS!Test
  <2>2. \A i \in PS!Phi : MayPass(i)' <=> MayPass(i)
    BY <1>2, <2>1 DEF MayPass, Shows
  <2>3. PS!TypeOK' /\ Apart'
    BY <2>1 DEF SemaInv, PS!TypeOK, PS!SemTypeOK, Program, Apart
  <2>4. \A u \in PS!Phi, x \in PS!Semaphores : SleepsOn(u, x)' <=> SleepsOn(u, x)
    BY <1>1, <1>2, <2>1 DEF SleepsOn
  <2>5. Queues'
    BY <2>1, <2>4 DEF Queues, SemaInv
  <2>6. \A u \in PS!Phi : Place(u)' /\ Shows(u)'
    BY <1>1, <1>2, <2>1 DEF SemaInv, Place, Shows
  <2>7. \A u \in PS!Phi : PS!Inside(u)' <=> PS!Inside(u)
    BY <1>1, <1>2, <2>1 DEF PS!Inside
  <2>8. Permits'
    BY <2>1, <2>2, <2>7 DEF SemaInv, Permits
  <2>9. QED
    BY <2>3, <2>5, <2>6, <2>8 DEF SemaInv, Program
<1>4. CASE PS!MayEat(j)
  <2>1. /\ state_sema' = [state_sema EXCEPT ![j] = "EATING"] /\ PS!Up(PS!s(j))
        /\ state_sema[j] = "HUNGRY" /\ state_sema[PS!LEFT(j)] # "EATING" /\ state_sema[PS!RIGHT(j)] # "EATING"
    BY <1>4 DEF PS!Test, PS!MayEat
  <2>2. /\ state_sema'[j] = "EATING" /\ \A v \in PS!Phi \ {j} : state_sema'[v] = state_sema[v]
        /\ state_sema' \in [PS!Phi -> {"THINKING", "HUNGRY", "EATING"}]
    BY <1>1, <2>1
  <2>3. Apart'
    BY <2>1, <2>2, Round DEF SemaInv, Apart
  <2>4. /\ pc[j] = "self" \/ pc[j] = "grab" \/ (pc[j] = "eat" /\ tstate[j] = "ksem")
        /\ j # t => pc[j] # "self"
    <3>1. Shows(j)
      BY DEF SemaInv
    <3>2. pc[j] \in {"self", "took", "grab", "eat"} /\ (pc[j] = "eat" => tstate[j] = "ksem")
      BY <1>1, <2>1, <3>1 DEF Shows
    <3>3. pc[j] # "took"
      BY <1>2
    <3>4. QED
      BY <1>2, <3>2, <3>3
  <2>5. value[PS!s(j)] = 0
    BY <2>1 DEF SemaInv, Permits, MayPass
  <2>6. CASE wait_queue[PS!s(j)] = <<>>
    <3>1. value' = [value EXCEPT ![PS!s(j)] = 1] /\ UNCHANGED <<wait_queue, tstate, running>>
      BY <1>1, <2>1, <2>5, <2>6, SemaNames DEF PS!Up
    <3>2. pc[j] \in {"self", "grab"}
      <4>1. j \notin Range(wait_queue[PS!s(j)])
        BY <2>6, EmptyFacts
      <4>2. ~SleepsOn(j, PS!s(j))
        BY <4>1, SemaNames DEF SemaInv, Queues
      <4>3. QED
        BY <2>4, <4>2 DEF SleepsOn
    <3>3. pc'[j] \in {"took", "grab"}
      BY <1>2, <2>4, <3>2
    <3>4. \A i \in PS!Phi : MayPass(i)' <=> MayPass(i) \/ i = j
      BY <1>2, <2>2, <3>3 DEF MayPass, Shows
    <3>5. PS!TypeOK'
      BY <1>1, <2>2, <3>1, SemaNames DEF SemaInv, PS!TypeOK, PS!SemTypeOK, Program
    <3>6. \A u \in PS!Phi, x \in PS!Semaphores : SleepsOn(u, x)' <=> SleepsOn(u, x)
      BY <1>1, <1>2, <3>1 DEF SleepsOn
    <3>7. Queues'
      BY <3>1, <3>6 DEF Queues, SemaInv
    <3>8. \A u \in PS!Phi : Place(u)' /\ Shows(u)'
      BY <1>1, <1>2, <2>2, <3>1, <3>2, <3>3 DEF SemaInv, Place, Shows
    <3>9. \A u \in PS!Phi : PS!Inside(u)' <=> PS!Inside(u)
      BY <1>1, <1>2, <3>1 DEF PS!Inside
    <3>10. value'[PS!mutex] = value[PS!mutex] /\ \A i \in PS!Phi : value'[PS!s(i)] = IF i = j THEN 1 ELSE value[PS!s(i)]
      BY <1>1, <3>1, SemaNames
    <3>11. Permits'
      BY <3>1, <3>4, <3>9, <3>10 DEF SemaInv, Permits
    <3>12. QED
      BY <2>3, <3>5, <3>7, <3>8, <3>11 DEF SemaInv, Program
  <2>7. CASE wait_queue[PS!s(j)] # <<>>
    <3>1. PICK u \in PS!Phi : Handed(u, PS!s(j))
      BY <2>1, <2>7, UpHands, SemaNames
    <3>2. /\ u = j /\ tstate[j] = "ksem" /\ pc[j] = "eat" /\ j # t
          /\ tstate'[j] = "ready" /\ \A v \in PS!Phi \ {j} : tstate'[v] = tstate[v]
          /\ value' = value /\ running' = running /\ wait_queue'[PS!mutex] = wait_queue[PS!mutex]
      BY <1>1, <3>1, SemaNames DEF Handed, SleepsOn
    <3>3. \A i \in PS!Phi : MayPass(i)' <=> MayPass(i)
      BY <1>2, <2>2, <3>2 DEF MayPass, Shows
    <3>4. PS!TypeOK'
      BY <1>1, <2>2, <3>1 DEF SemaInv, PS!TypeOK, Handed, Program
    <3>5. \A v \in PS!Phi, x \in PS!Semaphores : SleepsOn(v, x)' <=> SleepsOn(v, x) /\ v # j
      BY <1>1, <1>2, <3>2 DEF SleepsOn
    <3>6. Queues'
      BY <3>1, <3>2, <3>5 DEF Queues, Handed
    <3>7. \A v \in PS!Phi : Place(v)' /\ Shows(v)'
      BY <1>1, <1>2, <2>2, <3>2 DEF SemaInv, Place, Shows
    <3>8. \A v \in PS!Phi : PS!Inside(v)' <=> PS!Inside(v)
      BY <1>1, <1>2, <3>2 DEF PS!Inside
    <3>9. Permits'
      BY <3>2, <3>3, <3>8 DEF SemaInv, Permits
    <3>10. QED
      BY <2>3, <3>4, <3>6, <3>7, <3>9 DEF SemaInv, Program
  <2>8. QED
    BY <2>6, <2>7
<1>5. QED
  BY <1>3, <1>4

(* Sleeps, ends and dispatches.                                            *)
LEMMA RestInv ==
  ASSUME SemaInv, NEW t \in PS!Phi,
         \/ running = t /\ (PS!Think(t) \/ PS!Eat(t) \/ PS!Quit(t)) /\ Program(t)
         \/ PS!Schedule(t) \/ PS!Interrupt(t)
  PROVE  SemaInv'
<1>1. /\ UNCHANGED <<value, wait_queue, state_sema, iter>> /\ Turns'
      /\ pc' \in [PS!Phi -> {"think", "take", "hungry", "self", "took", "grab", "eat", "put",
                          "drop", "left", "right", "leave", "quit", "gone"}]
      /\ \A v \in PS!Phi \ {t} : pc'[v] = pc[v]
      /\ \/ /\ running = t /\ running' = NULL
            /\ \/ pc[t] = "think" /\ pc'[t] = "take" /\ tstate' = [tstate EXCEPT ![t] = "timer"]
               \/ pc[t] = "eat" /\ pc'[t] = "put" /\ tstate' = [tstate EXCEPT ![t] = "timer"]
               \/ pc[t] = "quit" /\ pc'[t] = "gone" /\ tstate' = [tstate EXCEPT ![t] = "gone"]
         \/ /\ running = NULL /\ running' = t /\ tstate' = tstate /\ tstate[t] = "ready" /\ pc' = pc
         \/ /\ tstate[t] = "timer" /\ tstate' = [tstate EXCEPT ![t] = "ready"] /\ running' = running
            /\ pc' = pc
  BY DEF PS!Think, PS!Eat, PS!Quit, PS!Schedule, PS!Interrupt, PS!Leave, PS!Dispatch, PS!Fire, PS!Goto, Program, SemaInv, PS!TypeOK, Turns
<1>2. /\ tstate \in [PS!Phi -> {"ready", "ksem", "timer", "gone"}]
      /\ running \in PS!Phi \cup {NULL} /\ (running = t => tstate[t] = "ready")
  BY DEF SemaInv, PS!TypeOK, PS!SemTypeOK, Place
<1>3. /\ tstate[t] # "ksem" /\ tstate'[t] # "ksem"
      /\ \A u \in PS!Phi \ {t} : tstate'[u] = tstate[u]
      /\ tstate' \in [PS!Phi -> {"ready", "ksem", "timer", "gone"}]
      /\ running' \in PS!Phi \cup {NULL}
      /\ \A u \in PS!Phi \ {t} : running' = u => running = u
  BY <1>1, <1>2, PhiSame
<1>4. PS!TypeOK'
  BY <1>1, <1>3 DEF SemaInv, PS!TypeOK, PS!SemTypeOK
<1>5. \A u \in PS!Phi, x \in PS!Semaphores : SleepsOn(u, x)' <=> SleepsOn(u, x)
  BY <1>1, <1>3 DEF SleepsOn
<1>6. Queues'
  BY <1>1, <1>5 DEF Queues, SemaInv
<1>7. \A u \in PS!Phi : PS!Inside(u)' <=> PS!Inside(u)
  BY <1>1, <1>3 DEF PS!Inside
<1>8. \A i \in PS!Phi : MayPass(i)' <=> MayPass(i)
  BY <1>1 DEF MayPass
<1>9. Permits' /\ Apart'
  BY <1>1, <1>7, <1>8 DEF SemaInv, Permits, Apart
<1>10. \A u \in PS!Phi : Shows(u)'
  BY <1>1, <1>2, <1>3 DEF SemaInv, Shows
<1>11. \A u \in PS!Phi : Place(u)'
  <2>1. \A u \in PS!Phi \ {t} : Place(u)'
    BY <1>1, <1>3 DEF SemaInv, Place
  <2>2. Place(t)'
    BY <1>1, <1>2, PhiSame DEF SemaInv, Place
  <2>3. QED
    BY <2>1, <2>2
<1>12. QED
  BY <1>1, <1>4, <1>6, <1>9, <1>10, <1>11 DEF SemaInv

(* Every step of the semaphore program keeps its invariant.                *)
LEMMA SemaStep == SemaInv /\ [PS!Next]_PS!vars => SemaInv'
<1> SUFFICES ASSUME SemaInv, [PS!Next]_PS!vars PROVE SemaInv'
  OBVIOUS
<1>1. CASE UNCHANGED PS!vars
  BY <1>1 DEF PS!vars, SemaInv, PS!TypeOK, PS!SemTypeOK, Queues, SleepsOn, Permits, PS!Inside, MayPass, Apart, Turns,
     Place, Shows
<1>2. ASSUME NEW t \in PS!Phi, PS!Run(t) PROVE SemaInv'
  <2>1. Program(t) /\ running = t
    BY <1>2, RunProgram DEF PS!Run
  <2>2. CASE PS!Take(t) \/ PS!Put(t)
    BY <2>1, <2>2, TakeInv
  <2>3. CASE PS!Grab(t)
    BY <2>1, <2>3, GrabInv
  <2>4. CASE PS!Took(t) \/ PS!LeaveTable(t)
    BY <2>1, <2>4, GiveInv
  <2>5. CASE PS!Hungry(t) \/ PS!Drop(t)
    BY <2>1, <2>5, ShowInv
  <2>6. CASE PS!TestSelf(t)
    BY <2>1, <2>6, TestInv DEF PS!TestSelf, PS!Goto
  <2>7. CASE PS!TestLeft(t)
    BY <2>1, <2>7, TestInv, Round DEF PS!TestLeft, PS!Goto
  <2>8. CASE PS!TestRight(t)
    BY <2>1, <2>8, TestInv, Round DEF PS!TestRight, PS!Goto
  <2>9. CASE PS!Think(t) \/ PS!Eat(t) \/ PS!Quit(t)
    BY <2>1, <2>9, RestInv
  <2>10. QED
    BY <1>2, <2>2, <2>3, <2>4, <2>5, <2>6, <2>7, <2>8, <2>9 DEF PS!Run
<1>3. QED
  BY <1>1, <1>2, RestInv DEF PS!Next, PS!AllGone

(* Who sleeps, who has which permit and what each shows agree in every     *)
(* state.                                                                  *)
THEOREM SemaInvariance == PS!Spec => []SemaInv
<1>1. QED
  BY SemaInit, SemaStep, PTL DEF PS!Spec
-----------------------------------------------------------------------------
(* Nobody is in two queues or twice in one, and whoever sleeps is in one.  *)
LEMMA InvQueues == SemaInv => PS!QueuesOK
<1> SUFFICES ASSUME SemaInv PROVE PS!QueuesOK
  OBVIOUS
<1>1. /\ wait_queue \in [PS!Semaphores -> Seq(PS!Phi)] /\ running \in PS!Phi \cup {NULL}
      /\ tstate \in [PS!Phi -> {"ready", "ksem", "timer", "gone"}]
  BY DEF SemaInv, PS!TypeOK, PS!SemTypeOK
<1>2. \A t \in PS!Phi, x \in PS!Semaphores : PS!Waiting(t, x) <=> SleepsOn(t, x)
  BY DEF PS!Waiting, SemaInv, Queues, Range
<1>3. ASSUME NEW t \in PS!Phi PROVE tstate[t] = "ksem" <=> \E x \in PS!Semaphores : SleepsOn(t, x)
  BY SemaNames DEF SleepsOn, SemaInv, Place
<1>4. ASSUME NEW x \in PS!Semaphores, NEW r \in PS!Semaphores,
             NEW i \in DOMAIN wait_queue[x], NEW j \in DOMAIN wait_queue[r],
             wait_queue[x][i] = wait_queue[r][j]
      PROVE  x = r /\ i = j
  <2>1. wait_queue[x] \in Seq(PS!Phi) /\ wait_queue[x][i] \in PS!Phi
    BY <1>1
  <2>2. SleepsOn(wait_queue[x][i], x) /\ SleepsOn(wait_queue[x][i], r)
    BY <1>2, <1>4, <2>1 DEF PS!Waiting
  <2>3. x = r
    BY <2>1, <2>2, SemaNames DEF SleepsOn
  <2>4. QED
    BY <1>4, <2>3 DEF SemaInv, Queues, IsInjective
<1>5. ASSUME NEW x \in PS!Semaphores, value[x] > 0 PROVE wait_queue[x] = <<>>
  <2>1. CASE x = PS!mutex
    BY <1>5, <2>1 DEF SemaInv, Permits
  <2>2. ASSUME NEW i \in PS!Phi, x = PS!s(i) PROVE wait_queue[x] = <<>>
    <3>1. MayPass(i)
      BY <1>5, <2>2 DEF SemaInv, Permits
    <3>2. \A t \in PS!Phi : ~SleepsOn(t, x)
      BY <2>2, <3>1, SemaNames DEF SleepsOn, MayPass
    <3>3. \A t \in PS!Phi : t \notin Range(wait_queue[x])
      BY <3>2 DEF SemaInv, Queues
    <3>4. wait_queue[x] \in Seq(PS!Phi)
      BY <1>1
    <3>5. wait_queue[x] # <<>> => \E t \in PS!Phi : t \in Range(wait_queue[x])
      BY <3>4, TailFacts
    <3>6. QED
      BY <3>3, <3>5
  <2>3. QED
    BY <2>1, <2>2, SemaNames
<1>6. running # NULL => tstate[running] = "ready"
  BY <1>1 DEF SemaInv, Place
<1>7. QED
  BY <1>2, <1>3, <1>4, <1>5, <1>6 DEF PS!QueuesOK

(* down() and up() keep the queues of sem.c and the states of the threads  *)
(* together under the philosophers' calls.                                 *)
THEOREM SemaQueues == PS!Spec => []PS!QueuesOK
<1>1. QED
  BY SemaInvariance, InvQueues, PTL

(* Whoever is at the table shows EATING, and so do not two neighbours.     *)
LEMMA InvPermits == SemaInv => PS!PermitsExact
<1> SUFFICES ASSUME SemaInv PROVE PS!PermitsExact
  OBVIOUS
<1>1. PS!ForksExclusive
  <2>1. \A i \in PS!Phi : PS!AtTable(i) => state_sema[i] = "EATING"
    BY DEF SemaInv, Shows, PS!AtTable
  <2>2. QED
    BY <2>1, Round DEF PS!ForksExclusive, SemaInv, Apart
<1>2. value[PS!mutex] + Cardinality({i \in PS!Phi : PS!Inside(i)}) = 1
  <2>1. CASE \A i \in PS!Phi : ~PS!Inside(i)
    <3>1. {i \in PS!Phi : PS!Inside(i)} = {} /\ value[PS!mutex] = 1
      BY <2>1 DEF SemaInv, Permits
    <3>2. QED
      BY <3>1, FS_EmptySet
  <2>2. ASSUME NEW t \in PS!Phi, PS!Inside(t) PROVE value[PS!mutex] + Cardinality({i \in PS!Phi : PS!Inside(i)}) = 1
    <3>1. {i \in PS!Phi : PS!Inside(i)} = {t} /\ value[PS!mutex] = 0
      BY <2>2 DEF SemaInv, Permits
    <3>2. Cardinality({t}) = 1
      BY FS_Singleton
    <3>3. Cardinality({i \in PS!Phi : PS!Inside(i)}) = 1
      BY <3>1, <3>2, Zenon
    <3>4. QED
      BY <3>1, <3>3
  <2>3. QED
    BY <2>1, <2>2
<1>3. PS!Cardinality({i \in PS!Phi : PS!Inside(i)}) = Cardinality({i \in PS!Phi : PS!Inside(i)})
  BY DEF PS!Cardinality, Cardinality
<1>4. QED
  BY <1>1, <1>2, <1>3 DEF PS!PermitsExact, SemaInv, Permits, MayPass

(* Two neighbours never hold a fork they share, at most one philosopher is *)
(* inside, and s[i] has a permit only for an i that may eat.               *)
THEOREM SemaPermits == PS!Spec => []PS!PermitsExact
<1>1. QED
  BY SemaInvariance, InvPermits, PTL
-----------------------------------------------------------------------------
(* What a step shows at the table.                                         *)
LEMMA SemaAtTable == SemaInv /\ [PS!Next]_PS!vars => [PS!Table!Next]_state_sema
<1> SUFFICES ASSUME SemaInv, [PS!Next]_PS!vars PROVE PS!Table!Next \/ state_sema' = state_sema
  OBVIOUS
<1>1. CASE UNCHANGED PS!vars
  BY <1>1 DEF PS!vars
<1>2. PS!Table!Phi = PS!Phi
  BY DEF PS!Table!Phi, PS!Phi
<1>3. ASSUME NEW j \in PS!Phi, PS!Test(j) PROVE PS!Table!Next \/ state_sema' = state_sema
  <2>1. PS!Table!LEFT(j) = PS!LEFT(j) /\ PS!Table!RIGHT(j) = PS!RIGHT(j)
    BY DEF PS!Table!LEFT, PS!Table!RIGHT, PS!LEFT, PS!RIGHT
  <2>2. CASE PS!MayEat(j)
    BY <1>2, <1>3, <2>1, <2>2 DEF PS!Test, PS!MayEat, PS!Table!Eat, PS!Table!Next
  <2>3. CASE ~PS!MayEat(j)
    BY <1>3, <2>3 DEF PS!Test
  <2>4. QED
    BY <2>2, <2>3
<1>4. ASSUME NEW i \in PS!Phi, PS!Run(i) PROVE PS!Table!Next \/ state_sema' = state_sema
  <2>1. Shows(i)
    BY DEF SemaInv
  <2>2. CASE PS!Hungry(i)
    BY <1>2, <2>1, <2>2 DEF PS!Hungry, Shows, PS!Table!Next, PS!Table!GetHungry
  <2>3. CASE PS!Drop(i)
    BY <1>2, <2>1, <2>3 DEF PS!Drop, Shows, PS!Table!Next, PS!Table!Finish
  <2>4. CASE PS!TestSelf(i) \/ PS!TestLeft(i) \/ PS!TestRight(i)
    BY <1>3, <2>4, Round DEF PS!TestSelf, PS!TestLeft, PS!TestRight
  <2>5. QED
    BY <1>4, <2>2, <2>3, <2>4 DEF PS!Run, PS!Think, PS!Take, PS!Took, PS!Grab, PS!Eat, PS!Put, PS!LeaveTable, PS!Quit
<1>5. QED
  BY <1>1, <1>4 DEF PS!Next, PS!Schedule, PS!Interrupt, PS!AllGone, PS!vars

(* The philosophers with semaphores implement Dining as well.              *)
THEOREM SemaDining == PS!Spec => PS!TableSpec
<1>1. PS!Init => PS!Table!Init
  BY DEF PS!Init, PS!Table!Init, PS!Table!Phi, PS!Phi
<1>2. QED
  BY <1>1, SemaAtTable, SemaInvariance, PTL DEF PS!Spec, PS!TableSpec, PS!Table!Spec
=============================================================================
