---------------------------- MODULE ControlProofs ----------------------------
(***************************************************************************)
(* Proofs about the control package, for any arms, joints, limits, goals   *)
(* and number of loops that step one driver: no joint leaves its limits,   *)
(* loops share an arm only after a race for its busy flag, what an         *)
(* emergency stop has stopped stays until its next command, what a         *)
(* trajectory has reached stays reached, a gripper command that nobody     *)
(* disturbs reaches its width, and a trajectory of the planner's is        *)
(* tracked to its end.                                                     *)
(***************************************************************************)
EXTENDS Control, TLAPS, WellFoundedInduction

Between(a) == JointLimits[a].lower .. JointLimits[a].upper

\* The driver keeps its shape, every joint and target inside the limits.
ArmSet(a) ==
  [current : [1 .. NumJoints[a] -> Between(a)], target : Seq(Between(a)),
   scaling : 0 .. FullScaling]

DriverOK ==
  /\ DOMAIN armState \subseteq Arms
  /\ armState = [a \in DOMAIN armState |-> armState[a]]
  /\ \A a \in DOMAIN armState : armState[a] \in ArmSet(a)
  /\ gripperState = [g \in DOMAIN gripperState |-> gripperState[g]]
  /\ \A g \in DOMAIN gripperState : gripperState[g] \in [current : Int, target : Int]

\* A sequence of points, of which each has its positions.
Trajectory(points) ==
  /\ Len(points) \in Nat /\ DOMAIN points = 1 .. Len(points)
  /\ \A k \in DOMAIN points : points[k].positions \in Seq(Int)

\* A loop that drives its arm is at one of the points of its trajectory.
LoopOK(l) ==
  \/ loop[l] = Idle
  \/ /\ loop[l] \in [phase : {loop[l].phase}, arm : {loop[l].arm}, points : {loop[l].points},
                    scaling : {loop[l].scaling}, idx : {loop[l].idx}, left : {loop[l].left},
                    clean : {loop[l].clean}]
     /\ loop[l].phase \in {"admitted", "empty", "command", "step", "measure"}
     /\ loop[l].arm \in Arms
     /\ Trajectory(loop[l].points)
     /\ loop[l].scaling \in 0 .. FullScaling
     /\ loop[l].phase = "admitted" => loop[l].idx = 1
     /\ loop[l].phase \in {"command", "step", "measure"} => loop[l].idx \in DOMAIN loop[l].points

LoopsOK ==
  /\ loop = [l \in Loops |-> loop[l]]
  /\ \A l \in Loops : LoopOK(l)
  /\ busy \in [Arms -> BOOLEAN]

\* What is stopped has its position as its target.
StoppedRest ==
  /\ \A a \in stopped \cap DOMAIN armState : armState[a].target = armState[a].current
  /\ \A g \in stopped \cap DOMAIN gripperState :
       gripperState[g].target = gripperState[g].current

ControlInv == DriverOK /\ LoopsOK /\ BusyKeepsOthersOut /\ StoppedRest

-----------------------------------------------------------------------------
(* Arithmetic of the driver                                                *)

LEMMA ClampedFacts ==
  ASSUME NEW x \in Int, NEW lo \in Int, NEW hi \in Int, lo <= hi
  PROVE  /\ Clamped(x, lo, hi) \in lo .. hi
         /\ x \in lo .. hi => Clamped(x, lo, hi) = x
BY DEF Clamped, AtLeast, AtMost

\* A joint between its limits that moves towards a target between them stays
\* between them, and one at its target stays there.
LEMMA TowardFacts ==
  ASSUME NEW lo \in Int, NEW hi \in Int, NEW x \in lo .. hi, NEW goal \in lo .. hi,
         NEW most \in Nat
  PROVE  /\ Toward(x, goal, most) \in lo .. hi
         /\ goal = x => Toward(x, goal, most) = x
BY DEF Toward, Clamped, AtLeast, AtMost

LEMMA ScalingTyped ==
  ASSUME NEW asked \in Int
  PROVE  VelocityScaling(asked) \in 0 .. FullScaling
<1>1. FullScaling \in Nat /\ DefaultVelocityScaling \in Int
  BY DriverAssumption, ControlAssumption
<1> DEFINE x == IF asked <= 0 THEN DefaultVelocityScaling ELSE asked
<1>2. x \in Int
  BY <1>1
<1> HIDE DEF x
<1>3. Clamped(x, 0, FullScaling) \in 0 .. FullScaling
  BY <1>1, <1>2, ClampedFacts
<1> QED BY <1>3 DEF VelocityScaling, x

LEMMA LimitsTyped ==
  ASSUME NEW a \in Arms
  PROVE  /\ JointLimits[a].lower \in Int /\ JointLimits[a].upper \in Int
         /\ JointLimits[a].lower <= 0 /\ 0 <= JointLimits[a].upper
         /\ NumJoints[a] \in Nat
         /\ MaxVelocity[a] \in Nat
         /\ FullScaling \in Nat
BY DriverAssumption

\* The targets of any positions are inside the limits.
LEMMA TargetTyped ==
  ASSUME NEW a \in Arms, NEW positions \in Seq(Int)
  PROVE  Target(a, positions) \in Seq(Between(a))
<1>1. \A j \in DOMAIN positions :
        Clamped(positions[j], JointLimits[a].lower, JointLimits[a].upper) \in Between(a)
  <2> TAKE j \in DOMAIN positions
  <2> DEFINE lo == JointLimits[a].lower
             hi == JointLimits[a].upper
  <2>1. positions[j] \in Int /\ lo \in Int /\ hi \in Int /\ lo <= hi
    BY LimitsTyped
  <2>2. Clamped(positions[j], lo, hi) \in lo .. hi
    BY <2>1, ClampedFacts
  <2> QED BY <2>2 DEF Between
<1>2. DOMAIN positions = 1 .. Len(positions) /\ Len(positions) \in Nat
  OBVIOUS
<1> QED BY <1>1, <1>2 DEF Target

\* What the planner makes is a trajectory.
LEMMA PlanIsTrajectory ==
  ASSUME NEW start \in Seq(Int), NEW goal \in Seq(Int), NEW plan
  PROVE  Trajectory(Interpolate(start, goal, plan)) /\ Interpolate(start, goal, plan) # <<>>
<1> DEFINE points == Interpolate(start, goal, plan)
           n == Shorter(start, goal)
           At(k) == [j \in 1 .. n |->
                       start[j] + ((k - 1) * (goal[j] - start[j])) \div (NumPoints - 1)]
<1>1. NumPoints \in Nat /\ NumPoints > 1
  BY PlannerAssumption
<1>2. n \in Nat /\ n <= Len(start) /\ n <= Len(goal)
  BY DEF Shorter
<1>3. ASSUME NEW k \in 1 .. NumPoints PROVE At(k) \in Seq(Int)
  <2>1. ASSUME NEW j \in 1 .. n
        PROVE  start[j] + ((k - 1) * (goal[j] - start[j])) \div (NumPoints - 1) \in Int
    <3>1. start[j] \in Int /\ goal[j] \in Int
      BY <1>2
    <3>2. (k - 1) * (goal[j] - start[j]) \in Int
      BY <3>1, <1>1
    <3> QED BY <3>1, <3>2, <1>1
  <2> QED BY <2>1, <1>2
<1> DEFINE T(k) == PointTime(k - 1, Displacement(start, goal), plan)
<1>4. points = [k \in 1 .. NumPoints |-> [positions |-> At(k), time |-> T(k)]]
  BY Zenon DEF Interpolate
<1> HIDE DEF points, At, T
<1>5. DOMAIN points = 1 .. NumPoints /\ \A k \in 1 .. NumPoints : points[k].positions = At(k)
  BY <1>4
<1>6. Len(points) = NumPoints /\ points # <<>>
  BY <1>1, <1>4
<1>7. Trajectory(points)
  BY <1>1, <1>3, <1>5, <1>6 DEF Trajectory
<1> QED BY <1>6, <1>7 DEF points

-----------------------------------------------------------------------------
(* The driver's methods                                                    *)

\* What has its position as its target stays, as long as it is there.
Stays ==
  /\ \A a \in DOMAIN armState \cap DOMAIN armState' :
       armState[a].target = armState[a].current =>
         /\ armState'[a].current = armState[a].current
         /\ armState'[a].target = armState[a].target
  /\ \A g \in DOMAIN gripperState \cap DOMAIN gripperState' :
       gripperState[g].target = gripperState[g].current =>
         /\ gripperState'[g].current = gripperState[g].current
         /\ gripperState'[g].target = gripperState[g].target

\* The same of a joint of an arm, between the limits of that arm.
LEMMA JointMoves ==
  ASSUME NEW a \in Arms, NEW x \in Between(a), NEW goal \in Between(a), NEW most \in Nat
  PROVE  /\ Toward(x, goal, most) \in Between(a)
         /\ goal = x => Toward(x, goal, most) = x
<1> DEFINE lo == JointLimits[a].lower
           hi == JointLimits[a].upper
<1>1. lo \in Int /\ hi \in Int
  BY LimitsTyped
<1>2. x \in lo .. hi /\ goal \in lo .. hi
  BY DEF Between
<1> HIDE DEF lo, hi
<1>3. Toward(x, goal, most) \in lo .. hi /\ (goal = x => Toward(x, goal, most) = x)
  BY <1>1, <1>2, TowardFacts
<1> QED BY <1>3 DEF Between, lo, hi

LEMMA AdvancedFacts ==
  ASSUME NEW a \in Arms, armState[a] \in ArmSet(a)
  PROVE  /\ Advanced(a) \in ArmSet(a)
         /\ Advanced(a).target = armState[a].target
         /\ armState[a].target = armState[a].current =>
              Advanced(a).current = armState[a].current
<1> DEFINE st == armState[a]
           most == MaxVelocity[a] * st.scaling
           Next_(j) == IF j \in DOMAIN st.target
                         THEN Toward(st.current[j], st.target[j], most) ELSE st.current[j]
<1>1. /\ st.current \in [1 .. NumJoints[a] -> Between(a)]
      /\ st.target \in Seq(Between(a)) /\ st.scaling \in Nat
  BY LimitsTyped DEF ArmSet
<1>2. most \in Nat
  BY <1>1, LimitsTyped
<1>3. ASSUME NEW j \in 1 .. NumJoints[a]
      PROVE  /\ Next_(j) \in Between(a)
             /\ st.target = st.current => Next_(j) = st.current[j]
  <2>1. st.current[j] \in Between(a)
    BY <1>1
  <2>2. CASE j \in DOMAIN st.target
    <3>1. st.target[j] \in Between(a)
      BY <1>1, <2>2
    <3>2. /\ Toward(st.current[j], st.target[j], most) \in Between(a)
          /\ st.target[j] = st.current[j] =>
               Toward(st.current[j], st.target[j], most) = st.current[j]
      <4> HIDE DEF st, most
      <4> QED BY <1>2, <2>1, <3>1, JointMoves
    <3> QED BY <2>2, <3>2
  <2>3. CASE j \notin DOMAIN st.target
    BY <2>1, <2>3
  <2> QED BY <2>2, <2>3
<1>4. Advanced(a) = [st EXCEPT !.current = [j \in DOMAIN st.current |-> Next_(j)]]
  BY Zenon DEF Advanced
<1>5. st = [current |-> st.current, target |-> st.target, scaling |-> st.scaling]
  BY DEF ArmSet
<1> HIDE DEF Next_
<1>6. /\ Advanced(a) = [current |-> [j \in 1 .. NumJoints[a] |-> Next_(j)],
                        target |-> st.target, scaling |-> st.scaling]
  BY <1>1, <1>4, <1>5
<1>7. Advanced(a) \in ArmSet(a)
  BY <1>1, <1>3, <1>6 DEF ArmSet
<1>8. st.target = st.current => [j \in 1 .. NumJoints[a] |-> Next_(j)] = st.current
  BY <1>1, <1>3
<1> QED BY <1>6, <1>7, <1>8

LEMMA StepKeepsDriver ==
  ASSUME DriverOK, Step
  PROVE  /\ DriverOK' /\ Stays
         /\ DOMAIN armState' = DOMAIN armState
         /\ DOMAIN gripperState' = DOMAIN gripperState
<1>1. /\ armState' = [a \in DOMAIN armState |-> armState'[a]]
      /\ DOMAIN armState' = DOMAIN armState /\ DOMAIN armState \subseteq Arms
      /\ \A a \in DOMAIN armState : armState'[a] \in {Advanced(a), armState[a]}
  BY DEF Step, DriverOK
<1>2. \A a \in DOMAIN armState :
        /\ armState'[a] \in ArmSet(a)
        /\ armState[a].target = armState[a].current =>
             /\ armState'[a].current = armState[a].current
             /\ armState'[a].target = armState[a].target
  <2> TAKE a \in DOMAIN armState
  <2>1. a \in Arms /\ armState[a] \in ArmSet(a)
    BY DEF DriverOK
  <2>2. armState'[a] = Advanced(a) \/ armState'[a] = armState[a]
    BY <1>1
  <2> QED BY <2>1, <2>2, AdvancedFacts
<1>3. /\ gripperState' = [g \in DOMAIN gripperState |-> gripperState'[g]]
      /\ DOMAIN gripperState' = DOMAIN gripperState
      /\ \A g \in DOMAIN gripperState :
           \/ gripperState'[g] = gripperState[g]
           \/ gripperState'[g] = [gripperState[g] EXCEPT
                                    !.current = Toward(@, gripperState[g].target, 1)]
  BY DEF Step, DriverOK
<1>4. \A g \in DOMAIN gripperState :
        /\ gripperState'[g] \in [current : Int, target : Int]
        /\ gripperState[g].target = gripperState[g].current =>
             /\ gripperState'[g].current = gripperState[g].current
             /\ gripperState'[g].target = gripperState[g].target
  <2> TAKE g \in DOMAIN gripperState
  <2>1. gripperState[g] \in [current : Int, target : Int]
    BY DEF DriverOK
  <2> DEFINE x == gripperState[g].current
             y == gripperState[g].target
  <2>2. x \in Int /\ y \in Int
    BY <2>1
  <2>3. Toward(x, y, 1) \in Int /\ (y = x => Toward(x, y, 1) = x)
    BY <2>2 DEF Toward, Clamped, AtLeast, AtMost
  <2>4. CASE gripperState'[g] = [gripperState[g] EXCEPT !.current = Toward(x, y, 1)]
    BY <2>1, <2>3, <2>4
  <2>5. CASE gripperState'[g] = gripperState[g]
    BY <2>1, <2>5
  <2> QED BY <1>3, <2>4, <2>5
<1>5. DriverOK'
  BY <1>1, <1>2, <1>3, <1>4 DEF DriverOK, ArmSet, Between
<1> QED BY <1>1, <1>2, <1>3, <1>4, <1>5 DEF Stays

LEMMA StopKeepsDriver ==
  ASSUME DriverOK, EmergencyStop
  PROVE  /\ DriverOK' /\ Stays
         /\ DOMAIN armState' = DOMAIN armState
         /\ DOMAIN gripperState' = DOMAIN gripperState
         /\ \A a \in DOMAIN armState : armState'[a].target = armState'[a].current
         /\ \A g \in DOMAIN gripperState : gripperState'[g].target = gripperState'[g].current
<1>1. /\ armState' = [a \in DOMAIN armState |-> armState'[a]]
      /\ DOMAIN armState' = DOMAIN armState
      /\ \A a \in DOMAIN armState :
           armState'[a] = [armState[a] EXCEPT !.target = armState[a].current]
  BY DEF EmergencyStop
<1>2. \A a \in DOMAIN armState :
        /\ armState'[a] \in ArmSet(a)
        /\ armState'[a].current = armState[a].current
        /\ armState'[a].target = armState[a].current
  <2> TAKE a \in DOMAIN armState
  <2>1. a \in Arms /\ armState[a] \in ArmSet(a)
    BY DEF DriverOK
  <2>2. /\ NumJoints[a] \in Nat
        /\ armState[a].current \in [1 .. NumJoints[a] -> Between(a)]
    BY <2>1, LimitsTyped DEF ArmSet
  <2>3. armState[a].current \in Seq(Between(a))
    BY <2>2
  <2> QED BY <1>1, <2>1, <2>3 DEF ArmSet
<1>3. /\ gripperState' = [g \in DOMAIN gripperState |-> gripperState'[g]]
      /\ DOMAIN gripperState' = DOMAIN gripperState
      /\ \A g \in DOMAIN gripperState :
           gripperState'[g] = [gripperState[g] EXCEPT !.target = gripperState[g].current]
  BY DEF EmergencyStop
<1>4. \A g \in DOMAIN gripperState :
        /\ gripperState'[g] \in [current : Int, target : Int]
        /\ gripperState'[g].current = gripperState[g].current
        /\ gripperState'[g].target = gripperState[g].current
  BY <1>3 DEF DriverOK
<1>5. DriverOK'
  BY <1>1, <1>2, <1>3, <1>4 DEF DriverOK, ArmSet, Between
<1> QED BY <1>1, <1>2, <1>3, <1>4, <1>5 DEF Stays

LEMMA CommandKeepsDriver ==
  ASSUME DriverOK, NEW a \in DOMAIN armState, NEW positions \in Seq(Int),
         NEW scaling \in 0 .. FullScaling, SetJointPositions(a, positions, scaling)
  PROVE  /\ DriverOK'
         /\ DOMAIN armState' = DOMAIN armState /\ gripperState' = gripperState
         /\ \A b \in DOMAIN armState \ {a} : armState'[b] = armState[b]
<1>1. a \in Arms /\ armState[a] \in ArmSet(a) /\ scaling \in Int
      /\ FullScaling \in Int /\ 0 <= FullScaling
  BY LimitsTyped DEF DriverOK
<1>2. Target(a, positions) \in Seq(Between(a)) /\ Clamped(scaling, 0, FullScaling) \in 0 .. FullScaling
  BY <1>1, TargetTyped, ClampedFacts
<1>3. armState' = [armState EXCEPT ![a] = [armState[a] EXCEPT !.target = Target(a, positions),
                                             !.scaling = Clamped(scaling, 0, FullScaling)]]
  BY DEF SetJointPositions, DriverOK
<1>4. [armState[a] EXCEPT !.target = Target(a, positions),
                          !.scaling = Clamped(scaling, 0, FullScaling)] \in ArmSet(a)
  BY <1>1, <1>2 DEF ArmSet
<1>5. gripperState' = gripperState
  BY DEF SetJointPositions
<1> QED BY <1>3, <1>4, <1>5 DEF DriverOK, ArmSet, Between

LEMMA WidthKeepsDriver ==
  ASSUME DriverOK, NEW g \in DOMAIN gripperState, NEW width \in Int, SetGripperWidth(g, width)
  PROVE  /\ DriverOK'
         /\ DOMAIN gripperState' = DOMAIN gripperState /\ armState' = armState
         /\ \A h \in DOMAIN gripperState \ {g} : gripperState'[h] = gripperState[h]
<1>1. Clamped(width, 0, MaxWidth) \in Int
  BY DriverAssumption DEF Clamped, AtLeast, AtMost
<1> QED BY <1>1 DEF SetGripperWidth, DriverOK, ArmSet, Between

-----------------------------------------------------------------------------
(* The loops                                                               *)

LEMMA FinishKeepsLoops ==
  ASSUME LoopsOK, BusyKeepsOthersOut, NEW l \in Loops, Running(l), NEW raised, Finish(l, raised)
  PROVE  LoopsOK' /\ BusyKeepsOthersOut'
<1>1. loop[l].arm \in Arms
  BY DEF LoopsOK, LoopOK, Running, Idle
<1>2. /\ loop' = [k \in Loops |-> loop'[k]]
      /\ loop'[l] = Idle /\ \A k \in Loops \ {l} : loop'[k] = loop[k]
      /\ busy' \in [Arms -> BOOLEAN]
      /\ busy'[loop[l].arm] = FALSE
      /\ \A a \in Arms \ {loop[l].arm} : busy'[a] = busy[a]
      /\ raced' = raced \ {l}
  BY <1>1 DEF Finish, LoopsOK
<1>3. LoopsOK'
  BY <1>2 DEF LoopsOK, LoopOK
<1>4. /\ ~ Running(l)' /\ ~ Marked(l)'
      /\ \A k \in Loops \ {l} : (Running(k)' <=> Running(k)) /\ (Marked(k)' <=> Marked(k))
  BY <1>2 DEF Running, Marked, Idle
<1>5. \A a \in Arms : busy'[a] => \E k \in Loops : Marked(k)' /\ loop'[k].arm = a
  BY <1>2, <1>4 DEF BusyKeepsOthersOut
<1>6. ASSUME NEW k \in Loops, Running(k)', k \notin raced'
      PROVE  /\ busy'[loop'[k].arm] <=> Marked(k)'
             /\ \A m \in Loops : Running(m)' /\ loop'[m].arm = loop'[k].arm => m = k
  <2>1. k # l /\ Running(k) /\ k \notin raced /\ loop'[k] = loop[k]
    BY <1>2, <1>4, <1>6
  <2>2. loop[k].arm \in Arms /\ loop[k].arm # loop[l].arm
    BY <2>1 DEF BusyKeepsOthersOut, LoopsOK, LoopOK, Running, Idle
  <2> QED BY <1>2, <1>4, <2>1, <2>2 DEF BusyKeepsOthersOut
<1>7. BusyKeepsOthersOut'
  BY <1>5, <1>6 DEF BusyKeepsOthersOut
<1> QED BY <1>3, <1>7

\* A loop that goes on keeps its arm.
LEMMA AdvanceKeepsLoops ==
  ASSUME LoopsOK, BusyKeepsOthersOut, NEW l \in Loops, Marked(l), busy' = busy, raced' = raced,
         NEW state, loop' = [loop EXCEPT ![l] = state],
         state.phase \in {"command", "step", "measure"}, state.arm = loop[l].arm, LoopOK(l)'
  PROVE  LoopsOK' /\ BusyKeepsOthersOut'
<1>1. /\ loop' = [k \in Loops |-> loop'[k]]
      /\ loop'[l] = state /\ \A k \in Loops \ {l} : loop'[k] = loop[k]
  BY DEF LoopsOK
<1>2. \A k \in Loops : /\ Running(k)' <=> Running(k)
                       /\ Marked(k)' <=> Marked(k)
                       /\ loop'[k].arm = loop[k].arm
  BY <1>1 DEF Running, Marked
<1>3. LoopsOK'
  BY <1>1 DEF LoopsOK, LoopOK
<1>4. BusyKeepsOthersOut'
  BY <1>2 DEF BusyKeepsOthersOut
<1> QED BY <1>3, <1>4

LEMMA UnchangedLoops ==
  ASSUME LoopsOK, BusyKeepsOthersOut, UNCHANGED <<busy, loop, raced>>
  PROVE  LoopsOK' /\ BusyKeepsOthersOut'
BY DEF LoopsOK, LoopOK, BusyKeepsOthersOut, Running, Marked

\* What an emergency stop has stopped is where it was.
Held ==
  /\ \A a \in stopped \cap stopped' \cap DOMAIN armState :
       a \in DOMAIN armState' => armState'[a].current = armState[a].current
  /\ \A g \in stopped \cap stopped' \cap DOMAIN gripperState :
       g \in DOMAIN gripperState' => gripperState'[g].current = gripperState[g].current

LEMMA RestIsKept ==
  ASSUME StoppedRest, Stays, stopped' \subseteq stopped,
         DOMAIN armState' \subseteq DOMAIN armState,
         DOMAIN gripperState' \subseteq DOMAIN gripperState
  PROVE  StoppedRest' /\ Held
BY DEF StoppedRest, Stays, Held

\* Whatever a trajectory is made of, a loop that passes the test on its own is
\* alone on its arm: a loop that had marked it would have kept the flag set.
LEMMA ExecuteKeepsInv ==
  ASSUME ControlInv, NEW l \in Loops, NEW arm, NEW points, NEW scaling \in Int, NEW clean,
         Trajectory(points), Execute(l, arm, points, scaling, clean)
  PROVE  ControlInv' /\ Held
<1> DEFINE state == [phase |-> "admitted", arm |-> arm, points |-> points,
                     scaling |-> VelocityScaling(scaling), idx |-> 1, left |-> 0,
                     clean |-> clean]
<1>1. /\ arm \in Arms /\ ~ busy[arm] /\ ~ Running(l)
      /\ loop' = [loop EXCEPT ![l] = state]
      /\ raced' = IF Rivals(l, arm) = {} THEN raced ELSE raced \cup Rivals(l, arm) \cup {l}
      /\ UNCHANGED <<armState, gripperState, busy, stopped>>
  BY DEF Execute, Admitted, driver
<1>2. /\ loop' = [k \in Loops |-> loop'[k]]
      /\ loop'[l] = state /\ \A k \in Loops \ {l} : loop'[k] = loop[k]
      /\ busy' = busy /\ busy \in [Arms -> BOOLEAN]
  BY <1>1 DEF ControlInv, LoopsOK
<1>3. VelocityScaling(scaling) \in 0 .. FullScaling
  BY ScalingTyped
<1>5. LoopOK(l)'
  BY <1>1, <1>2, <1>3 DEF LoopOK
<1>6. LoopsOK'
  BY <1>2, <1>5 DEF ControlInv, LoopsOK, LoopOK
<1>7. /\ Running(l)' /\ ~ Marked(l)' /\ ~ Marked(l) /\ loop'[l].arm = arm
      /\ \A k \in Loops \ {l} : /\ Running(k)' <=> Running(k)
                                /\ Marked(k)' <=> Marked(k)
                                /\ loop'[k].arm = loop[k].arm
  BY <1>1, <1>2 DEF Running, Marked
<1>8. ASSUME NEW k \in Loops \ {l}, Running(k), loop[k].arm = arm
      PROVE  k \in Rivals(l, arm) /\ Rivals(l, arm) # {}
  <2>1. ~ Marked(k) \/ k \in raced
    BY <1>1, <1>8 DEF ControlInv, BusyKeepsOthersOut
  <2> QED BY <1>8, <2>1 DEF Rivals
<1>9. \A a \in Arms : busy'[a] => \E k \in Loops : Marked(k)' /\ loop'[k].arm = a
  BY <1>2, <1>7 DEF ControlInv, BusyKeepsOthersOut
<1>10. ASSUME NEW k \in Loops, Running(k)', k \notin raced'
       PROVE  /\ busy'[loop'[k].arm] <=> Marked(k)'
              /\ \A m \in Loops : Running(m)' /\ loop'[m].arm = loop'[k].arm => m = k
  <2>1. CASE k = l
    <3>1. Rivals(l, arm) = {}
      BY <1>1, <1>10, <2>1
    <3> QED BY <1>1, <1>2, <1>7, <1>8, <2>1, <3>1
  <2>2. CASE k # l
    <3>1. (Running(k) /\ k \notin raced /\ k \notin Rivals(l, arm)) \/ Rivals(l, arm) = {}
      BY <1>1, <1>7, <1>10, <2>2
    <3>2. Running(k) /\ k \notin raced
      BY <1>1, <1>7, <1>10, <2>2
    <3>3. loop[k].arm # arm
      BY <1>8, <2>2, <3>1, <3>2
    <3> QED BY <1>2, <1>7, <2>2, <3>2, <3>3 DEF ControlInv, BusyKeepsOthersOut
  <2> QED BY <2>1, <2>2
<1>11. BusyKeepsOthersOut'
  BY <1>9, <1>10 DEF BusyKeepsOthersOut
<1>12. DriverOK' /\ StoppedRest' /\ Held
  BY <1>1 DEF ControlInv, DriverOK, ArmSet, Between, StoppedRest, Held
<1> QED BY <1>6, <1>11, <1>12 DEF ControlInv

LEMMA ExecuteGoalKeepsInv ==
  ASSUME ControlInv, NEW l \in Loops, ExecuteGoal(l)
  PROVE  ControlInv' /\ Held
<1>1. PICK goal \in Goals : Execute(l, goal.arm, goal.points, goal.scaling, FALSE)
  BY DEF ExecuteGoal
<1>2. goal.points \in Seq(Points) /\ goal.scaling \in Int
  BY ControlAssumption
<1>3. Trajectory(goal.points)
  <2>1. \A k \in 1 .. Len(goal.points) : goal.points[k] \in Points
    BY <1>2
  <2>2. \A k \in 1 .. Len(goal.points) : goal.points[k].positions \in Seq(Int)
    BY <2>1 DEF Points
  <2> QED BY <1>2, <2>2 DEF Trajectory
<1> QED BY <1>1, <1>2, <1>3, ExecuteKeepsInv

LEMMA ExecutePlanKeepsInv ==
  ASSUME ControlInv, NEW l \in Loops, ExecutePlan(l)
  PROVE  ControlInv' /\ Held
<1>1. PICK goal \in PlannedGoals :
        /\ Connected
        /\ Execute(l, goal.arm, Interpolate(armState[goal.arm].current, goal.joints, goal.plan),
                   goal.scaling, Clean(goal))
  BY DEF ExecutePlan
<1> DEFINE points == Interpolate(armState[goal.arm].current, goal.joints, goal.plan)
<1>2. goal.joints \in Seq(Int) /\ goal.plan \in Int /\ goal.scaling \in Int
  BY ControlAssumption
<1>3. goal.arm \in DOMAIN armState /\ goal.arm \in Arms
  BY <1>1 DEF Execute, Admitted, Connected
<1>4. armState[goal.arm].current \in Seq(Int)
  <2> DEFINE a == goal.arm
  <2>1. armState[a].current \in [1 .. NumJoints[a] -> Between(a)] /\ NumJoints[a] \in Nat
    BY <1>3, LimitsTyped DEF ControlInv, DriverOK, ArmSet
  <2>2. \A j \in 1 .. NumJoints[a] : armState[a].current[j] \in Int
    BY <2>1 DEF Between
  <2> QED BY <2>1, <2>2
<1>5. Trajectory(points) /\ points # <<>>
  BY <1>2, <1>4, PlanIsTrajectory
<1> QED BY <1>1, <1>2, <1>5, ExecuteKeepsInv

-----------------------------------------------------------------------------
(* One lemma per step                                                      *)

LEMMA RunningLoop ==
  ASSUME LoopsOK, NEW l \in Loops, Running(l)
  PROVE  /\ loop[l] \in [phase : {loop[l].phase}, arm : {loop[l].arm}, points : {loop[l].points},
                        scaling : {loop[l].scaling}, idx : {loop[l].idx}, left : {loop[l].left},
                        clean : {loop[l].clean}]
         /\ loop[l].phase \in {"admitted", "empty", "command", "step", "measure"}
         /\ loop[l].arm \in Arms
         /\ Trajectory(loop[l].points)
         /\ loop[l].scaling \in 0 .. FullScaling
         /\ loop[l].phase \in {"command", "step", "measure"} => loop[l].idx \in DOMAIN loop[l].points
BY DEF LoopsOK, LoopOK, Running, Idle

\* The flag is set for a loop, and for those that race with it.
LEMMA MarkKeepsInv ==
  ASSUME ControlInv, NEW l \in Loops, MarkBusy(l)
  PROVE  ControlInv' /\ Held
<1> DEFINE me == loop[l]
           p == IF me.points = <<>> THEN "empty" ELSE "command"
           state == [me EXCEPT !.phase = p]
<1>1. /\ me.phase = "admitted" /\ Running(l) /\ ~ Marked(l)
      /\ busy' = [busy EXCEPT ![me.arm] = TRUE]
      /\ UNCHANGED <<armState, gripperState, stopped, raced>>
  BY DEF MarkBusy, Running, Marked, driver
<1>2. loop' = [loop EXCEPT ![l] = state]
  BY DEF MarkBusy, ControlInv, LoopsOK
<1>3. /\ me \in [phase : {me.phase}, arm : {me.arm}, points : {me.points},
                  scaling : {me.scaling}, idx : {me.idx}, left : {me.left}, clean : {me.clean}]
      /\ me.arm \in Arms /\ Trajectory(me.points) /\ me.scaling \in 0 .. FullScaling
      /\ me.idx = 1
  BY <1>1 DEF ControlInv, LoopsOK, LoopOK, Running, Idle
<1>4. p \in {"empty", "command"} /\ (p = "command" => 1 \in DOMAIN me.points)
  BY <1>3 DEF Trajectory
<1> HIDE DEF p, me
<1>5. state \in [phase : {p}, arm : {me.arm}, points : {me.points}, scaling : {me.scaling},
                 idx : {me.idx}, left : {me.left}, clean : {me.clean}]
  BY <1>3
<1> USE DEF me
<1> HIDE DEF state
<1>6. /\ loop' = [k \in Loops |-> loop'[k]]
      /\ loop'[l] = state /\ \A k \in Loops \ {l} : loop'[k] = loop[k]
      /\ busy' \in [Arms -> BOOLEAN] /\ busy'[me.arm] = TRUE
      /\ \A a \in Arms \ {me.arm} : busy'[a] = busy[a]
  BY <1>1, <1>2, <1>3 DEF ControlInv, LoopsOK
<1>7. LoopOK(l)'
  BY <1>3, <1>4, <1>5, <1>6 DEF LoopOK
<1>8. LoopsOK'
  BY <1>6, <1>7 DEF ControlInv, LoopsOK, LoopOK
<1>9. /\ Running(l)' /\ Marked(l)' /\ loop'[l].arm = me.arm
      /\ \A k \in Loops \ {l} : /\ Running(k)' <=> Running(k)
                                /\ Marked(k)' <=> Marked(k)
                                /\ loop'[k].arm = loop[k].arm
  BY <1>4, <1>5, <1>6 DEF Running, Marked
<1>10. ASSUME NEW k \in Loops, Running(k)', k \notin raced'
       PROVE  /\ busy'[loop'[k].arm] <=> Marked(k)'
              /\ \A m \in Loops : Running(m)' /\ loop'[m].arm = loop'[k].arm => m = k
  <2>1. CASE k = l
    BY <1>1, <1>6, <1>9, <1>10, <2>1 DEF ControlInv, BusyKeepsOthersOut
  <2>2. CASE k # l
    <3>1. Running(k) /\ k \notin raced /\ loop[k].arm # me.arm /\ loop[k].arm \in Arms
      BY <1>1, <1>9, <1>10, <2>2, RunningLoop DEF ControlInv, BusyKeepsOthersOut
    <3> QED BY <1>1, <1>6, <1>9, <2>2, <3>1 DEF ControlInv, BusyKeepsOthersOut
  <2> QED BY <2>1, <2>2
<1>11. \A a \in Arms : busy'[a] => \E k \in Loops : Marked(k)' /\ loop'[k].arm = a
  BY <1>1, <1>6, <1>9 DEF ControlInv, BusyKeepsOthersOut
<1>12. BusyKeepsOthersOut'
  BY <1>10, <1>11 DEF BusyKeepsOthersOut
<1>13. DriverOK' /\ StoppedRest' /\ Held
  BY <1>1 DEF ControlInv, DriverOK, ArmSet, Between, StoppedRest, Held
<1> QED BY <1>8, <1>12, <1>13 DEF ControlInv

LEMMA ReturnEmptyKeepsInv ==
  ASSUME ControlInv, NEW l \in Loops, ReturnEmpty(l)
  PROVE  ControlInv' /\ Held
<1>1. Running(l) /\ Finish(l, FALSE) /\ UNCHANGED <<armState, gripperState, stopped>>
  BY DEF ReturnEmpty, Running, driver
<1>2. DriverOK' /\ StoppedRest' /\ Held
  BY <1>1 DEF ControlInv, DriverOK, ArmSet, Between, StoppedRest, Held
<1> QED BY <1>1, <1>2, FinishKeepsLoops DEF ControlInv

LEMMA RaiseKeepsLoops ==
  ASSUME LoopsOK, BusyKeepsOthersOut, NEW l \in Loops, Running(l), Raise(l)
  PROVE  LoopsOK' /\ BusyKeepsOthersOut' /\ stopped' = stopped
BY FinishKeepsLoops DEF Raise

LEMMA UnchangedDriver ==
  ASSUME DriverOK, StoppedRest, UNCHANGED driver, stopped' \subseteq stopped
  PROVE  DriverOK' /\ StoppedRest' /\ Held
BY DEF DriverOK, ArmSet, Between, StoppedRest, Held, driver

LEMMA ShutdownKeepsInv ==
  ASSUME ControlInv, Shutdown
  PROVE  ControlInv' /\ Held
<1>1. /\ armState' = [a \in {} |-> armState[a]]
      /\ gripperState' = [g \in {} |-> gripperState[g]]
      /\ UNCHANGED <<busy, loop, stopped, raced>>
  BY DEF Shutdown, Disconnect
<1>2. DOMAIN armState' = {} /\ DOMAIN gripperState' = {}
  BY <1>1
<1>3. DriverOK' /\ StoppedRest' /\ Held
  BY <1>1, <1>2 DEF DriverOK, StoppedRest, Held
<1> QED BY <1>1, <1>3, UnchangedLoops DEF ControlInv

LEMMA CancelKeepsInv ==
  ASSUME ControlInv, NEW l \in Loops, CancelTrajectory(l)
  PROVE  ControlInv' /\ Held
<1>1. Running(l) /\ Finish(l, FALSE) /\ EmergencyStop
  BY DEF CancelTrajectory, Running
<1>2. LoopsOK' /\ BusyKeepsOthersOut'
  BY <1>1, FinishKeepsLoops DEF ControlInv
<1>3. /\ DriverOK' /\ Stays
      /\ DOMAIN armState' = DOMAIN armState
      /\ DOMAIN gripperState' = DOMAIN gripperState
      /\ \A a \in DOMAIN armState : armState'[a].target = armState'[a].current
      /\ \A g \in DOMAIN gripperState : gripperState'[g].target = gripperState'[g].current
  BY <1>1, StopKeepsDriver DEF ControlInv
<1>4. StoppedRest'
  BY <1>3 DEF StoppedRest
<1>5. Held
  BY <1>3 DEF Held, Stays, ControlInv, StoppedRest
<1> QED BY <1>2, <1>3, <1>4, <1>5 DEF ControlInv

LEMMA CommandKeepsInv ==
  ASSUME ControlInv, NEW l \in Loops, CommandPoint(l)
  PROVE  ControlInv' /\ Held
<1> DEFINE me == loop[l]
           held == Segment(me.points, me.idx)
<1>1. Running(l) /\ Marked(l) /\ me.phase = "command"
  BY DEF CommandPoint, Running, Marked
<1>2. /\ me.arm \in Arms /\ Trajectory(me.points) /\ me.scaling \in 0 .. FullScaling
      /\ me.idx \in DOMAIN me.points
  BY <1>1, RunningLoop DEF ControlInv
<1>3. CASE me.arm \notin DOMAIN armState
  <2>1. Raise(l) /\ UNCHANGED driver
    BY <1>3 DEF CommandPoint
  <2> QED BY <1>1, <2>1, RaiseKeepsLoops, UnchangedDriver DEF ControlInv
<1>4. CASE me.arm \in DOMAIN armState
  <2>1. /\ SetJointPositions(me.arm, me.points[me.idx].positions, me.scaling)
        /\ loop' = [loop EXCEPT ![l].left = held,
                                ![l].phase = IF held > 0 THEN "step" ELSE "measure"]
        /\ stopped' = stopped \ {me.arm}
        /\ busy' = busy /\ raced' = raced
    BY <1>4 DEF CommandPoint
  <2>2. /\ DriverOK' /\ DOMAIN armState' = DOMAIN armState /\ gripperState' = gripperState
        /\ \A b \in DOMAIN armState \ {me.arm} : armState'[b] = armState[b]
    <3>1. me.points[me.idx].positions \in Seq(Int)
      BY <1>2 DEF Trajectory
    <3> QED BY <1>2, <1>4, <2>1, <3>1, CommandKeepsDriver DEF ControlInv
  <2>3. StoppedRest' /\ Held
    BY <2>1, <2>2 DEF ControlInv, StoppedRest, Held
  <2> DEFINE state == [me EXCEPT !.left = held,
                                 !.phase = IF held > 0 THEN "step" ELSE "measure"]
  <2>4. loop' = [loop EXCEPT ![l] = state]
    BY <2>1 DEF ControlInv, LoopsOK
  <2>5. state \in [phase : {IF held > 0 THEN "step" ELSE "measure"}, arm : {me.arm},
                     points : {me.points}, scaling : {me.scaling}, idx : {me.idx},
                     left : {held}, clean : {me.clean}]
    <3>1. me \in [phase : {me.phase}, arm : {me.arm}, points : {me.points},
                 scaling : {me.scaling}, idx : {me.idx}, left : {me.left}, clean : {me.clean}]
      BY <1>1, RunningLoop DEF ControlInv
    <3> DEFINE p == IF held > 0 THEN "step" ELSE "measure"
               n == held
    <3>2. state = [me EXCEPT !.left = n, !.phase = p]
      OBVIOUS
    <3> HIDE DEF me, p, n, state
    <3>3. [me EXCEPT !.left = n, !.phase = p] \in
            [phase : {p}, arm : {me.arm}, points : {me.points}, scaling : {me.scaling},
             idx : {me.idx}, left : {n}, clean : {me.clean}]
      BY <3>1
    <3> QED BY <3>2, <3>3 DEF p, n
  <2> HIDE DEF state, held
  <2>6. loop'[l] = state
    BY <2>4 DEF ControlInv, LoopsOK
  <2>7. LoopOK(l)'
    BY <1>2, <2>5, <2>6 DEF LoopOK
  <2>8. LoopsOK' /\ BusyKeepsOthersOut'
    <3>1. state.phase \in {"step", "measure"} /\ state.arm = loop[l].arm
      BY <2>5
    <3> QED BY <1>1, <2>1, <2>4, <2>7, <3>1, AdvanceKeepsLoops DEF ControlInv
  <2> QED BY <2>2, <2>3, <2>8 DEF ControlInv
<1> QED BY <1>3, <1>4

LEMMA StepKeepsInv ==
  ASSUME ControlInv, NEW l \in Loops, StepDriver(l)
  PROVE  ControlInv' /\ Held
<1>1. Running(l) /\ Step /\ Marked(l) /\ loop[l].phase = "step"
  BY DEF StepDriver, Running, Marked
<1>2. /\ DriverOK' /\ Stays /\ DOMAIN armState' = DOMAIN armState
      /\ DOMAIN gripperState' = DOMAIN gripperState
  BY <1>1, StepKeepsDriver DEF ControlInv
<1>3. CASE StepRaises
  <2>1. Raise(l)
    BY <1>3 DEF StepDriver
  <2>2. LoopsOK' /\ BusyKeepsOthersOut' /\ stopped' = stopped
    BY <1>1, <2>1, RaiseKeepsLoops DEF ControlInv
  <2> QED BY <1>2, <2>2, RestIsKept DEF ControlInv
<1>4. CASE ~ StepRaises
  <2> DEFINE me == loop[l]
             state == [me EXCEPT !.left = @ - 1,
                                 !.phase = IF me.left = 1 THEN "measure" ELSE @]
  <2>1. /\ loop' = [loop EXCEPT ![l].left = @ - 1,
                                ![l].phase = IF loop[l].left = 1 THEN "measure" ELSE @]
        /\ busy' = busy /\ raced' = raced /\ stopped' = stopped
    BY <1>4 DEF StepDriver
  <2>2. /\ me.arm \in Arms /\ Trajectory(me.points) /\ me.scaling \in 0 .. FullScaling
        /\ me.idx \in DOMAIN me.points /\ me.phase = "step"
    BY <1>1, RunningLoop DEF ControlInv
  <2>3. loop' = [loop EXCEPT ![l] = state]
    BY <2>1 DEF ControlInv, LoopsOK
  <2>4. state \in [phase : {IF me.left = 1 THEN "measure" ELSE me.phase}, arm : {me.arm},
                     points : {me.points}, scaling : {me.scaling}, idx : {me.idx},
                     left : {me.left - 1}, clean : {me.clean}]
    <3>1. me \in [phase : {me.phase}, arm : {me.arm}, points : {me.points},
                 scaling : {me.scaling}, idx : {me.idx}, left : {me.left}, clean : {me.clean}]
      BY <1>1, RunningLoop DEF ControlInv
    <3> DEFINE p == IF me.left = 1 THEN "measure" ELSE me.phase
               n == me.left - 1
    <3>2. state = [me EXCEPT !.left = n, !.phase = p]
      OBVIOUS
    <3> HIDE DEF me, p, n, state
    <3>3. [me EXCEPT !.left = n, !.phase = p] \in
            [phase : {p}, arm : {me.arm}, points : {me.points}, scaling : {me.scaling},
             idx : {me.idx}, left : {n}, clean : {me.clean}]
      BY <3>1
    <3> QED BY <3>2, <3>3 DEF p, n
  <2> HIDE DEF state
  <2>5. loop'[l] = state
    BY <2>3 DEF ControlInv, LoopsOK
  <2>6. LoopOK(l)'
    BY <2>2, <2>4, <2>5 DEF LoopOK
  <2>7. LoopsOK' /\ BusyKeepsOthersOut'
    <3>1. state.phase \in {"step", "measure"} /\ state.arm = loop[l].arm
      BY <2>2, <2>4
    <3> QED BY <1>1, <2>1, <2>3, <2>6, <3>1, AdvanceKeepsLoops DEF ControlInv
  <2> QED BY <1>2, <2>1, <2>7, RestIsKept DEF ControlInv
<1> QED BY <1>3, <1>4

LEMMA MeasureKeepsInv ==
  ASSUME ControlInv, NEW l \in Loops, MeasurePoint(l)
  PROVE  ControlInv' /\ Held
<1> DEFINE me == loop[l]
           state == [me EXCEPT !.idx = @ + 1, !.phase = "command"]
<1>1. Running(l) /\ Marked(l) /\ me.phase = "measure" /\ UNCHANGED driver
  BY DEF MeasurePoint, Running, Marked
<1>2. /\ \/ \E raised \in BOOLEAN : Finish(l, raised)
         \/ /\ me.idx < Len(me.points)
            /\ loop' = [loop EXCEPT ![l].idx = @ + 1, ![l].phase = "command"]
            /\ busy' = busy /\ raced' = raced
      /\ stopped' = stopped
  BY DEF MeasurePoint, Raise
<1>3. DriverOK' /\ StoppedRest' /\ Held
  BY <1>1, <1>2, UnchangedDriver DEF ControlInv
<1>4. CASE \E raised \in BOOLEAN : Finish(l, raised)
  BY <1>1, <1>3, <1>4, FinishKeepsLoops DEF ControlInv
<1>5. CASE /\ me.idx < Len(me.points)
           /\ loop' = [loop EXCEPT ![l].idx = @ + 1, ![l].phase = "command"]
           /\ busy' = busy /\ raced' = raced
  <2>1. /\ me.arm \in Arms /\ Trajectory(me.points) /\ me.scaling \in 0 .. FullScaling
        /\ me.idx \in DOMAIN me.points
    BY <1>1, RunningLoop DEF ControlInv
  <2>2. loop' = [loop EXCEPT ![l] = state]
    BY <1>5 DEF ControlInv, LoopsOK
  <2>3. state \in [phase : {"command"}, arm : {me.arm}, points : {me.points},
                   scaling : {me.scaling}, idx : {me.idx + 1}, left : {me.left},
                   clean : {me.clean}]
    <3>1. me \in [phase : {me.phase}, arm : {me.arm}, points : {me.points},
                 scaling : {me.scaling}, idx : {me.idx}, left : {me.left}, clean : {me.clean}]
      BY <1>1, RunningLoop DEF ControlInv
    <3> DEFINE n == me.idx + 1
    <3>2. state = [me EXCEPT !.idx = n, !.phase = "command"]
      OBVIOUS
    <3> HIDE DEF me, n, state
    <3>3. [me EXCEPT !.idx = n, !.phase = "command"] \in
            [phase : {"command"}, arm : {me.arm}, points : {me.points},
             scaling : {me.scaling}, idx : {n}, left : {me.left}, clean : {me.clean}]
      BY <3>1
    <3> QED BY <3>2, <3>3 DEF n
  <2>4. me.idx + 1 \in DOMAIN me.points
    BY <1>5, <2>1 DEF Trajectory
  <2> HIDE DEF state
  <2>5. loop'[l] = state
    BY <2>2 DEF ControlInv, LoopsOK
  <2>6. LoopOK(l)'
    BY <2>1, <2>3, <2>4, <2>5 DEF LoopOK
  <2>7. LoopsOK' /\ BusyKeepsOthersOut'
    <3>1. state.phase = "command" /\ state.arm = loop[l].arm
      BY <2>3
    <3> QED BY <1>1, <1>5, <2>2, <2>6, <3>1, AdvanceKeepsLoops DEF ControlInv
  <2> QED BY <1>3, <2>7 DEF ControlInv
<1> QED BY <1>2, <1>4, <1>5

LEMMA GripperExecuteKeepsInv ==
  ASSUME ControlInv, NEW c \in Commands, GripperExecute(c)
  PROVE  ControlInv' /\ Held
<1>1. PICK request \in Widths :
        /\ request.gripper \in DOMAIN gripperState
        /\ SetGripperWidth(request.gripper, request.width)
        /\ stopped' = stopped \ {request.gripper}
        /\ UNCHANGED <<busy, loop, raced>>
  BY DEF GripperExecute
<1>2. request.width \in Int
  BY ControlAssumption
<1>3. /\ DriverOK'
      /\ DOMAIN gripperState' = DOMAIN gripperState /\ armState' = armState
      /\ \A h \in DOMAIN gripperState \ {request.gripper} : gripperState'[h] = gripperState[h]
  BY <1>1, <1>2, WidthKeepsDriver DEF ControlInv
<1>4. StoppedRest' /\ Held
  BY <1>1, <1>3 DEF ControlInv, StoppedRest, Held
<1> QED BY <1>1, <1>3, <1>4, UnchangedLoops DEF ControlInv

LEMMA GripperStepKeepsInv ==
  ASSUME ControlInv, NEW c \in Commands, GripperStep(c)
  PROVE  ControlInv' /\ Held
<1>1. Step /\ UNCHANGED <<busy, loop, stopped, raced>>
  BY DEF GripperStep
<1>2. /\ DriverOK' /\ Stays /\ DOMAIN armState' = DOMAIN armState
      /\ DOMAIN gripperState' = DOMAIN gripperState
  BY <1>1, StepKeepsDriver DEF ControlInv
<1> QED BY <1>1, <1>2, RestIsKept, UnchangedLoops DEF ControlInv

LEMMA NextKeepsInv == ControlInv /\ [Next]_vars => ControlInv' /\ Held
<1> SUFFICES ASSUME ControlInv, [Next]_vars PROVE ControlInv' /\ Held
  OBVIOUS
<1>1. CASE Shutdown
  BY <1>1, ShutdownKeepsInv
<1>2. ASSUME NEW l \in Loops, ExecuteGoal(l) \/ ExecutePlan(l) \/ TrajectoryStep(l)
      PROVE  ControlInv' /\ Held
  BY <1>2, ExecuteGoalKeepsInv, ExecutePlanKeepsInv, MarkKeepsInv, ReturnEmptyKeepsInv,
     CancelKeepsInv, CommandKeepsInv,
     StepKeepsInv, MeasureKeepsInv DEF TrajectoryStep
<1>3. ASSUME NEW c \in Commands, GripperExecute(c) \/ GripperStep(c)
      PROVE  ControlInv' /\ Held
  BY <1>3, GripperExecuteKeepsInv, GripperStepKeepsInv
<1>4. CASE UNCHANGED vars
  BY <1>4, UnchangedDriver, UnchangedLoops DEF ControlInv, vars, driver
<1> QED BY <1>1, <1>2, <1>3, <1>4 DEF Next

LEMMA InitInv == Init => ControlInv
<1> SUFFICES ASSUME Init PROVE ControlInv
  OBVIOUS
<1>1. DOMAIN armState = Arms /\ \A a \in Arms :
        armState[a] = [current |-> [j \in 1 .. NumJoints[a] |-> 0],
                       target |-> [j \in 1 .. NumJoints[a] |-> 0],
                       scaling |-> FullScaling]
  BY DEF Init, DriverInit
<1>2. \A a \in Arms : armState[a] \in ArmSet(a)
  <2> TAKE a \in Arms
  <2>1. 0 \in Between(a) /\ NumJoints[a] \in Nat /\ FullScaling \in 0 .. FullScaling
    BY LimitsTyped DEF Between
  <2>2. [j \in 1 .. NumJoints[a] |-> 0] \in Seq(Between(a))
    BY <2>1
  <2> QED BY <1>1, <2>1, <2>2 DEF ArmSet
<1>3. /\ gripperState = [g \in Grippers |-> [current |-> MaxWidth, target |-> MaxWidth]]
      /\ MaxWidth \in Int
  BY DriverAssumption DEF Init, DriverInit
<1>4. DriverOK
  BY <1>1, <1>2, <1>3 DEF DriverOK, Init, DriverInit
<1>5. LoopsOK /\ BusyKeepsOthersOut
  BY DEF Init, LoopsOK, LoopOK, BusyKeepsOthersOut, Running, Marked, Idle
<1>6. StoppedRest
  BY DEF Init, StoppedRest
<1> QED BY <1>4, <1>5, <1>6 DEF ControlInv

LEMMA InvKeepsLimits == ControlInv => ArmsStayInLimits
<1> SUFFICES ASSUME ControlInv, NEW a \in DOMAIN armState
             PROVE  /\ Len(armState[a].current) = NumJoints[a]
                    /\ \A s \in {armState[a].current, armState[a].target} : \A j \in DOMAIN s :
                         JointLimits[a].lower <= s[j] /\ s[j] <= JointLimits[a].upper
  BY DEF ArmsStayInLimits
<1>1. a \in Arms /\ armState[a] \in ArmSet(a)
  BY DEF ControlInv, DriverOK
<1>2. /\ armState[a].current \in [1 .. NumJoints[a] -> Between(a)]
      /\ armState[a].target \in Seq(Between(a)) /\ NumJoints[a] \in Nat
  BY <1>1, LimitsTyped DEF ArmSet
<1>3. Len(armState[a].current) = NumJoints[a]
  BY <1>2
<1>4. ASSUME NEW s \in {armState[a].current, armState[a].target}, NEW j \in DOMAIN s
      PROVE  s[j] \in Between(a)
  BY <1>2, <1>4
<1>5. \A x \in Between(a) : JointLimits[a].lower <= x /\ x <= JointLimits[a].upper
  BY <1>1, LimitsTyped DEF Between
<1> QED BY <1>3, <1>4, <1>5

-----------------------------------------------------------------------------
\* No joint leaves its limits and no flag is left or taken by mistake, for any
\* arms, joints, limits and goals, and any number of loops and gripper commands,
\* whichever way the loops end (set_joint_positions, step, the busy flag).
THEOREM ControlInvariant == Spec => [](ArmsStayInLimits /\ BusyKeepsOthersOut)
<1>1. Init => ControlInv
  BY InitInv
<1>2. ControlInv /\ [Next]_vars => ControlInv'
  BY NextKeepsInv
<1>3. ControlInv => ArmsStayInLimits /\ BusyKeepsOthersOut
  BY InvKeepsLimits DEF ControlInv
<1> QED BY <1>1, <1>2, <1>3, PTL DEF Spec

\* BusyKeepsOthersOut by itself: no exception and no stop leaves an arm busy
\* without a loop, and two loops have one arm only if both had passed the test
\* when the second of them did, or one was left of such a race (the flag and
\* the finally clause).
THEOREM LoopsShareByRaceOnly == Spec => []BusyKeepsOthersOut
BY ControlInvariant, PTL

\* After an emergency stop an arm or a gripper stays where it is until its own
\* next command, whoever steps the driver (emergency_stop, step).
THEOREM StopHolds == Spec => StoppedStays
<1>1. Init => ControlInv
  BY InitInv
<1>2. ControlInv /\ [Next]_vars => ControlInv'
  BY NextKeepsInv
<1>3. ControlInv /\ [Next]_vars => [Held]_vars
  BY NextKeepsInv
<1> QED BY <1>1, <1>2, <1>3, PTL DEF Spec, StoppedStays, Held

-----------------------------------------------------------------------------
(* What a success left stays                                               *)

\* A target joint is where the joint is, or the position asked for, clamped.
Heads(a, p) ==
  \A j \in DOMAIN p \cap DOMAIN armState[a].current \cap DOMAIN armState[a].target :
    armState[a].target[j] \in
      {armState[a].current[j], Clamped(p[j], JointLimits[a].lower, JointLimits[a].upper)}

Within(a, p) ==
  \A j \in DOMAIN p : Abs(armState[a].current[j] - p[j]) <= ErrorThreshold

\* A loop that waits at a point heads for it, unless it races for the arm, and
\* an arm that has arrived heads for where it arrived, or nowhere.
LoopsHead ==
  \A l \in Loops :
    /\ l \notin raced /\ Running(l) /\ loop[l].phase \in {"step", "measure"}
    /\ loop[l].arm \in DOMAIN armState
    => Heads(loop[l].arm, loop[l].points[loop[l].idx].positions)

ArrivalsHead ==
  /\ arrived = [a \in Arms |-> arrived[a]]
  /\ \A a \in Arms : arrived[a] \in Seq(Int) /\ Len(arrived[a]) <= NumJoints[a]
  /\ \A a \in DOMAIN armState : Heads(a, arrived[a]) /\ Within(a, arrived[a])

ArrivalInv == ControlInv /\ LoopsHead /\ ArrivalsHead

\* A joint between its limits that heads for a position, clamped, gets no
\* further away from the position.
LEMMA ClampedNears ==
  ASSUME NEW lo \in Int, NEW hi \in Int, NEW x \in Int, lo <= x, x <= hi,
         NEW p \in Int, NEW most \in Nat, NEW goal, goal \in {x, Clamped(p, lo, hi)}
  PROVE  /\ Toward(x, goal, most) \in Int
         /\ Abs(Toward(x, goal, most) - p) <= Abs(x - p)
         /\ goal \in {Toward(x, goal, most), Clamped(p, lo, hi)}
BY DEF Abs, Toward, Clamped, AtLeast, AtMost

\* A step of the driver keeps a heading, and takes nothing further away.
LEMMA StepKeepsHeading ==
  ASSUME DriverOK, Step, NEW a \in DOMAIN armState, NEW p \in Seq(Int), Heads(a, p)
  PROVE  /\ Heads(a, p)'
         /\ DOMAIN p \subseteq 1 .. NumJoints[a] /\ Within(a, p) => Within(a, p)'
<1> DEFINE st == armState[a]
           most == MaxVelocity[a] * st.scaling
           lo == JointLimits[a].lower
           hi == JointLimits[a].upper
           Next_(j) == IF j \in DOMAIN st.target
                         THEN Toward(st.current[j], st.target[j], most) ELSE st.current[j]
<1>1. /\ a \in Arms /\ st \in ArmSet(a)
      /\ lo \in Int /\ hi \in Int /\ NumJoints[a] \in Nat
      /\ ErrorThreshold \in Int
  BY LimitsTyped, ControlAssumption DEF DriverOK
<1>2. /\ st.current \in [1 .. NumJoints[a] -> lo .. hi]
      /\ st.target \in Seq(lo .. hi) /\ st.scaling \in Nat
  BY <1>1, LimitsTyped DEF ArmSet, Between
<1>3. most \in Nat
  BY <1>1, <1>2, LimitsTyped
<1>4. armState'[a] = st \/ armState'[a] = Advanced(a)
  BY DEF Step
<1>5. Advanced(a) = [st EXCEPT !.current = [j \in DOMAIN st.current |-> Next_(j)]]
  BY Zenon DEF Advanced
<1>6. /\ armState'[a].target = st.target
      /\ DOMAIN armState'[a].current = 1 .. NumJoints[a]
      /\ \/ armState'[a].current = st.current
         \/ \A j \in 1 .. NumJoints[a] : armState'[a].current[j] = Next_(j)
  <2>1. st = [current |-> st.current, target |-> st.target, scaling |-> st.scaling]
    BY <1>1 DEF ArmSet
  <2>2. DOMAIN st.current = 1 .. NumJoints[a]
    BY <1>2
  <2> HIDE DEF st, Next_
  <2>3. Advanced(a) = [current |-> [j \in 1 .. NumJoints[a] |-> Next_(j)],
                       target |-> st.target, scaling |-> st.scaling]
    BY <1>5, <2>1, <2>2
  <2>4. CASE armState'[a] = st
    BY <2>2, <2>4
  <2>5. CASE armState'[a] = Advanced(a)
    BY <2>3, <2>5
  <2> QED BY <1>4, <2>4, <2>5
<1>7. ASSUME NEW j \in DOMAIN p \cap (1 .. NumJoints[a])
      PROVE  /\ p[j] \in Int /\ st.current[j] \in Int /\ Next_(j) \in Int
             /\ Abs(Next_(j) - p[j]) <= Abs(st.current[j] - p[j])
             /\ j \in DOMAIN st.target =>
                  st.target[j] \in {Next_(j), Clamped(p[j], lo, hi)}
  <2> DEFINE x == st.current[j]
             goal == st.target[j]
  <2>1. p[j] \in Int
    OBVIOUS
  <2>2. x \in lo .. hi
    <3> HIDE DEF st, lo, hi
    <3> QED BY <1>2
  <2>3. x \in Int
    <3> HIDE DEF x, lo, hi
    <3> QED BY <1>1, <2>2
  <2>4. CASE j \in DOMAIN st.target
    <3>1. goal \in {x, Clamped(p[j], lo, hi)}
      BY <1>2, <2>4 DEF Heads
    <3>2. Next_(j) = Toward(x, goal, most)
      BY <2>4
    <3> DEFINE q == p[j]
    <3>3. q \in Int /\ goal \in {x, Clamped(q, lo, hi)} /\ lo \in Int /\ hi \in Int
      BY <1>1, <2>1, <3>1
    <3> HIDE DEF x, goal, lo, hi, most, q, Next_
    <3>4. /\ Toward(x, goal, most) \in Int
          /\ Abs(Toward(x, goal, most) - q) <= Abs(x - q)
          /\ goal \in {Toward(x, goal, most), Clamped(q, lo, hi)}
      BY <1>3, <2>2, <2>3, <3>3, ClampedNears
    <3> QED BY <2>1, <2>3, <3>2, <3>4 DEF x, goal, q
  <2>5. CASE j \notin DOMAIN st.target
    <3>1. Next_(j) = x
      BY <2>5
    <3>2. Abs(x - p[j]) \in Int
      BY <2>1, <2>3 DEF Abs
    <3> HIDE DEF Next_
    <3> QED BY <2>1, <2>3, <2>5, <3>1, <3>2
  <2> QED BY <2>4, <2>5
<1> HIDE DEF Next_, st, lo, hi
<1>8. Heads(a, p)'
  <2> SUFFICES ASSUME NEW j \in DOMAIN p \cap (1 .. NumJoints[a]), j \in DOMAIN st.target
               PROVE  st.target[j] \in {armState'[a].current[j], Clamped(p[j], lo, hi)}
    BY <1>6 DEF Heads, lo, hi
  <2>1. CASE armState'[a].current = st.current
    BY <1>2, <2>1 DEF Heads, st, lo, hi
  <2>2. CASE armState'[a].current[j] = Next_(j)
    BY <1>7, <2>2
  <2> QED BY <1>6, <2>1, <2>2
<1>9. ASSUME DOMAIN p \subseteq 1 .. NumJoints[a], Within(a, p), NEW j \in DOMAIN p
      PROVE  Abs(armState'[a].current[j] - p[j]) <= ErrorThreshold
  <2>1. Abs(st.current[j] - p[j]) <= ErrorThreshold
    BY <1>9 DEF Within, st
  <2>2. CASE armState'[a].current = st.current
    BY <2>1, <2>2
  <2>3. CASE armState'[a].current[j] = Next_(j)
    <3>1. /\ Abs(Next_(j) - p[j]) \in Int /\ Abs(st.current[j] - p[j]) \in Int
          /\ Abs(Next_(j) - p[j]) <= Abs(st.current[j] - p[j])
      BY <1>7, <1>9 DEF Abs
    <3> QED BY <1>1, <2>1, <2>3, <3>1
  <2> QED BY <1>6, <1>9, <2>2, <2>3
<1> QED BY <1>8, <1>9 DEF Within

\* After a stop an arm heads for where it is.
LEMMA StopKeepsHeading ==
  ASSUME DriverOK, EmergencyStop, NEW a \in DOMAIN armState, NEW p
  PROVE  Heads(a, p)' /\ (Within(a, p) => Within(a, p)')
<1>1. /\ armState'[a] = [armState[a] EXCEPT !.target = armState[a].current]
      /\ armState[a] \in [current : {armState[a].current}, target : {armState[a].target},
                          scaling : {armState[a].scaling}]
  BY DEF EmergencyStop, DriverOK, ArmSet
<1>2. armState'[a].current = armState[a].current /\ armState'[a].target = armState[a].current
  BY <1>1
<1> QED BY <1>2 DEF Heads, Within

\* What an unchanged arm keeps.
LEMMA SameHeading ==
  ASSUME NEW a, armState'[a] = armState[a], NEW p
  PROVE  (Heads(a, p) => Heads(a, p)') /\ (Within(a, p) => Within(a, p)')
BY DEF Heads, Within

\* A commanded arm heads for what it was commanded.
LEMMA CommandGivesHeading ==
  ASSUME NEW a \in DOMAIN armState, DriverOK, NEW positions, NEW scaling,
         SetJointPositions(a, positions, scaling)
  PROVE  Heads(a, positions)'
<1>1. armState'[a] = [armState[a] EXCEPT !.target = Target(a, positions),
                                          !.scaling = Clamped(scaling, 0, FullScaling)]
  BY DEF SetJointPositions, DriverOK
<1>2. armState[a] \in [current : {armState[a].current}, target : {armState[a].target},
                       scaling : {armState[a].scaling}]
  BY DEF DriverOK, ArmSet
<1>3. armState'[a].target = Target(a, positions)
  BY <1>1, <1>2
<1> QED BY <1>3 DEF Heads, Target

-----------------------------------------------------------------------------
(* The tracking error                                                      *)

\* Every non-empty set of natural numbers has a least element.
LEMMA LeastElement ==
  ASSUME NEW T \in SUBSET Nat, T # {}
  PROVE  \E x \in T : \A y \in T : x <= y
<1> DEFINE R == {p \in Nat \X Nat : p[1] < p[2]}
<1>1. IsWellFoundedOn(R, Nat)
  BY NatLessThanWellFounded, Zenon DEF OpToRel
<1>2. PICK x \in T : \A y \in T : ~ (<<y, x>> \in R)
  BY <1>1, WFMin, Zenon
<1>3. \A y \in T : ~ (y < x)
  BY <1>2
<1> QED BY <1>3

\* One of finitely many integers is the largest.
LEMMA LargestOf ==
  ASSUME NEW n \in Nat \ {0}, NEW f, \A j \in 1 .. n : f[j] \in Int
  PROVE  \E m \in 1 .. n : \A j \in 1 .. n : f[j] <= f[m]
<1> DEFINE Good(k) == \E m \in 1 .. k : \A j \in 1 .. k : f[j] <= f[m]
           Bad == {k \in 1 .. n : ~ Good(k)}
<1> SUFFICES ASSUME ~ Good(n) PROVE FALSE
  OBVIOUS
<1>1. PICK k \in Bad : \A i \in Bad : k <= i
  <2>1. Bad \in SUBSET Nat /\ n \in Bad
    OBVIOUS
  <2> HIDE DEF Bad
  <2> QED BY <2>1, LeastElement
<1>2. k \in 1 .. n /\ ~ Good(k)
  OBVIOUS
<1>3. k # 1
  <2>1. f[1] \in Int
    OBVIOUS
  <2>2. Good(1)
    BY <2>1
  <2> QED BY <1>2, <2>2
<1>4. k - 1 \in 1 .. n /\ k - 1 \notin Bad
  <2>1. k - 1 \in 1 .. n /\ ~ (k <= k - 1)
    BY <1>2, <1>3
  <2> HIDE DEF Bad
  <2> QED BY <1>1, <2>1
<1>5. PICK m \in 1 .. k - 1 : \A j \in 1 .. k - 1 : f[j] <= f[m]
  BY <1>4
<1>6. /\ m \in 1 .. k /\ k \in 1 .. k /\ f[m] \in Int /\ f[k] \in Int
      /\ \A j \in 1 .. k : j = k \/ j \in 1 .. k - 1
      /\ \A j \in 1 .. k : f[j] \in Int
  BY <1>2, <1>3
<1>7. CASE f[k] <= f[m]
  <2>1. \A j \in 1 .. k : f[j] <= f[m]
    BY <1>5, <1>6, <1>7
  <2> QED BY <1>2, <1>6, <2>1
<1>8. CASE f[m] <= f[k]
  <2>1. ASSUME NEW j \in 1 .. k PROVE f[j] <= f[k]
    <3>1. CASE j = k
      BY <1>6, <3>1
    <3>2. CASE j \in 1 .. k - 1
      <4>1. f[j] <= f[m] /\ f[j] \in Int
        BY <1>5, <1>6, <3>2
      <4> QED BY <1>6, <1>8, <4>1
    <3> QED BY <1>6, <3>1, <3>2
  <2> QED BY <1>2, <1>6, <2>1
<1> QED BY <1>6, <1>7, <1>8

\* No joint is further off than the tracking error.
LEMMA TrackingErrorBounds ==
  ASSUME DriverOK, NEW a \in DOMAIN armState, NEW p \in Seq(Int),
         p # <<>>, Len(p) <= Len(armState[a].current)
  PROVE  /\ TrackingError(a, p) \in Int
         /\ DOMAIN p \subseteq 1 .. NumJoints[a] /\ Len(p) <= NumJoints[a]
         /\ \A j \in DOMAIN p : Abs(armState[a].current[j] - p[j]) <= TrackingError(a, p)
<1> DEFINE n == Len(p)
           off == [j \in 1 .. n |-> Abs(armState[a].current[j] - p[j])]
           S == {Abs(armState[a].current[j] - p[j]) : j \in DOMAIN p}
<1>1. /\ armState[a].current \in [1 .. NumJoints[a] -> Between(a)] /\ NumJoints[a] \in Nat
      /\ Len(armState[a].current) = NumJoints[a]
  BY LimitsTyped DEF DriverOK, ArmSet
<1>2. n \in Nat \ {0} /\ DOMAIN p = 1 .. n /\ n <= NumJoints[a]
  BY <1>1
<1>3. \A j \in 1 .. n : off[j] \in Int
  <2> TAKE j \in 1 .. n
  <2>1. p[j] \in Int
    BY <1>2
  <2>2. j \in 1 .. NumJoints[a]
    BY <1>1, <1>2
  <2>3. armState[a].current[j] \in Between(a)
    BY <1>1, <2>2
  <2>4. armState[a].current[j] \in Int
    BY <2>3, LimitsTyped DEF Between, DriverOK
  <2> QED BY <2>1, <2>4 DEF Abs
<1>4. PICK m \in 1 .. n : \A j \in 1 .. n : off[j] <= off[m]
  <2> HIDE DEF off, n
  <2> QED BY <1>2, <1>3, LargestOf
<1>5. S = {off[j] : j \in 1 .. n}
  BY <1>2
<1> HIDE DEF S, off, n
<1>6. \E x \in S : \A y \in S : x >= y
  BY <1>3, <1>4, <1>5
<1>7. Max(S) \in S /\ \A y \in S : Max(S) >= y
  BY <1>6 DEF Max
<1>8. TrackingError(a, p) = Max(S)
  BY DEF TrackingError, S
<1>9. /\ Max(S) \in Int
      /\ \A j \in DOMAIN p : Abs(armState[a].current[j] - p[j]) <= Max(S)
  <2>1. Max(S) \in Int
    BY <1>3, <1>5, <1>7
  <2>2. ASSUME NEW j \in DOMAIN p PROVE Abs(armState[a].current[j] - p[j]) <= Max(S)
    <3>1. off[j] \in S /\ off[j] \in Int
      BY <1>2, <1>3, <1>5
    <3>2. off[j] <= Max(S)
      BY <1>7, <2>1, <3>1
    <3> QED BY <1>2, <3>2 DEF off
  <2> QED BY <2>1, <2>2
<1> QED BY <1>1, <1>2, <1>8, <1>9 DEF n

-----------------------------------------------------------------------------
(* The steps, and where the arms have arrived                              *)

\* A loop that drives its arm is at a point with positions.
LEMMA PointTyped ==
  ASSUME LoopsOK, NEW l \in Loops, loop[l].phase \in {"command", "step", "measure"}
  PROVE  loop[l].points[loop[l].idx].positions \in Seq(Int)
BY RunningLoop DEF Trajectory, Running

\* What a step does to the arms it does to what the loops head for.
LEMMA LoopsKeepHeading ==
  ASSUME LoopsOK, LoopsHead, DOMAIN armState' \subseteq DOMAIN armState,
         \A a \in DOMAIN armState' : \A p \in Seq(Int) : Heads(a, p) => Heads(a, p)',
         \A l \in Loops : Running(l)' /\ loop'[l].phase \in {"step", "measure"} =>
           /\ l \notin raced' => l \notin raced
           /\ Running(l) /\ loop[l].phase \in {"step", "measure"}
           /\ loop'[l].arm = loop[l].arm /\ loop'[l].points = loop[l].points
           /\ loop'[l].idx = loop[l].idx
  PROVE  LoopsHead'
<1> SUFFICES ASSUME NEW l \in Loops, Running(l)', loop'[l].phase \in {"step", "measure"},
                    loop'[l].arm \in DOMAIN armState', l \notin raced'
             PROVE  Heads(loop[l].arm, loop[l].points[loop[l].idx].positions)'
  BY DEF LoopsHead, Heads
<1> DEFINE a == loop[l].arm
           p == loop[l].points[loop[l].idx].positions
<1>1. a \in DOMAIN armState' /\ p \in Seq(Int) /\ Heads(a, p)
  BY PointTyped DEF LoopsHead
<1> QED BY <1>1

\* The same of where the arms have arrived.
LEMMA ArrivalsKeep ==
  ASSUME ArrivalsHead, DOMAIN armState' \subseteq DOMAIN armState, DriverOK,
         arrived' = arrived,
         \A a \in DOMAIN armState' : \A p \in Seq(Int) :
           Heads(a, p) => /\ Heads(a, p)'
                          /\ DOMAIN p \subseteq 1 .. NumJoints[a] /\ Within(a, p) => Within(a, p)'
  PROVE  ArrivalsHead'
<1> SUFFICES ASSUME NEW a \in DOMAIN armState'
             PROVE  Heads(a, arrived[a])' /\ Within(a, arrived[a])'
  BY DEF ArrivalsHead
<1> DEFINE p == arrived[a]
<1>1. a \in DOMAIN armState /\ a \in Arms
  BY DEF DriverOK
<1>2. p \in Seq(Int) /\ Len(p) <= NumJoints[a] /\ Heads(a, p) /\ Within(a, p)
  BY <1>1 DEF ArrivalsHead
<1>3. DOMAIN p \subseteq 1 .. NumJoints[a]
  BY <1>1, <1>2, LimitsTyped
<1>4. \A q \in Seq(Int) :
        Heads(a, q) => /\ Heads(a, q)'
                       /\ DOMAIN q \subseteq 1 .. NumJoints[a] /\ Within(a, q) => Within(a, q)'
  OBVIOUS
<1>5. PICK q \in Seq(Int) : q = p
  BY <1>2
<1>6. Heads(a, q)' /\ Within(a, q)'
  BY <1>2, <1>3, <1>4, <1>5
<1> QED BY <1>5, <1>6 DEF Heads, Within

\* Steps of the driver.
LEMMA StepKeepsArrivals ==
  ASSUME ArrivalInv, Step, arrived' = arrived,
         \A l \in Loops : Running(l)' /\ loop'[l].phase \in {"step", "measure"} =>
           /\ l \notin raced' => l \notin raced
           /\ Running(l) /\ loop[l].phase \in {"step", "measure"}
           /\ loop'[l].arm = loop[l].arm /\ loop'[l].points = loop[l].points
           /\ loop'[l].idx = loop[l].idx
  PROVE  LoopsHead' /\ ArrivalsHead'
<1>1. DriverOK /\ LoopsOK /\ DOMAIN armState' = DOMAIN armState
  BY StepKeepsDriver DEF ArrivalInv, ControlInv
<1>2. \A a \in DOMAIN armState' : \A p \in Seq(Int) :
        Heads(a, p) => /\ Heads(a, p)'
                       /\ DOMAIN p \subseteq 1 .. NumJoints[a] /\ Within(a, p) => Within(a, p)'
  BY <1>1, StepKeepsHeading
<1>3. LoopsHead'
  BY <1>1, <1>2, LoopsKeepHeading DEF ArrivalInv
<1>4. ArrivalsHead'
  BY <1>1, <1>2, ArrivalsKeep DEF ArrivalInv
<1> QED BY <1>3, <1>4

\* Steps that leave every arm that stays connected alone.
LEMMA SameArmsKeepArrivals ==
  ASSUME ArrivalInv, DOMAIN armState' \subseteq DOMAIN armState,
         \A a \in DOMAIN armState' : armState'[a] = armState[a],
         \A l \in Loops : Running(l)' /\ loop'[l].phase \in {"step", "measure"} =>
           /\ l \notin raced' => l \notin raced
           /\ Running(l) /\ loop[l].phase \in {"step", "measure"}
           /\ loop'[l].arm = loop[l].arm /\ loop'[l].points = loop[l].points
           /\ loop'[l].idx = loop[l].idx
  PROVE  LoopsHead' /\ (arrived' = arrived => ArrivalsHead')
<1>1. \A a \in DOMAIN armState' : \A p \in Seq(Int) :
        Heads(a, p) => /\ Heads(a, p)'
                       /\ DOMAIN p \subseteq 1 .. NumJoints[a] /\ Within(a, p) => Within(a, p)'
  BY SameHeading
<1>2. LoopsHead'
  BY <1>1, LoopsKeepHeading DEF ArrivalInv, ControlInv
<1>3. arrived' = arrived => ArrivalsHead'
  BY <1>1, ArrivalsKeep DEF ArrivalInv, ControlInv
<1> QED BY <1>2, <1>3

\* A loop that has ended, or begins, waits at no point.
LEMMA FinishKeepsPoints ==
  ASSUME LoopsOK, NEW l \in Loops, NEW raised, Finish(l, raised)
  PROVE  \A k \in Loops : Running(k)' /\ loop'[k].phase \in {"step", "measure"} =>
           k # l /\ Running(k) /\ loop'[k] = loop[k] /\ (k \notin raced' => k \notin raced)
<1>1. loop' = [loop EXCEPT ![l] = Idle] /\ raced' = raced \ {l}
  BY DEF Finish
<1>2. loop'[l] = Idle /\ \A k \in Loops \ {l} : loop'[k] = loop[k]
  BY <1>1 DEF LoopsOK
<1> QED BY <1>1, <1>2 DEF Running, Idle

LEMMA CancelKeepsArrivals ==
  ASSUME ArrivalInv, NEW l \in Loops, CancelTrajectory(l)
  PROVE  LoopsHead' /\ ArrivalsHead'
<1>1. EmergencyStop /\ Finish(l, FALSE) /\ arrived' = arrived
  BY DEF CancelTrajectory
<1>2. DriverOK /\ LoopsOK /\ DOMAIN armState' = DOMAIN armState
  BY <1>1, StopKeepsDriver DEF ArrivalInv, ControlInv
<1>3. \A k \in Loops : Running(k)' /\ loop'[k].phase \in {"step", "measure"} =>
        k # l /\ Running(k) /\ loop'[k] = loop[k] /\ (k \notin raced' => k \notin raced)
  BY <1>1, <1>2, FinishKeepsPoints
<1>4. \A a \in DOMAIN armState' : \A p \in Seq(Int) :
        Heads(a, p)' /\ (Within(a, p) => Within(a, p)')
  BY <1>1, <1>2, StopKeepsHeading
<1>5. LoopsHead'
  BY <1>2, <1>3, <1>4, LoopsKeepHeading DEF ArrivalInv
<1>6. ArrivalsHead'
  BY <1>1, <1>2, <1>4, ArrivalsKeep DEF ArrivalInv
<1> QED BY <1>5, <1>6

\* A loop that goes on stays at its point.
LEMMA SegmentKeepsPoint ==
  ASSUME LoopsOK, NEW l \in Loops, Running(l), NEW n, NEW p,
         loop' = [loop EXCEPT ![l] = [loop[l] EXCEPT !.left = n, !.phase = p]]
  PROVE  /\ loop'[l].arm = loop[l].arm /\ loop'[l].points = loop[l].points
         /\ loop'[l].idx = loop[l].idx /\ loop'[l].phase = p
         /\ \A k \in Loops \ {l} : loop'[k] = loop[k]
<1> DEFINE me == loop[l]
<1>1. me \in [phase : {me.phase}, arm : {me.arm}, points : {me.points},
             scaling : {me.scaling}, idx : {me.idx}, left : {me.left}, clean : {me.clean}]
  BY RunningLoop
<1>2. loop'[l] = [me EXCEPT !.left = n, !.phase = p] /\ \A k \in Loops \ {l} : loop'[k] = loop[k]
  BY DEF LoopsOK
<1> HIDE DEF me
<1>3. [me EXCEPT !.left = n, !.phase = p] \in
        [phase : {p}, arm : {me.arm}, points : {me.points},
         scaling : {me.scaling}, idx : {me.idx}, left : {n}, clean : {me.clean}]
  BY <1>1
<1> QED BY <1>2, <1>3 DEF me

LEMMA CommandKeepsArrivals ==
  ASSUME ArrivalInv, NEW l \in Loops, CommandPoint(l)
  PROVE  LoopsHead' /\ ArrivalsHead'
<1> DEFINE me == loop[l]
           held == Segment(me.points, me.idx)
           positions == me.points[me.idx].positions
<1>1. /\ Running(l) /\ DriverOK /\ LoopsOK /\ BusyKeepsOthersOut
      /\ positions \in Seq(Int) /\ me.scaling \in 0 .. FullScaling
  <2>1. Running(l) /\ LoopsOK /\ me.phase = "command"
    BY DEF CommandPoint, Running, ArrivalInv, ControlInv
  <2> QED BY <2>1, PointTyped, RunningLoop DEF ArrivalInv, ControlInv
<1>2. CASE me.arm \notin DOMAIN armState
  <2>1. Finish(l, TRUE) /\ arrived' = arrived /\ UNCHANGED driver
    BY <1>2 DEF CommandPoint, Raise
  <2>2. \A k \in Loops : Running(k)' /\ loop'[k].phase \in {"step", "measure"} =>
          k # l /\ Running(k) /\ loop'[k] = loop[k] /\ (k \notin raced' => k \notin raced)
    BY <1>1, <2>1, FinishKeepsPoints
  <2> QED BY <2>1, <2>2, SameArmsKeepArrivals DEF driver
<1>3. CASE me.arm \in DOMAIN armState
  <2>1. /\ SetJointPositions(me.arm, positions, me.scaling)
        /\ loop' = [loop EXCEPT ![l].left = held,
                                ![l].phase = IF held > 0 THEN "step" ELSE "measure"]
        /\ arrived' = [arrived EXCEPT ![me.arm] = Anywhere] /\ raced' = raced
    BY <1>3 DEF CommandPoint
  <2>2. /\ DOMAIN armState' = DOMAIN armState
        /\ \A b \in DOMAIN armState \ {me.arm} : armState'[b] = armState[b]
    BY <1>1, <1>3, <2>1, CommandKeepsDriver
  <2>3. PICK a \in DOMAIN armState : a = me.arm
    BY <1>3
  <2>4. PICK p \in Seq(Int) : p = positions
    BY <1>1
  <2>5. Heads(a, p)'
    BY <1>1, <2>1, <2>3, <2>4, CommandGivesHeading
  <2>6. /\ loop'[l].arm = a /\ loop'[l].points[loop'[l].idx].positions = p
        /\ \A k \in Loops \ {l} : loop'[k] = loop[k]
    <3> DEFINE n == held
               phase_ == IF held > 0 THEN "step" ELSE "measure"
    <3>1. loop' = [loop EXCEPT ![l] = [loop[l] EXCEPT !.left = n, !.phase = phase_]]
      BY <1>1, <2>1 DEF LoopsOK
    <3> HIDE DEF n, phase_, held
    <3> QED BY <1>1, <2>3, <2>4, <3>1, SegmentKeepsPoint
  <2>7. LoopsHead'
    <3> SUFFICES ASSUME NEW k \in Loops, Running(k)', loop'[k].phase \in {"step", "measure"},
                        loop'[k].arm \in DOMAIN armState, k \notin raced'
                 PROVE  Heads(loop[k].arm, loop[k].points[loop[k].idx].positions)'
      BY <2>2 DEF LoopsHead
    <3>1. CASE k = l
      BY <2>5, <2>6, <3>1 DEF Heads
    <3>2. CASE k # l
      <4>1. /\ loop'[k] = loop[k] /\ Running(k) /\ loop[k].arm \in DOMAIN armState
            /\ k \notin raced
        BY <2>1, <2>6, <3>2 DEF Running
      <4>2. loop[k].arm # a
        BY <1>1, <2>3, <3>2, <4>1 DEF BusyKeepsOthersOut
      <4>3. Heads(loop[k].arm, loop[k].points[loop[k].idx].positions)
        BY <4>1 DEF LoopsHead, ArrivalInv
      <4> QED BY <2>2, <2>3, <4>1, <4>2, <4>3 DEF Heads
    <3> QED BY <3>1, <3>2
  <2>8. ArrivalsHead'
    <3>1. a \in Arms /\ NumJoints[a] \in Nat
      BY <1>1, LimitsTyped DEF DriverOK
    <3>2. /\ arrived' = [b \in Arms |-> arrived'[b]]
          /\ arrived'[a] = <<>>
          /\ \A b \in Arms \ {a} : arrived'[b] = arrived[b]
      BY <2>1, <2>3, <3>1 DEF ArrivalInv, ArrivalsHead, Anywhere
    <3>3. \A b \in Arms : arrived'[b] \in Seq(Int) /\ Len(arrived'[b]) <= NumJoints[b]
      <4>1. <<>> \in Seq(Int) /\ Len(<<>>) <= NumJoints[a]
        BY <3>1
      <4> QED BY <3>2, <4>1 DEF ArrivalInv, ArrivalsHead
    <3>4. ASSUME NEW b \in DOMAIN armState PROVE Heads(b, arrived[b])' /\ Within(b, arrived[b])'
      <4>1. CASE b = a
        BY <3>2, <4>1 DEF Heads, Within
      <4>2. CASE b # a
        <5>1. arrived'[b] = arrived[b] /\ armState'[b] = armState[b]
          BY <1>1, <2>2, <2>3, <3>2, <4>2 DEF DriverOK
        <5>2. Heads(b, arrived[b]) /\ Within(b, arrived[b])
          BY DEF ArrivalInv, ArrivalsHead
        <5> QED BY <5>1, <5>2 DEF Heads, Within
      <4> QED BY <4>1, <4>2
    <3> QED BY <2>2, <3>2, <3>3, <3>4 DEF ArrivalsHead
  <2> QED BY <2>7, <2>8
<1> QED BY <1>2, <1>3

LEMMA StepDriverKeepsArrivals ==
  ASSUME ArrivalInv, NEW l \in Loops, StepDriver(l)
  PROVE  LoopsHead' /\ ArrivalsHead'
<1>1. /\ Running(l) /\ loop[l].phase = "step" /\ Step /\ LoopsOK /\ arrived' = arrived
  BY DEF StepDriver, Raise, Running, ArrivalInv, ControlInv
<1>2. CASE StepRaises
  <2>1. Finish(l, TRUE)
    BY <1>2 DEF StepDriver, Raise
  <2>2. \A k \in Loops : Running(k)' /\ loop'[k].phase \in {"step", "measure"} =>
          k # l /\ Running(k) /\ loop'[k] = loop[k] /\ (k \notin raced' => k \notin raced)
    BY <1>1, <2>1, FinishKeepsPoints
  <2> QED BY <1>1, <2>2, StepKeepsArrivals
<1>3. CASE ~ StepRaises
  <2> DEFINE n == loop[l].left - 1
             p == IF loop[l].left = 1 THEN "measure" ELSE loop[l].phase
  <2>1. loop' = [loop EXCEPT ![l] = [loop[l] EXCEPT !.left = n, !.phase = p]] /\ raced' = raced
    BY <1>1, <1>3 DEF StepDriver, LoopsOK
  <2> HIDE DEF n, p
  <2>2. /\ loop'[l].arm = loop[l].arm /\ loop'[l].points = loop[l].points
        /\ loop'[l].idx = loop[l].idx
        /\ \A k \in Loops \ {l} : loop'[k] = loop[k]
    BY <1>1, <2>1, SegmentKeepsPoint
  <2>3. \A k \in Loops : Running(k)' /\ loop'[k].phase \in {"step", "measure"} =>
          /\ k \notin raced' => k \notin raced
          /\ Running(k) /\ loop[k].phase \in {"step", "measure"}
          /\ loop'[k].arm = loop[k].arm /\ loop'[k].points = loop[k].points
          /\ loop'[k].idx = loop[k].idx
    BY <1>1, <2>1, <2>2 DEF Running
  <2> QED BY <1>1, <2>3, StepKeepsArrivals
<1> QED BY <1>2, <1>3

\* A success is measured where the loop heads.
LEMMA MeasureKeepsArrivals ==
  ASSUME ArrivalInv, NEW l \in Loops, MeasurePoint(l)
  PROVE  LoopsHead' /\ ArrivalsHead'
<1> DEFINE me == loop[l]
           positions == me.points[me.idx].positions
<1>1. /\ Running(l) /\ me.phase = "measure" /\ armState' = armState /\ LoopsOK /\ DriverOK
      /\ me.arm \in Arms /\ positions \in Seq(Int) /\ ErrorThreshold \in Int
  <2>1. Running(l) /\ LoopsOK /\ me.phase = "measure"
    BY DEF MeasurePoint, Running, ArrivalInv, ControlInv
  <2> QED BY <2>1, PointTyped, RunningLoop, ControlAssumption
          DEF MeasurePoint, driver, ArrivalInv, ControlInv
<1>2. /\ \/ Finish(l, TRUE) \/ Finish(l, FALSE)
         \/ raced' = raced /\ loop' = [loop EXCEPT ![l].idx = @ + 1, ![l].phase = "command"]
      /\ \/ arrived' = arrived
         \/ /\ ~ MeasureRaises(me.arm, positions) /\ l \notin raced
            /\ ~ (TrackingError(me.arm, positions) > ErrorThreshold)
            /\ arrived' = [arrived EXCEPT ![me.arm] = positions]
  BY DEF MeasurePoint, Raise
<1>3. \A k \in Loops : Running(k)' /\ loop'[k].phase \in {"step", "measure"} =>
        k # l /\ Running(k) /\ loop'[k] = loop[k] /\ (k \notin raced' => k \notin raced)
  <2>1. CASE \E raised \in BOOLEAN : Finish(l, raised)
    BY <1>1, <2>1, FinishKeepsPoints
  <2>2. CASE raced' = raced /\ loop' = [loop EXCEPT ![l].idx = @ + 1, ![l].phase = "command"]
    <3> DEFINE n == me.idx + 1
    <3>1. loop' = [loop EXCEPT ![l] = [me EXCEPT !.idx = n, !.phase = "command"]]
      BY <1>1, <2>2 DEF LoopsOK
    <3>2. /\ loop'[l] = [me EXCEPT !.idx = n, !.phase = "command"]
          /\ \A k \in Loops \ {l} : loop'[k] = loop[k]
      BY <1>1, <3>1 DEF LoopsOK
    <3>3. me \in [phase : {me.phase}, arm : {me.arm}, points : {me.points},
                 scaling : {me.scaling}, idx : {me.idx}, left : {me.left}, clean : {me.clean}]
      BY <1>1, RunningLoop
    <3> HIDE DEF n, me
    <3>4. [me EXCEPT !.idx = n, !.phase = "command"].phase = "command"
      BY <3>3
    <3> QED BY <2>2, <3>2, <3>4 DEF Running
  <2> QED BY <1>2, <2>1, <2>2
<1>4. LoopsHead' /\ (arrived' = arrived => ArrivalsHead')
  BY <1>1, <1>3, SameArmsKeepArrivals
<1>5. CASE /\ ~ MeasureRaises(me.arm, positions) /\ l \notin raced
           /\ ~ (TrackingError(me.arm, positions) > ErrorThreshold)
           /\ arrived' = [arrived EXCEPT ![me.arm] = positions]
  <2>1. PICK a \in DOMAIN armState : a = me.arm
    BY <1>5 DEF MeasureRaises
  <2>2. PICK p \in Seq(Int) : p = positions
    BY <1>1
  <2>3. Heads(a, p)
    BY <1>1, <1>5, <2>1, <2>2 DEF ArrivalInv, LoopsHead
  <2>4. p # <<>> /\ Len(p) <= Len(armState[a].current)
    <3>1. armState[a].current \in [1 .. NumJoints[a] -> Between(a)] /\ NumJoints[a] \in Nat
      BY <1>1, LimitsTyped DEF DriverOK, ArmSet
    <3>2. Len(armState[a].current) = NumJoints[a] /\ Len(p) \in Nat
      BY <3>1
    <3> QED BY <1>5, <2>1, <2>2, <3>1, <3>2 DEF MeasureRaises
  <2>5. /\ TrackingError(a, p) \in Int /\ Len(p) <= NumJoints[a]
        /\ DOMAIN p \subseteq 1 .. NumJoints[a]
        /\ \A j \in DOMAIN p : Abs(armState[a].current[j] - p[j]) <= TrackingError(a, p)
    BY <1>1, <2>4, TrackingErrorBounds
  <2>6. Within(a, p)
    <3> SUFFICES ASSUME NEW j \in DOMAIN p
                 PROVE  Abs(armState[a].current[j] - p[j]) <= ErrorThreshold
      BY DEF Within
    <3>1. TrackingError(a, p) <= ErrorThreshold
      BY <1>1, <1>5, <2>1, <2>2, <2>5
    <3>2. Abs(armState[a].current[j] - p[j]) \in Int
      <4>1. armState[a].current[j] \in Between(a) /\ a \in Arms /\ p[j] \in Int
        BY <1>1, <2>5, LimitsTyped DEF DriverOK, ArmSet
      <4>2. armState[a].current[j] \in Int
        BY <4>1, LimitsTyped DEF Between
      <4> QED BY <4>1, <4>2 DEF Abs
    <3> QED BY <1>1, <2>5, <3>1, <3>2
  <2>7. ArrivalsHead'
    <3>1. /\ arrived' = [b \in Arms |-> arrived'[b]] /\ a \in Arms
          /\ arrived'[a] = p
          /\ \A b \in Arms \ {a} : arrived'[b] = arrived[b]
      BY <1>1, <1>5, <2>1, <2>2 DEF ArrivalInv, ArrivalsHead
    <3>2. \A b \in Arms : arrived'[b] \in Seq(Int) /\ Len(arrived'[b]) <= NumJoints[b]
      BY <2>5, <3>1 DEF ArrivalInv, ArrivalsHead
    <3>3. ASSUME NEW b \in DOMAIN armState PROVE Heads(b, arrived[b])' /\ Within(b, arrived[b])'
      <4>1. CASE b = a
        BY <1>1, <2>3, <2>6, <3>1, <4>1 DEF Heads, Within
      <4>2. CASE b # a
        <5>1. arrived'[b] = arrived[b]
          BY <1>1, <3>1, <4>2 DEF DriverOK
        <5>2. Heads(b, arrived[b]) /\ Within(b, arrived[b])
          BY DEF ArrivalInv, ArrivalsHead
        <5> QED BY <1>1, <5>1, <5>2 DEF Heads, Within
      <4> QED BY <4>1, <4>2
    <3> QED BY <1>1, <3>1, <3>2, <3>3 DEF ArrivalsHead
  <2> QED BY <1>4, <2>7
<1> QED BY <1>2, <1>4, <1>5

LEMMA ExecuteKeepsArrivals ==
  ASSUME ArrivalInv, NEW l \in Loops, ExecuteGoal(l) \/ ExecutePlan(l)
  PROVE  LoopsHead' /\ ArrivalsHead'
<1>1. PICK arm, points, scaling, clean : Execute(l, arm, points, scaling, clean)
  BY DEF ExecuteGoal, ExecutePlan
<1>2. /\ armState' = armState /\ arrived' = arrived /\ LoopsOK /\ raced \subseteq raced'
      /\ loop' = [loop EXCEPT ![l] =
                    [phase |-> "admitted", arm |-> arm, points |-> points,
                     scaling |-> VelocityScaling(scaling), idx |-> 1, left |-> 0,
                     clean |-> clean]]
  BY <1>1 DEF Execute, driver, ArrivalInv, ControlInv
<1>3. loop'[l].phase = "admitted" /\ \A k \in Loops \ {l} : loop'[k] = loop[k]
  BY <1>2 DEF LoopsOK
<1>4. \A k \in Loops : Running(k)' /\ loop'[k].phase \in {"step", "measure"} =>
        Running(k) /\ loop'[k] = loop[k] /\ (k \notin raced' => k \notin raced)
  BY <1>2, <1>3 DEF Running
<1> QED BY <1>2, <1>4, SameArmsKeepArrivals

\* A loop that marks its arm does not move it yet.
LEMMA MarkKeepsArrivals ==
  ASSUME ArrivalInv, NEW l \in Loops, MarkBusy(l)
  PROVE  LoopsHead' /\ ArrivalsHead'
<1> DEFINE p == IF loop[l].points = <<>> THEN "empty" ELSE "command"
<1>1. /\ armState' = armState /\ arrived' = arrived /\ LoopsOK /\ raced' = raced
      /\ Running(l) /\ loop' = [loop EXCEPT ![l] = [loop[l] EXCEPT !.phase = p]]
  BY DEF MarkBusy, driver, Running, ArrivalInv, ControlInv, LoopsOK
<1>2. p \in {"empty", "command"}
  OBVIOUS
<1> HIDE DEF p
<1>3. loop'[l].phase = p /\ \A k \in Loops \ {l} : loop'[k] = loop[k]
  <2>1. /\ loop'[l] = [loop[l] EXCEPT !.phase = p]
        /\ \A k \in Loops \ {l} : loop'[k] = loop[k]
    BY <1>1 DEF LoopsOK
  <2>2. "phase" \in DOMAIN loop[l]
    BY <1>1, RunningLoop
  <2> QED BY <2>1, <2>2
<1>4. \A k \in Loops : Running(k)' /\ loop'[k].phase \in {"step", "measure"} =>
        Running(k) /\ loop'[k] = loop[k] /\ (k \notin raced' => k \notin raced)
  BY <1>1, <1>2, <1>3 DEF Running
<1> QED BY <1>1, <1>4, SameArmsKeepArrivals

LEMMA ReturnEmptyKeepsArrivals ==
  ASSUME ArrivalInv, NEW l \in Loops, ReturnEmpty(l)
  PROVE  LoopsHead' /\ ArrivalsHead'
<1>1. Finish(l, FALSE) /\ armState' = armState /\ arrived' = arrived /\ LoopsOK
  BY DEF ReturnEmpty, driver, ArrivalInv, ControlInv
<1>2. \A k \in Loops : Running(k)' /\ loop'[k].phase \in {"step", "measure"} =>
        k # l /\ Running(k) /\ loop'[k] = loop[k] /\ (k \notin raced' => k \notin raced)
  BY <1>1, FinishKeepsPoints
<1> QED BY <1>1, <1>2, SameArmsKeepArrivals

LEMMA ArrivalStep ==
  ASSUME ArrivalInv, [Next]_vars
  PROVE  ArrivalInv'
<1>1. CASE Shutdown
  <2>1. DOMAIN armState' = {} /\ UNCHANGED <<loop, arrived, raced>>
    BY <1>1 DEF Shutdown, Disconnect
  <2> QED BY <1>1, <2>1, SameArmsKeepArrivals, NextKeepsInv DEF Next, ArrivalInv, Running
<1>2. ASSUME NEW l \in Loops, ExecuteGoal(l) \/ ExecutePlan(l) \/ TrajectoryStep(l)
      PROVE  LoopsHead' /\ ArrivalsHead'
  BY <1>2, ExecuteKeepsArrivals, MarkKeepsArrivals, ReturnEmptyKeepsArrivals, CancelKeepsArrivals, CommandKeepsArrivals,
     StepDriverKeepsArrivals, MeasureKeepsArrivals DEF TrajectoryStep
<1>3. ASSUME NEW c \in Commands, GripperExecute(c) PROVE LoopsHead' /\ ArrivalsHead'
  <2>1. UNCHANGED <<armState, loop, arrived, raced>>
    BY <1>3 DEF GripperExecute, SetGripperWidth
  <2> QED BY <2>1, SameArmsKeepArrivals DEF Running
<1>4. ASSUME NEW c \in Commands, GripperStep(c) PROVE LoopsHead' /\ ArrivalsHead'
  <2>1. Step /\ UNCHANGED <<loop, arrived, raced>>
    BY <1>4 DEF GripperStep
  <2> QED BY <2>1, StepKeepsArrivals DEF Running
<1>5. CASE UNCHANGED vars
  <2>1. UNCHANGED <<armState, loop, arrived, raced>>
    BY <1>5 DEF vars
  <2> QED BY <1>5, <2>1, SameArmsKeepArrivals, NextKeepsInv DEF ArrivalInv, Running
<1> QED BY <1>1, <1>2, <1>3, <1>4, <1>5, NextKeepsInv DEF Next, ArrivalInv

-----------------------------------------------------------------------------
(* The grippers and their commands                                         *)

GripperSet == [current : 0 .. MaxWidth, target : 0 .. MaxWidth]

WidthsOK == \A g \in DOMAIN gripperState : gripperState[g] \in GripperSet

\* What ControlTypeOK says of the connection.
ConnectionOK ==
  /\ DOMAIN armState \in {{}, Arms}
  /\ DOMAIN gripperState = IF Connected THEN Grippers ELSE {}

CommandOK(c) ==
  \/ command[c] = Idle
  \/ command[c] \in [phase : {"step"}, gripper : {command[c].gripper}, width : Int, elapsed : Nat]

CommandsOK == command = [c \in Commands |-> command[c]] /\ \A c \in Commands : CommandOK(c)

\* A command whose target nobody else has changed has its gripper on the way,
\* at one unit of width for each of its own steps at least.
OnTheWay(c) ==
  /\ gripperState[command[c].gripper].target = command[c].width
  /\ Abs(gripperState[command[c].gripper].current - command[c].width) + command[c].elapsed
       <= MaxWidth

Undisturbed(c) ==
  /\ Executing(c) /\ c \notin disturbed
  /\ command[c].gripper \in DOMAIN gripperState /\ command[c].width \in 0 .. MaxWidth

WidthsFollow == \A c \in Commands : Undisturbed(c) => OnTheWay(c)

GripperInv == ControlInv /\ WidthsOK /\ CommandsOK /\ WidthsFollow

\* What GripperReachesWidth says of a step.
WidthReached ==
  \A c \in Commands :
    /\ Executing(c) /\ ~ Executing(c)' /\ ~ StepRaises
    /\ c \notin disturbed /\ MaxWidth <= Timeout
    /\ command[c].gripper \in DOMAIN gripperState /\ command[c].width \in 0 .. MaxWidth
    => gripperState'[command[c].gripper].current = command[c].width

\* A gripper moves one unit towards its target, or stays at it.
LEMMA WidthMoves ==
  ASSUME NEW m \in Nat, NEW x \in Int, NEW t \in Int, 0 <= x, x <= m, 0 <= t, t <= m
  PROVE  /\ Toward(x, t, 1) \in 0 .. m
         /\ Toward(x, t, 1) # t => Abs(Toward(x, t, 1) - t) + 1 <= Abs(x - t)
         /\ Abs(Toward(x, t, 1) - t) \in Nat /\ Abs(x - t) \in Nat
         /\ Abs(Toward(x, t, 1) - t) <= Abs(x - t)
BY DEF Toward, Clamped, AtLeast, AtMost, Abs

\* Whether the step raises or not, every gripper keeps its target and gets no
\* further away from it.
LEMMA StepMovesGrippers ==
  ASSUME WidthsOK, Step
  PROVE  /\ DOMAIN gripperState' = DOMAIN gripperState
         /\ \A g \in DOMAIN gripperState :
              /\ gripperState'[g] \in GripperSet
              /\ gripperState'[g].target = gripperState[g].target
              /\ \A w \in 0 .. MaxWidth : gripperState[g].target = w =>
                   /\ Abs(gripperState'[g].current - w) \in Nat
                   /\ Abs(gripperState[g].current - w) \in Nat
                   /\ Abs(gripperState'[g].current - w) <= Abs(gripperState[g].current - w)
                   /\ ~ StepRaises /\ gripperState'[g].current # w =>
                        Abs(gripperState'[g].current - w) + 1 <= Abs(gripperState[g].current - w)
<1>1. DOMAIN gripperState' = DOMAIN gripperState
  BY DEF Step
<1> SUFFICES ASSUME NEW g \in DOMAIN gripperState
             PROVE  /\ gripperState'[g] \in GripperSet
                    /\ gripperState'[g].target = gripperState[g].target
                    /\ \A w \in 0 .. MaxWidth : gripperState[g].target = w =>
                         /\ Abs(gripperState'[g].current - w) \in Nat
                         /\ Abs(gripperState[g].current - w) \in Nat
                         /\ Abs(gripperState'[g].current - w) <= Abs(gripperState[g].current - w)
                         /\ ~ StepRaises /\ gripperState'[g].current # w =>
                              Abs(gripperState'[g].current - w) + 1
                                <= Abs(gripperState[g].current - w)
  BY <1>1
<1> DEFINE x == gripperState[g].current
           t == gripperState[g].target
           y == Toward(x, t, 1)
<1>2. /\ gripperState[g] \in GripperSet /\ MaxWidth \in Nat
      /\ x \in Int /\ t \in Int /\ 0 <= x /\ x <= MaxWidth /\ 0 <= t /\ t <= MaxWidth
  BY DriverAssumption DEF WidthsOK, GripperSet
<1>3. /\ y \in 0 .. MaxWidth /\ (y # t => Abs(y - t) + 1 <= Abs(x - t))
      /\ Abs(y - t) \in Nat /\ Abs(x - t) \in Nat /\ Abs(y - t) <= Abs(x - t)
  <2> HIDE DEF x, t
  <2> QED BY <1>2, WidthMoves
<1>4. CASE StepRaises
  <2>1. gripperState'[g] = gripperState[g]
    BY <1>4 DEF Step
  <2> HIDE DEF y
  <2> QED BY <1>2, <1>3, <1>4, <2>1
<1>5. CASE ~ StepRaises
  <2>1. gripperState'[g] = [gripperState[g] EXCEPT !.current = y]
    BY <1>5 DEF Step
  <2> HIDE DEF y
  <2>2. gripperState'[g] = [current |-> y, target |-> t]
    BY <1>2, <2>1 DEF GripperSet
  <2> QED BY <1>2, <1>3, <2>2 DEF GripperSet
<1> QED BY <1>4, <1>5

\* Steps after which every gripper has what it had, or one step of the driver
\* more, and no command but the disturbed ones has changed.
LEMMA GrippersGoOn ==
  ASSUME WidthsOK, WidthsFollow, CommandsOK,
         UNCHANGED gripperState \/ Step,
         command' = command,
         \A c \in Commands : c \in disturbed => c \in disturbed'
  PROVE  WidthsOK' /\ WidthsFollow' /\ CommandsOK'
<1>1. DOMAIN gripperState' = DOMAIN gripperState
  BY DEF Step
<1>2. WidthsOK'
  BY <1>1, StepMovesGrippers DEF WidthsOK, GripperSet
<1>3. ASSUME NEW c \in Commands, Undisturbed(c)' PROVE OnTheWay(c)'
  <2> DEFINE g == command[c].gripper
             w == command[c].width
             n == command[c].elapsed
  <2>1. Undisturbed(c) /\ OnTheWay(c) /\ w \in 0 .. MaxWidth /\ g \in DOMAIN gripperState
    BY <1>1, <1>3 DEF Undisturbed, Executing, WidthsFollow
  <2>2. n \in Nat
    BY <2>1 DEF CommandsOK, CommandOK, Undisturbed, Executing, Idle
  <2>3. MaxWidth \in Nat
    BY DriverAssumption
  <2>4. CASE UNCHANGED gripperState
    BY <2>1, <2>4 DEF OnTheWay
  <2>5. CASE Step
    <3>1. /\ gripperState[g].target = w
          /\ Abs(gripperState[g].current - w) + n <= MaxWidth
      BY <2>1 DEF OnTheWay
    <3>2. /\ gripperState'[g].target = w
          /\ Abs(gripperState'[g].current - w) \in Nat /\ Abs(gripperState[g].current - w) \in Nat
          /\ Abs(gripperState'[g].current - w) <= Abs(gripperState[g].current - w)
      BY <2>1, <2>5, <3>1, StepMovesGrippers
    <3> HIDE DEF g, w, n
    <3>3. Abs(gripperState'[g].current - w) + n <= MaxWidth
      BY <2>2, <2>3, <3>1, <3>2
    <3> QED BY <3>2, <3>3 DEF OnTheWay, g, w, n
  <2> QED BY <2>4, <2>5
<1>4. WidthsFollow'
  BY <1>3 DEF WidthsFollow
<1>5. CommandsOK'
  BY DEF CommandsOK, CommandOK
<1> QED BY <1>2, <1>4, <1>5

\* Nobody disturbs a command but by a stop or a command for its gripper.
LEMMA OthersAreCommands ==
  ASSUME NEW l \in Loops
  PROVE  \A c \in Commands : c \in disturbed => c \in disturbed \ {l}
BY ControlAssumption

\* The steps of a trajectory loop.
LEMMA LoopKeepsGrippers ==
  ASSUME GripperInv, NEW l \in Loops, ExecuteGoal(l) \/ ExecutePlan(l) \/ TrajectoryStep(l)
  PROVE  WidthsOK' /\ WidthsFollow' /\ CommandsOK' /\ WidthReached
<1>1. command' = command
  BY DEF ExecuteGoal, ExecutePlan, Execute, TrajectoryStep, MarkBusy, ReturnEmpty,
         CancelTrajectory, CommandPoint,
         StepDriver, MeasurePoint, Raise
<1>2. WidthReached
  BY <1>1 DEF WidthReached, Executing
<1>3. CASE ExecuteGoal(l) \/ ExecutePlan(l) \/ MarkBusy(l)
  <2>1. UNCHANGED <<gripperState, disturbed>>
    BY <1>3 DEF ExecuteGoal, ExecutePlan, Execute, MarkBusy, driver
  <2> QED BY <1>1, <1>2, <2>1, GrippersGoOn DEF GripperInv
<1>4. CASE CommandPoint(l) \/ MeasurePoint(l) \/ ReturnEmpty(l)
  <2>1. UNCHANGED gripperState /\ disturbed' \in {disturbed, disturbed \ {l}}
    BY <1>4 DEF CommandPoint, MeasurePoint, ReturnEmpty, Raise, SetJointPositions, driver
  <2> QED BY <1>1, <1>2, <2>1, OthersAreCommands, GrippersGoOn DEF GripperInv
<1>5. CASE StepDriver(l)
  <2>1. Step /\ disturbed' \in {disturbed, disturbed \ {l}}
    BY <1>5 DEF StepDriver, Raise
  <2> QED BY <1>1, <1>2, <2>1, OthersAreCommands, GrippersGoOn DEF GripperInv
<1>6. CASE CancelTrajectory(l)
  <2>1. /\ gripperState' = [g \in DOMAIN gripperState |->
                              [gripperState[g] EXCEPT !.target = gripperState[g].current]]
        /\ disturbed' = (disturbed \cup Others(l)) \ {l}
    BY <1>6 DEF CancelTrajectory, EmergencyStop
  <2>2. WidthsOK'
    BY <2>1 DEF GripperInv, WidthsOK, GripperSet
  <2>3. \A c \in Commands : Executing(c) => c \in disturbed'
    BY <2>1, ControlAssumption DEF Others
  <2>4. WidthsFollow'
    BY <1>1, <2>3 DEF WidthsFollow, Undisturbed, Executing
  <2>5. CommandsOK'
    BY <1>1 DEF GripperInv, CommandsOK, CommandOK
  <2> QED BY <1>2, <2>2, <2>4, <2>5
<1> QED BY <1>3, <1>4, <1>5, <1>6 DEF TrajectoryStep

\* A command begins with its gripper on the way, and disturbs the others'.
LEMMA GripperExecuteKeepsGrippers ==
  ASSUME GripperInv, NEW c \in Commands, GripperExecute(c)
  PROVE  WidthsOK' /\ WidthsFollow' /\ CommandsOK' /\ WidthReached
<1>1. PICK request \in Widths :
        /\ ~ Executing(c)
        /\ request.gripper \in DOMAIN gripperState
        /\ SetGripperWidth(request.gripper, request.width)
        /\ command' = [command EXCEPT ![c] = [phase |-> "step", gripper |-> request.gripper,
                                              width |-> request.width, elapsed |-> 0]]
        /\ disturbed' = disturbed
             \cup {k \in Commands : Executing(k) /\ command[k].gripper = request.gripper}
  BY DEF GripperExecute
<1> DEFINE g == request.gripper
           w == request.width
           t == Clamped(w, 0, MaxWidth)
<1>2. /\ w \in Int /\ MaxWidth \in Nat /\ t \in 0 .. MaxWidth
      /\ w \in 0 .. MaxWidth => t = w
  <2>1. w \in Int /\ MaxWidth \in Nat
    BY ControlAssumption, DriverAssumption
  <2> HIDE DEF w
  <2> QED BY <2>1, ClampedFacts
<1>3. /\ gripperState' = [gripperState EXCEPT ![g].target = t]
      /\ gripperState[g] \in GripperSet
  BY <1>1 DEF SetGripperWidth, GripperInv, WidthsOK
<1> HIDE DEF t
<1>4. /\ DOMAIN gripperState' = DOMAIN gripperState
      /\ gripperState'[g] = [current |-> gripperState[g].current, target |-> t]
      /\ \A h \in DOMAIN gripperState \ {g} : gripperState'[h] = gripperState[h]
  <2>1. gripperState' = [gripperState EXCEPT ![g] = [gripperState[g] EXCEPT !.target = t]]
    BY <1>3 DEF GripperInv, ControlInv, DriverOK
  <2>2. [gripperState[g] EXCEPT !.target = t] = [current |-> gripperState[g].current, target |-> t]
    BY <1>3 DEF GripperSet
  <2>3. DOMAIN gripperState' = DOMAIN gripperState
    BY <1>3
  <2> QED BY <1>1, <2>1, <2>2, <2>3 DEF GripperInv, ControlInv, DriverOK
<1>5. WidthsOK'
  BY <1>2, <1>3, <1>4 DEF GripperInv, WidthsOK, GripperSet
<1>6. /\ command' = [k \in Commands |-> command'[k]]
      /\ command'[c] = [phase |-> "step", gripper |-> g, width |-> w, elapsed |-> 0]
      /\ \A k \in Commands \ {c} : command'[k] = command[k]
  BY <1>1 DEF GripperInv, CommandsOK
<1>7. CommandsOK'
  BY <1>2, <1>6 DEF GripperInv, CommandsOK, CommandOK
<1>8. OnTheWay(c)' \/ ~ Undisturbed(c)'
  <2> SUFFICES ASSUME w \in 0 .. MaxWidth PROVE OnTheWay(c)'
    BY <1>6 DEF Undisturbed
  <2>1. t = w /\ gripperState'[g].target = w
    BY <1>2, <1>4
  <2>2. gripperState'[g].current \in 0 .. MaxWidth
    BY <1>3, <1>4 DEF GripperSet
  <2>3. Abs(gripperState'[g].current - w) + 0 <= MaxWidth
    <3> DEFINE x == gripperState'[g].current
    <3>1. x \in 0 .. MaxWidth
      BY <2>2
    <3> HIDE DEF x, w
    <3>2. Abs(x - w) + 0 <= MaxWidth
      BY <1>2, <3>1 DEF Abs
    <3> QED BY <3>2 DEF x
  <2> QED BY <1>6, <2>1, <2>3 DEF OnTheWay
<1>9. ASSUME NEW k \in Commands, k # c, Undisturbed(k)' PROVE OnTheWay(k)'
  <2>1. command'[k] = command[k]
    BY <1>6, <1>9
  <2>2. Executing(k) /\ k \notin disturbed /\ command[k].gripper # g
    BY <1>1, <1>9, <2>1 DEF Undisturbed, Executing
  <2>3. gripperState'[command[k].gripper] = gripperState[command[k].gripper] /\ OnTheWay(k)
    BY <1>4, <1>9, <2>1, <2>2 DEF Undisturbed, GripperInv, WidthsFollow
  <2> QED BY <2>1, <2>3 DEF OnTheWay
<1>10. WidthsFollow'
  BY <1>8, <1>9 DEF WidthsFollow
<1>11. WidthReached
  BY <1>1, <1>6 DEF WidthReached, Executing
<1> QED BY <1>5, <1>7, <1>10, <1>11

\* A step of a command brings its gripper one unit nearer for the unit of time
\* it counts, so that the wait ends at the width and not at the time.
LEMMA GripperStepKeepsGrippers ==
  ASSUME GripperInv, NEW c \in Commands, GripperStep(c)
  PROVE  WidthsOK' /\ WidthsFollow' /\ CommandsOK' /\ WidthReached
<1> DEFINE g == command[c].gripper
           w == command[c].width
           n == command[c].elapsed
           waits == ~ StepRaises /\ g \in DOMAIN gripperState /\ Waits(c, n + 1)
<1>1. /\ Executing(c) /\ Step
      /\ waits => /\ command' = [command EXCEPT ![c].elapsed = AtMost(n + 1, Timeout)]
                  /\ disturbed' = disturbed
      /\ ~ waits => /\ command' = [command EXCEPT ![c] = Idle]
                    /\ disturbed' = disturbed \ {c}
  BY DEF GripperStep, Respond
<1>2. /\ command[c] \in [phase : {"step"}, gripper : {g}, width : Int, elapsed : Nat]
      /\ w \in Int /\ n \in Nat /\ MaxWidth \in Nat /\ Timeout \in Int
  BY <1>1, DriverAssumption, ControlAssumption
     DEF GripperInv, CommandsOK, CommandOK, Executing, Idle
<1>3. WidthsOK' /\ DOMAIN gripperState' = DOMAIN gripperState
  BY <1>1, StepMovesGrippers DEF GripperInv, WidthsOK, GripperSet
<1>4. \A k \in Commands \ {c} : command'[k] = command[k]
  BY <1>1 DEF GripperInv, CommandsOK
<1>5. waits => /\ command'[c] = [phase |-> "step", gripper |-> g, width |-> w, elapsed |-> n + 1]
               /\ gripperState'[g].current # w
  <2> SUFFICES ASSUME waits PROVE /\ command'[c] = [phase |-> "step", gripper |-> g,
                                                    width |-> w, elapsed |-> n + 1]
                                  /\ gripperState'[g].current # w
    OBVIOUS
  <2>1. n + 1 < Timeout /\ gripperState'[g].current # w
    BY DEF Waits
  <2>2. AtMost(n + 1, Timeout) = n + 1
    BY <1>2, <2>1 DEF AtMost
  <2>3. command'[c] = [command[c] EXCEPT !.elapsed = n + 1]
    BY <1>1, <2>2 DEF GripperInv, CommandsOK
  <2> QED BY <1>2, <2>1, <2>3
<1>6. ~ waits => command'[c] = Idle
  BY <1>1 DEF GripperInv, CommandsOK
<1>7. command' = [k \in Commands |-> command'[k]]
  BY <1>1 DEF GripperInv, CommandsOK
\* How near the gripper of an undisturbed command is.
<1>8. ASSUME Undisturbed(c)
      PROVE  /\ Abs(gripperState[g].current - w) + n <= MaxWidth
             /\ gripperState'[g].target = w
             /\ Abs(gripperState'[g].current - w) \in Nat
             /\ Abs(gripperState[g].current - w) \in Nat
             /\ ~ StepRaises /\ gripperState'[g].current # w =>
                  Abs(gripperState'[g].current - w) + 1 <= Abs(gripperState[g].current - w)
  <2>1. OnTheWay(c) /\ g \in DOMAIN gripperState /\ w \in 0 .. MaxWidth
    BY <1>8 DEF Undisturbed, GripperInv, WidthsFollow
  <2>2. gripperState[g].target = w /\ Abs(gripperState[g].current - w) + n <= MaxWidth
    BY <2>1 DEF OnTheWay
  <2> QED BY <1>1, <2>1, <2>2, StepMovesGrippers DEF GripperInv
<1>9. CommandsOK'
  BY <1>2, <1>4, <1>5, <1>6, <1>7 DEF GripperInv, CommandsOK, CommandOK
<1>10. ASSUME Undisturbed(c)' PROVE OnTheWay(c)'
  <2>1. waits
    BY <1>6, <1>10 DEF Undisturbed, Executing, Idle
  <2>2. Undisturbed(c)
    BY <1>1, <1>3, <1>5, <1>10, <2>1 DEF Undisturbed, Executing
  <2>3. Abs(gripperState'[g].current - w) + (n + 1) <= MaxWidth
    <3> DEFINE near == Abs(gripperState'[g].current - w)
               far == Abs(gripperState[g].current - w)
    <3>1. near \in Nat /\ far \in Nat /\ far + n <= MaxWidth /\ near + 1 <= far
      BY <1>5, <1>8, <2>1, <2>2
    <3> HIDE DEF near, far, n
    <3>2. near + (n + 1) <= MaxWidth
      BY <1>2, <3>1
    <3> QED BY <3>2 DEF near
  <2> QED BY <1>5, <1>8, <2>1, <2>2, <2>3 DEF OnTheWay
<1>11. ASSUME NEW k \in Commands, k # c, Undisturbed(k)' PROVE OnTheWay(k)'
  <2> DEFINE h == command[k].gripper
             v == command[k].width
             m == command[k].elapsed
  <2>1. command'[k] = command[k]
    BY <1>4, <1>11
  <2>2. Undisturbed(k) /\ OnTheWay(k) /\ v \in 0 .. MaxWidth /\ h \in DOMAIN gripperState
    BY <1>1, <1>3, <1>11, <2>1 DEF Undisturbed, Executing, GripperInv, WidthsFollow
  <2>3. m \in Nat
    BY <2>2 DEF GripperInv, CommandsOK, CommandOK, Undisturbed, Executing, Idle
  <2>4. gripperState[h].target = v /\ Abs(gripperState[h].current - v) + m <= MaxWidth
    BY <2>2 DEF OnTheWay
  <2>5. /\ gripperState'[h].target = v
        /\ Abs(gripperState'[h].current - v) \in Nat /\ Abs(gripperState[h].current - v) \in Nat
        /\ Abs(gripperState'[h].current - v) <= Abs(gripperState[h].current - v)
    BY <1>1, <2>2, <2>4, StepMovesGrippers DEF GripperInv
  <2> HIDE DEF h, v, m
  <2>6. Abs(gripperState'[h].current - v) + m <= MaxWidth
    BY <1>2, <2>3, <2>4, <2>5
  <2> QED BY <2>1, <2>5, <2>6 DEF OnTheWay, h, v, m
<1>12. WidthsFollow'
  BY <1>10, <1>11 DEF WidthsFollow
<1>13. WidthReached
  <2> SUFFICES ASSUME NEW k \in Commands, Executing(k), ~ Executing(k)', ~ StepRaises,
                      k \notin disturbed, MaxWidth <= Timeout,
                      command[k].gripper \in DOMAIN gripperState,
                      command[k].width \in 0 .. MaxWidth
               PROVE  gripperState'[command[k].gripper].current = command[k].width
    BY DEF WidthReached
  <2>1. k = c /\ Undisturbed(c)
    BY <1>4 DEF Executing, Undisturbed
  <2>2. ~ waits
    BY <1>5, <2>1 DEF Executing
  <2>3. n + 1 >= Timeout \/ gripperState'[g].current = w
    BY <1>2, <2>1, <2>2 DEF Waits
  <2>4. gripperState'[g].current \in Int
    BY <1>3, <2>1 DEF WidthsOK, GripperSet
  <2>5. CASE gripperState'[g].current # w
    <3> DEFINE x == gripperState'[g].current
               near == Abs(x - w)
               far == Abs(gripperState[g].current - w)
    <3>1. /\ near \in Nat /\ far \in Nat /\ far + n <= MaxWidth /\ near + 1 <= far
          /\ n + 1 >= Timeout
      BY <1>8, <2>1, <2>3, <2>5
    <3>2. x \in Int
      BY <2>4
    <3> HIDE DEF far, n, x, w
    <3>3. near <= 0
      <4> HIDE DEF near
      <4> QED BY <1>2, <3>1
    <3>4. x = w
      BY <1>2, <3>1, <3>2, <3>3 DEF Abs
    <3> QED BY <2>5, <3>4 DEF x, w
  <2> QED BY <2>1, <2>5
<1> QED BY <1>3, <1>9, <1>12, <1>13

\* Shutdown forgets all arms and all grippers; no other step connects or
\* disconnects one.
LEMMA StepKeepsConnection ==
  ASSUME ControlInv, ConnectionOK, Arms # {}, [Next]_vars
  PROVE  ConnectionOK'
<1>1. CASE Shutdown
  <2>1. DOMAIN armState' = {} /\ DOMAIN gripperState' = {}
    BY <1>1 DEF Shutdown, Disconnect
  <2> QED BY <2>1 DEF ConnectionOK, Connected
<1>2. CASE ~ Shutdown
  <2>1. DOMAIN armState' = DOMAIN armState /\ DOMAIN gripperState' = DOMAIN gripperState
    <3>1. CASE Step
      BY <3>1 DEF Step
    <3>2. CASE EmergencyStop
      BY <3>2 DEF EmergencyStop
    <3>3. ASSUME NEW a, NEW p, NEW s, SetJointPositions(a, p, s)
          PROVE  DOMAIN armState' = DOMAIN armState /\ DOMAIN gripperState' = DOMAIN gripperState
      BY <3>3 DEF SetJointPositions
    <3>4. ASSUME NEW g, NEW w, SetGripperWidth(g, w)
          PROVE  DOMAIN armState' = DOMAIN armState /\ DOMAIN gripperState' = DOMAIN gripperState
      BY <3>4 DEF SetGripperWidth
    <3>5. \/ Step \/ EmergencyStop \/ UNCHANGED driver
          \/ \E a, p, s : SetJointPositions(a, p, s)
          \/ \E g, w : SetGripperWidth(g, w)
      <4>1. CASE UNCHANGED vars
        BY <4>1 DEF vars, driver
      <4>2. ASSUME NEW l \in Loops, ExecuteGoal(l) \/ ExecutePlan(l)
            PROVE  UNCHANGED driver
        BY <4>2 DEF ExecuteGoal, ExecutePlan, Execute
      <4>3. ASSUME NEW l \in Loops, TrajectoryStep(l)
            PROVE  \/ Step \/ EmergencyStop \/ UNCHANGED driver
                   \/ \E a, p, s : SetJointPositions(a, p, s)
        <5>1. CASE CommandPoint(l)
          BY <5>1, Zenon DEF CommandPoint
        <5> QED BY <4>3, <5>1 DEF TrajectoryStep, MarkBusy, ReturnEmpty, CancelTrajectory,
                                  StepDriver, MeasurePoint
      <4>4. ASSUME NEW c \in Commands, GripperExecute(c)
            PROVE  \E g, w : SetGripperWidth(g, w)
        BY <4>4, Zenon DEF GripperExecute
      <4>5. ASSUME NEW c \in Commands, GripperStep(c) PROVE Step
        BY <4>5 DEF GripperStep
      <4> QED BY <1>2, <4>1, <4>2, <4>3, <4>4, <4>5 DEF Next
    <3>6. UNCHANGED driver => /\ DOMAIN armState' = DOMAIN armState
                              /\ DOMAIN gripperState' = DOMAIN gripperState
      BY DEF driver
    <3> QED BY <3>1, <3>2, <3>3, <3>4, <3>5, <3>6
  <2> QED BY <2>1 DEF ConnectionOK, Connected
<1> QED BY <1>1, <1>2

LEMMA GripperStepInv == GripperInv /\ [Next]_vars => GripperInv' /\ WidthReached
<1> SUFFICES ASSUME GripperInv, [Next]_vars
             PROVE  WidthsOK' /\ WidthsFollow' /\ CommandsOK' /\ WidthReached
  BY NextKeepsInv DEF GripperInv
<1>1. CASE Shutdown
  <2>1. DOMAIN gripperState' = {} /\ command' = command
    BY <1>1 DEF Shutdown, Disconnect
  <2>2. CommandsOK' /\ WidthReached
    BY <2>1 DEF GripperInv, CommandsOK, CommandOK, WidthReached, Executing
  <2> QED BY <2>1, <2>2 DEF WidthsOK, WidthsFollow, Undisturbed
<1>2. ASSUME NEW l \in Loops, ExecuteGoal(l) \/ ExecutePlan(l) \/ TrajectoryStep(l)
      PROVE  WidthsOK' /\ WidthsFollow' /\ CommandsOK' /\ WidthReached
  BY <1>2, LoopKeepsGrippers
<1>3. ASSUME NEW c \in Commands, GripperExecute(c) \/ GripperStep(c)
      PROVE  WidthsOK' /\ WidthsFollow' /\ CommandsOK' /\ WidthReached
  BY <1>3, GripperExecuteKeepsGrippers, GripperStepKeepsGrippers
<1>4. CASE UNCHANGED vars
  <2>1. UNCHANGED <<gripperState, command, disturbed>>
    BY <1>4 DEF vars
  <2>2. WidthReached
    BY <2>1 DEF WidthReached, Executing
  <2> QED BY <2>1, <2>2, GrippersGoOn DEF GripperInv
<1> QED BY <1>1, <1>2, <1>3, <1>4 DEF Next

LEMMA InitGripperInv == Init => GripperInv /\ ConnectionOK
<1> SUFFICES ASSUME Init PROVE GripperInv /\ ConnectionOK
  OBVIOUS
<1>1. /\ gripperState = [g \in Grippers |-> [current |-> MaxWidth, target |-> MaxWidth]]
      /\ MaxWidth \in Nat /\ DOMAIN armState = Arms
  BY DriverAssumption DEF Init, DriverInit
<1>2. WidthsOK /\ ConnectionOK
  BY <1>1 DEF WidthsOK, GripperSet, ConnectionOK, Connected
<1>3. CommandsOK /\ WidthsFollow
  BY DEF Init, CommandsOK, CommandOK, WidthsFollow, Undisturbed, Executing, Idle
<1> QED BY <1>2, <1>3, InitInv DEF GripperInv

LEMMA InitArrivalInv == Init => ArrivalInv
<1> SUFFICES ASSUME Init PROVE LoopsHead /\ ArrivalsHead
  BY InitInv DEF ArrivalInv
<1>1. LoopsHead
  BY DEF Init, LoopsHead, Running, Idle
<1>2. /\ arrived = [a \in Arms |-> <<>>] /\ DOMAIN armState = Arms
      /\ \A a \in Arms : NumJoints[a] \in Nat
  BY LimitsTyped DEF Init, Anywhere, DriverInit
<1>3. \A a \in Arms : arrived[a] \in Seq(Int) /\ Len(arrived[a]) <= NumJoints[a]
  BY <1>2
<1>4. \A a \in Arms : DOMAIN arrived[a] = {}
  BY <1>2
<1>5. \A a \in Arms : Heads(a, arrived[a]) /\ Within(a, arrived[a])
  BY <1>4 DEF Heads, Within
<1> QED BY <1>1, <1>2, <1>3, <1>5 DEF ArrivalsHead

\* The types, and what a success has reached, follow from what the steps keep.
LEMMA InvariantsGiveState ==
  ArrivalInv /\ GripperInv /\ ConnectionOK => ControlStateOK
<1> SUFFICES ASSUME ArrivalInv, GripperInv, ConnectionOK PROVE ControlStateOK
  OBVIOUS
<1>1. ASSUME NEW a \in DOMAIN armState PROVE armState[a] \in ArmStates
  <2>1. a \in Arms /\ armState[a] \in ArmSet(a)
    BY DEF GripperInv, ControlInv, DriverOK
  <2>2. NumJoints[a] \in Nat /\ \A x \in Between(a) : x \in Int
    BY <2>1, LimitsTyped DEF Between
  <2>3. /\ armState[a].current \in [1 .. NumJoints[a] -> Between(a)]
        /\ armState[a].target \in Seq(Between(a))
    BY <2>1 DEF ArmSet
  <2>4. armState[a].current \in Seq(Int) /\ armState[a].target \in Seq(Int)
    BY <2>2, <2>3
  <2> QED BY <2>1, <2>4 DEF ArmSet, ArmStates
<1>2. ControlTypeOK
  BY <1>1 DEF GripperInv, ControlInv, ConnectionOK, LoopsOK, WidthsOK, GripperSet, ControlTypeOK
<1>3. SuccessIsKept
  BY DEF ArrivalInv, ArrivalsHead, Within, SuccessIsKept
<1> QED BY <1>2, <1>3 DEF ControlStateOK

\* The variables of the package keep their types, and where a trajectory ended in
\* success the arm stays within the threshold, whatever other loops command, step
\* and stop, for a driver with at least one arm (without one, an empty
\* _arm_states does not tell whether the driver is connected).
THEOREM ControlKeepsState ==
  ASSUME Arms # {}
  PROVE  Spec => []ControlStateOK
<1>1. Init => ArrivalInv /\ GripperInv /\ ConnectionOK
  BY InitArrivalInv, InitGripperInv
<1>2. ArrivalInv /\ GripperInv /\ ConnectionOK /\ [Next]_vars
        => ArrivalInv' /\ GripperInv' /\ ConnectionOK'
  BY ArrivalStep, GripperStepInv, StepKeepsConnection DEF GripperInv
<1>3. ArrivalInv /\ GripperInv /\ ConnectionOK => ControlStateOK
  BY InvariantsGiveState
<1> QED BY <1>1, <1>2, <1>3, PTL DEF Spec

\* A gripper command ends with the gripper at the width asked for, for any number
\* of loops and commands that step the driver, unless somebody else has
\* stopped or commanded the gripper, a step has raised, the width is out of
\* range, or a gripper needs more than the time given from end to end
\* (GripperController.execute, step).
THEOREM WidthIsReached == Spec => GripperReachesWidth
<1>1. Init => GripperInv
  BY InitGripperInv
<1>2. GripperInv /\ [Next]_vars => GripperInv'
  BY GripperStepInv
<1>3. GripperInv /\ [Next]_vars => [WidthReached]_vars
  BY GripperStepInv
<1> QED BY <1>1, <1>2, <1>3, PTL DEF Spec, GripperReachesWidth, WidthReached

-----------------------------------------------------------------------------
(* Arithmetic of a course                                                  *)

\* A division by a positive number rounds down, and not at all without a remainder.
LEMMA DivBounds ==
  ASSUME NEW a \in Int, NEW q \in Nat \ {0}
  PROVE  /\ a \div q \in Int
         /\ q * (a \div q) <= a /\ a < q * (a \div q) + q
         /\ a % q = 0 => q * (a \div q) = a
OBVIOUS

\* Products with a natural number keep an order, and a positive one gives it back.
LEMMA Products ==
  ASSUME NEW a \in Nat, NEW x \in Int, NEW y \in Int
  PROVE  /\ a * x \in Int
         /\ x <= y => a * x <= a * y
         /\ a # 0 /\ a * x < a * y => x < y
         /\ a # 0 /\ a * x <= a * y => x <= y
OBVIOUS

\* A multiple leaves no remainder.
LEMMA MultipleDivides ==
  ASSUME NEW q \in Nat \ {0}, NEW r \in Int
  PROVE  (q * r) % q = 0
<1> DEFINE a == q * r
           s == a \div q
<1>1. a \in Int
  OBVIOUS
<1> HIDE DEF a
<1>2. s \in Int /\ q * s <= a /\ a < q * s + q /\ a = q * s + (a % q)
  BY <1>1
<1> HIDE DEF s
<1>3. q * s <= q * r /\ q * r < q * (s + 1)
  BY <1>2 DEF a
<1>4. s <= r /\ r < s + 1
  BY <1>2, <1>3, Products
<1>5. s = r
  BY <1>2, <1>4
<1>6. a = q * s /\ q * s \in Int /\ a % q \in Int
  BY <1>1, <1>2, <1>5 DEF a
<1>7. a % q = 0
  BY <1>1, <1>2, <1>6
<1> QED BY <1>7 DEF a

\* A line divided by a number loses no more in a period than its slope.
LEMMA CourseSpeed ==
  ASSUME NEW A \in Nat \ {0}, NEW B \in Nat, NEW C \in Int, NEW T \in Int, NEW v \in Nat, B <= A * v
  PROVE  (C - B * T) \div A <= (C - B * (T + 1)) \div A + v
<1> DEFINE p == C - B * T
           q == C - B * (T + 1)
           f == p \div A
           g == q \div A
<1>1. p \in Int /\ q \in Int /\ p = q + B
  OBVIOUS
<1> HIDE DEF p, q
<1>2. f \in Int /\ g \in Int /\ A * f <= p /\ q < A * g + A
  BY <1>1, DivBounds
<1> HIDE DEF f, g
<1>3. A * f \in Int /\ A * g \in Int /\ A * v \in Int
  BY <1>2
<1>4. A * f < A * g + A + A * v
  BY <1>1, <1>2, <1>3
<1>5. A * f < A * (g + 1 + v)
  BY <1>2, <1>4
<1>6. f < g + 1 + v
  BY <1>2, <1>5, Products
<1> QED BY <1>2, <1>6 DEF f, g, p, q

\* One point i, held until the time s: x is how far it is from the start.
LEMMA CoursePoint ==
  ASSUME NEW n \in Nat \ {0}, NEW V \in Nat \ {0}, NEW D \in Nat \ {0}, NEW d \in Nat, d <= D,
         NEW E \in Nat, V <= E \/ D % (n * V) = 0,
         NEW e1 \in Nat, NEW e2 \in Nat, e1 + e2 = n - 1,
         NEW i \in Nat, NEW x \in Int, i * d - e1 <= n * x, n * x <= i * d + e2,
         NEW s \in Int, s = ((i + 1) * D) \div (n * V)
  PROVE  /\ - ((D * (d + e1) - (n * V * d) * s) \div (n * D)) <= x
         /\ x <= E - ((D * (d + e1) - (n * V * d) * s) \div (n * D))
<1> DEFINE A == n * D
           N == n * V
           P == (i + 1) * D
           C == D * (d + e1)
           R == C - (N * d) * s
           f == R \div A
<1>1. /\ A \in Nat \ {0} /\ N \in Nat \ {0} /\ P \in Int /\ C \in Int /\ R \in Int
  OBVIOUS
<1>2. /\ s \in Int /\ N * s <= P /\ P < N * s + N
      /\ P % N = 0 => N * s = P
  <2> HIDE DEF N, P
  <2> QED BY <1>1, DivBounds DEF N, P
<1>3. f \in Int /\ A * f <= R /\ R < A * f + A
  <2> HIDE DEF A, R
  <2> QED BY <1>1, DivBounds
<1>4. R = C - d * (N * s)
  OBVIOUS
<1>5. /\ d * (N * s) <= d * P
      /\ d * P <= d * (N * s) + d * (N - 1)
  <2>1. N * s \in Int /\ P <= N * s + (N - 1)
    <3> HIDE DEF N, P
    <3> QED BY <1>1, <1>2
  <2>2. d * P <= d * (N * s + (N - 1))
    <3> HIDE DEF N, P
    <3> QED BY <1>1, <2>1, Products
  <2> HIDE DEF N, P
  <2> QED BY <1>1, <1>2, <2>1, <2>2, Products
<1>6. d * P = D * (i * d) + D * d
  OBVIOUS
<1>7. C = D * d + D * e1
  OBVIOUS
<1>8. /\ A * x = D * (n * x)
      /\ D * (i * d) - D * e1 <= A * x /\ A * x <= D * (i * d) + D * e2
  <2>1. D * (i * d - e1) <= D * (n * x) /\ D * (n * x) <= D * (i * d + e2)
    <3>1. i * d \in Int /\ n * x \in Int
      OBVIOUS
    <3> DEFINE y == n * x
               z == i * d
    <3> HIDE DEF y, z
    <3> QED BY <3>1, Products DEF y, z
  <2> QED BY <2>1
<1>9. /\ A * x \in Int /\ D * (i * d) \in Int /\ D * d \in Int /\ D * e1 \in Int /\ D * e2 \in Int
      /\ d * (N * s) \in Int /\ d * (N - 1) \in Int /\ D * (n - 1) = D * e1 + D * e2
      /\ D * (n - 1) = A - D
  <2>1. N * s \in Int /\ D * (n - 1) = D * (e1 + e2)
    BY <1>1, <1>2
  <2>2. D * (e1 + e2) = D * e1 + D * e2 /\ D * (n - 1) = A - D
    OBVIOUS
  <2> HIDE DEF N, A
  <2> QED BY <1>1, <2>1, <2>2
<1>10. /\ - R <= A * x
       /\ A * x + R <= A - D + d * (N - 1)
       /\ P % N = 0 => A * x + R <= A - D
  <2>1. P % N = 0 => d * (N * s) = d * P
    BY <1>2
  <2> DEFINE dP == d * P
             dNs == d * (N * s)
             k == d * (N - 1)
             a == A * x
             b == D * (i * d)
             c == D * d
             m1 == D * e1
             m2 == D * e2
  <2>2. /\ dP \in Int /\ dNs \in Int /\ k \in Int /\ a \in Int /\ b \in Int /\ c \in Int
        /\ m1 \in Int /\ m2 \in Int
        /\ dP = b + c /\ C = c + m1 /\ R = C - dNs /\ dNs <= dP /\ dP <= dNs + k
        /\ b - m1 <= a /\ a <= b + m2 /\ m1 + m2 = A - D
        /\ P % N = 0 => dNs = dP
    BY <1>4, <1>5, <1>6, <1>7, <1>8, <1>9, <2>1
  <2> HIDE DEF dP, dNs, k, a, b, c, m1, m2, A, C, R, P, N
  <2>3. - R <= a /\ a + R <= A - D + k /\ (P % N = 0 => a + R <= A - D)
    BY <1>1, <2>2
  <2> QED BY <2>3 DEF a, k
<1>11. - f <= x
  <2>1. A * (- x) < A * (f + 1)
    <3>1. A * (- x) = - (A * x) /\ A * (f + 1) = A * f + A
      <4> HIDE DEF A, f
      <4> QED BY <1>1, <1>3
    <3> HIDE DEF A, f, R
    <3> QED BY <1>1, <1>3, <1>9, <1>10, <3>1
  <2> HIDE DEF A, f
  <2>2. - x < f + 1
    BY <1>1, <1>3, <2>1, Products
  <2> QED BY <1>3, <2>2
<1>12. x + f <= E
  <2>1. A * (x + f) = A * x + A * f /\ A * (x + f) <= A * x + R
    <3> HIDE DEF A, f, R
    <3> QED BY <1>1, <1>3, <1>9
  <2>2. CASE V <= E
    <3>1. d * (N - 1) <= D * (N - 1)
      OBVIOUS
    <3>2. D * (N - 1) = A * V - D
      OBVIOUS
    <3>3. A * V <= A * E
      <4> HIDE DEF A
      <4> QED BY <1>1, <2>2, Products
    <3>4. A * (x + f) < A * (E + 1)
      <4>1. A * (E + 1) = A * E + A /\ A * E \in Int /\ A * V \in Int
        <5> HIDE DEF A
        <5> QED BY <1>1
      <4> DEFINE k == d * (N - 1)
                 q == D * (N - 1)
                 aV == A * V
                 aE == A * E
                 ax == A * x
                 y == A * (x + f)
                 z == A * (E + 1)
      <4>2. /\ k \in Int /\ q \in Int /\ aV \in Int /\ aE \in Int /\ ax \in Int
            /\ k <= q /\ q = aV - D /\ aV <= aE /\ z = aE + A /\ y <= ax + R
            /\ ax + R <= A - D + k
        BY <1>9, <1>10, <2>1, <3>1, <3>2, <3>3, <4>1
      <4>3. y \in Int
        <5> HIDE DEF A, f
        <5> QED BY <1>1, <1>3
      <4> HIDE DEF k, q, aV, aE, ax, y, z, A, R
      <4>4. y < z
        BY <1>1, <4>2, <4>3
      <4> QED BY <4>4 DEF y, z
    <3> HIDE DEF A, f
    <3>5. x + f < E + 1
      BY <1>1, <1>3, <3>4, Products
    <3> QED BY <1>3, <3>5
  <2>3. CASE D % N = 0
    <3>1. P % N = 0
      <4>1. D = N * (D \div N) /\ D \div N \in Int
        <5> HIDE DEF N
        <5> QED BY <1>1, <2>3, DivBounds
      <4>2. PICK q \in Int : D = N * q
        <5> HIDE DEF N
        <5> QED BY <4>1
      <4>3. P = N * ((i + 1) * q)
        BY <4>2
      <4> DEFINE r == (i + 1) * q
      <4>4. r \in Int
        BY <4>2
      <4> HIDE DEF r, N, P
      <4> QED BY <1>1, <4>3, <4>4, MultipleDivides DEF r
    <3>2. A * (x + f) < A * 1
      <4> HIDE DEF A, f, R, P, N
      <4> QED BY <1>1, <1>3, <1>9, <1>10, <2>1, <3>1
    <3> HIDE DEF A, f
    <3>3. x + f < 1
      BY <1>1, <1>3, <3>2, Products
    <3> QED BY <1>3, <3>3
  <2> QED BY <2>2, <2>3
<1>13. R = D * (d + e1) - (n * V * d) * s
  OBVIOUS
<1> HIDE DEF f, A, R, N, P, C
<1> QED BY <1>3, <1>11, <1>12, <1>13 DEF f, A

\* x are points spaced evenly over the way d, up to the rounding, and t their
\* times when D, which is no less, is covered with the velocity V.
Paced(n, V, v, D, d, E, S, e1, e2, x, t) ==
  /\ n \in Nat \ {0} /\ V \in Nat \ {0} /\ v \in Nat /\ V <= v
  /\ D \in Nat /\ d \in Nat /\ d <= D
  /\ E \in Nat /\ (V <= E \/ D % (n * V) = 0)
  /\ S \in Nat /\ D <= n * v * S
  /\ e1 \in Nat /\ e2 \in Nat /\ e1 + e2 = n - 1
  /\ \A i \in 0 .. n : /\ x[i] \in Int /\ i * d - e1 <= n * (x[i] - x[0])
                       /\ n * (x[i] - x[0]) <= i * d + e2
  /\ \A i \in 0 .. n : t[i] = (i * D) \div (n * V)

\* There is a course for them.
LEMMA CourseExists ==
  ASSUME NEW n, NEW V, NEW v, NEW D, NEW d, NEW E, NEW S, NEW e1, NEW e2, NEW x, NEW t,
         Paced(n, V, v, D, d, E, S, e1, e2, x, t)
  PROVE  /\ \E b \in [Int -> Int] :
              /\ \A T \in Int : b[T + 1] <= b[T] + v
              /\ \A i \in 0 .. n - 1 : b[t[i + 1]] <= x[i] /\ x[i] <= b[t[i + 1]] + E
         /\ x[n] <= x[n - 1] + v * S
<1> USE DEF Paced
<1>1. x[n] <= x[n - 1] + v * S
  <2> DEFINE y == x[n] - x[0]
             z == x[n - 1] - x[0]
             k == v * S
  <2>1. n \in 0 .. n /\ n - 1 \in 0 .. n /\ 0 \in 0 .. n
    OBVIOUS
  <2>2. /\ x[n] \in Int /\ x[n - 1] \in Int /\ x[0] \in Int
        /\ n * y <= n * d + e2 /\ (n - 1) * d - e1 <= n * z
    BY <2>1
  <2>3. y \in Int /\ z \in Int /\ k \in Int /\ n * v * S = n * k
    BY <2>2
  <2> HIDE DEF y, z, k
  <2>4. /\ n * y \in Int /\ n * z \in Int /\ n * k \in Int /\ n * d \in Int
        /\ (n - 1) * d = n * d - d
        /\ n * (z + k + 1) = n * z + n * k + n
    BY <2>3
  <2> DEFINE ny == n * y
             nz == n * z
             nk == n * k
             nd == n * d
             s == n * (z + k + 1)
  <2>5. /\ ny \in Int /\ nz \in Int /\ nk \in Int /\ nd \in Int /\ s = nz + nk + n
        /\ ny <= nd + e2 /\ nd - d - e1 <= nz /\ D <= nk
    BY <2>2, <2>3, <2>4
  <2> HIDE DEF ny, nz, nk, nd, s
  <2>6. ny < s
    BY <2>5
  <2>7. y < z + k + 1
    BY <2>3, <2>6, Products DEF ny, s
  <2> QED BY <2>2, <2>3, <2>7 DEF y, z, k
<1>2. CASE D = 0
  <2>1. ASSUME NEW i \in 0 .. n PROVE x[i] = x[0]
    <3>1. x[i] \in Int /\ x[0] \in Int /\ i * d = 0 /\ 0 \in 0 .. n
      BY <1>2
    <3> DEFINE y == x[i] - x[0]
    <3>2. y \in Int /\ - e1 <= n * y /\ n * y <= e2
      BY <3>1
    <3> HIDE DEF y
    <3>3. n * (- 1) < n * y /\ n * y < n * 1
      BY <3>2
    <3>4. - 1 < y /\ y < 1
      BY <3>2, <3>3, Products
    <3>5. y = 0
      BY <3>2, <3>4
    <3>6. \A p, q \in Int : p - q = 0 => p = q
      OBVIOUS
    <3>7. x[i] - x[0] = 0
      BY <3>5 DEF y
    <3> QED BY <3>1, <3>6, <3>7
  <2> DEFINE b == [T \in Int |-> x[0]]
  <2>2. x[0] \in Int
    OBVIOUS
  <2>3. ASSUME NEW i \in 0 .. n - 1 PROVE b[t[i + 1]] <= x[i] /\ x[i] <= b[t[i + 1]] + E
    <3>1. t[i + 1] \in Int
      <4>1. i + 1 \in 0 .. n /\ (i + 1) * D \in Int /\ n * V \in Nat \ {0}
        OBVIOUS
      <4>2. t[i + 1] = ((i + 1) * D) \div (n * V)
        BY <4>1
      <4> DEFINE p == (i + 1) * D
                 q == n * V
      <4> HIDE DEF p, q
      <4> QED BY <4>1, <4>2, DivBounds DEF p, q
    <3> QED BY <2>1, <2>2, <3>1
  <2>4. b \in [Int -> Int] /\ \A T \in Int : b[T + 1] <= b[T] + v
    BY <2>2
  <2> HIDE DEF b
  <2> QED BY <1>1, <2>3, <2>4
<1>3. CASE D # 0
  <2> DEFINE A == n * D
             B == n * V * d
             C == D * (d + e1)
             b == [T \in Int |-> x[0] - ((C - B * T) \div A)]
  <2>1. A \in Nat \ {0} /\ B \in Nat /\ C \in Int /\ x[0] \in Int
    BY <1>3
  <2>2. B <= A * v
    <3>1. V * d <= v * D
      <4>1. d * V <= d * v /\ v * d <= v * D
        BY Products
      <4> QED BY <4>1
    <3> DEFINE p == V * d
               q == v * D
    <3>2. p \in Int /\ q \in Int /\ B = n * p /\ A * v = n * q
      OBVIOUS
    <3> HIDE DEF p, q, A, B
    <3> QED BY <3>1, <3>2, Products DEF p, q
  <2>3. ASSUME NEW T \in Int PROVE (C - B * T) \div A \in Int
    <3> DEFINE r == C - B * T
    <3>1. r \in Int
      BY <2>1
    <3> HIDE DEF r, A
    <3> QED BY <2>1, <3>1, DivBounds DEF r
  <2>4. b \in [Int -> Int]
    <3> HIDE DEF A, B, C
    <3> QED BY <2>1, <2>3
  <2>5. ASSUME NEW T \in Int PROVE b[T + 1] <= b[T] + v
    <3> HIDE DEF A, B, C
    <3>1. (C - B * T) \div A <= (C - B * (T + 1)) \div A + v
      BY <2>1, <2>2, CourseSpeed
    <3> DEFINE f == (C - B * T) \div A
               g == (C - B * (T + 1)) \div A
    <3>2. /\ f \in Int /\ g \in Int /\ f <= g + v
          /\ b[T] = x[0] - f /\ b[T + 1] = x[0] - g
      BY <2>3, <3>1
    <3> HIDE DEF f, g, b
    <3> QED BY <2>1, <3>2
  <2>6. ASSUME NEW i \in 0 .. n - 1 PROVE b[t[i + 1]] <= x[i] /\ x[i] <= b[t[i + 1]] + E
    <3> DEFINE s == t[i + 1]
               y == x[i] - x[0]
    <3>1. /\ i \in Nat /\ i + 1 \in 0 .. n /\ i \in 0 .. n
          /\ (i + 1) * D \in Int /\ n * V \in Nat \ {0}
      OBVIOUS
    <3>2. s = ((i + 1) * D) \div (n * V)
      BY <3>1
    <3>3. s \in Int
      <4> DEFINE p == (i + 1) * D
                 q == n * V
      <4> HIDE DEF p, q, s
      <4> QED BY <3>1, <3>2, DivBounds DEF p, q
    <3>4. x[i] \in Int /\ y \in Int /\ i * d - e1 <= n * y /\ n * y <= i * d + e2
      BY <2>1, <3>1
    <3> HIDE DEF y, s
    <3>5. /\ - ((D * (d + e1) - (n * V * d) * s) \div (n * D)) <= y
          /\ y <= E - ((D * (d + e1) - (n * V * d) * s) \div (n * D))
      BY <1>3, <3>1, <3>2, <3>3, <3>4, CoursePoint
    <3> DEFINE f == (C - B * s) \div A
    <3>6. f \in Int /\ b[s] = x[0] - f
      <4> HIDE DEF A, B, C
      <4> QED BY <2>3, <3>3
    <3>7. - f <= y /\ y <= E - f
      BY <3>5
    <3> HIDE DEF f, b
    <3> QED BY <2>1, <3>4, <3>6, <3>7 DEF y, s
  <2> HIDE DEF b
  <2> QED BY <1>1, <2>4, <2>5, <2>6
<1> QED BY <1>2, <1>3

-----------------------------------------------------------------------------
(* A planned trajectory is tracked                                         *)

\* A joint seen in the direction in which it has to move.
Way(up, x) == IF up THEN x ELSE - x

Width(me) == Len(me.points[1].positions)
Rate(me) == MaxVelocity[me.arm] * me.scaling
At(me, up, k, j) == Way(up, me.points[k].positions[j])

\* A loop whose points lie inside the limits and follow one another in time.
Planned(me) ==
  /\ me.phase \in {"admitted", "command", "step", "measure"}
  /\ me.arm \in Arms /\ me.scaling \in 0 .. FullScaling
  /\ Len(me.points) \in Nat /\ Len(me.points) > 1 /\ me.idx \in 1 .. Len(me.points)
  /\ Width(me) \in 1 .. NumJoints[me.arm]
  /\ \A k \in 1 .. Len(me.points) :
       /\ me.points[k].time \in Int
       /\ me.points[k].positions \in [1 .. Width(me) -> Between(me.arm)]
  /\ \A k \in 1 .. Len(me.points) - 1 : me.points[k].time <= me.points[k + 1].time

\* Where a joint has to be at least: a course no faster than the arm, not ahead
\* of the point that is left at that time, and no further behind it than the
\* threshold.
Course(me, j, up, b) ==
  /\ b \in [Int -> Int]
  /\ \A t \in Int : b[t + 1] <= b[t] + Rate(me)
  /\ \A k \in 1 .. Len(me.points) - 1 :
       /\ At(me, up, k, j) <= At(me, up, k + 1, j)
       /\ b[me.points[k + 1].time] <= At(me, up, k, j)
       /\ At(me, up, k, j) <= b[me.points[k + 1].time] + ErrorThreshold
  /\ At(me, up, Len(me.points), j) <= At(me, up, Len(me.points) - 1, j) + Rate(me) * Settle

\* Before a point is commanded the joint heads for the one before it, which it
\* has reached within the threshold.
BeforePoint(me, c, g, j, up, b) ==
  IF me.idx = 1 THEN c = At(me, up, 1, j) /\ g = c
  ELSE /\ g = At(me, up, me.idx - 1, j) /\ g <= c + ErrorThreshold
       /\ c = g \/ b[me.points[me.idx].time] <= c

\* While the point is held the joint is there or on its course; the last one
\* comes nearer with each period.
AtPoint(me, c, g, j, up, b) ==
  /\ g = At(me, up, me.idx, j)
  /\ IF me.idx < Len(me.points)
       THEN c = g \/ b[me.points[me.idx + 1].time - me.left] <= c
       ELSE g <= c + ErrorThreshold + Rate(me) * me.left

Follows(me, st, j, up, b) ==
  LET c == Way(up, st.current[j])
      g == Way(up, st.target[j])
  IN  /\ c <= g
      /\ IF me.phase \in {"admitted", "command"} THEN BeforePoint(me, c, g, j, up, b)
         ELSE AtPoint(me, c, g, j, up, b)

Holding(me, st) ==
  /\ me.left \in Int
  /\ me.phase = "step" => me.left > 0
  /\ me.phase = "measure" => me.left = 0
  /\ me.phase \notin {"admitted", "command"} => st.scaling = me.scaling
  /\ 1 .. Width(me) \subseteq DOMAIN st.target

OnCourse(me, st) ==
  /\ Planned(me) /\ Holding(me, st)
  /\ \A j \in 1 .. Width(me) : \E up \in BOOLEAN : \E b :
       Course(me, j, up, b) /\ Follows(me, st, j, up, b)

-----------------------------------------------------------------------------
\* What is known of a joint of an arm whose loop is on its course.
LEMMA CourseTyped ==
  ASSUME NEW me, NEW st, Planned(me), Holding(me, st), st \in ArmSet(me.arm),
         NEW j \in 1 .. Width(me), NEW up \in BOOLEAN
  PROVE  /\ st.current[j] \in Between(me.arm) /\ st.target[j] \in Between(me.arm)
         /\ Way(up, st.current[j]) \in Int /\ Way(up, st.target[j]) \in Int
         /\ Rate(me) \in Nat
         /\ \A k \in 1 .. Len(me.points) : At(me, up, k, j) \in Int
<1>1. /\ NumJoints[me.arm] \in Nat /\ j \in 1 .. NumJoints[me.arm]
      /\ \A x \in Between(me.arm) : x \in Int /\ - x \in Int
  BY LimitsTyped DEF Planned, Between
<1>2. st.current \in [1 .. NumJoints[me.arm] -> Between(me.arm)] /\ st.target \in Seq(Between(me.arm))
  BY DEF ArmSet
<1>3. st.current[j] \in Between(me.arm)
  BY <1>1, <1>2
<1>4. st.target[j] \in Between(me.arm)
  <2>1. j \in DOMAIN st.target
    BY DEF Holding
  <2> QED BY <1>2, <2>1
<1>5. Rate(me) \in Nat
  <2>1. MaxVelocity[me.arm] \in Nat /\ me.scaling \in Nat
    BY LimitsTyped DEF Planned
  <2> QED BY <2>1 DEF Rate
<1>6. ASSUME NEW k \in 1 .. Len(me.points) PROVE At(me, up, k, j) \in Int
  <2>1. me.points[k].positions \in [1 .. Width(me) -> Between(me.arm)]
    BY DEF Planned
  <2>2. me.points[k].positions[j] \in Between(me.arm)
    BY <2>1
  <2> QED BY <1>1, <2>2 DEF At, Way
<1> QED BY <1>1, <1>3, <1>4, <1>5, <1>6 DEF Way

\* A course has a value at every time.
LEMMA CourseValue ==
  ASSUME NEW me, NEW j, NEW up, NEW b, Course(me, j, up, b), NEW t \in Int
  PROVE  b[t] \in Int
BY DEF Course

\* The times of the point a loop is at and of the next one.
LEMMA TimesTyped ==
  ASSUME NEW me, Planned(me)
  PROVE  /\ Len(me.points) \in Nat /\ me.idx \in 1 .. Len(me.points)
         /\ me.points[me.idx].time \in Int
         /\ me.idx < Len(me.points) =>
              /\ me.idx \in 1 .. Len(me.points) - 1 /\ me.idx + 1 \in 1 .. Len(me.points)
              /\ me.points[me.idx + 1].time \in Int
<1>1. /\ Len(me.points) \in Nat /\ me.idx \in 1 .. Len(me.points)
      /\ \A k \in 1 .. Len(me.points) : me.points[k].time \in Int
  BY Zenon DEF Planned
<1>2. me.idx < Len(me.points) =>
        me.idx \in 1 .. Len(me.points) - 1 /\ me.idx + 1 \in 1 .. Len(me.points)
  BY <1>1
<1> QED BY <1>1, <1>2

\* A joint that comes nearer to its target stays on its course.
LEMMA NearerKeepsCourse ==
  ASSUME NEW me, NEW st, NEW st2, OnCourse(me, st), st \in ArmSet(me.arm), st2 \in ArmSet(me.arm),
         st2.target = st.target, st2.scaling = st.scaling,
         \A j \in 1 .. Width(me) : \A up \in BOOLEAN :
           Way(up, st.current[j]) <= Way(up, st.target[j]) =>
             /\ Way(up, st.current[j]) <= Way(up, st2.current[j])
             /\ Way(up, st2.current[j]) <= Way(up, st.target[j])
  PROVE  OnCourse(me, st2)
<1>1. Planned(me) /\ Holding(me, st2)
  BY DEF OnCourse, Holding
<1>3. /\ Len(me.points) \in Nat /\ me.idx \in 1 .. Len(me.points)
      /\ me.points[me.idx].time \in Int
      /\ me.idx < Len(me.points) =>
           /\ me.idx \in 1 .. Len(me.points) - 1 /\ me.idx + 1 \in 1 .. Len(me.points)
           /\ me.points[me.idx + 1].time \in Int
  BY <1>1, TimesTyped, Zenon
<1>2. ASSUME NEW j \in 1 .. Width(me)
      PROVE  \E up \in BOOLEAN : \E b :
               Course(me, j, up, b) /\ Follows(me, st2, j, up, b)
  <2>1. PICK up \in BOOLEAN : \E b :
               Course(me, j, up, b) /\ Follows(me, st, j, up, b)
    BY DEF OnCourse
  <2>2. PICK b : Course(me, j, up, b) /\ Follows(me, st, j, up, b)
    BY <2>1
  <2> DEFINE c == Way(up, st.current[j])
             d == Way(up, st2.current[j])
             g == Way(up, st.target[j])
  <2>3. c \in Int /\ g \in Int /\ Rate(me) \in Nat /\ d \in Int
    BY <1>1, CourseTyped DEF OnCourse
  <2>4. c <= g
    BY <2>2 DEF Follows
  <2>5. c <= d /\ d <= g
    BY <2>4
  <2>6. CASE me.phase \in {"admitted", "command"}
    <3>1. BeforePoint(me, c, g, j, up, b)
      BY <2>2, <2>6 DEF Follows
    <3>2. ErrorThreshold \in Int /\ b[me.points[me.idx].time] \in Int
      BY <1>3, <2>2, ControlAssumption, CourseValue
    <3> HIDE DEF c, d, g
    <3>3. BeforePoint(me, d, g, j, up, b)
      BY <2>3, <2>5, <3>1, <3>2 DEF BeforePoint
    <3>4. Follows(me, st2, j, up, b)
      BY <2>5, <2>6, <3>3 DEF Follows, d, g
    <3> QED BY <2>2, <3>4
  <2>7. CASE me.phase \notin {"admitted", "command"}
    <3>1. AtPoint(me, c, g, j, up, b)
      BY <2>2, <2>7 DEF Follows
    <3>2. me.left \in Int /\ ErrorThreshold \in Int
      BY <1>1, ControlAssumption DEF Holding
    <3>3. me.idx < Len(me.points) => b[me.points[me.idx + 1].time - me.left] \in Int
      BY <1>3, <2>2, <3>2, CourseValue
    <3>4. Rate(me) * me.left \in Int
      BY <2>3, <3>2
    <3> HIDE DEF c, d, g
    <3>5. AtPoint(me, d, g, j, up, b)
      BY <2>3, <2>5, <3>1, <3>2, <3>3, <3>4 DEF AtPoint
    <3>6. Follows(me, st2, j, up, b)
      BY <2>5, <2>7, <3>5 DEF Follows, d, g
    <3> QED BY <2>2, <3>6
  <2> QED BY <2>6, <2>7
<1> QED BY <1>1, <1>2 DEF OnCourse

\* A loop on its course that measures its point finds every joint near it.
LEMMA CourseTracks ==
  ASSUME NEW me, NEW st, OnCourse(me, st), st \in ArmSet(me.arm), me.phase = "measure",
         NEW j \in 1 .. Width(me)
  PROVE  Abs(st.current[j] - me.points[me.idx].positions[j]) <= ErrorThreshold
<1>1. PICK up \in BOOLEAN : \E b :
             Course(me, j, up, b) /\ Follows(me, st, j, up, b)
  BY DEF OnCourse
<1>2. PICK b : Course(me, j, up, b) /\ Follows(me, st, j, up, b)
  BY <1>1
<1> DEFINE c == Way(up, st.current[j])
           g == Way(up, st.target[j])
           x == st.current[j]
           p == me.points[me.idx].positions[j]
<1>3. /\ Planned(me) /\ me.left = 0 /\ ErrorThreshold \in Nat
      /\ me.idx \in 1 .. Len(me.points) /\ Len(me.points) \in Nat
  BY ControlAssumption DEF OnCourse, Holding, Planned
<1>10. /\ Len(me.points) \in Nat /\ me.idx \in 1 .. Len(me.points)
       /\ me.points[me.idx].time \in Int
       /\ me.idx < Len(me.points) =>
            /\ me.idx \in 1 .. Len(me.points) - 1 /\ me.idx + 1 \in 1 .. Len(me.points)
            /\ me.points[me.idx + 1].time \in Int
  BY <1>3, TimesTyped, Zenon
<1>4. c \in Int /\ g \in Int /\ Rate(me) \in Nat /\ At(me, up, me.idx, j) \in Int
  BY <1>3, CourseTyped DEF OnCourse
<1>5. c <= g /\ AtPoint(me, c, g, j, up, b)
  BY <1>2 DEF Follows
<1>6. g = Way(up, p) /\ g <= c + ErrorThreshold
  <2>1. CASE me.idx < Len(me.points)
    <3>1. me.points[me.idx + 1].time - me.left = me.points[me.idx + 1].time
      BY <1>3, <1>10, <2>1
    <3>2. /\ me.idx \in 1 .. Len(me.points) - 1
          /\ me.points[me.idx + 1].time \in Int
      BY <1>3, <1>10, <2>1
    <3> DEFINE k == me.idx
               y == b[me.points[me.idx + 1].time]
    <3>3. /\ At(me, up, k, j) <= b[me.points[k + 1].time] + ErrorThreshold
          /\ b[me.points[k + 1].time] \in Int
      BY <1>2, <3>2, CourseValue DEF Course
    <3>4. g = At(me, up, me.idx, j) /\ (c = g \/ b[me.points[me.idx + 1].time] <= c)
      BY <1>5, <2>1, <3>1 DEF AtPoint
    <3>5. y \in Int /\ g <= y + ErrorThreshold /\ (c = g \/ y <= c)
      BY <3>3, <3>4
    <3> HIDE DEF c, g, y
    <3>6. g <= c + ErrorThreshold
      BY <1>3, <1>4, <3>5
    <3> QED BY <3>4, <3>6 DEF At
  <2>2. CASE ~ (me.idx < Len(me.points))
    <3>1. Rate(me) * me.left = 0
      BY <1>3, <1>4
    <3>2. g = At(me, up, me.idx, j) /\ g <= c + ErrorThreshold + Rate(me) * me.left
      BY <1>5, <2>2 DEF AtPoint
    <3> HIDE DEF c, g
    <3> QED BY <1>3, <1>4, <3>1, <3>2 DEF At
  <2> QED BY <2>1, <2>2
<1>7. x \in Int /\ p \in Int
  <2>1. x \in Between(me.arm)
    BY <1>3, CourseTyped DEF OnCourse
  <2>2. p \in Between(me.arm)
    BY <1>3 DEF Planned
  <2> QED BY <1>3, <2>1, <2>2, LimitsTyped DEF Between, Planned
<1> HIDE DEF x, p
<1>8. Way(up, x) <= Way(up, p) /\ Way(up, p) <= Way(up, x) + ErrorThreshold
  BY <1>5, <1>6 DEF x
<1>9. Abs(x - p) <= ErrorThreshold
  BY <1>3, <1>7, <1>8 DEF Way, Abs
<1> QED BY <1>9 DEF x, p

-----------------------------------------------------------------------------
\* A loop that goes on keeps its plan and its course.
LEMMA PlanIsKept ==
  ASSUME NEW me, NEW me2, Planned(me), me2.points = me.points, me2.arm = me.arm,
         me2.scaling = me.scaling, me2.idx \in 1 .. Len(me.points),
         me2.phase \in {"command", "step", "measure"}
  PROVE  /\ Planned(me2) /\ Width(me2) = Width(me) /\ Rate(me2) = Rate(me)
         /\ \A up, k, j : At(me2, up, k, j) = At(me, up, k, j)
         /\ \A j, up, b : Course(me, j, up, b) => Course(me2, j, up, b)
<1>1. Width(me2) = Width(me) /\ Rate(me2) = Rate(me)
  BY DEF Width, Rate
<1>2. \A up, k, j : At(me2, up, k, j) = At(me, up, k, j)
  BY DEF At
<1>3. Planned(me2)
  BY <1>1, Zenon DEF Planned
<1>4. ASSUME NEW j, NEW up, NEW b, Course(me, j, up, b) PROVE Course(me2, j, up, b)
  BY <1>1, <1>2, <1>4, Zenon DEF Course
<1> QED BY <1>1, <1>2, <1>3, <1>4

\* A joint on its way comes nearer by a period's motion, or is there.
LEMMA TowardWay ==
  ASSUME NEW x \in Int, NEW y \in Int, NEW most \in Nat, NEW up \in BOOLEAN,
         Way(up, x) <= Way(up, y)
  PROVE  /\ Way(up, x) <= Way(up, Toward(x, y, most))
         /\ Way(up, Toward(x, y, most)) <= Way(up, y)
         /\ \/ Way(up, Toward(x, y, most)) = Way(up, y)
            \/ Way(up, x) + most <= Way(up, Toward(x, y, most))
BY DEF Way, Toward, Clamped, AtLeast, AtMost

\* A period of the loop's own.
LEMMA StepKeepsCourse ==
  ASSUME NEW me, NEW st, NEW me2, NEW st2, OnCourse(me, st), me.phase = "step",
         st \in ArmSet(me.arm), st2 \in ArmSet(me.arm),
         me2.points = me.points, me2.arm = me.arm, me2.scaling = me.scaling, me2.idx = me.idx,
         me2.left = me.left - 1, me2.phase = IF me.left = 1 THEN "measure" ELSE me.phase,
         st2.target = st.target, st2.scaling = st.scaling,
         \A j \in 1 .. Width(me) :
           st2.current[j] = Toward(st.current[j], st.target[j], Rate(me))
  PROVE  OnCourse(me2, st2)
<1>1. Planned(me) /\ Holding(me, st)
  BY DEF OnCourse
<1>2. /\ me.idx \in 1 .. Len(me.points) /\ me.left \in Int /\ me.left > 0
      /\ me2.phase \in {"step", "measure"}
  BY <1>1, TimesTyped DEF Holding
<1>3. /\ Planned(me2) /\ Width(me2) = Width(me) /\ Rate(me2) = Rate(me)
      /\ \A up, k, j : At(me2, up, k, j) = At(me, up, k, j)
      /\ \A j, up, b : Course(me, j, up, b) => Course(me2, j, up, b)
  BY <1>1, <1>2, PlanIsKept
<1>4. Holding(me2, st2)
  BY <1>1, <1>2, <1>3 DEF Holding
<1>5. ASSUME NEW j \in 1 .. Width(me)
      PROVE  \E up \in BOOLEAN : \E b : Course(me2, j, up, b) /\ Follows(me2, st2, j, up, b)
  <2>1. PICK up \in BOOLEAN : \E b : Course(me, j, up, b) /\ Follows(me, st, j, up, b)
    BY DEF OnCourse
  <2>2. PICK b : Course(me, j, up, b) /\ Follows(me, st, j, up, b)
    BY <2>1
  <2> DEFINE c == Way(up, st.current[j])
             d == Way(up, st2.current[j])
             g == Way(up, st.target[j])
             rate == Rate(me)
             x == st.current[j]
             y == st.target[j]
  <2>3. /\ c \in Int /\ g \in Int /\ rate \in Nat /\ x \in Int /\ y \in Int
        /\ ErrorThreshold \in Nat
    <3>1. x \in Between(me.arm) /\ y \in Between(me.arm) /\ me.arm \in Arms
      BY <1>1, CourseTyped DEF Planned
    <3> QED BY <1>1, <3>1, CourseTyped, LimitsTyped, ControlAssumption DEF Between
  <2>4. d \in Int
    <3>1. j \in 1 .. Width(me2) /\ st2 \in ArmSet(me2.arm)
      BY <1>3
    <3> QED BY <1>3, <1>4, <3>1, CourseTyped
  <2>5. c <= g /\ AtPoint(me, c, g, j, up, b)
    BY <2>2 DEF Follows
  <2>6. c <= d /\ d <= g /\ (d = g \/ c + rate <= d)
    <3>1. d = Way(up, Toward(x, y, rate))
      OBVIOUS
    <3> HIDE DEF x, y, rate, d
    <3> QED BY <2>3, <2>5, <3>1, TowardWay DEF x, y
  <2>7. AtPoint(me2, d, g, j, up, b)
    <3>1. g = At(me2, up, me2.idx, j) /\ me2.points = me.points /\ me2.idx = me.idx
      BY <1>3, <2>5 DEF AtPoint
    <3>2. CASE me.idx < Len(me.points)
      <4> DEFINE t == me.points[me.idx + 1].time
                 s == t - me.left
                 bs == b[s]
                 bn == b[s + 1]
      <4>1. t \in Int
        BY <1>1, <3>2, TimesTyped
      <4>2. s \in Int /\ t - (me.left - 1) = s + 1
        <5> HIDE DEF t
        <5> QED BY <1>2, <4>1
      <4>3. bs \in Int /\ bn \in Int /\ bn <= bs + rate
        <5>1. s + 1 \in Int
          <6> HIDE DEF s
          <6> QED BY <4>2
        <5> HIDE DEF s
        <5>2. bs \in Int /\ bn \in Int
          BY <2>2, <4>2, <5>1, CourseValue
        <5>3. b[s + 1] <= b[s] + Rate(me)
          BY <2>2, <4>2 DEF Course
        <5> QED BY <5>2, <5>3
      <4>4. c = g \/ bs <= c
        BY <2>5, <3>2 DEF AtPoint
      <4>5. d = g \/ bn <= d
        <5> HIDE DEF bs, bn, c, d, g, rate
        <5> QED BY <2>3, <2>4, <2>6, <4>3, <4>4
      <4>6. b[me2.points[me2.idx + 1].time - me2.left] = bn
        BY <4>2
      <4> HIDE DEF bn, c, d, g
      <4> QED BY <3>1, <3>2, <4>5, <4>6 DEF AtPoint
    <3>3. CASE ~ (me.idx < Len(me.points))
      <4> DEFINE r == rate * me.left
                 q == rate * (me.left - 1)
      <4>1. r \in Int /\ q \in Nat /\ r = q + rate
        <5> DEFINE n == me.left
        <5>1. n \in Int /\ n > 0
          BY <1>2
        <5> HIDE DEF n, rate
        <5>2. rate * (n - 1) \in Nat /\ rate * n \in Int /\ rate * n = rate * (n - 1) + rate
          BY <2>3, <5>1
        <5> QED BY <5>2 DEF n
      <4>2. g <= c + ErrorThreshold + r
        BY <2>5, <3>3 DEF AtPoint
      <4>3. g <= d + ErrorThreshold + q
        <5> HIDE DEF r, q, c, d, g, rate
        <5> QED BY <2>3, <2>4, <2>6, <4>1, <4>2
      <4>4. Rate(me2) * me2.left = q
        BY <1>3
      <4> HIDE DEF q, c, d, g
      <4> QED BY <3>1, <3>3, <4>3, <4>4 DEF AtPoint
    <3> QED BY <3>2, <3>3
  <2>8. Follows(me2, st2, j, up, b)
    <3>1. g = Way(up, st2.target[j]) /\ me2.phase \notin {"admitted", "command"}
      BY <1>2
    <3> QED BY <2>6, <2>7, <3>1 DEF Follows
  <2> QED BY <1>3, <2>2, <2>8
<1> QED BY <1>3, <1>4, <1>5 DEF OnCourse

\* A loop that has marked its arm is where it was when it was admitted.
LEMMA MarkKeepsCourse ==
  ASSUME NEW me, NEW st, NEW me2, OnCourse(me, st), me.phase = "admitted",
         me2.points = me.points, me2.arm = me.arm, me2.scaling = me.scaling,
         me2.idx = me.idx, me2.left = me.left, me2.phase = "command"
  PROVE  OnCourse(me2, st)
<1>1. Planned(me) /\ Holding(me, st) /\ me.idx \in 1 .. Len(me.points)
  BY DEF OnCourse, Planned
<1>2. /\ Planned(me2) /\ Width(me2) = Width(me)
      /\ \A up, k, j : At(me2, up, k, j) = At(me, up, k, j)
      /\ \A j, up, b : Course(me, j, up, b) => Course(me2, j, up, b)
  BY <1>1, PlanIsKept
<1>3. Holding(me2, st)
  BY <1>1, <1>2 DEF Holding
<1>4. ASSUME NEW j \in 1 .. Width(me)
      PROVE  \E up \in BOOLEAN : \E b : Course(me2, j, up, b) /\ Follows(me2, st, j, up, b)
  <2>1. PICK up \in BOOLEAN : \E b : Course(me, j, up, b) /\ Follows(me, st, j, up, b)
    BY DEF OnCourse
  <2>2. PICK b : Course(me, j, up, b) /\ Follows(me, st, j, up, b)
    BY <2>1
  <2> DEFINE c == Way(up, st.current[j])
             g == Way(up, st.target[j])
  <2>3. c <= g /\ BeforePoint(me, c, g, j, up, b)
    BY <2>2 DEF Follows
  <2>4. BeforePoint(me2, c, g, j, up, b)
    <3> HIDE DEF c, g
    <3> QED BY <1>2, <2>3 DEF BeforePoint
  <2>5. Follows(me2, st, j, up, b)
    BY <2>3, <2>4 DEF Follows
  <2> QED BY <1>2, <2>2, <2>5
<1> QED BY <1>2, <1>3, <1>4 DEF OnCourse

\* The point measured, the loop goes on to the next one.
LEMMA MeasureKeepsCourse ==
  ASSUME NEW me, NEW st, NEW me2, OnCourse(me, st), me.phase = "measure",
         st \in ArmSet(me.arm), me.idx < Len(me.points),
         me2.points = me.points, me2.arm = me.arm, me2.scaling = me.scaling,
         me2.idx = me.idx + 1, me2.left = me.left, me2.phase = "command"
  PROVE  OnCourse(me2, st)
<1>1. Planned(me) /\ Holding(me, st)
  BY DEF OnCourse
<1>2. /\ me.idx \in 1 .. Len(me.points) - 1 /\ me2.idx \in 1 .. Len(me.points)
      /\ Len(me.points) \in Nat /\ me.left = 0
      /\ me.points[me.idx + 1].time \in Int
  BY <1>1, TimesTyped DEF Holding
<1>3. /\ Planned(me2) /\ Width(me2) = Width(me)
      /\ \A up, k, j : At(me2, up, k, j) = At(me, up, k, j)
      /\ \A j, up, b : Course(me, j, up, b) => Course(me2, j, up, b)
  BY <1>1, <1>2, PlanIsKept
<1>4. Holding(me2, st)
  BY <1>1, <1>2, <1>3 DEF Holding
<1>5. ASSUME NEW j \in 1 .. Width(me)
      PROVE  \E up \in BOOLEAN : \E b : Course(me2, j, up, b) /\ Follows(me2, st, j, up, b)
  <2>1. PICK up \in BOOLEAN : \E b : Course(me, j, up, b) /\ Follows(me, st, j, up, b)
    BY DEF OnCourse
  <2>2. PICK b : Course(me, j, up, b) /\ Follows(me, st, j, up, b)
    BY <2>1
  <2> DEFINE c == Way(up, st.current[j])
             g == Way(up, st.target[j])
             t == me.points[me.idx + 1].time
  <2>3. c <= g /\ AtPoint(me, c, g, j, up, b)
    BY <2>2 DEF Follows
  <2>4. g = At(me, up, me.idx, j) /\ (c = g \/ b[t] <= c)
    <3>1. t - me.left = t
      <4> HIDE DEF t
      <4> QED BY <1>2 DEF t
    <3> QED BY <2>3, <3>1 DEF AtPoint
  <2>5. g <= c + ErrorThreshold
    <3>1. c \in Int /\ g \in Int /\ ErrorThreshold \in Nat /\ b[t] \in Int
      BY <1>1, <1>2, <2>2, CourseTyped, CourseValue, ControlAssumption
    <3> DEFINE k == me.idx
    <3>2. At(me, up, k, j) <= b[me.points[k + 1].time] + ErrorThreshold
      BY <1>2, <2>2 DEF Course
    <3> DEFINE y == b[t]
    <3>3. g <= y + ErrorThreshold
      BY <2>4, <3>2
    <3> HIDE DEF c, g, y
    <3> QED BY <2>4, <3>1, <3>3 DEF y
  <2>6. /\ me2.idx - 1 = me.idx /\ me2.idx # 1
        /\ me2.points[me2.idx].time = t
    BY <1>2
  <2>7. BeforePoint(me2, c, g, j, up, b)
    <3>1. g = At(me2, up, me2.idx - 1, j)
      BY <1>3, <2>4, <2>6
    <3> HIDE DEF c, g, t
    <3> QED BY <2>4, <2>5, <2>6, <3>1 DEF BeforePoint
  <2>8. Follows(me2, st, j, up, b)
    BY <2>3, <2>7 DEF Follows
  <2> QED BY <1>3, <2>2, <2>8
<1> QED BY <1>3, <1>4, <1>5 DEF OnCourse

\* A position inside the limits is commanded as it is.
LEMMA TargetInLimits ==
  ASSUME NEW a \in Arms, NEW positions, NEW j \in DOMAIN positions, positions[j] \in Between(a)
  PROVE  Target(a, positions)[j] = positions[j]
<1> DEFINE lo == JointLimits[a].lower
           hi == JointLimits[a].upper
           p == positions[j]
<1>1. lo \in Int /\ hi \in Int
  BY LimitsTyped
<1>2. p \in lo .. hi
  BY DEF Between
<1>3. Target(a, positions)[j] = Clamped(p, lo, hi)
  BY DEF Target
<1> HIDE DEF lo, hi, p
<1>4. Clamped(p, lo, hi) = p
  BY <1>1, <1>2 DEF Clamped, AtLeast, AtMost
<1> QED BY <1>3, <1>4 DEF p

\* The next point commanded, its course goes on from where the last one left it.
LEMMA CommandKeepsCourse ==
  ASSUME NEW me, NEW st, NEW me2, NEW st2, OnCourse(me, st), me.phase = "command",
         st \in ArmSet(me.arm), st2 \in ArmSet(me.arm),
         me2.points = me.points, me2.arm = me.arm, me2.scaling = me.scaling, me2.idx = me.idx,
         me2.left = Segment(me.points, me.idx),
         me2.phase = IF me2.left > 0 THEN "step" ELSE "measure",
         st2.current = st.current, st2.scaling = me.scaling,
         st2.target = Target(me.arm, me.points[me.idx].positions)
  PROVE  OnCourse(me2, st2)
<1>1. Planned(me) /\ Holding(me, st) /\ Settle \in Nat /\ ErrorThreshold \in Nat
  BY ControlAssumption DEF OnCourse
<1>2. /\ Len(me.points) \in Nat /\ me.idx \in 1 .. Len(me.points)
      /\ me.points[me.idx].time \in Int
      /\ me.idx < Len(me.points) =>
           /\ me.idx \in 1 .. Len(me.points) - 1 /\ me.idx + 1 \in 1 .. Len(me.points)
           /\ me.points[me.idx + 1].time \in Int
  BY <1>1, TimesTyped, Zenon
<1>3. /\ Planned(me2) /\ Width(me2) = Width(me) /\ Rate(me2) = Rate(me)
      /\ \A up, k, j : At(me2, up, k, j) = At(me, up, k, j)
      /\ \A j, up, b : Course(me, j, up, b) => Course(me2, j, up, b)
  BY <1>1, <1>2, PlanIsKept
<1>4. me2.left \in Nat
  <2>1. CASE me.idx < Len(me.points)
    <3> DEFINE k == me.idx
    <3>1. me.points[k].time <= me.points[k + 1].time
      BY <1>1, <1>2, <2>1 DEF Planned
    <3> QED BY <1>2, <2>1, <3>1 DEF Segment
  <2>2. CASE ~ (me.idx < Len(me.points))
    BY <1>1, <2>2 DEF Segment
  <2> QED BY <2>1, <2>2
<1>5. /\ me.points[me.idx].positions \in [1 .. Width(me) -> Between(me.arm)]
      /\ me.arm \in Arms
  BY <1>1, <1>2 DEF Planned
<1>6. Holding(me2, st2)
  <2>1. DOMAIN st2.target = 1 .. Width(me2)
    BY <1>3, <1>5 DEF Target
  <2> QED BY <1>4, <2>1 DEF Holding
<1>7. ASSUME NEW j \in 1 .. Width(me)
      PROVE  \E up \in BOOLEAN : \E b : Course(me2, j, up, b) /\ Follows(me2, st2, j, up, b)
  <2>1. PICK up \in BOOLEAN : \E b : Course(me, j, up, b) /\ Follows(me, st, j, up, b)
    BY DEF OnCourse
  <2>2. PICK b : Course(me, j, up, b) /\ Follows(me, st, j, up, b)
    BY <2>1
  <2> DEFINE c == Way(up, st.current[j])
             h == Way(up, st.target[j])
             g == At(me, up, me.idx, j)
  <2>3. c <= h /\ BeforePoint(me, c, h, j, up, b)
    BY <2>2 DEF Follows
  <2>4. Way(up, st2.target[j]) = g
    <3> DEFINE ps == me.points[me.idx].positions
    <3>1. ps[j] \in Between(me.arm) /\ j \in DOMAIN ps
      BY <1>5
    <3>2. st2.target[j] = Target(me.arm, ps)[j]
      OBVIOUS
    <3> HIDE DEF ps
    <3>3. st2.target[j] = ps[j]
      BY <1>5, <3>1, <3>2, TargetInLimits
    <3> QED BY <3>3 DEF At, ps
  <2>5. /\ c \in Int /\ h \in Int /\ g \in Int
        /\ \A k \in 1 .. Len(me.points) : At(me, up, k, j) \in Int
    BY <1>1, <1>2, CourseTyped
  <2>6. CASE me.idx = 1
    <3>1. c = g /\ 1 < Len(me.points)
      BY <1>1, <2>3, <2>6 DEF BeforePoint, Planned
    <3>2. AtPoint(me2, c, g, j, up, b)
      BY <1>3, <2>6, <3>1 DEF AtPoint
    <3>3. c <= g
      <4> HIDE DEF c, g
      <4> QED BY <2>5, <3>1
    <3>4. Follows(me2, st2, j, up, b)
      BY <2>4, <3>2, <3>3 DEF Follows
    <3> QED BY <1>3, <2>2, <3>4
  <2>7. CASE me.idx # 1
    <3> DEFINE n == me.idx - 1
    <3>1. n \in 1 .. Len(me.points) - 1 /\ n + 1 = me.idx
      BY <1>2, <2>7
    <3>2. /\ h = At(me, up, n, j) /\ h <= c + ErrorThreshold
          /\ c = h \/ b[me.points[me.idx].time] <= c
      BY <2>3, <2>7 DEF BeforePoint
    <3>3. At(me, up, n, j) <= g /\ b[me.points[me.idx].time] <= At(me, up, n, j)
      <4>1. /\ At(me, up, n, j) <= At(me, up, n + 1, j)
            /\ b[me.points[n + 1].time] <= At(me, up, n, j)
        <5> HIDE DEF n
        <5> QED BY <2>2, <3>1 DEF Course
      <4> QED BY <3>1, <4>1
    <3> DEFINE y == b[me.points[me.idx].time]
    <3>4. y \in Int
      BY <1>2, <2>2, CourseValue
    <3>5. c <= g /\ y <= c
      <4>1. h <= g /\ y <= h /\ (c = h \/ y <= c)
        BY <3>2, <3>3
      <4> HIDE DEF c, h, g, y
      <4> QED BY <2>3, <2>5, <3>4, <4>1
    <3>6. AtPoint(me2, c, g, j, up, b)
      <4>1. CASE me.idx < Len(me.points)
        <5>1. me2.points[me2.idx + 1].time - me2.left = me.points[me.idx].time
          BY <1>2, <4>1 DEF Segment
        <5> HIDE DEF c
        <5> QED BY <1>3, <3>5, <4>1, <5>1 DEF AtPoint
      <4>2. CASE ~ (me.idx < Len(me.points))
        <5>1. n = Len(me.points) - 1 /\ me.idx = Len(me.points)
          BY <1>2, <4>2
        <5>2. g <= At(me, up, n, j) + Rate(me) * Settle
          BY <2>2, <5>1 DEF Course
        <5>3. me2.left = Settle
          BY <4>2 DEF Segment
        <5> DEFINE r == Rate(me) * Settle
        <5>4. r \in Int
          <6>1. Rate(me) \in Nat
            BY <1>1, CourseTyped
          <6> QED BY <1>1, <6>1
        <5>5. g <= h + r
          BY <3>2, <5>2
        <5>6. g <= c + ErrorThreshold + r
          <6>1. h <= c + ErrorThreshold
            BY <3>2
          <6> HIDE DEF c, h, g, r
          <6> QED BY <1>1, <2>5, <5>4, <5>5, <6>1
        <5>7. Rate(me2) * me2.left = r /\ g = At(me2, up, me2.idx, j)
          BY <1>3, <5>3
        <5> HIDE DEF c, r
        <5> QED BY <4>2, <5>6, <5>7 DEF AtPoint
      <4> QED BY <4>1, <4>2
    <3>7. Follows(me2, st2, j, up, b)
      BY <2>4, <3>5, <3>6 DEF Follows
    <3> QED BY <1>3, <2>2, <3>7
  <2> QED BY <2>6, <2>7
<1> QED BY <1>3, <1>6, <1>7 DEF OnCourse

-----------------------------------------------------------------------------
(* The planner's points                                                    *)

\* A division keeps the order of what it divides.
LEMMA DivKeepsOrder ==
  ASSUME NEW a \in Int, NEW b \in Int, NEW q \in Nat \ {0}, a <= b
  PROVE  a \div q <= b \div q
<1> DEFINE f == a \div q
           g == b \div q
<1>1. f \in Int /\ g \in Int /\ q * f <= a /\ b < q * g + q
  BY DivBounds
<1> HIDE DEF f, g
<1>2. q * f < q * (g + 1)
  BY <1>1
<1>3. f < g + 1
  BY <1>1, <1>2, Products
<1> QED BY <1>1, <1>3 DEF f, g

\* The i-th of n parts of a way.
LEMMA Parts ==
  ASSUME NEW n \in Nat \ {0}, NEW way \in Int, NEW i \in 0 .. n
  PROVE  /\ (i * way) \div n \in Int
         /\ n * ((i * way) \div n) <= i * way /\ i * way <= n * ((i * way) \div n) + n - 1
         /\ 0 <= way => 0 <= (i * way) \div n /\ (i * way) \div n <= way
         /\ way <= 0 => way <= (i * way) \div n /\ (i * way) \div n <= 0
         /\ i = 0 => (i * way) \div n = 0
<1> DEFINE p == i * way
           q == p \div n
<1>1. p \in Int /\ i = 0 => p = 0
  OBVIOUS
<1>2. p \in Int
  OBVIOUS
<1>3. /\ 0 <= way => 0 <= p /\ p <= n * way
      /\ way <= 0 => n * way <= p /\ p <= 0
  OBVIOUS
<1> HIDE DEF p
<1>4. q \in Int /\ n * q <= p /\ p < n * q + n
  BY <1>2, DivBounds
<1> HIDE DEF q
<1>5. n * q \in Int
  BY <1>4
<1>6. ASSUME 0 <= way PROVE 0 <= q /\ q <= way
  <2>1. n * 0 < n * (q + 1) /\ n * q <= n * way
    BY <1>2, <1>3, <1>4, <1>6
  <2>2. 0 < q + 1 /\ q <= way
    BY <1>4, <2>1, Products
  <2> QED BY <1>4, <2>2
<1>7. ASSUME way <= 0 PROVE way <= q /\ q <= 0
  <2>1. n * way < n * (q + 1) /\ n * q <= n * 0
    <3>1. n * (q + 1) = n * q + n /\ n * 0 = 0 /\ n * way \in Int
      BY <1>4
    <3> QED BY <1>2, <1>3, <1>4, <1>5, <1>7, <3>1
  <2>2. way < q + 1 /\ q <= 0
    BY <1>4, <2>1, Products
  <2> QED BY <1>4, <2>2
<1>8. ASSUME i = 0 PROVE q = 0
  <2>1. p = 0
    BY <1>1, <1>8, <1>2 DEF p
  <2>2. n * q < n * 1 /\ n * 0 < n * (q + 1)
    BY <1>4, <1>5, <2>1
  <2>3. q < 1 /\ 0 < q + 1
    BY <1>4, <2>2, Products
  <2> QED BY <1>4, <2>3
<1>9. n * q <= p /\ p <= n * q + n - 1
  BY <1>2, <1>4, <1>5
<1> QED BY <1>4, <1>6, <1>7, <1>8, <1>9 DEF p, q

\* No joint has further to go than the displacement.
LEMMA DisplacementBounds ==
  ASSUME NEW start \in Seq(Int), NEW goal \in Seq(Int), NEW w \in Nat \ {0},
         w = Shorter(start, goal)
  PROVE  /\ Displacement(start, goal) \in Nat
         /\ \A j \in 1 .. w : Abs(goal[j] - start[j]) <= Displacement(start, goal)
<1> DEFINE f == [j \in 1 .. w |-> Abs(goal[j] - start[j])]
           S == {0} \cup {Abs(goal[j] - start[j]) : j \in 1 .. Shorter(start, goal)}
<1>1. \A j \in 1 .. w : f[j] \in Nat
  <2> TAKE j \in 1 .. w
  <2>1. goal[j] \in Int /\ start[j] \in Int
    BY DEF Shorter
  <2> QED BY <2>1 DEF Abs
<1>2. S = {0} \cup {f[j] : j \in 1 .. w}
  OBVIOUS
<1>3. Displacement(start, goal) = Max(S)
  BY DEF Displacement
<1> HIDE DEF f, S
<1>4. PICK m \in 1 .. w : \A j \in 1 .. w : f[j] <= f[m]
  <2>1. \A j \in 1 .. w : f[j] \in Int
    BY <1>1
  <2> QED BY <2>1, LargestOf
<1>5. f[m] \in S /\ \A y \in S : f[m] >= y
  BY <1>1, <1>2, <1>4
<1>6. Max(S) \in S /\ \A y \in S : Max(S) >= y
  BY <1>5 DEF Max
<1>7. Max(S) \in Nat
  BY <1>1, <1>2, <1>6
<1>8. ASSUME NEW j \in 1 .. w PROVE Abs(goal[j] - start[j]) <= Max(S)
  <2>1. f[j] \in S /\ f[j] \in Nat
    BY <1>1, <1>2
  <2>2. f[j] <= Max(S)
    BY <1>6, <1>7, <2>1
  <2> QED BY <2>2 DEF f
<1> QED BY <1>3, <1>7, <1>8

\* Points spaced evenly in position and in time.
EvenPoints(points, start, goal, n, V, w, D) ==
  /\ n \in Nat \ {0} /\ V \in Nat \ {0} /\ w \in Nat
  /\ Len(points) = n + 1
  /\ \A i \in 0 .. n :
       /\ points[i + 1].time = (i * D) \div (n * V)
       /\ points[i + 1].positions =
            [j \in 1 .. w |-> start[j] + (i * (goal[j] - start[j])) \div n]

\* The planner makes such points.
LEMMA InterpolateFacts ==
  ASSUME NEW start \in Seq(Int), NEW goal \in Seq(Int), NEW plan \in Int
  PROVE  EvenPoints(Interpolate(start, goal, plan), start, goal, NumPoints - 1,
                    MaxJointVelocity * PlanScaling(plan), Shorter(start, goal),
                    Displacement(start, goal))
<1> DEFINE n == NumPoints - 1
           V == MaxJointVelocity * PlanScaling(plan)
           w == Shorter(start, goal)
           points == Interpolate(start, goal, plan)
<1>1. NumPoints \in Nat /\ NumPoints > 1 /\ MaxJointVelocity \in Nat \ {0}
      /\ PlanScaling(plan) \in Nat \ {0}
  BY PlannerAssumption DEF PlanScaling
<1>2. n \in Nat \ {0} /\ V \in Nat \ {0} /\ w \in Nat
  BY <1>1 DEF Shorter
<1>3. n * V = (NumPoints - 1) * MaxJointVelocity * PlanScaling(plan)
  <2> DEFINE m == NumPoints - 1
             p == PlanScaling(plan)
  <2>1. m \in Int /\ p \in Int
    BY <1>1
  <2> HIDE DEF m, p
  <2>2. m * (MaxJointVelocity * p) = m * MaxJointVelocity * p
    BY <1>1, <2>1
  <2> QED BY <2>2 DEF m, p
<1> DEFINE D == Displacement(start, goal)
           At_(k) == [j \in 1 .. w |-> start[j] + ((k - 1) * (goal[j] - start[j])) \div n]
           T(k) == ((k - 1) * D) \div (n * V)
<1>4. \A k : PointTime(k - 1, D, plan) = T(k)
  BY <1>3, Zenon DEF PointTime
<1>5. points = [k \in 1 .. NumPoints |->
                  [positions |-> [j \in 1 .. Shorter(start, goal) |->
                       start[j] + ((k - 1) * (goal[j] - start[j])) \div (NumPoints - 1)],
                   time |-> PointTime(k - 1, D, plan)]]
  BY Zenon DEF Interpolate
<1>6. points = [k \in 1 .. NumPoints |-> [positions |-> At_(k), time |-> PointTime(k - 1, D, plan)]]
  BY <1>5, Zenon
<1> HIDE DEF D, At_, T, n, V, w, points
<1>7. /\ Len(points) = NumPoints
      /\ \A k \in 1 .. NumPoints : points[k].positions = At_(k) /\ points[k].time = T(k)
  BY <1>1, <1>4, <1>6
<1>8. ASSUME NEW i \in 0 .. n
      PROVE  /\ points[i + 1].time = (i * D) \div (n * V)
             /\ points[i + 1].positions =
                  [j \in 1 .. w |-> start[j] + (i * (goal[j] - start[j])) \div n]
  <2>1. i + 1 \in 1 .. NumPoints /\ (i + 1) - 1 = i
    BY <1>1, <1>2 DEF n
  <2>2. points[i + 1].positions = At_(i + 1) /\ points[i + 1].time = T(i + 1)
    BY <1>7, <2>1
  <2>3. T(i + 1) = (i * D) \div (n * V)
    BY <2>1, Zenon DEF T
  <2>4. At_(i + 1) = [j \in 1 .. w |-> start[j] + (i * (goal[j] - start[j])) \div n]
    BY <2>1, Zenon DEF At_
  <2> QED BY <2>2, <2>3, <2>4
<1>9. Len(points) = n + 1
  BY <1>1, <1>7 DEF n
<1>10. EvenPoints(points, start, goal, n, V, w, D)
  BY <1>2, <1>8, <1>9, Zenon DEF EvenPoints
<1> QED BY <1>10, Zenon DEF points, n, V, w, D

\* p are a joint's points over its way, t their times.
PacedJoint(n, V, rate, D, start, way, p, t) ==
  /\ n \in Nat \ {0} /\ V \in Nat \ {0} /\ rate \in Nat /\ V <= rate
  /\ D \in Nat /\ (V <= ErrorThreshold \/ D % (n * V) = 0) /\ D <= n * rate * Settle
  /\ start \in Int /\ way \in Int /\ Abs(way) <= D
  /\ \A i \in 0 .. n : p[i] = start + (i * way) \div n
  /\ \A i \in 0 .. n : t[i] = (i * D) \div (n * V)

\* b is a course for them, seen in one of the two directions.
CourseOf(up, b, n, rate, p, t) ==
  /\ \A i \in 0 .. n - 1 : Way(up, p[i]) <= Way(up, p[i + 1])
  /\ Way(up, p[n]) <= Way(up, p[n - 1]) + rate * Settle
  /\ b \in [Int -> Int] /\ \A T \in Int : b[T + 1] <= b[T] + rate
  /\ \A i \in 0 .. n - 1 : /\ b[t[i + 1]] <= Way(up, p[i])
                           /\ Way(up, p[i]) <= b[t[i + 1]] + ErrorThreshold

\* One joint of a plan has a course from its first point on.
LEMMA JointHasCourse ==
  ASSUME NEW n, NEW V, NEW rate, NEW D, NEW start, NEW way, NEW p, NEW t,
         PacedJoint(n, V, rate, D, start, way, p, t)
  PROVE  \E up \in BOOLEAN : \E b : CourseOf(up, b, n, rate, p, t)
<1> USE DEF PacedJoint
<1>1. ErrorThreshold \in Nat /\ Settle \in Nat
  BY ControlAssumption
<1> DEFINE up == 0 <= way
           d == Abs(way)
           e1 == IF up THEN n - 1 ELSE 0
           e2 == IF up THEN 0 ELSE n - 1
           q(i) == (i * way) \div n
           x == [i \in 0 .. n |-> Way(up, p[i])]
<1>2. d \in Nat /\ d <= D /\ e1 \in Nat /\ e2 \in Nat /\ e1 + e2 = n - 1 /\ up \in BOOLEAN
  BY DEF Abs
<1>3. ASSUME NEW i \in 0 .. n
      PROVE  /\ q(i) \in Int /\ p[i] = start + q(i)
             /\ n * q(i) <= i * way /\ i * way <= n * q(i) + n - 1
             /\ i = 0 => q(i) = 0
  BY Parts
<1>4. ASSUME NEW i \in 0 .. n - 1 PROVE Way(up, p[i]) <= Way(up, p[i + 1])
  <2>1. i \in 0 .. n /\ i + 1 \in 0 .. n
    OBVIOUS
  <2>2. /\ q(i) \in Int /\ q(i + 1) \in Int
        /\ p[i] = start + q(i) /\ p[i + 1] = start + q(i + 1)
    BY <1>3, <2>1
  <2>3. /\ 0 <= way => q(i) <= q(i + 1)
        /\ ~ (0 <= way) => q(i + 1) <= q(i)
    <3> DEFINE r == i * way
               s == (i + 1) * way
    <3>1. r \in Int /\ s \in Int /\ (0 <= way => r <= s) /\ (~ (0 <= way) => s <= r)
      BY <2>1
    <3> HIDE DEF r, s
    <3>2. (0 <= way => r \div n <= s \div n) /\ (~ (0 <= way) => s \div n <= r \div n)
      BY <3>1, DivKeepsOrder
    <3> QED BY <3>2 DEF r, s
  <2> HIDE DEF q
  <2> QED BY <2>2, <2>3 DEF Way
<1>5. ASSUME NEW i \in 0 .. n
      PROVE  /\ x[i] \in Int
             /\ i * d - e1 <= n * (x[i] - x[0]) /\ n * (x[i] - x[0]) <= i * d + e2
  <2>1. 0 \in 0 .. n
    OBVIOUS
  <2>2. /\ q(i) \in Int /\ q(0) = 0 /\ p[i] = start + q(i) /\ p[0] = start + q(0)
        /\ n * q(i) <= i * way /\ i * way <= n * q(i) + n - 1
    BY <1>3, <2>1
  <2> DEFINE z == q(i)
             iw == i * way
             nz == n * z
  <2>3. z \in Int /\ iw \in Int /\ nz \in Int /\ nz <= iw /\ iw <= nz + n - 1
        /\ p[i] = start + z /\ p[0] = start
    BY <2>2
  <2>4. CASE 0 <= way
    <3>1. i * d = iw
      BY <2>4 DEF Abs
    <3>2. x[i] = p[i] /\ x[0] = p[0]
      BY <2>1, <2>4 DEF Way
    <3>3. x[i] - x[0] = z
      <4> HIDE DEF z, x
      <4> QED BY <2>3, <3>2
    <3>4. n * (x[i] - x[0]) = nz
      BY <3>3
    <3>5. e1 = n - 1 /\ e2 = 0
      BY <2>4
    <3>6. x[i] \in Int
      BY <2>3, <3>2
    <3> HIDE DEF x, z, iw, nz, e1, e2, d
    <3> QED BY <2>3, <3>1, <3>4, <3>5, <3>6
  <2>5. CASE ~ (0 <= way)
    <3>1. i * d = - iw
      BY <2>5 DEF Abs
    <3>2. x[i] = - p[i] /\ x[0] = - p[0]
      BY <2>1, <2>5 DEF Way
    <3>3. x[i] - x[0] = - z
      <4> HIDE DEF z, x
      <4> QED BY <2>3, <3>2
    <3>4. n * (x[i] - x[0]) = - nz
      <4>1. n * (- z) = - (n * z)
        <5> HIDE DEF z
        <5> QED BY <2>3
      <4> QED BY <3>3, <4>1
    <3>5. e1 = 0 /\ e2 = n - 1
      BY <2>5
    <3>6. x[i] \in Int
      BY <2>3, <3>2
    <3> HIDE DEF x, z, iw, nz, e1, e2, d
    <3> QED BY <2>3, <3>1, <3>4, <3>5, <3>6
  <2> QED BY <2>4, <2>5
<1>6. /\ \E b \in [Int -> Int] :
           /\ \A T \in Int : b[T + 1] <= b[T] + rate
           /\ \A i \in 0 .. n - 1 : b[t[i + 1]] <= x[i] /\ x[i] <= b[t[i + 1]] + ErrorThreshold
      /\ x[n] <= x[n - 1] + rate * Settle
  <2> HIDE DEF x, d, e1, e2, q, up
  <2>1. \A i \in 0 .. n : /\ x[i] \in Int /\ i * d - e1 <= n * (x[i] - x[0])
                         /\ n * (x[i] - x[0]) <= i * d + e2
    BY <1>5
  <2>2. Paced(n, V, rate, D, d, ErrorThreshold, Settle, e1, e2, x, t)
    BY <1>1, <1>2, <2>1, Zenon DEF Paced
  <2> QED BY <2>2, CourseExists, Zenon
<1>7. PICK b : /\ b \in [Int -> Int] /\ \A T \in Int : b[T + 1] <= b[T] + rate
               /\ \A i \in 0 .. n - 1 : b[t[i + 1]] <= x[i] /\ x[i] <= b[t[i + 1]] + ErrorThreshold
  BY <1>6
<1>8. \A i \in 0 .. n - 1 : x[i] = Way(up, p[i])
  OBVIOUS
<1>9. Way(up, p[n]) <= Way(up, p[n - 1]) + rate * Settle
  <2>1. n \in 0 .. n /\ n - 1 \in 0 .. n
    OBVIOUS
  <2>2. x[n] = Way(up, p[n]) /\ x[n - 1] = Way(up, p[n - 1])
    BY <2>1
  <2> HIDE DEF x
  <2> QED BY <1>6, <2>2
<1>10. \A i \in 0 .. n - 1 : /\ b[t[i + 1]] <= Way(up, p[i])
                             /\ Way(up, p[i]) <= b[t[i + 1]] + ErrorThreshold
  <2> HIDE DEF x
  <2> QED BY <1>7, <1>8
<1> HIDE DEF up, x
<1>11. CourseOf(up, b, n, rate, p, t)
  BY <1>4, <1>7, <1>9, <1>10, Zenon DEF CourseOf
<1> QED BY <1>2, <1>11

\* The planner's points lie between the position and the goal, and follow one
\* another in time.
LEMMA PlanIsPlanned ==
  ASSUME NEW a \in Arms, NEW st \in ArmSet(a), NEW joints \in Seq(Int) \ {NoJoints},
         NEW plan \in Int, NEW scaling \in 0 .. FullScaling,
         \A j \in DOMAIN joints : joints[j] \in Between(a),
         NEW me, me.points = Interpolate(st.current, joints, plan), me.arm = a,
         me.scaling = scaling, me.idx = 1, me.phase = "admitted"
  PROVE  /\ Planned(me) /\ Width(me) = Shorter(st.current, joints)
         /\ EvenPoints(me.points, st.current, joints, NumPoints - 1,
                       MaxJointVelocity * PlanScaling(plan), Width(me),
                       Displacement(st.current, joints))
         /\ Displacement(st.current, joints) \in Nat
         /\ \A j \in 1 .. Width(me) :
              /\ st.current[j] \in Between(a) /\ joints[j] \in Between(a)
              /\ Abs(joints[j] - st.current[j]) <= Displacement(st.current, joints)
<1> DEFINE start == st.current
           w == Shorter(start, joints)
           n == NumPoints - 1
           V == MaxJointVelocity * PlanScaling(plan)
           D == Displacement(start, joints)
           points == me.points
<1>1. /\ start \in [1 .. NumJoints[a] -> Between(a)] /\ NumJoints[a] \in Nat \ {0}
      /\ \A x \in Between(a) : x \in Int
  BY DriverAssumption, LimitsTyped DEF ArmSet, Between
<1>2. start \in Seq(Int) /\ Len(start) = NumJoints[a]
  <2>1. \A j \in 1 .. NumJoints[a] : start[j] \in Int
    BY <1>1
  <2> HIDE DEF start
  <2>2. start \in [1 .. NumJoints[a] -> Int]
    BY <1>1, <2>1
  <2> QED BY <1>1, <2>2
<1>3. /\ w \in 1 .. NumJoints[a]
      /\ \A j \in 1 .. w : start[j] \in Between(a) /\ joints[j] \in Between(a)
  <2>1. Len(joints) \in Nat \ {0} /\ DOMAIN joints = 1 .. Len(joints)
    BY DEF NoJoints
  <2> HIDE DEF start
  <2>2. w \in 1 .. NumJoints[a] /\ w <= Len(joints)
    BY <1>1, <1>2, <2>1 DEF Shorter
  <2> HIDE DEF w
  <2>3. ASSUME NEW j \in 1 .. w PROVE start[j] \in Between(a) /\ joints[j] \in Between(a)
    <3>1. j \in 1 .. NumJoints[a] /\ j \in DOMAIN joints
      BY <1>1, <2>1, <2>2
    <3> QED BY <1>1, <3>1
  <2> QED BY <2>2, <2>3
<1>13. EvenPoints(points, start, joints, n, V, w, D)
  <2>1. joints \in Seq(Int) /\ start \in Seq(Int) /\ points = Interpolate(start, joints, plan)
    BY <1>2
  <2> HIDE DEF start, points
  <2>2. EvenPoints(Interpolate(start, joints, plan), start, joints, n, V, w, D)
    BY <2>1, InterpolateFacts
  <2> HIDE DEF n, V, w, D
  <2> QED BY <2>1, <2>2, Zenon
<1>4. /\ n \in Nat \ {0} /\ V \in Nat \ {0}
      /\ Len(points) = n + 1
      /\ \A i \in 0 .. n :
           /\ points[i + 1].time = (i * D) \div (n * V)
           /\ points[i + 1].positions =
                [j \in 1 .. w |-> start[j] + (i * (joints[j] - start[j])) \div n]
  <2> HIDE DEF n, V, w, D, start, points
  <2> QED BY <1>13, Zenon DEF EvenPoints
<1>5. D \in Nat /\ \A j \in 1 .. w : Abs(joints[j] - start[j]) <= D
  <2>1. w \in Nat \ {0}
    BY <1>1, <1>3
  <2> HIDE DEF start
  <2> QED BY <1>2, <2>1, DisplacementBounds
<1> HIDE DEF w, n, V, D, start
<1>6. ASSUME NEW i \in 0 .. n, NEW j \in 1 .. w
      PROVE  points[i + 1].positions[j] \in Between(a)
  <2> DEFINE s == start[j]
             g == joints[j]
             q == (i * (g - s)) \div n
             lo == JointLimits[a].lower
             hi == JointLimits[a].upper
  <2>1. s \in lo .. hi /\ g \in lo .. hi /\ lo \in Int /\ hi \in Int
    BY <1>3, LimitsTyped DEF Between
  <2>2. points[i + 1].positions[j] = s + q
    BY <1>4
  <2> HIDE DEF s, g, lo, hi
  <2>3. g - s \in Int
    BY <2>1
  <2>4. /\ q \in Int
        /\ 0 <= g - s => 0 <= q /\ q <= g - s
        /\ g - s <= 0 => g - s <= q /\ q <= 0
    BY <1>4, <2>3, Parts
  <2> HIDE DEF q
  <2>5. s + q \in lo .. hi
    BY <2>1, <2>4
  <2> QED BY <2>2, <2>5 DEF Between, lo, hi
<1>7. ASSUME NEW i \in 0 .. n
      PROVE  /\ points[i + 1].positions \in [1 .. w -> Between(a)]
             /\ points[i + 1].time \in Int
  <2>1. points[i + 1].positions \in [1 .. w -> Between(a)]
    <3> DEFINE ps == points[i + 1].positions
    <3>1. ps = [j \in 1 .. w |-> ps[j]]
      BY <1>4
    <3>2. \A j \in 1 .. w : ps[j] \in Between(a)
      BY <1>6
    <3> HIDE DEF ps
    <3> QED BY <3>1, <3>2 DEF ps
  <2>2. points[i + 1].time \in Int
    <3> DEFINE r == i * D
               m == n * V
    <3>1. r \in Int /\ m \in Nat \ {0}
      BY <1>4, <1>5
    <3>2. points[i + 1].time = r \div m
      BY <1>4
    <3> HIDE DEF r, m
    <3> QED BY <3>1, <3>2, DivBounds
  <2> QED BY <2>1, <2>2
<1>8. ASSUME NEW i \in 0 .. n - 1
      PROVE  points[i + 1].time <= points[(i + 1) + 1].time
  <2> DEFINE r == i * D
             s == (i + 1) * D
             m == n * V
  <2>1. r \in Int /\ s \in Int /\ m \in Nat \ {0} /\ r <= s
    BY <1>4, <1>5
  <2>2. i \in 0 .. n /\ i + 1 \in 0 .. n
    BY <1>4
  <2>3. points[i + 1].time = r \div m /\ points[(i + 1) + 1].time = s \div m
    BY <1>4, <2>2
  <2> HIDE DEF r, s, m
  <2> QED BY <2>1, <2>3, DivKeepsOrder
<1>9. /\ \A k \in 1 .. Len(points) :
           points[k].time \in Int /\ points[k].positions \in [1 .. w -> Between(a)]
      /\ \A k \in 1 .. Len(points) - 1 : points[k].time <= points[k + 1].time
  <2>1. ASSUME NEW k \in 1 .. Len(points)
        PROVE  points[k].time \in Int /\ points[k].positions \in [1 .. w -> Between(a)]
    <3>1. k - 1 \in 0 .. n /\ (k - 1) + 1 = k
      BY <1>4
    <3> QED BY <1>7, <3>1
  <2>2. ASSUME NEW k \in 1 .. Len(points) - 1
        PROVE  points[k].time <= points[k + 1].time
    <3>1. k - 1 \in 0 .. n - 1 /\ (k - 1) + 1 = k
      BY <1>4
    <3> QED BY <1>8, <3>1
  <2> QED BY <2>1, <2>2
<1>10. Width(me) = w
  <2>1. 0 \in 0 .. n /\ 0 + 1 = 1
    BY <1>4
  <2>2. points[1].positions = [j \in 1 .. w |-> points[1].positions[j]]
    BY <1>4, <2>1
  <2>3. Len(points[1].positions) = w
    BY <1>3, <2>2
  <2> QED BY <2>3 DEF Width
<1>11. Len(points) \in Nat /\ Len(points) > 1 /\ 1 \in 1 .. Len(points)
  BY <1>4
<1>12. Planned(me)
  BY <1>3, <1>9, <1>10, <1>11, Zenon DEF Planned
<1>14. /\ Width(me) = w /\ EvenPoints(points, start, joints, n, V, Width(me), D)
       /\ \A j \in 1 .. Width(me) : /\ start[j] \in Between(a) /\ joints[j] \in Between(a)
                                    /\ Abs(joints[j] - start[j]) <= D
  BY <1>3, <1>5, <1>10, <1>13
<1> QED BY <1>5, <1>12, <1>14, Zenon DEF w, start, n, V, D

\* A plan for an arm at rest begins on its course.
LEMMA PlanIsOnCourse ==
  ASSUME NEW a \in Arms, NEW st \in ArmSet(a), NEW joints \in Seq(Int) \ {NoJoints},
         NEW plan \in Int, NEW scaling \in 0 .. FullScaling,
         \A j \in DOMAIN joints : joints[j] \in Between(a),
         NEW n, n = NumPoints - 1, NEW V, V = MaxJointVelocity * PlanScaling(plan),
         NEW D, D = Displacement(st.current, joints),
         st.target = st.current, V <= MaxVelocity[a] * scaling,
         V <= ErrorThreshold \/ D % (n * V) = 0, D <= n * (MaxVelocity[a] * scaling) * Settle,
         NEW me, me.points = Interpolate(st.current, joints, plan), me.arm = a,
         me.scaling = scaling, me.idx = 1, me.phase = "admitted", me.left = 0
  PROVE  OnCourse(me, st)
<1> DEFINE points == me.points
           start == st.current
           w == Width(me)
           rate == Rate(me)
<1>1. /\ Planned(me) /\ EvenPoints(points, start, joints, n, V, w, D) /\ D \in Nat
      /\ w = Shorter(start, joints)
      /\ \A j \in 1 .. w : /\ start[j] \in Between(a) /\ joints[j] \in Between(a)
                           /\ Abs(joints[j] - start[j]) <= D
  BY PlanIsPlanned
<1>2. /\ n \in Nat \ {0} /\ V \in Nat \ {0} /\ w \in Nat
      /\ Len(points) = n + 1
      /\ \A i \in 0 .. n :
           /\ points[i + 1].time = (i * D) \div (n * V)
           /\ points[i + 1].positions =
                [j \in 1 .. w |-> start[j] + (i * (joints[j] - start[j])) \div n]
  <2> HIDE DEF points, start, w
  <2> QED BY <1>1, Zenon DEF EvenPoints
<1>3. rate = MaxVelocity[a] * scaling /\ rate \in Nat
  BY LimitsTyped DEF Rate
<1>4. Holding(me, st)
  <2>1. DOMAIN st.current = 1 .. NumJoints[a] /\ w \in 1 .. NumJoints[a] /\ NumJoints[a] \in Nat
    BY <1>1, LimitsTyped DEF ArmSet, Planned
  <2> QED BY <2>1 DEF Holding
<1>5. ASSUME NEW j \in 1 .. w
      PROVE  \E up \in BOOLEAN : \E b : Course(me, j, up, b) /\ Follows(me, st, j, up, b)
  <2> DEFINE p == [i \in 0 .. n |-> points[i + 1].positions[j]]
             t == [i \in 0 .. n |-> points[i + 1].time]
             way == joints[j] - start[j]
             s == start[j]
  <2>1. s \in Int /\ way \in Int /\ Abs(way) <= D
    <3>1. start[j] \in Between(a) /\ joints[j] \in Between(a) /\ Abs(joints[j] - start[j]) <= D
      BY <1>1
    <3> QED BY <3>1, LimitsTyped DEF Between
  <2>8. ASSUME NEW i \in 0 .. n PROVE p[i] = s + (i * way) \div n
    <3>1. points[i + 1].positions =
            [k \in 1 .. w |-> start[k] + (i * (joints[k] - start[k])) \div n]
      BY <1>2
    <3> HIDE DEF points, start, w
    <3>2. points[i + 1].positions[j] = start[j] + (i * (joints[j] - start[j])) \div n
      BY <3>1
    <3> QED BY <3>2
  <2>2. PacedJoint(n, V, rate, D, s, way, p, t)
    <3>1. \A i \in 0 .. n : p[i] = s + (i * way) \div n
      BY <2>8
    <3>2. \A i \in 0 .. n : t[i] = (i * D) \div (n * V)
      BY <1>2
    <3>3. V <= rate /\ D <= n * rate * Settle
      BY <1>3
    <3> HIDE DEF p, t, way, s, rate
    <3> QED BY <1>1, <1>2, <1>3, <2>1, <3>1, <3>2, <3>3, Zenon DEF PacedJoint
  <2>9. \E up \in BOOLEAN : \E b : CourseOf(up, b, n, rate, p, t)
    <3> HIDE DEF p, t, way, s, rate
    <3> QED BY <2>2, JointHasCourse, Zenon
  <2>3. PICK up \in BOOLEAN : \E b : CourseOf(up, b, n, rate, p, t)
    BY <2>9, Zenon
  <2>10. PICK b : CourseOf(up, b, n, rate, p, t)
    BY <2>3, Zenon
  <2>4. /\ \A i \in 0 .. n - 1 : Way(up, p[i]) <= Way(up, p[i + 1])
        /\ Way(up, p[n]) <= Way(up, p[n - 1]) + rate * Settle
        /\ b \in [Int -> Int] /\ \A T \in Int : b[T + 1] <= b[T] + rate
        /\ \A i \in 0 .. n - 1 : /\ b[t[i + 1]] <= Way(up, p[i])
                                 /\ Way(up, p[i]) <= b[t[i + 1]] + ErrorThreshold
    <3> HIDE DEF p, t, rate
    <3> QED BY <2>10, Zenon DEF CourseOf
  <2>5. ASSUME NEW k \in 1 .. n + 1
        PROVE  k - 1 \in 0 .. n /\ At(me, up, k, j) = Way(up, p[k - 1])
               /\ points[k].time = t[k - 1]
    <3>1. k - 1 \in 0 .. n /\ (k - 1) + 1 = k
      BY <1>2
    <3> QED BY <3>1 DEF At
  <2>6. Course(me, j, up, b)
    <3>1. ASSUME NEW k \in 1 .. Len(points) - 1
          PROVE  /\ At(me, up, k, j) <= At(me, up, k + 1, j)
                 /\ b[points[k + 1].time] <= At(me, up, k, j)
                 /\ At(me, up, k, j) <= b[points[k + 1].time] + ErrorThreshold
      <4> DEFINE i == k - 1
      <4>1. i \in 0 .. n - 1 /\ k \in 1 .. n + 1 /\ k + 1 \in 1 .. n + 1 /\ (k + 1) - 1 = i + 1
        BY <1>2
      <4>2. /\ At(me, up, k, j) = Way(up, p[i]) /\ At(me, up, k + 1, j) = Way(up, p[i + 1])
            /\ points[k + 1].time = t[i + 1]
        <5> HIDE DEF p, t, points
        <5> QED BY <2>5, <4>1
      <4> HIDE DEF i, p, t, points
      <4> QED BY <2>4, <4>1, <4>2
    <3>2. At(me, up, Len(points), j) <= At(me, up, Len(points) - 1, j) + rate * Settle
      <4>1. n + 1 \in 1 .. n + 1 /\ (n + 1) - 1 = n /\ n \in 1 .. n + 1 /\ Len(points) - 1 = n
        <5>1. n \in Nat \ {0} /\ Len(points) = n + 1
          BY <1>2
        <5>2. ASSUME NEW m \in Nat \ {0}
              PROVE  m + 1 \in 1 .. m + 1 /\ (m + 1) - 1 = m /\ m \in 1 .. m + 1
          OBVIOUS
        <5> QED BY <5>1, <5>2, Zenon
      <4>2. At(me, up, n + 1, j) = Way(up, p[n]) /\ At(me, up, n, j) = Way(up, p[n - 1])
        <5> HIDE DEF p, t, points
        <5> QED BY <2>5, <4>1
      <4> HIDE DEF p, t, points
      <4> QED BY <1>2, <2>4, <4>1, <4>2
    <3> HIDE DEF p, t
    <3> QED BY <2>4, <3>1, <3>2, Zenon DEF Course
  <2>7. Follows(me, st, j, up, b)
    <3>7. n \in Nat \ {0} /\ 0 \in 0 .. n
      <4>1. n \in Nat \ {0}
        BY <1>2
      <4> QED BY <4>1
    <3>1. 0 \in 0 .. n /\ p[0] = s + (0 * way) \div n
      BY <2>8, <3>7
    <3>2. (0 * way) \div n = 0
      <4> DEFINE z == 0
      <4>1. z \in 0 .. n /\ z = 0
        BY <3>7
      <4> HIDE DEF way, z
      <4>2. z = 0 => (z * way) \div n = 0
        BY <2>1, <3>7, <4>1, Parts
      <4> QED BY <4>2 DEF z
    <3>3. p[0] = s
      <4> HIDE DEF p, s, way
      <4> QED BY <2>1, <3>1, <3>2
    <3>4. points[1].positions[j] = s
      BY <3>1, <3>3
    <3>5. Way(up, s) \in Int /\ At(me, up, 1, j) = Way(up, s)
      <4> HIDE DEF s
      <4> QED BY <2>1, <3>4 DEF At, Way
    <3>6. BeforePoint(me, Way(up, s), Way(up, s), j, up, b)
      BY <3>5 DEF BeforePoint
    <3> HIDE DEF p, t
    <3> QED BY <3>5, <3>6 DEF Follows
  <2> QED BY <2>6, <2>7
<1> QED BY <1>1, <1>4, <1>5 DEF OnCourse

-----------------------------------------------------------------------------
(* The loops on their course                                               *)

Tracked(l) ==
  /\ Running(l) /\ loop[l].clean /\ l \notin disturbed /\ l \notin raced
  /\ loop[l].arm \in DOMAIN armState

LoopsTrack ==
  \A l \in Loops : Tracked(l) => OnCourse(loop[l], armState[loop[l].arm])

CourseInv == ControlInv /\ LoopsTrack

\* Nothing happened to the loop or to its arm.
LEMMA UntouchedTracks ==
  ASSUME LoopsTrack, NEW l \in Loops, Tracked(l)', loop'[l] = loop[l],
         l \in disturbed => l \in disturbed', l \in raced => l \in raced',
         DOMAIN armState' \subseteq DOMAIN armState,
         armState'[loop[l].arm] = armState[loop[l].arm]
  PROVE  OnCourse(loop[l], armState[loop[l].arm])'
<1>1. Tracked(l)
  BY DEF Tracked, Running
<1>2. OnCourse(loop[l], armState[loop[l].arm])
  BY <1>1 DEF LoopsTrack
<1>3. OnCourse(loop'[l], armState'[loop'[l].arm])
  BY <1>2, Zenon
<1> QED BY <1>3, Zenon DEF OnCourse, Planned, Holding, Course, Follows, Width, Rate, At,
                          BeforePoint, AtPoint

\* What holds of the values the step gives holds of the step.
LEMMA NextCourse ==
  ASSUME NEW l \in Loops, OnCourse(loop'[l], armState'[loop'[l].arm])
  PROVE  OnCourse(loop[l], armState[loop[l].arm])'
BY Zenon DEF OnCourse, Planned, Holding, Course, Follows, Width, Rate, At, BeforePoint, AtPoint

\* A period that does not raise moves every arm.
LEMMA StepAdvances ==
  ASSUME DriverOK, Step, NEW a \in DOMAIN armState
  PROVE  /\ armState'[a] \in {armState[a], Advanced(a)}
         /\ ~ StepRaises => armState'[a] = Advanced(a)
<1>1. armState'[a] = IF \E k \in DOMAIN ArmOrder : ArmOrder[k] = a /\ Reached(k)
                       THEN Advanced(a) ELSE armState[a]
  BY DEF Step
<1>2. ASSUME ~ StepRaises PROVE \E k \in DOMAIN ArmOrder : ArmOrder[k] = a /\ Reached(k)
  <2>1. PICK k \in DOMAIN ArmOrder : ArmOrder[k] = a
    BY DEF DriverOK, Arms
  <2>2. Reached(k)
    BY <1>2 DEF StepRaises, Reached
  <2> QED BY <2>1, <2>2
<1> QED BY <1>1, <1>2

\* A period moves a joint by no more than the arm's velocity, scaled.
LEMMA AdvancedJoint ==
  ASSUME NEW a \in Arms, armState[a] \in ArmSet(a), NEW j \in 1 .. NumJoints[a],
         j \in DOMAIN armState[a].target
  PROVE  /\ Advanced(a).scaling = armState[a].scaling
         /\ Advanced(a).current[j] = Toward(armState[a].current[j], armState[a].target[j],
                                            MaxVelocity[a] * armState[a].scaling)
<1> DEFINE st == armState[a]
           most == MaxVelocity[a] * st.scaling
           Next_(i) == IF i \in DOMAIN st.target
                         THEN Toward(st.current[i], st.target[i], most) ELSE st.current[i]
           moved == [i \in DOMAIN st.current |-> Next_(i)]
<1>1. Advanced(a) = [st EXCEPT !.current = moved]
  BY Zenon DEF Advanced
<1>2. /\ DOMAIN st.current = 1 .. NumJoints[a]
      /\ st = [current |-> st.current, target |-> st.target, scaling |-> st.scaling]
  BY DEF ArmSet
<1>3. moved[j] = Next_(j)
  BY <1>2
<1>4. Next_(j) = Toward(st.current[j], st.target[j], most)
  OBVIOUS
<1> HIDE DEF moved, Next_, most
<1>5. Advanced(a) = [current |-> moved, target |-> st.target, scaling |-> st.scaling]
  BY <1>1, <1>2
<1> QED BY <1>3, <1>4, <1>5 DEF most

\* Whoever steps the driver, a loop stays on its course.
LEMMA OtherStep ==
  ASSUME DriverOK, Step, NEW me, me.arm \in DOMAIN armState, OnCourse(me, armState[me.arm])
  PROVE  OnCourse(me, armState'[me.arm])
<1> DEFINE a == me.arm
           st == armState[a]
           st2 == armState'[a]
<1>1. a \in Arms /\ st \in ArmSet(a) /\ st2 \in {st, Advanced(a)}
  BY StepAdvances DEF DriverOK
<1>2. CASE st2 = st
  BY <1>2
<1>3. CASE st2 = Advanced(a)
  <2>1. st2 \in ArmSet(a) /\ st2.target = st.target
    BY <1>1, <1>3, AdvancedFacts
  <2>2. Planned(me) /\ Holding(me, st) /\ Width(me) \in 1 .. NumJoints[a] /\ NumJoints[a] \in Nat
    BY <1>1, LimitsTyped DEF OnCourse, Planned
  <2>3. ASSUME NEW j \in 1 .. Width(me)
        PROVE  j \in 1 .. NumJoints[a] /\ j \in DOMAIN st.target
    BY <2>2 DEF Holding
  <2>4. st2.scaling = st.scaling
    <3>1. 1 \in 1 .. Width(me)
      BY <2>2
    <3> QED BY <1>1, <1>3, <2>3, <3>1, AdvancedJoint
  <2>5. ASSUME NEW j \in 1 .. Width(me), NEW up \in BOOLEAN,
               Way(up, st.current[j]) <= Way(up, st.target[j])
        PROVE  /\ Way(up, st.current[j]) <= Way(up, st2.current[j])
               /\ Way(up, st2.current[j]) <= Way(up, st.target[j])
    <3> DEFINE x == st.current[j]
               y == st.target[j]
               most == MaxVelocity[a] * st.scaling
    <3>1. st2.current[j] = Toward(x, y, most)
      BY <1>1, <1>3, <2>3, AdvancedJoint
    <3>2. x \in Int /\ y \in Int /\ most \in Nat
      <4>1. x \in Between(a) /\ y \in Between(a)
        BY <1>1, <2>2, CourseTyped
      <4>2. MaxVelocity[a] \in Nat /\ st.scaling \in Nat
        BY <1>1, LimitsTyped DEF ArmSet
      <4> QED BY <1>1, <4>1, <4>2, LimitsTyped DEF Between
    <3>3. Way(up, x) <= Way(up, y)
      BY <2>5
    <3> HIDE DEF x, y, most
    <3>4. /\ Way(up, x) <= Way(up, Toward(x, y, most))
          /\ Way(up, Toward(x, y, most)) <= Way(up, y)
      BY <3>2, <3>3, TowardWay
    <3> QED BY <3>1, <3>4 DEF x, y
  <2> QED BY <1>1, <2>1, <2>4, <2>5, NearerKeepsCourse
<1> QED BY <1>1, <1>2, <1>3

-----------------------------------------------------------------------------
(* The steps                                                               *)

\* A loop of another arm than the one that moves goes on.
LEMMA LoopGoesOn ==
  ASSUME LoopsTrack, NEW k \in Loops, Tracked(k)', loop'[k] = loop[k],
         k \in disturbed => k \in disturbed', k \in raced => k \in raced',
         DOMAIN armState' \subseteq DOMAIN armState
  PROVE  /\ Tracked(k) /\ Running(k) /\ loop[k].arm \in DOMAIN armState
         /\ OnCourse(loop[k], armState[loop[k].arm])
BY DEF Tracked, Running, LoopsTrack

\* A loop that ends has no course to keep, and nothing happens to the others.
LEMMA FinishKeepsTracks ==
  ASSUME CourseInv, NEW l \in Loops, NEW raised, Finish(l, raised),
         disturbed' = disturbed \ {l}, armState' = armState
  PROVE  LoopsTrack'
<1> SUFFICES ASSUME NEW k \in Loops, Tracked(k)'
             PROVE  OnCourse(loop[k], armState[loop[k].arm])'
  BY DEF LoopsTrack
<1>1. raced' = raced \ {l} /\ loop'[l] = Idle /\ \A i \in Loops \ {l} : loop'[i] = loop[i]
  BY DEF Finish, CourseInv, ControlInv, LoopsOK
<1>2. k # l
  BY <1>1 DEF Tracked, Running, Idle
<1> QED BY <1>1, <1>2, UntouchedTracks DEF CourseInv

\* After a shutdown no arm is left to track.
LEMMA ShutdownTracks ==
  ASSUME Shutdown
  PROVE  LoopsTrack'
<1>1. DOMAIN armState' = {}
  BY DEF Shutdown, Disconnect
<1> QED BY <1>1 DEF LoopsTrack, Tracked

\* The stop disturbs every other loop on its course, and ends this one.
LEMMA CancelTracks ==
  ASSUME CourseInv, NEW l \in Loops, CancelTrajectory(l)
  PROVE  LoopsTrack'
<1> SUFFICES ASSUME NEW k \in Loops, Tracked(k)' PROVE FALSE
  BY DEF LoopsTrack
<1>1. /\ loop'[l] = Idle /\ \A i \in Loops \ {l} : loop'[i] = loop[i]
      /\ disturbed' = (disturbed \cup Others(l)) \ {l}
  BY DEF CancelTrajectory, Finish, CourseInv, ControlInv, LoopsOK
<1>2. k # l /\ Running(k) /\ loop[k].clean
  BY <1>1 DEF Tracked, Running, Idle
<1> QED BY <1>1, <1>2 DEF Tracked, Others

\* A loop that begins, clean, begins on its course.
LEMMA ExecuteTracks ==
  ASSUME CourseInv, NEW l \in Loops, ExecuteGoal(l) \/ ExecutePlan(l)
  PROVE  LoopsTrack'
<1>1. PICK arm, points, scaling, clean : Execute(l, arm, points, scaling, clean)
  BY DEF ExecuteGoal, ExecutePlan
<1>2. /\ armState' = armState /\ disturbed' = disturbed /\ raced \subseteq raced'
      /\ loop'[l].clean => ExecutePlan(l)
      /\ \A i \in Loops \ {l} : loop'[i] = loop[i]
  BY DEF ExecuteGoal, ExecutePlan, Execute, driver, CourseInv, ControlInv, LoopsOK
<1> SUFFICES ASSUME NEW k \in Loops, Tracked(k)'
             PROVE  OnCourse(loop[k], armState[loop[k].arm])'
  BY DEF LoopsTrack
<1>3. CASE k # l
  BY <1>2, <1>3, UntouchedTracks DEF CourseInv
<1>4. CASE k = l
  <2>1. loop'[l].clean
    BY <1>4 DEF Tracked
  <2>2. ExecutePlan(l)
    BY <1>2, <2>1
  <2>3. PICK goal \in PlannedGoals :
          /\ Connected
          /\ Execute(l, goal.arm,
                     Interpolate(armState[goal.arm].current, goal.joints, goal.plan),
                     goal.scaling, Clean(goal))
    BY <2>2 DEF ExecutePlan
  <2> DEFINE a == goal.arm
             st == armState[a]
             points_ == Interpolate(st.current, goal.joints, goal.plan)
             clean_ == Clean(goal)
             me == [phase |-> "admitted", arm |-> a, points |-> points_,
                    scaling |-> VelocityScaling(goal.scaling), idx |-> 1, left |-> 0,
                    clean |-> clean_]
  <2>4. a \in Arms /\ a \in DOMAIN armState /\ st \in ArmSet(a)
    BY <2>3 DEF Execute, Admitted, Connected, CourseInv, ControlInv, DriverOK
  <2>5. loop'[l] = me
    <3> HIDE DEF points_, clean_
    <3>1. loop' = [loop EXCEPT ![l] = me]
      BY <2>3, Zenon DEF Execute, points_, clean_
    <3> QED BY <3>1 DEF CourseInv, ControlInv, LoopsOK
  <2>6. goal.joints \in Seq(Int) \ {NoJoints} /\ goal.plan \in Int /\ goal.scaling \in Int
    BY ControlAssumption
  <2>7. VelocityScaling(goal.scaling) \in 0 .. FullScaling
    BY <2>6, ScalingTyped
  <2>8. clean_
    <3> HIDE DEF clean_, points_
    <3> QED BY <2>1, <2>5
  <2> DEFINE n == NumPoints - 1
             V == MaxJointVelocity * PlanScaling(goal.plan)
             D == Displacement(st.current, goal.joints)
             s == VelocityScaling(goal.scaling)
  <2>9. /\ st.target = st.current
        /\ V <= MaxVelocity[a] * s
        /\ V <= ErrorThreshold \/ D % (n * V) = 0
        /\ D <= n * (MaxVelocity[a] * s) * Settle
        /\ \A j \in DOMAIN goal.joints : JointLimits[a].lower <= goal.joints[j]
                                         /\ goal.joints[j] <= JointLimits[a].upper
    BY <2>8, Zenon DEF Clean
  <2>10. ASSUME NEW j \in DOMAIN goal.joints PROVE goal.joints[j] \in Between(a)
    <3>1. goal.joints[j] \in Int
      BY <2>6
    <3> QED BY <2>4, <2>9, <3>1, LimitsTyped DEF Between
  <2>11. OnCourse(me, st)
    <3>1. /\ me.points = points_ /\ me.arm = a /\ me.scaling = s /\ me.idx = 1
          /\ me.phase = "admitted" /\ me.left = 0
      OBVIOUS
    <3>2. /\ n = NumPoints - 1 /\ V = MaxJointVelocity * PlanScaling(goal.plan)
          /\ D = Displacement(st.current, goal.joints)
      OBVIOUS
    <3> HIDE DEF me, s, st, a, n, V, D
    <3>3. s \in 0 .. FullScaling
      BY <2>7 DEF s
    <3> QED BY <2>4, <2>6, <2>9, <2>10, <3>1, <3>2, <3>3, PlanIsOnCourse
  <2>12. OnCourse(loop'[l], armState'[loop'[l].arm])
    <3>1. me.arm = a
      OBVIOUS
    <3> HIDE DEF me, a
    <3> QED BY <1>2, <2>5, <2>11, <3>1, Zenon DEF st
  <2> QED BY <1>4, <2>12, NextCourse
<1> QED BY <1>3, <1>4

\* The arm is marked, at rest.
LEMMA MarkTracks ==
  ASSUME CourseInv, NEW l \in Loops, MarkBusy(l)
  PROVE  LoopsTrack'
<1> DEFINE me == loop[l]
           me2 == loop'[l]
           st == armState[me.arm]
           p == IF me.points = <<>> THEN "empty" ELSE "command"
<1>1. /\ Running(l) /\ me.phase = "admitted" /\ LoopsOK /\ UNCHANGED <<armState, disturbed, raced>>
      /\ loop' = [loop EXCEPT ![l] = [me EXCEPT !.phase = p]]
  BY DEF MarkBusy, Running, CourseInv, ControlInv, LoopsOK, driver
<1>2. \A k \in Loops \ {l} : loop'[k] = loop[k]
  BY <1>1 DEF LoopsOK
<1>3. /\ me2.arm = me.arm /\ me2.points = me.points /\ me2.idx = me.idx
      /\ me2.scaling = me.scaling /\ me2.clean = me.clean
      /\ me2.left = me.left /\ me2.phase = p
  <2>1. me \in [phase : {me.phase}, arm : {me.arm}, points : {me.points},
                scaling : {me.scaling}, idx : {me.idx}, left : {me.left}, clean : {me.clean}]
    BY <1>1, RunningLoop
  <2>2. me2 = [me EXCEPT !.phase = p]
    BY <1>1 DEF LoopsOK
  <2> HIDE DEF me2, p, me
  <2> QED BY <2>1, <2>2
<1> SUFFICES ASSUME NEW k \in Loops, Tracked(k)'
             PROVE  OnCourse(loop[k], armState[loop[k].arm])'
  BY DEF LoopsTrack
<1>4. CASE k # l
  BY <1>1, <1>2, <1>4, UntouchedTracks DEF CourseInv
<1>5. CASE k = l
  <2>1. OnCourse(me, st)
    <3>1. Tracked(l)
      BY <1>1, <1>3, <1>5 DEF Tracked
    <3> QED BY <3>1 DEF CourseInv, LoopsTrack
  <2>2. me2.phase = "command"
    <3>1. Len(me.points) > 1
      BY <2>1 DEF OnCourse, Planned
    <3>2. me.points # <<>>
      BY <3>1
    <3> QED BY <1>3, <3>2
  <2>3. OnCourse(me2, st)
    <3> HIDE DEF me, me2, st, p
    <3> QED BY <1>1, <1>3, <2>1, <2>2, MarkKeepsCourse
  <2> QED BY <1>1, <1>3, <1>5, <2>3, NextCourse
<1> QED BY <1>4, <1>5

LEMMA ReturnEmptyTracks ==
  ASSUME CourseInv, NEW l \in Loops, ReturnEmpty(l)
  PROVE  LoopsTrack'
<1>1. Finish(l, FALSE) /\ disturbed' = disturbed \ {l} /\ armState' = armState
  BY DEF ReturnEmpty, driver
<1> QED BY <1>1, FinishKeepsTracks

\* A point commanded: this loop's course goes on, and no other loop's arm is touched.
LEMMA CommandTracks ==
  ASSUME CourseInv, NEW l \in Loops, CommandPoint(l)
  PROVE  LoopsTrack'
<1> DEFINE me == loop[l]
           held == Segment(me.points, me.idx)
           positions == me.points[me.idx].positions
<1>1. /\ Running(l) /\ DriverOK /\ LoopsOK /\ BusyKeepsOthersOut /\ me.phase = "command"
      /\ positions \in Seq(Int) /\ me.scaling \in 0 .. FullScaling
  <2>1. Running(l) /\ LoopsOK /\ me.phase = "command"
    BY DEF CommandPoint, Running, CourseInv, ControlInv
  <2> QED BY <2>1, PointTyped, RunningLoop DEF CourseInv, ControlInv
<1>2. CASE me.arm \notin DOMAIN armState
  <2>1. Finish(l, TRUE) /\ disturbed' = disturbed \ {l} /\ armState' = armState
    BY <1>2 DEF CommandPoint, Raise, driver
  <2> QED BY <2>1, FinishKeepsTracks
<1>3. CASE me.arm \in DOMAIN armState
  <2>1. /\ SetJointPositions(me.arm, positions, me.scaling)
        /\ loop' = [loop EXCEPT ![l].left = held,
                                ![l].phase = IF held > 0 THEN "step" ELSE "measure"]
        /\ disturbed' = disturbed /\ raced' = raced
    BY <1>3 DEF CommandPoint
  <2>2. PICK a \in DOMAIN armState : a = me.arm
    BY <1>3
  <2>3. /\ DOMAIN armState' = DOMAIN armState /\ DriverOK'
        /\ \A b \in DOMAIN armState \ {a} : armState'[b] = armState[b]
    BY <1>1, <2>1, <2>2, CommandKeepsDriver
  <2>4. loop' = [loop EXCEPT ![l] = [me EXCEPT !.left = held,
                               !.phase = IF held > 0 THEN "step" ELSE "measure"]]
    BY <1>1, <2>1 DEF LoopsOK
  <2>5. \A k \in Loops \ {l} : loop'[k] = loop[k]
    BY <1>1, <2>4 DEF LoopsOK
  <2> SUFFICES ASSUME NEW k \in Loops, Tracked(k)'
               PROVE  OnCourse(loop[k], armState[loop[k].arm])'
    BY DEF LoopsTrack
  <2>6. CASE k # l
    <3>1. /\ loop'[k] = loop[k] /\ Running(k) /\ loop[k].arm \in DOMAIN armState
          /\ k \notin raced
      BY <2>1, <2>3, <2>5, <2>6 DEF Tracked, Running
    <3>2. armState'[loop[k].arm] = armState[loop[k].arm]
      BY <1>1, <2>2, <2>3, <2>6, <3>1 DEF BusyKeepsOthersOut
    <3> QED BY <2>1, <2>3, <3>1, <3>2, UntouchedTracks DEF CourseInv
  <2>7. CASE k = l
    <3> DEFINE st == armState[a]
               me2 == loop'[l]
               st2 == armState'[a]
               p == IF held > 0 THEN "step" ELSE "measure"
    <3>1. /\ me2.arm = a /\ me2.points = me.points /\ me2.idx = me.idx
          /\ me2.scaling = me.scaling /\ me2.clean = me.clean
          /\ me2.left = held /\ me2.phase = p
      <4>1. loop[l] \in [phase : {me.phase}, arm : {me.arm}, points : {me.points},
                         scaling : {me.scaling}, idx : {me.idx}, left : {me.left},
                         clean : {me.clean}]
        BY <1>1, RunningLoop
      <4>2. me2 = [me EXCEPT !.left = held, !.phase = p]
        BY <1>1, <2>4 DEF LoopsOK
      <4> HIDE DEF me2, held, p, me
      <4> QED BY <2>2, <4>1, <4>2 DEF me
    <3>2. OnCourse(me, st) /\ st \in ArmSet(a) /\ st2 \in ArmSet(a) /\ a \in Arms
      <4>1. me.clean /\ l \notin disturbed /\ l \notin raced
        BY <2>1, <2>7, <3>1 DEF Tracked
      <4>2. Tracked(l)
        BY <1>1, <1>3, <4>1 DEF Tracked
      <4>3. OnCourse(me, st)
        BY <2>2, <4>2 DEF CourseInv, LoopsTrack
      <4> QED BY <1>1, <2>3, <4>3 DEF DriverOK, ArmSet, Between
    <3>3. st2.current = st.current /\ st2.scaling = me.scaling
          /\ st2.target = Target(a, positions)
      <4> DEFINE target == Target(a, positions)
                 scaling == Clamped(me.scaling, 0, FullScaling)
      <4>1. st2 = [st EXCEPT !.target = target, !.scaling = scaling]
        <5> HIDE DEF target, scaling
        <5> QED BY <1>1, <2>1, <2>2 DEF SetJointPositions, DriverOK, target, scaling
      <4>2. st = [current |-> st.current, target |-> st.target, scaling |-> st.scaling]
        BY <3>2 DEF ArmSet
      <4>3. scaling = me.scaling
        <5>1. /\ FullScaling \in Int /\ 0 <= FullScaling
              /\ me.scaling \in Int /\ me.scaling \in 0 .. FullScaling
          BY <1>1, DriverAssumption
        <5>2. Clamped(me.scaling, 0, FullScaling) = me.scaling
          <6> DEFINE x == me.scaling
          <6> HIDE DEF x, me
          <6>1. x \in Int /\ x \in 0 .. FullScaling
            BY <5>1 DEF x
          <6>2. Clamped(x, 0, FullScaling) = x
            BY <5>1, <6>1 DEF Clamped, AtLeast, AtMost
          <6> QED BY <6>2 DEF x
        <5> QED BY <5>2
      <4> HIDE DEF target, scaling, st, st2
      <4> QED BY <4>1, <4>2, <4>3 DEF target
    <3>4. OnCourse(me2, st2)
      <4>1. me2.left = Segment(me.points, me.idx)
            /\ st2.target = Target(me.arm, me.points[me.idx].positions)
            /\ me2.phase = IF me2.left > 0 THEN "step" ELSE "measure"
        BY <2>2, <3>1, <3>3
      <4> HIDE DEF me2, st2, st, me, held, positions
      <4> QED BY <1>1, <2>2, <3>1, <3>2, <3>3, <4>1, CommandKeepsCourse DEF me
    <3> QED BY <2>7, <3>1, <3>4, NextCourse
  <2> QED BY <2>6, <2>7
<1> QED BY <1>2, <1>3

\* A period: this loop has one less to hold its point, every other loop's arm
\* comes nearer to its target.
LEMMA StepTracks ==
  ASSUME CourseInv, NEW l \in Loops, StepDriver(l)
  PROVE  LoopsTrack'
<1> DEFINE me == loop[l]
<1>1. Running(l) /\ DriverOK /\ LoopsOK /\ me.phase = "step" /\ Step
  BY DEF StepDriver, Running, CourseInv, ControlInv
<1>2. DOMAIN armState' = DOMAIN armState /\ DriverOK'
  BY <1>1, StepKeepsDriver
<1>3. /\ \A k \in Loops \ {l} : loop'[k] = loop[k]
      /\ disturbed' \in {disturbed, disturbed \ {l}} /\ raced' \in {raced, raced \ {l}}
      /\ StepRaises => loop'[l] = Idle
      /\ ~ StepRaises =>
           /\ disturbed' = disturbed /\ raced' = raced
           /\ loop' = [loop EXCEPT ![l] =
                         [me EXCEPT !.left = @ - 1,
                                    !.phase = IF me.left = 1 THEN "measure" ELSE @]]
  BY <1>1 DEF StepDriver, Raise, Finish, LoopsOK
<1> SUFFICES ASSUME NEW k \in Loops, Tracked(k)'
             PROVE  OnCourse(loop[k], armState[loop[k].arm])'
  BY DEF LoopsTrack
<1>4. CASE k # l
  <2>1. /\ loop'[k] = loop[k] /\ loop[k].arm \in DOMAIN armState
        /\ OnCourse(loop[k], armState[loop[k].arm])
    BY <1>2, <1>3, <1>4, LoopGoesOn DEF CourseInv
  <2>2. OnCourse(loop[k], armState'[loop[k].arm])
    BY <1>1, <2>1, OtherStep
  <2> QED BY <2>1, <2>2, NextCourse
<1>5. CASE k = l
  <2>1. ~ StepRaises
    BY <1>3, <1>5 DEF Tracked, Running, Idle
  <2> DEFINE n == me.left - 1
             p == IF me.left = 1 THEN "measure" ELSE me.phase
             me2 == loop'[l]
             a == me.arm
             st == armState[a]
             st2 == armState'[a]
  <2>2. /\ me2.arm = a /\ me2.points = me.points /\ me2.idx = me.idx
        /\ me2.scaling = me.scaling /\ me2.clean = me.clean
        /\ me2.left = n /\ me2.phase = p
    <3>1. me \in [phase : {me.phase}, arm : {me.arm}, points : {me.points},
                  scaling : {me.scaling}, idx : {me.idx}, left : {me.left}, clean : {me.clean}]
      BY <1>1, RunningLoop
    <3>2. me2 = [me EXCEPT !.left = n, !.phase = p]
      BY <1>1, <1>3, <2>1 DEF LoopsOK
    <3> HIDE DEF me2, n, p, me
    <3> QED BY <3>1, <3>2 DEF a
  <2>3. Tracked(l) /\ a \in DOMAIN armState
    BY <1>1, <1>2, <1>3, <1>5, <2>1, <2>2 DEF Tracked
  <2>4. /\ OnCourse(me, st) /\ st \in ArmSet(a) /\ a \in Arms
        /\ st2 = Advanced(a)
    BY <1>1, <2>1, <2>3, StepAdvances DEF CourseInv, LoopsTrack, DriverOK
  <2>5. st2 \in ArmSet(a) /\ st2.target = st.target
    BY <2>4, AdvancedFacts
  <2>6. Planned(me) /\ Holding(me, st) /\ Width(me) \in 1 .. NumJoints[a] /\ NumJoints[a] \in Nat
    BY <2>4, LimitsTyped DEF OnCourse, Planned
  <2>7. st.scaling = me.scaling
    BY <1>1, <2>6 DEF Holding
  <2>8. ASSUME NEW j \in 1 .. Width(me)
        PROVE  /\ st2.scaling = st.scaling
               /\ st2.current[j] = Toward(st.current[j], st.target[j], Rate(me))
    <3>1. j \in 1 .. NumJoints[a] /\ j \in DOMAIN st.target
      BY <2>6 DEF Holding
    <3>2. Rate(me) = MaxVelocity[a] * st.scaling
      BY <2>7 DEF Rate
    <3> QED BY <2>4, <3>1, <3>2, AdvancedJoint
  <2>9. st2.scaling = st.scaling
    <3>1. 1 \in 1 .. Width(me)
      BY <2>6
    <3> QED BY <2>8, <3>1
  <2>10. OnCourse(me2, st2)
    <3>1. me2.left = me.left - 1 /\ me2.phase = IF me.left = 1 THEN "measure" ELSE me.phase
      BY <2>2
    <3> HIDE DEF me2, st2, st, me, n, p
    <3> QED BY <1>1, <2>2, <2>4, <2>5, <2>8, <2>9, <3>1, StepKeepsCourse DEF me
  <2> QED BY <1>5, <2>2, <2>10, NextCourse
<1> QED BY <1>4, <1>5

\* The point measured, the loop ends or goes on to the next point.
LEMMA MeasureTracks ==
  ASSUME CourseInv, NEW l \in Loops, MeasurePoint(l)
  PROVE  LoopsTrack'
<1> DEFINE me == loop[l]
<1>1. Running(l) /\ DriverOK /\ LoopsOK /\ me.phase = "measure" /\ armState' = armState
  BY DEF MeasurePoint, Running, CourseInv, ControlInv, driver
<1>2. \/ (\E raised \in BOOLEAN : Finish(l, raised)) /\ disturbed' = disturbed \ {l}
      \/ /\ me.idx < Len(me.points) /\ disturbed' = disturbed /\ raced' = raced
         /\ loop' = [loop EXCEPT ![l].idx = @ + 1, ![l].phase = "command"]
  BY DEF MeasurePoint, Raise
<1>3. CASE (\E raised \in BOOLEAN : Finish(l, raised)) /\ disturbed' = disturbed \ {l}
  BY <1>1, <1>3, FinishKeepsTracks
<1>4. CASE /\ me.idx < Len(me.points) /\ disturbed' = disturbed /\ raced' = raced
           /\ loop' = [loop EXCEPT ![l].idx = @ + 1, ![l].phase = "command"]
  <2> DEFINE n == me.idx + 1
             me2 == loop'[l]
             a == me.arm
             st == armState[a]
  <2>1. /\ me2 = [me EXCEPT !.idx = n, !.phase = "command"]
        /\ \A k \in Loops \ {l} : loop'[k] = loop[k]
    BY <1>1, <1>4 DEF LoopsOK
  <2>2. /\ me2.arm = a /\ me2.points = me.points /\ me2.idx = n
        /\ me2.scaling = me.scaling /\ me2.clean = me.clean
        /\ me2.left = me.left /\ me2.phase = "command"
    <3>1. me \in [phase : {me.phase}, arm : {me.arm}, points : {me.points},
                  scaling : {me.scaling}, idx : {me.idx}, left : {me.left}, clean : {me.clean}]
      BY <1>1, RunningLoop
    <3> HIDE DEF me2, n, me
    <3> QED BY <2>1, <3>1 DEF a
  <2> SUFFICES ASSUME NEW k \in Loops, Tracked(k)'
               PROVE  OnCourse(loop[k], armState[loop[k].arm])'
    BY DEF LoopsTrack
  <2>3. CASE k # l
    BY <1>1, <1>4, <2>1, <2>3, UntouchedTracks DEF CourseInv
  <2>4. CASE k = l
    <3>1. Tracked(l) /\ a \in DOMAIN armState
      BY <1>1, <1>4, <2>2, <2>4 DEF Tracked
    <3>2. OnCourse(me, st) /\ st \in ArmSet(a)
      BY <1>1, <3>1 DEF CourseInv, LoopsTrack, DriverOK
    <3>3. OnCourse(me2, st)
      <4>1. me2.idx = me.idx + 1 /\ me.idx < Len(me.points)
        BY <1>4, <2>2
      <4> HIDE DEF me2, st, me, n
      <4> QED BY <1>1, <2>2, <3>2, <4>1, MeasureKeepsCourse DEF me
    <3> QED BY <1>1, <2>2, <2>4, <3>3, NextCourse
  <2> QED BY <2>3, <2>4
<1> QED BY <1>2, <1>3, <1>4

\* A gripper command moves no arm by itself, and its periods move every arm.
LEMMA GripperTracks ==
  ASSUME CourseInv, NEW c \in Commands, GripperExecute(c) \/ GripperStep(c)
  PROVE  LoopsTrack'
<1> SUFFICES ASSUME NEW k \in Loops, Tracked(k)'
             PROVE  OnCourse(loop[k], armState[loop[k].arm])'
  BY DEF LoopsTrack
<1>1. CASE GripperExecute(c)
  <2>1. loop' = loop /\ armState' = armState /\ disturbed \subseteq disturbed' /\ raced' = raced
    BY <1>1 DEF GripperExecute, SetGripperWidth
  <2> QED BY <2>1, UntouchedTracks DEF CourseInv
<1>2. CASE GripperStep(c)
  <2>1. /\ loop' = loop /\ Step /\ disturbed' \in {disturbed, disturbed \ {c}} /\ DriverOK
        /\ raced' = raced
    BY <1>2 DEF GripperStep, Respond, CourseInv, ControlInv
  <2>2. k \in disturbed => k \in disturbed'
    BY <2>1, ControlAssumption
  <2>3. DOMAIN armState' = DOMAIN armState
    BY <2>1, StepKeepsDriver
  <2>4. /\ loop'[k] = loop[k] /\ loop[k].arm \in DOMAIN armState
        /\ OnCourse(loop[k], armState[loop[k].arm])
    BY <2>1, <2>2, <2>3, LoopGoesOn DEF CourseInv
  <2>5. OnCourse(loop[k], armState'[loop[k].arm])
    BY <2>1, <2>4, OtherStep
  <2> QED BY <2>4, <2>5, NextCourse
<1> QED BY <1>1, <1>2

\* Every step keeps the courses.
LEMMA CourseStep == CourseInv /\ [Next]_vars => CourseInv'
<1> SUFFICES ASSUME CourseInv, [Next]_vars PROVE CourseInv'
  OBVIOUS
<1>1. ControlInv'
  BY NextKeepsInv DEF CourseInv
<1>2. CASE Shutdown
  BY <1>1, <1>2, ShutdownTracks DEF CourseInv
<1>3. ASSUME NEW l \in Loops, ExecuteGoal(l) \/ ExecutePlan(l) \/ TrajectoryStep(l)
      PROVE  CourseInv'
  BY <1>1, <1>3, ExecuteTracks, MarkTracks, ReturnEmptyTracks, CancelTracks, CommandTracks, StepTracks, MeasureTracks
     DEF TrajectoryStep, CourseInv
<1>4. ASSUME NEW c \in Commands, GripperExecute(c) \/ GripperStep(c)
      PROVE  CourseInv'
  BY <1>1, <1>4, GripperTracks DEF CourseInv
<1>5. CASE UNCHANGED vars
  <2>1. UNCHANGED <<loop, armState, disturbed, raced>>
    BY <1>5 DEF vars
  <2>2. LoopsTrack'
    BY <2>1, UntouchedTracks DEF CourseInv, LoopsTrack
  <2> QED BY <1>1, <2>2 DEF CourseInv
<1> QED BY <1>2, <1>3, <1>4, <1>5 DEF Next

\* What a loop on its course measures is within the threshold.
LEMMA CourseGivesTracking == CourseInv => PlannedMotionTracks
<1> SUFFICES ASSUME CourseInv, NEW l \in Loops, loop[l].phase = "measure", loop[l].clean,
                    l \notin disturbed, l \notin raced, loop[l].arm \in DOMAIN armState
             PROVE  TrackingError(loop[l].arm, loop[l].points[loop[l].idx].positions)
                      <= ErrorThreshold
  BY DEF PlannedMotionTracks
<1> DEFINE me == loop[l]
           a == me.arm
           st == armState[a]
           p == me.points[me.idx].positions
           n == Width(me)
           off == [j \in 1 .. n |-> Abs(st.current[j] - p[j])]
           S == {Abs(st.current[j] - p[j]) : j \in DOMAIN p}
<1>1. OnCourse(me, st) /\ st \in ArmSet(a) /\ a \in Arms
  <2>1. Tracked(l)
    BY DEF Tracked, Running
  <2> QED BY <2>1 DEF CourseInv, LoopsTrack, ControlInv, DriverOK
<1>2. /\ p \in [1 .. n -> Between(a)] /\ n \in Nat \ {0} /\ n \in 1 .. NumJoints[a]
      /\ \A x \in Between(a) : x \in Int
  <2>1. Planned(me) /\ NumJoints[a] \in Nat /\ \A x \in Between(a) : x \in Int
    BY <1>1, LimitsTyped DEF OnCourse, Between
  <2>2. n \in 1 .. NumJoints[a] /\ p \in [1 .. n -> Between(a)]
    <3> HIDE DEF me
    <3> QED BY <2>1 DEF Planned
  <2> HIDE DEF p, n, a
  <2> QED BY <2>1, <2>2
<1>3. ASSUME NEW j \in 1 .. n PROVE off[j] \in Int /\ off[j] <= ErrorThreshold
  <2>1. Abs(st.current[j] - p[j]) <= ErrorThreshold
    BY <1>1, CourseTracks
  <2>2. st.current[j] \in Between(a) /\ p[j] \in Between(a)
    BY <1>1, <1>2, CourseTyped DEF OnCourse
  <2>3. st.current[j] \in Int /\ p[j] \in Int
    BY <1>2, <2>2
  <2> QED BY <2>1, <2>3 DEF Abs
<1>4. PICK m \in 1 .. n : \A j \in 1 .. n : off[j] <= off[m]
  <2> HIDE DEF off, n
  <2> QED BY <1>2, <1>3, LargestOf
<1>5. S = {off[j] : j \in 1 .. n}
  BY <1>2
<1> HIDE DEF S, off, n
<1>6. \E x \in S : \A y \in S : x >= y
  BY <1>3, <1>4, <1>5
<1>7. Max(S) \in S
  BY <1>6 DEF Max
<1>8. TrackingError(a, p) = Max(S)
  BY DEF TrackingError, S
<1> QED BY <1>3, <1>5, <1>7, <1>8

-----------------------------------------------------------------------------
\* A trajectory the planner made for an arm at rest, carried out at no less than
\* the planner's velocity, never fails the tracking check, for any arms, limits,
\* velocities, numbers of points and of joints, and whatever other loops and
\* gripper commands step the same driver, as long as none of them stops it
\* (SimpleMotionPlanner._interpolate, TrajectoryExecutor.execute, step).
THEOREM PlannedMotionIsTracked == Spec => []PlannedMotionTracks
<1>1. Init => CourseInv
  BY InitInv DEF Init, CourseInv, LoopsTrack, Tracked, Running, Idle
<1> QED BY <1>1, CourseStep, CourseGivesTracking, PTL DEF Spec

=============================================================================
