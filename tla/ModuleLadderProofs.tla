------------------------- MODULE ModuleLadderProofs -------------------------
(***************************************************************************)
(* Proofs about ModuleLadder, for any set of drivers and any ladders: a    *)
(* driver that meets a condition of LadderOrder keeps the property of      *)
(* ModuleLadder that belongs to it, whatever runs meanwhile.               *)
(*                                                                         *)
(* The inductive invariant Inv says where in its list an ending driver is  *)
(* (StageInv), what it holds by then (HeldInv) and which entry points can  *)
(* still run (RunInv).                                                     *)
(***************************************************************************)
EXTENDS LadderOrder, DriverLadders, SequenceTheorems, TLAPS

Ending ==
    [after |-> step, list |-> IF stage = "exit" THEN Ladder[driver].exit ELSE NextStep.undo,
     exit |-> stage = "exit"]

\* How many releases of the ending are over.
Done == Len(Ending.list) - Len(todo)

\* The entry points that run or may still begin to.  While exit() runs, no file that it releases
\* can be opened.
Barred == IF stage = "exit" /\ Ladder[driver].owned THEN Files \cap AllReleased(Ending) ELSE {}
CanRun ==
    running \cup pending \cup ((held \cap (Files \cup Direct)) \ Barred)
    \cup (IF "irq" \in held \cup running THEN Bottoms \cap DOMAIN Ladder[driver].uses ELSE {})

StageInv ==
    /\ stage \in {"init", "undo"} => step < Len(Ladder[driver].init)
    /\ stage \in {"live", "exit"} => step = Len(Ladder[driver].init)
    /\ stage = "undo" => NextStep.on_error = "undo"
    /\ stage \notin {"undo", "exit"} => todo = <<>> /\ managed = {}
    /\ stage \in {"undo", "exit"} =>
           /\ todo \in Seq(STRING)
           /\ Len(todo) <= Len(Ending.list)
           /\ \A j \in 1 .. Len(todo) : todo[j] = Ending.list[Done + j]

HeldInv ==
    /\ held \subseteq May(driver, step)
    /\ stage \in {"init", "live"} => Surely(driver, step) \subseteq held
    /\ stage \in {"undo", "exit"} =>
           /\ held \cap Released(Ending, Done) = {}
           /\ todo # <<>> => Surely(driver, step) \ Released(Ending, Done) \subseteq held
           /\ held \cap Ladder[driver].devm \subseteq managed

RunInv ==
    /\ CanRun \subseteq Opens(driver, May(driver, step))
    /\ stage \in {"undo", "exit"} => \A e \in CanRun : ~ Stopped(driver, Ending, Done, e)

Inv == TypeOK /\ StageInv /\ HeldInv /\ RunInv
-----------------------------------------------------------------------------
\* The parts of a ladder have their types.
LEMMA LadderTypes ==
    ASSUME NEW d \in Drivers
    PROVE  /\ Len(Ladder[d].init) \in Nat \ {0}
           /\ DOMAIN Ladder[d].init = 1 .. Len(Ladder[d].init)
           /\ \A i \in 1 .. Len(Ladder[d].init) :
                  /\ Ladder[d].init[i].takes \subseteq STRING
                  /\ Ladder[d].init[i].undo \in Seq(STRING)
                  /\ Ladder[d].init[i].on_error \in {"undo", "none", "ignored"}
           /\ Ladder[d].exit \in Seq(STRING)
  <1> DEFINE Steps == [takes : SUBSET STRING, undo : Seq(STRING),
                       on_error : {"undo", "none", "ignored"}]
             init == Ladder[d].init
  <1>1. init \in Seq(Steps) /\ init # <<>> /\ Ladder[d].exit \in Seq(STRING)
    BY LadderAssumption
  <1> HIDE DEF init
  <1>2. Len(init) \in Nat \ {0} /\ DOMAIN init = 1 .. Len(init)
    <2> HIDE DEF Steps
    <2> QED
      BY <1>1
  <1>3. \A i \in 1 .. Len(init) : init[i] \in Steps
    <2> HIDE DEF Steps
    <2> QED
      BY <1>1
  <1>4. \A s \in Steps : /\ s.takes \subseteq STRING /\ s.undo \in Seq(STRING)
                         /\ s.on_error \in {"undo", "none", "ignored"}
    OBVIOUS
  <1>5. \A i \in 1 .. Len(init) : /\ init[i].takes \subseteq STRING /\ init[i].undo \in Seq(STRING)
                                 /\ init[i].on_error \in {"undo", "none", "ignored"}
    <2> HIDE DEF Steps
    <2> QED
      BY <1>3, <1>4
  <1> QED
    BY <1>1, <1>2, <1>5 DEF init

\* An ending begins after some steps and releases a sequence of resources.
LEMMA EndingTypes ==
    ASSUME NEW d \in Drivers, NEW w \in Endings(d)
    PROVE  /\ w.after \in 0 .. Len(Ladder[d].init)
           /\ w.list \in Seq(STRING) /\ Len(w.list) \in Nat
           /\ DOMAIN w.list = 1 .. Len(w.list)
  <1>1. CASE w = [after |-> Len(Ladder[d].init), list |-> Ladder[d].exit, exit |-> TRUE]
    BY <1>1, LadderTypes
  <1>2. ASSUME NEW i \in DOMAIN Ladder[d].init,
               w = [after |-> i - 1, list |-> Ladder[d].init[i].undo, exit |-> FALSE]
        PROVE  /\ w.after \in 0 .. Len(Ladder[d].init)
               /\ w.list \in Seq(STRING) /\ Len(w.list) \in Nat
               /\ DOMAIN w.list = 1 .. Len(w.list)
    <2>1. w.after = i - 1 /\ w.list = Ladder[d].init[i].undo
      BY <1>2
    <2>2. i \in 1 .. Len(Ladder[d].init) /\ Len(Ladder[d].init) \in Nat
      BY <1>2, LadderTypes
    <2>3. w.list \in Seq(STRING)
      BY <2>1, <2>2, LadderTypes
    <2> QED
      BY <2>1, <2>2, <2>3
  <1> QED
    BY <1>1, <1>2 DEF Endings

\* One more step of init() may take, and surely takes, what it takes.
LEMMA StepTakes ==
    ASSUME NEW d \in Drivers, NEW i \in Nat
    PROVE  /\ May(d, i + 1) = May(d, i) \cup Ladder[d].init[i + 1].takes
           /\ Surely(d, i + 1) = Surely(d, i) \cup
                  (IF Ladder[d].init[i + 1].on_error # "ignored" THEN Ladder[d].init[i + 1].takes
                   ELSE {})
  <1>1. 1 .. i + 1 = (1 .. i) \cup {i + 1}
    OBVIOUS
  <1>2. May(d, i + 1) = May(d, i) \cup Ladder[d].init[i + 1].takes
    BY <1>1, Zenon DEF May
  <1>3. {k \in 1 .. i + 1 : Ladder[d].init[k].on_error # "ignored"} =
            {k \in 1 .. i : Ladder[d].init[k].on_error # "ignored"} \cup
            (IF Ladder[d].init[i + 1].on_error # "ignored" THEN {i + 1} ELSE {})
    BY <1>1
  <1>4. Surely(d, i + 1) = Surely(d, i) \cup
            (IF Ladder[d].init[i + 1].on_error # "ignored" THEN Ladder[d].init[i + 1].takes ELSE {})
    BY <1>3, Zenon DEF Surely
  <1> QED
    BY <1>2, <1>4

\* Before the first step nothing is taken; after any, nothing but what the driver may take.
LEMMA MayTake ==
    ASSUME NEW d \in Drivers
    PROVE  /\ May(d, 0) = {} /\ Surely(d, 0) = {}
           /\ \A i \in 0 .. Len(Ladder[d].init) : May(d, i) \subseteq Taken(d)
  BY LadderTypes DEF May, Surely, Taken

\* More resources open more.
LEMMA OpensMore ==
    ASSUME NEW d \in Drivers, NEW R, NEW S
    PROVE  Opens(d, R \cup S) = Opens(d, R) \cup Opens(d, S)
  BY DEF Opens

\* One more release.
LEMMA ReleasedMore ==
    ASSUME NEW w, NEW k \in Nat
    PROVE  /\ Released(w, k + 1) = Released(w, k) \cup {w.list[k + 1]}
           /\ Released(w, 0) = {}
  <1>1. 1 .. k + 1 = (1 .. k) \cup {k + 1} /\ 1 .. 0 = {}
    OBVIOUS
  <1> QED
    BY <1>1, Zenon DEF Released

\* The release of an entry point that can be called waits for the call; an interrupt is awaited
\* by its own release.
LEMMA Waiting ==
    /\ \A e \in Direct : e \in Awaits(e)
    /\ \A r : BuiltOn(r) \cap Static = {}
  BY DEF Awaits, BuiltOn, Direct, Static

\* While a driver ends it does so in one of its ways.
LEMMA EndingKnown ==
    ASSUME TypeOK, StageInv, stage \in {"undo", "exit"}
    PROVE  /\ Ending \in Endings(driver)
           /\ Ending.after = step /\ Ending.exit = (stage = "exit")
           /\ Done \in 0 .. Len(Ending.list)
           /\ todo = <<>> => Done = Len(Ending.list)
  <1>1. Ending.after = step /\ Ending.exit = (stage = "exit")
    BY DEF Ending
  <1>2. Ending \in Endings(driver)
    <2>1. CASE stage = "exit"
      BY <2>1 DEF Ending, Endings, StageInv
    <2>2. CASE stage = "undo"
      <3>1. step + 1 \in DOMAIN Ladder[driver].init /\ step = (step + 1) - 1
        BY <2>2, LadderTypes DEF TypeOK, StageInv
      <3>2. Ladder[driver].init[step + 1].on_error = "undo"
        BY <2>2 DEF StageInv, NextStep
      <3>3. Ending = [after |-> (step + 1) - 1, list |-> Ladder[driver].init[step + 1].undo,
                      exit |-> FALSE]
        BY <2>2, <3>1 DEF Ending, NextStep
      <3> QED
        BY <3>1, <3>2, <3>3 DEF Endings
    <2> QED
      BY <2>1, <2>2
  <1>3. Len(Ending.list) \in Nat
    BY <1>2, EndingTypes DEF TypeOK
  <1>4. Len(todo) \in Nat /\ Len(todo) <= Len(Ending.list)
    BY DEF StageInv
  <1>5. todo = <<>> => Len(todo) = 0
    OBVIOUS
  <1> QED
    BY <1>1, <1>2, <1>3, <1>4, <1>5 DEF Done

\* A release is the next of the ending.
LEMMA NextRelease ==
    ASSUME TypeOK, StageInv, Release
    PROVE  /\ Ending' = Ending /\ Done' = Done + 1
           /\ Done + 1 \in DOMAIN Ending.list
           /\ Head(todo) = Ending.list[Done + 1]
           /\ todo' \in Seq(STRING) /\ Len(todo') <= Len(Ending.list)
           /\ \A j \in 1 .. Len(todo') : todo'[j] = Ending.list[Done + 1 + j]
  <1>1. stage \in {"undo", "exit"} /\ stage' = stage /\ step' = step /\ driver' = driver
    BY DEF Release
  <1>2. Ending' = Ending
    BY <1>1 DEF Ending, NextStep
  <1>3. /\ todo \in Seq(STRING) /\ todo # <<>> /\ todo' = Tail(todo)
        /\ Len(todo) <= Len(Ending.list)
        /\ \A j \in 1 .. Len(todo) : todo[j] = Ending.list[Done + j]
    BY <1>1 DEF Release, StageInv
  <1>4. Ending \in Endings(driver) /\ Done \in 0 .. Len(Ending.list)
    BY <1>1, EndingKnown
  <1>5. Len(Ending.list) \in Nat /\ DOMAIN Ending.list = 1 .. Len(Ending.list)
    BY <1>4, EndingTypes DEF TypeOK
  <1>6. /\ Len(todo) \in Nat \ {0} /\ Len(todo') = Len(todo) - 1 /\ Head(todo) = todo[1]
        /\ todo' \in Seq(STRING)
        /\ \A j \in 1 .. Len(todo') : todo'[j] = todo[j + 1]
    BY <1>3
  <1>7. Done' = Done + 1
    BY <1>2, <1>5, <1>6 DEF Done
  <1>8. Done + 1 \in DOMAIN Ending.list
    BY <1>4, <1>5, <1>6 DEF Done
  <1>9. Head(todo) = Ending.list[Done + 1]
    BY <1>3, <1>6
  <1>10. \A j \in 1 .. Len(todo') : todo'[j] = Ending.list[Done + 1 + j]
    <2> SUFFICES ASSUME NEW j \in 1 .. Len(todo')
                 PROVE  todo'[j] = Ending.list[Done + 1 + j]
      OBVIOUS
    <2>1. j + 1 \in 1 .. Len(todo) /\ Done + (j + 1) = Done + 1 + j
      BY <1>4, <1>6
    <2> QED
      BY <1>3, <1>6, <2>1
  <1> QED
    BY <1>2, <1>3, <1>6, <1>7, <1>8, <1>9, <1>10
-----------------------------------------------------------------------------
\* No driver is loaded at first.
LEMMA InitInv == Init => Inv
  <1> SUFFICES ASSUME Init
               PROVE  Inv
    OBVIOUS
  <1>1. TypeOK
    BY LadderTypes DEF Init, TypeOK
  <1>2. StageInv
    BY DEF Init, StageInv
  <1>3. HeldInv
    BY LadderTypes, MayTake DEF Init, HeldInv
  <1>4. RunInv
    BY DEF Init, RunInv, CanRun
  <1> QED
    BY <1>1, <1>2, <1>3, <1>4 DEF Inv

\* What a step of init() takes may be taken by the driver.
LEMMA StepInLadder ==
    ASSUME Inv, stage = "init"
    PROVE  /\ driver \in Drivers
           /\ step \in Nat /\ step + 1 \in 1 .. Len(Ladder[driver].init)
           /\ NextStep = Ladder[driver].init[step + 1]
           /\ NextStep.takes \subseteq Taken(driver)
           /\ Len(Ladder[driver].init) \in Nat
  <1>1. driver \in Drivers /\ step \in Nat /\ step + 1 \in 1 .. Len(Ladder[driver].init)
    BY LadderTypes DEF Inv, TypeOK
  <1> QED
    BY <1>1, LadderTypes DEF NextStep, Taken

\* A step keeps the types.
LEMMA TypeStep ==
    ASSUME Inv, [Next]_vars
    PROVE  TypeOK'
  <1> USE DEF Inv
  <1>1. ASSUME NEW d \in Drivers, Load(d)
        PROVE  TypeOK'
    BY <1>1, LadderTypes DEF Load, TypeOK, StageInv
  <1>2. CASE Take
    <2>1. step' \in 0 .. Len(Ladder[driver].init) /\ driver' = driver
      BY <1>2, StepInLadder DEF Take, StepDone
    <2>2. stage' \in {"init", "live"}
          /\ (stage' = "init" => step' < Len(Ladder[driver].init))
      BY <1>2, StepInLadder DEF Take, StepDone
    <2>3. held' \subseteq Taken(driver) /\ pending' \subseteq Autonomous \cup Bottoms
      BY <1>2, StepInLadder DEF Take, TypeOK
    <2> QED
      BY <1>2, <2>1, <2>2, <2>3 DEF Take, TypeOK
  <1>3. CASE IgnoreFailure
    <2>1. step' \in 0 .. Len(Ladder[driver].init) /\ driver' = driver
      BY <1>3, StepInLadder DEF IgnoreFailure, StepDone
    <2>2. stage' \in {"init", "live"}
          /\ (stage' = "init" => step' < Len(Ladder[driver].init))
      BY <1>3, StepInLadder DEF IgnoreFailure, StepDone
    <2> QED
      BY <1>3, <2>1, <2>2 DEF IgnoreFailure, TypeOK
  <1>4. CASE FailStep
    BY <1>4 DEF FailStep, TypeOK
  <1>5. CASE BeginExit
    BY <1>5 DEF BeginExit, TypeOK
  <1>6. CASE Release
    BY <1>6 DEF Release, TypeOK
  <1>7. CASE Unloaded
    BY <1>7 DEF Unloaded, TypeOK
  <1>8. ASSUME NEW r \in managed, ReleaseManaged(r)
        PROVE  TypeOK'
    BY <1>8 DEF ReleaseManaged, TypeOK
  <1>9. ASSUME NEW e \in EntryPoints, Enter(e)
        PROVE  TypeOK'
    BY <1>9 DEF Enter, TypeOK
  <1>10. ASSUME NEW e \in EntryPoints, Fire(e)
         PROVE  TypeOK'
    BY <1>10 DEF Fire, TypeOK
  <1>11. ASSUME NEW e \in EntryPoints, Leave(e)
         PROVE  TypeOK'
    BY <1>11 DEF Leave, TypeOK
  <1>12. CASE UNCHANGED vars
    BY <1>12 DEF vars, TypeOK
  <1> QED
    BY <1>1, <1>2, <1>3, <1>4, <1>5, <1>6, <1>7, <1>8, <1>9, <1>10, <1>11, <1>12 DEF Next

\* Calls, and what the kernel runs, leave the driver's own progress alone.
LEMMA CallFrame ==
    ASSUME NEW e, Enter(e) \/ Fire(e) \/ Leave(e) \/ UNCHANGED vars
    PROVE  /\ UNCHANGED <<driver, stage, step, todo, managed, held>>
           /\ UNCHANGED <<NextStep, Ending, Done, Barred>>
  <1>1. UNCHANGED <<driver, stage, step, todo, managed, held>>
    BY DEF Enter, Fire, Leave, vars
  <1> QED
    BY <1>1 DEF NextStep, Ending, Done, Barred

\* A driver begins to end with the whole of its list before it.
LEMMA EndingBegins ==
    ASSUME Inv, FailStep \/ BeginExit
    PROVE  /\ UNCHANGED <<driver, step, held, running, pending>>
           /\ stage' \in {"undo", "exit"}
           /\ Ending'.list = todo' /\ todo' \in Seq(STRING)
           /\ Done' = 0
           /\ managed' = held \cap Ladder[driver].devm
           /\ stage \in {"init", "live"}
  <1>1. CASE FailStep
    <2>1. Ending'.list = todo'
      BY <1>1 DEF FailStep, Ending, NextStep
    <2>2. todo' \in Seq(STRING)
      BY <1>1, StepInLadder, LadderTypes DEF FailStep
    <2>3. Done' = 0
      BY <2>1, <2>2 DEF Done
    <2> QED
      BY <1>1, <2>1, <2>2, <2>3 DEF FailStep
  <1>2. CASE BeginExit
    <2>1. Ending'.list = todo'
      BY <1>2 DEF BeginExit, Ending
    <2>2. todo' \in Seq(STRING)
      BY <1>2, LadderTypes DEF BeginExit, Inv, TypeOK
    <2>3. Done' = 0
      BY <2>1, <2>2 DEF Done
    <2> QED
      BY <1>2, <2>1, <2>2, <2>3 DEF BeginExit
  <1> QED
    BY <1>1, <1>2

\* A step keeps what is known of the stage: where in init() a driver is, and that what it still
\* has to release is the rest of its ending.
LEMMA StageStep ==
    ASSUME Inv, [Next]_vars
    PROVE  StageInv'
  <1> USE DEF Inv
  <1>1. ASSUME NEW d \in Drivers, Load(d)
        PROVE  StageInv'
    BY <1>1, LadderTypes DEF Load, StageInv
  <1>2. CASE Take
    <2>1. driver' = driver /\ todo' = todo /\ managed' = managed /\ todo = <<>> /\ managed = {}
      BY <1>2 DEF Take, StageInv
    <2>2. \/ stage' = "init" /\ step' < Len(Ladder[driver].init)
          \/ stage' = "live" /\ step' = Len(Ladder[driver].init)
      BY <1>2, StepInLadder DEF Take, StepDone
    <2> QED
      BY <2>1, <2>2 DEF StageInv
  <1>3. CASE IgnoreFailure
    <2>1. driver' = driver /\ todo' = todo /\ managed' = managed /\ todo = <<>> /\ managed = {}
      BY <1>3 DEF IgnoreFailure, StageInv
    <2>2. \/ stage' = "init" /\ step' < Len(Ladder[driver].init)
          \/ stage' = "live" /\ step' = Len(Ladder[driver].init)
      BY <1>3, StepInLadder DEF IgnoreFailure, StepDone
    <2> QED
      BY <2>1, <2>2 DEF StageInv
  <1>4. CASE FailStep \/ BeginExit
    <2>1. /\ Ending'.list = todo' /\ todo' \in Seq(STRING) /\ Done' = 0
          /\ step' = step /\ driver' = driver
      BY <1>4, EndingBegins
    <2>2. /\ Len(todo') <= Len(Ending'.list)
          /\ \A j \in 1 .. Len(todo') : todo'[j] = Ending'.list[Done' + j]
      BY <2>1
    <2>3. /\ stage' = "undo" => /\ step < Len(Ladder[driver].init)
                                /\ NextStep' = NextStep /\ NextStep.on_error = "undo"
          /\ stage' = "exit" => step = Len(Ladder[driver].init)
          /\ stage' \in {"undo", "exit"}
      BY <1>4, <2>1, StepInLadder DEF FailStep, BeginExit, StageInv, NextStep
    <2> QED
      BY <2>1, <2>2, <2>3 DEF StageInv
  <1>5. CASE Release
    <2>1. /\ Ending' = Ending /\ Done' = Done + 1
          /\ todo' \in Seq(STRING) /\ Len(todo') <= Len(Ending.list)
          /\ \A j \in 1 .. Len(todo') : todo'[j] = Ending.list[Done + 1 + j]
      BY <1>5, NextRelease
    <2>2. UNCHANGED <<driver, stage, step, managed>> /\ stage \in {"undo", "exit"}
      BY <1>5 DEF Release
    <2>3. UNCHANGED NextStep
      BY <2>2 DEF NextStep
    <2> QED
      BY <2>1, <2>2, <2>3 DEF StageInv
  <1>6. CASE Unloaded
    BY <1>6 DEF Unloaded, StageInv
  <1>7. ASSUME NEW r \in managed, ReleaseManaged(r)
        PROVE  StageInv'
    <2>1. UNCHANGED <<driver, stage, step, todo>> /\ stage \in {"undo", "exit"}
      BY <1>7 DEF ReleaseManaged
    <2>2. UNCHANGED <<NextStep, Ending, Done>>
      BY <2>1 DEF NextStep, Ending, Done
    <2> QED
      BY <2>1, <2>2 DEF StageInv
  <1>8. ASSUME NEW e \in EntryPoints, Enter(e) \/ Fire(e) \/ Leave(e)
        PROVE  StageInv'
    <2>1. UNCHANGED <<driver, stage, step, todo, managed>> /\ UNCHANGED <<NextStep, Ending, Done>>
      BY <1>8, CallFrame
    <2> QED
      BY <2>1 DEF StageInv
  <1>9. CASE UNCHANGED vars
    <2>1. UNCHANGED <<driver, stage, step, todo, managed>> /\ UNCHANGED <<NextStep, Ending, Done>>
      BY <1>9, CallFrame
    <2> QED
      BY <2>1 DEF StageInv
  <1> QED
    BY <1>1, <1>2, <1>3, <1>4, <1>5, <1>6, <1>7, <1>8, <1>9 DEF Next

\* A step keeps what is known of the resources: those of init() so far, less those released.
LEMMA HeldStep ==
    ASSUME Inv, [Next]_vars
    PROVE  HeldInv'
  <1> USE DEF Inv
  <1>1. ASSUME NEW d \in Drivers, Load(d)
        PROVE  HeldInv'
    <2>1. held' = {} /\ step' = 0 /\ stage' = "init" /\ driver' = d
      BY <1>1 DEF Load
    <2> QED
      BY <2>1, MayTake DEF HeldInv
  <1>2. CASE Take
    <2>1. /\ driver' = driver /\ step' = step + 1 /\ stage' \in {"init", "live"}
          /\ held' = held \cup NextStep.takes
      BY <1>2 DEF Take, StepDone
    <2>2. held \subseteq May(driver, step) /\ Surely(driver, step) \subseteq held
      BY <1>2 DEF Take, HeldInv
    <2>3. /\ May(driver, step + 1) = May(driver, step) \cup NextStep.takes
          /\ Surely(driver, step + 1) \subseteq Surely(driver, step) \cup NextStep.takes
      BY <1>2, StepInLadder, StepTakes DEF Take
    <2>4. held' \subseteq May(driver, step + 1) /\ Surely(driver, step + 1) \subseteq held'
      BY <2>1, <2>2, <2>3
    <2> QED
      BY <2>1, <2>4 DEF HeldInv
  <1>3. CASE IgnoreFailure
    <2>1. /\ driver' = driver /\ step' = step + 1 /\ stage' \in {"init", "live"} /\ held' = held
      BY <1>3 DEF IgnoreFailure, StepDone
    <2>2. held \subseteq May(driver, step) /\ Surely(driver, step) \subseteq held
      BY <1>3 DEF IgnoreFailure, HeldInv
    <2>3. /\ May(driver, step + 1) = May(driver, step) \cup NextStep.takes
          /\ Surely(driver, step + 1) = Surely(driver, step)
      <3>1. Ladder[driver].init[step + 1].on_error = "ignored"
        BY <1>3, StepInLadder DEF IgnoreFailure
      <3>2. driver \in Drivers /\ step \in Nat /\ NextStep = Ladder[driver].init[step + 1]
        BY <1>3, StepInLadder DEF IgnoreFailure
      <3>3. /\ May(driver, step + 1) = May(driver, step) \cup Ladder[driver].init[step + 1].takes
            /\ Surely(driver, step + 1) = Surely(driver, step) \cup
                   (IF Ladder[driver].init[step + 1].on_error # "ignored"
                    THEN Ladder[driver].init[step + 1].takes ELSE {})
        BY <3>2, StepTakes
      <3>4. Surely(driver, step + 1) = Surely(driver, step) \cup {}
        BY <3>1, <3>3, Zenon
      <3> QED
        BY <3>2, <3>3, <3>4
    <2>4. held' \subseteq May(driver, step + 1) /\ Surely(driver, step + 1) \subseteq held'
      BY <2>1, <2>2, <2>3
    <2> QED
      BY <2>1, <2>4 DEF HeldInv
  <1>4. CASE FailStep \/ BeginExit
    <2>1. /\ driver' = driver /\ step' = step /\ held' = held
          /\ stage' \in {"undo", "exit"} /\ stage \in {"init", "live"}
          /\ Done' = 0 /\ managed' = held \cap Ladder[driver].devm
      BY <1>4, EndingBegins
    <2>2. Released(Ending', Done') = {}
      BY <2>1, ReleasedMore
    <2> QED
      BY <2>1, <2>2 DEF HeldInv
  <1>5. CASE Release
    <2>1. Ending' = Ending /\ Done' = Done + 1 /\ Head(todo) = Ending.list[Done + 1]
      BY <1>5, NextRelease
    <2>2. /\ UNCHANGED <<driver, stage, step, managed>> /\ stage \in {"undo", "exit"}
          /\ todo # <<>> /\ held' = held \ {Head(todo)}
      BY <1>5 DEF Release
    <2>3. Done \in Nat
      BY <2>2, EndingKnown, EndingTypes DEF TypeOK
    <2>4. Released(Ending', Done') = Released(Ending, Done) \cup {Head(todo)}
      BY <2>1, <2>3, ReleasedMore
    <2> QED
      BY <2>2, <2>4 DEF HeldInv
  <1>6. CASE Unloaded
    <2>1. driver' = driver /\ step' = step /\ held' \subseteq held /\ stage' = "absent"
      BY <1>6 DEF Unloaded
    <2> QED
      BY <2>1 DEF HeldInv
  <1>7. ASSUME NEW r \in managed, ReleaseManaged(r)
        PROVE  HeldInv'
    <2>1. /\ UNCHANGED <<driver, stage, step, todo>> /\ stage \in {"undo", "exit"}
          /\ todo = <<>> /\ held' = held \ {r} /\ managed' = managed \ {r}
      BY <1>7 DEF ReleaseManaged
    <2>2. UNCHANGED <<Ending, Done>>
      BY <2>1 DEF NextStep, Ending, Done
    <2> QED
      BY <2>1, <2>2 DEF HeldInv
  <1>8. ASSUME NEW e \in EntryPoints, Enter(e) \/ Fire(e) \/ Leave(e)
        PROVE  HeldInv'
    <2>1. UNCHANGED <<driver, stage, step, todo, managed, held>> /\ UNCHANGED <<Ending, Done>>
      BY <1>8, CallFrame
    <2>2. managed' = managed
      BY <1>8 DEF Enter, Fire, Leave
    <2> QED
      BY <2>1, <2>2 DEF HeldInv
  <1>9. CASE UNCHANGED vars
    <2>1. UNCHANGED <<driver, stage, step, todo, managed, held>> /\ UNCHANGED <<Ending, Done>>
      BY <1>9, CallFrame
    <2> QED
      BY <2>1 DEF HeldInv
  <1> QED
    BY <1>1, <1>2, <1>3, <1>4, <1>5, <1>6, <1>7, <1>8, <1>9 DEF Next

\* Nothing but a step of init() lets something run that could not run before, and that is what
\* the step opens.
LEMMA RunFrame ==
    ASSUME Inv, [Next]_vars
    PROVE  \/ CanRun' \subseteq CanRun /\ driver' = driver
           \/ CanRun' = {}
           \/ Take /\ CanRun' \subseteq CanRun \cup Opens(driver, NextStep.takes)
  <1> USE DEF Inv
  <1>1. ASSUME NEW d \in Drivers, Load(d)
        PROVE  CanRun' = {}
    BY <1>1 DEF Load, CanRun
  <1>2. CASE Take
    <2>1. /\ driver' = driver /\ stage = "init" /\ stage' \in {"init", "live"}
          /\ held' = held \cup NextStep.takes /\ running' = running
          /\ pending' = pending \cup (NextStep.takes \cap Autonomous)
      BY <1>2 DEF Take, StepDone
    <2>2. Barred = {} /\ Barred' = {}
      BY <2>1 DEF Barred
    <2>3. CanRun' \subseteq CanRun \cup Opens(driver, NextStep.takes)
      BY <2>1, <2>2 DEF CanRun, Opens, EntryPoints
    <2> QED
      BY <1>2, <2>3
  <1>3. CASE IgnoreFailure
    <2>1. /\ stage = "init" /\ stage' \in {"init", "live"}
          /\ UNCHANGED <<driver, held, running, pending>>
      BY <1>3 DEF IgnoreFailure, StepDone
    <2>2. Barred = {} /\ Barred' = {}
      BY <2>1 DEF Barred
    <2> QED
      BY <2>1, <2>2 DEF CanRun
  <1>4. CASE FailStep \/ BeginExit
    <2>1. stage \in {"init", "live"} /\ UNCHANGED <<driver, held, running, pending>>
      BY <1>4, EndingBegins
    <2>2. Barred = {}
      BY <2>1 DEF Barred
    <2> QED
      BY <2>1, <2>2 DEF CanRun
  <1>5. CASE Release
    <2>1. /\ UNCHANGED <<driver, stage, step, running>>
          /\ held' \subseteq held /\ pending' \subseteq pending
      BY <1>5 DEF Release
    <2>2. Barred' = Barred
      BY <2>1 DEF Barred, Ending, NextStep
    <2> QED
      BY <2>1, <2>2 DEF CanRun
  <1>6. CASE Unloaded
    <2>1. /\ UNCHANGED <<driver, running, pending>> /\ held' \subseteq held
          /\ stage \in {"undo", "exit"} /\ todo = <<>>
      BY <1>6 DEF Unloaded
    <2>2. held \cap Barred = {}
      BY <2>1, EndingKnown DEF HeldInv, Barred, AllReleased
    <2> QED
      BY <2>1, <2>2 DEF CanRun
  <1>7. ASSUME NEW r \in managed, ReleaseManaged(r)
        PROVE  CanRun' \subseteq CanRun /\ driver' = driver
    <2>1. UNCHANGED <<driver, stage, step, running, pending>> /\ held' \subseteq held
      BY <1>7 DEF ReleaseManaged
    <2>2. Barred' = Barred
      BY <2>1 DEF Barred, Ending, NextStep
    <2> QED
      BY <2>1, <2>2 DEF CanRun
  <1>8. ASSUME NEW e \in EntryPoints, Enter(e)
        PROVE  CanRun' \subseteq CanRun /\ driver' = driver
    <2>1. /\ running' = running \cup {e} /\ e \in held \cap (Files \cup Direct)
          /\ pending' = pending /\ held' = held /\ driver' = driver
      BY <1>8 DEF Enter
    <2>2. Barred' = Barred /\ e \notin Barred
      BY <1>8, CallFrame DEF Enter, Barred
    <2> QED
      BY <2>1, <2>2 DEF CanRun
  <1>9. ASSUME NEW e \in EntryPoints, Fire(e)
        PROVE  CanRun' \subseteq CanRun /\ driver' = driver
    <2>1. /\ running' = running \cup {e} /\ e \in pending /\ pending' \subseteq pending
          /\ held' = held /\ driver' = driver
      BY <1>9 DEF Fire
    <2>2. Barred' = Barred
      BY <1>9, CallFrame
    <2>3. e # "irq"
      BY <2>1 DEF TypeOK, Autonomous, Bottoms
    <2> QED
      BY <2>1, <2>2, <2>3 DEF CanRun
  <1>10. ASSUME NEW e \in EntryPoints, Leave(e)
         PROVE  CanRun' \subseteq CanRun /\ driver' = driver
    <2>1. /\ running' = running \ {e} /\ e \in running /\ held' = held /\ driver' = driver
          /\ pending' = pending \cup ({e} \cap Autonomous) \cup
                 (IF e = "irq" THEN Bottoms \cap DOMAIN Ladder[driver].uses ELSE {})
      BY <1>10 DEF Leave
    <2>2. Barred' = Barred
      BY <1>10, CallFrame
    <2> QED
      BY <2>1, <2>2 DEF CanRun
  <1>11. CASE UNCHANGED vars
    <2>1. UNCHANGED <<driver, held, running, pending, Barred>>
      BY <1>11, CallFrame DEF vars
    <2> QED
      BY <2>1 DEF CanRun
  <1> QED
    BY <1>1, <1>2, <1>3, <1>4, <1>5, <1>6, <1>7, <1>8, <1>9, <1>10, <1>11 DEF Next

\* A release stops what it waits for: what has still to run after it is not stopped by it.
LEMMA ReleaseStops ==
    ASSUME Inv, HeldInv', Release, NEW e \in CanRun', e \in CanRun
    PROVE  ~ Stopped(driver, Ending, Done + 1, e)
  <1> USE DEF Inv
  <1>1. /\ stage \in {"undo", "exit"} /\ stage' = stage /\ driver' = driver
        /\ Awaits(Head(todo)) \cap running = {}
        /\ Awaits(Head(todo)) \cap pending \cap Bottoms = {}
        /\ running' = running
        /\ held' = held \ {Head(todo)} /\ pending' = pending \ {Head(todo)}
    BY DEF Release
  <1>2. Ending' = Ending /\ Done' = Done + 1 /\ Head(todo) = Ending.list[Done + 1]
    BY NextRelease
  <1>3. Done \in Nat
    BY <1>1, EndingKnown, EndingTypes DEF TypeOK
  <1>4. Released(Ending, Done + 1) = Released(Ending, Done) \cup {Head(todo)}
    BY <1>2, <1>3, ReleasedMore
  <1>5. \A f \in CanRun : ~ Stopped(driver, Ending, Done, f)
    BY <1>1 DEF RunInv
  <1>6. pending \subseteq Autonomous \cup Bottoms
    BY DEF TypeOK
  <1>7. ASSUME e \in Direct \cup Autonomous, e \in Released(Ending, Done + 1), e \in Awaits(e)
        PROVE  FALSE
    <2>1. e = Head(todo)
      BY <1>4, <1>5, <1>7 DEF Stopped
    <2>2. e \notin running' /\ e \notin held' /\ e \notin pending'
      BY <1>1, <1>7, <2>1
    <2>3. e \notin Bottoms
      BY <1>7 DEF Direct, Autonomous, Bottoms
    <2> QED
      BY <2>2, <2>3 DEF CanRun
  <1>8. ASSUME e \in Bottoms, NEW j \in 1 .. Done + 1, e \in Awaits(Ending.list[j]),
               "irq" \in Released(Ending, j)
        PROVE  FALSE
    <2>1. j = Done + 1
      <3>1. ~ (j \in 1 .. Done)
        BY <1>5, <1>8 DEF Stopped
      <3> QED
        BY <1>3, <3>1
    <2>2. e \notin running' /\ e \notin pending'
      BY <1>1, <1>2, <1>8, <2>1
    <2>3. "irq" \notin held'
      BY <1>1, <1>2, <1>8, <2>1 DEF HeldInv
    <2>4. "irq" \in Direct /\ "irq" \in Awaits("irq")
      BY Waiting DEF Direct
    <2>5. "irq" \notin running'
      <3>1. CASE "irq" = Head(todo)
        BY <1>1, <2>4, <3>1
      <3>2. CASE "irq" \in Released(Ending, Done)
        <4>1. Stopped(driver, Ending, Done, "irq")
          BY <2>4, <3>2 DEF Stopped
        <4> QED
          BY <1>1, <1>5, <4>1 DEF CanRun
      <3> QED
        BY <1>4, <1>8, <2>1, <3>1, <3>2
    <2>6. e \notin held' \cap (Files \cup Direct)
      BY <1>8 DEF Bottoms, Files, Direct
    <2> QED
      BY <2>2, <2>3, <2>5, <2>6 DEF CanRun
  <1>9. ASSUME e \in Files, Ladder[driver].owned, Ending.exit, e \in AllReleased(Ending)
        PROVE  FALSE
    BY <1>5, <1>9 DEF Stopped
  <1> QED
    BY <1>7, <1>8, <1>9 DEF Stopped

\* A step keeps what is known of what runs.
LEMMA RunStep ==
    ASSUME Inv, [Next]_vars, HeldInv'
    PROVE  RunInv'
  <1> USE DEF Inv
  <1>1. CASE CanRun' = {}
    BY <1>1 DEF RunInv
  <1>2. CASE Take /\ CanRun' \subseteq CanRun \cup Opens(driver, NextStep.takes)
    <2>1. driver' = driver /\ step' = step + 1 /\ stage' \in {"init", "live"} /\ stage = "init"
      BY <1>2 DEF Take, StepDone
    <2>2. May(driver, step + 1) = May(driver, step) \cup NextStep.takes
      BY <2>1, StepInLadder, StepTakes
    <2>3. Opens(driver, May(driver, step + 1)) =
              Opens(driver, May(driver, step)) \cup Opens(driver, NextStep.takes)
      BY <2>1, <2>2, StepInLadder, OpensMore
    <2> QED
      BY <1>2, <2>1, <2>3 DEF RunInv
  <1>3. CASE CanRun' \subseteq CanRun /\ driver' = driver /\ ~ Take
    <2>1. ASSUME NEW d \in Drivers, Load(d)
          PROVE  RunInv'
      BY <2>1 DEF Load, CanRun, RunInv
    <2>2. CASE IgnoreFailure
      <3>1. driver' = driver /\ step' = step + 1 /\ stage' \in {"init", "live"} /\ stage = "init"
        BY <2>2 DEF IgnoreFailure, StepDone
      <3>2. May(driver, step + 1) = May(driver, step) \cup NextStep.takes
        BY <3>1, StepInLadder, StepTakes
      <3>3. Opens(driver, May(driver, step)) \subseteq Opens(driver, May(driver, step + 1))
        BY <3>1, <3>2, StepInLadder, OpensMore
      <3> QED
        BY <1>3, <3>1, <3>3 DEF RunInv
    <2>3. CASE FailStep \/ BeginExit
      <3>1. /\ UNCHANGED <<driver, step, held, running, pending>>
            /\ stage' \in {"undo", "exit"} /\ Done' = 0
        BY <2>3, EndingBegins
      <3>2. ASSUME NEW e \in CanRun', Stopped(driver, Ending', 0, e)
            PROVE  FALSE
        <4>1. Released(Ending', 0) = {} /\ 1 .. 0 = {}
          BY ReleasedMore
        <4>2. e \in Files /\ Ladder[driver].owned /\ Ending'.exit /\ e \in AllReleased(Ending')
          BY <3>2, <4>1 DEF Stopped
        <4>3. stage' = "exit" /\ BeginExit
          BY <2>3, <4>2 DEF Ending, FailStep
        <4>4. e \in Barred'
          BY <3>1, <4>2, <4>3 DEF Barred
        <4>5. e \notin running'
          BY <4>2, <4>3 DEF BeginExit
        <4>6. e \notin pending' /\ e \notin Bottoms
          BY <3>1, <4>2 DEF TypeOK, Files, Autonomous, Bottoms
        <4> QED
          BY <4>4, <4>5, <4>6 DEF CanRun
      <3> QED
        BY <1>3, <3>1, <3>2 DEF RunInv
    <2>4. CASE Release
      <3>1. UNCHANGED <<driver, stage, step>> /\ Ending' = Ending /\ Done' = Done + 1
        BY <2>4, NextRelease DEF Release
      <3>2. \A e \in CanRun' : ~ Stopped(driver, Ending, Done + 1, e)
        BY <1>3, <2>4, ReleaseStops
      <3> QED
        BY <1>3, <3>1, <3>2 DEF RunInv
    <2>5. CASE Unloaded
      BY <1>3, <2>5 DEF Unloaded, RunInv
    <2>6. ASSUME NEW r \in managed, ReleaseManaged(r)
          PROVE  RunInv'
      <3>1. UNCHANGED <<driver, stage, step, todo>>
        BY <2>6 DEF ReleaseManaged
      <3>2. UNCHANGED <<Ending, Done>>
        BY <3>1 DEF NextStep, Ending, Done
      <3> QED
        BY <1>3, <3>1, <3>2 DEF RunInv
    <2>7. ASSUME NEW e \in EntryPoints, Enter(e) \/ Fire(e) \/ Leave(e)
          PROVE  RunInv'
      <3>1. UNCHANGED <<driver, stage, step>> /\ UNCHANGED <<Ending, Done>>
        BY <2>7, CallFrame
      <3> QED
        BY <1>3, <3>1 DEF RunInv
    <2>8. CASE UNCHANGED vars
      <3>1. UNCHANGED <<driver, stage, step>> /\ UNCHANGED <<Ending, Done>>
        BY <2>8, CallFrame
      <3> QED
        BY <1>3, <3>1 DEF RunInv
    <2> QED
      BY <1>3, <2>1, <2>2, <2>3, <2>4, <2>5, <2>6, <2>7, <2>8 DEF Next
  <1>4. CASE CanRun' \subseteq CanRun /\ driver' = driver /\ Take
    BY <1>2, <1>4
  <1> QED
    BY <1>1, <1>2, <1>3, <1>4, RunFrame

\* The inductive invariant, for any drivers and any ladders.
THEOREM Invariance == Spec => []Inv
  <1>1. Inv /\ [Next]_vars => Inv'
    BY TypeStep, StageStep, HeldStep, RunStep DEF Inv
  <1> QED
    BY <1>1, InitInv, PTL DEF Spec

\* Where init() and exit() are, and what the driver and the core hold, are always of their types.
THEOREM TypeCorrect == Spec => []TypeOK
  <1>1. Inv => TypeOK
    BY DEF Inv
  <1> QED
    BY <1>1, Invariance, PTL
-----------------------------------------------------------------------------
\* The next release is one of the ending, after those that are over.
LEMMA HeadOfRest ==
    ASSUME TypeOK, StageInv, stage \in {"undo", "exit"}, todo # <<>>
    PROVE  /\ Done + 1 \in DOMAIN Ending.list
           /\ Head(todo) = Ending.list[Done + 1]
           /\ (Done + 1) - 1 = Done
  <1>1. /\ todo \in Seq(STRING) /\ Len(todo) <= Len(Ending.list)
        /\ \A j \in 1 .. Len(todo) : todo[j] = Ending.list[Done + j]
    BY DEF StageInv
  <1>2. Ending \in Endings(driver) /\ Done \in 0 .. Len(Ending.list)
    BY EndingKnown
  <1>3. Len(Ending.list) \in Nat /\ DOMAIN Ending.list = 1 .. Len(Ending.list)
    BY <1>2, EndingTypes DEF TypeOK
  <1>4. Len(todo) \in Nat \ {0} /\ Head(todo) = todo[1]
    BY <1>1
  <1> QED
    BY <1>1, <1>2, <1>3, <1>4 DEF Done

\* A driver whose releases are in order releases only what it has: whichever step of init()
\* fails, what is next to be released was taken and is still there, and the core releases no
\* resource a second time.
THEOREM ReleasesTheirOwn ==
    ASSUME \A d \in Drivers \ Exempt["ReleasesHeld"] : ReleasesInOrder(d)
    PROVE  Spec => []ReleasesHeld
  <1> DEFINE ManagedHeld == Checked("ReleasesHeld") => managed \subseteq held
  <1>1. Init => ManagedHeld
    BY DEF Init
  <1>2. ASSUME Inv, Inv', ManagedHeld, [Next]_vars
        PROVE  ManagedHeld'
    <2> SUFFICES ASSUME Checked("ReleasesHeld")'
                 PROVE  managed' \subseteq held'
      OBVIOUS
    <2>1. CASE Release
      <3>1. UNCHANGED <<driver, managed>> /\ held' = held \ {Head(todo)}
            /\ stage \in {"undo", "exit"} /\ todo # <<>>
        BY <2>1 DEF Release
      <3>2. managed \subseteq held /\ managed \subseteq Ladder[driver].devm
        BY <1>2, <3>1 DEF Checked, Inv, TypeOK
      <3>3. /\ Done + 1 \in DOMAIN Ending.list /\ Head(todo) = Ending.list[Done + 1]
            /\ Ending \in Endings(driver) /\ driver \in Drivers
        BY <1>2, <3>1, HeadOfRest, EndingKnown DEF Inv, TypeOK
      <3>4. Head(todo) \notin Ladder[driver].devm
        BY <3>1, <3>3 DEF Checked, ReleasesInOrder
      <3> QED
        BY <3>1, <3>2, <3>4
    <2>2. CASE stage' \notin {"undo", "exit"}
      BY <1>2, <2>2 DEF Inv, StageInv
    <2>3. CASE FailStep \/ BeginExit
      BY <1>2, <2>3, EndingBegins
    <2>4. ASSUME NEW r \in managed, ReleaseManaged(r)
          PROVE  managed' \subseteq held'
      BY <1>2, <2>4 DEF ReleaseManaged, Checked
    <2>5. ASSUME NEW e \in EntryPoints, Enter(e) \/ Fire(e) \/ Leave(e)
          PROVE  managed' \subseteq held'
      BY <1>2, <2>5 DEF Enter, Fire, Leave, Checked
    <2>6. CASE UNCHANGED vars
      BY <1>2, <2>6 DEF vars, Checked
    <2>7. Take \/ IgnoreFailure \/ Unloaded \/ (\E d \in Drivers : Load(d)) =>
              stage' \notin {"undo", "exit"}
      BY DEF Take, IgnoreFailure, StepDone, Unloaded, Load
    <2> QED
      BY <1>2, <2>1, <2>2, <2>3, <2>4, <2>5, <2>6, <2>7 DEF Next
  <1>3. ASSUME Inv, ManagedHeld
        PROVE  ReleasesHeld
    <2> SUFFICES ASSUME Checked("ReleasesHeld"), stage \in {"undo", "exit"}, todo # <<>>
                 PROVE  Head(todo) \in held \cup Idempotent
      BY <1>3 DEF ReleasesHeld
    <2>1. /\ Done + 1 \in DOMAIN Ending.list /\ Head(todo) = Ending.list[Done + 1]
          /\ (Done + 1) - 1 = Done
          /\ Ending \in Endings(driver) /\ Ending.after = step /\ driver \in Drivers
      BY <1>3, HeadOfRest, EndingKnown DEF Inv, TypeOK
    <2>2. \/ Head(todo) \in Idempotent
          \/ Head(todo) \in Surely(driver, step) \ Released(Ending, Done)
      BY <2>1 DEF Checked, ReleasesInOrder
    <2> QED
      BY <1>3, <2>2 DEF Inv, HeldInv
  <1> HIDE DEF ManagedHeld
  <1> QED
    BY <1>1, <1>2, <1>3, Invariance, PTL DEF Spec

\* In a driver whose bases are in order nothing outlives what it stands on: at no step of init(),
\* of an error path or of exit() is a resource held whose base has gone.
THEOREM BasesOutlive ==
    ASSUME \A d \in Drivers \ Exempt["BaseHeld"] : BasesInOrder(d)
    PROVE  Spec => []BaseHeld
  <1>1. Init => BaseHeld
    BY DEF Init, BaseHeld
  <1>2. ASSUME Inv, Inv', BaseHeld, [Next]_vars
        PROVE  BaseHeld'
    <2> SUFFICES ASSUME Checked("BaseHeld")', NEW r \in held'
                 PROVE  (BuiltOn(r) \cap Taken(driver))' \subseteq held'
      BY DEF BaseHeld
    <2>1. ASSUME NEW d \in Drivers, Load(d)
          PROVE  FALSE
      BY <2>1 DEF Load
    <2>2. ASSUME driver' = driver
          PROVE  /\ BasesInOrder(driver)
                 /\ r \in held => BuiltOn(r) \cap Taken(driver) \subseteq held
      BY <1>2, <2>2 DEF Checked, BaseHeld, Inv, TypeOK
    <2>3. CASE Take
      <3>1. /\ driver' = driver /\ step' = step + 1 /\ stage' \in {"init", "live"}
            /\ stage = "init" /\ held' = held \cup NextStep.takes
        BY <2>3 DEF Take, StepDone
      <3>2. CASE r \in held
        BY <2>2, <3>1, <3>2 DEF Taken
      <3>3. CASE r \in NextStep.takes
        <4>1. /\ step + 1 \in DOMAIN Ladder[driver].init
              /\ NextStep = Ladder[driver].init[step + 1]
          BY <1>2, <3>1, StepInLadder, LadderTypes
        <4>2. BuiltOn(r) \cap Taken(driver) \subseteq Surely(driver, step + 1)
          BY <2>2, <3>1, <3>3, <4>1 DEF BasesInOrder
        <4> QED
          BY <1>2, <3>1, <4>2 DEF Inv, HeldInv, Taken
      <3> QED
        BY <3>1, <3>2, <3>3
    <2>4. CASE UNCHANGED <<driver, held>>
      BY <2>2, <2>4 DEF Taken
    <2>5. CASE Release
      <3>1. UNCHANGED driver /\ held' = held \ {Head(todo)}
            /\ stage \in {"undo", "exit"} /\ todo # <<>>
        BY <2>5 DEF Release
      <3>2. /\ Done + 1 \in DOMAIN Ending.list /\ Head(todo) = Ending.list[Done + 1]
            /\ (Done + 1) - 1 = Done
            /\ Ending \in Endings(driver) /\ Ending.after = step
        BY <1>2, <3>1, HeadOfRest, EndingKnown DEF Inv
      <3>3. r \in May(driver, step) /\ r \notin Released(Ending, Done)
        BY <1>2, <3>1 DEF Inv, HeldInv
      <3>4. Head(todo) \notin BuiltOn(r)
        BY <2>2, <3>1, <3>2, <3>3 DEF BasesInOrder
      <3> QED
        BY <2>2, <3>1, <3>4 DEF Taken
    <2>6. ASSUME NEW m \in managed, ReleaseManaged(m)
          PROVE  (BuiltOn(r) \cap Taken(driver))' \subseteq held'
      <3>1. UNCHANGED driver /\ held' = held \ {m} /\ stage \in {"undo", "exit"} /\ todo = <<>>
        BY <2>6 DEF ReleaseManaged
      <3>2. /\ Ending \in Endings(driver) /\ Ending.after = step /\ Done = Len(Ending.list)
            /\ m \in Ladder[driver].devm
        BY <1>2, <2>6, <3>1, EndingKnown DEF Inv, TypeOK
      <3>3. r \in May(driver, step) /\ r \notin AllReleased(Ending)
        BY <1>2, <3>1, <3>2 DEF Inv, HeldInv, AllReleased
      <3>4. m \notin BuiltOn(r)
        BY <2>2, <3>1, <3>2, <3>3 DEF BasesInOrder
      <3> QED
        BY <2>2, <3>1, <3>4 DEF Taken
    <2>7. CASE Unloaded
      <3>1. UNCHANGED driver /\ held' = held \ Static
        BY <2>7 DEF Unloaded
      <3> QED
        BY <2>2, <3>1, Waiting DEF Taken
    <2>8. IgnoreFailure \/ FailStep \/ BeginExit \/ UNCHANGED vars
              \/ (\E e \in EntryPoints : Enter(e) \/ Fire(e) \/ Leave(e)) =>
          UNCHANGED <<driver, held>>
      BY DEF IgnoreFailure, FailStep, BeginExit, Enter, Fire, Leave, vars
    <2>9. ASSUME NEW d \in Drivers, Load(d)
          PROVE  (BuiltOn(r) \cap Taken(driver))' \subseteq held'
      BY <2>1, <2>9
    <2> QED
      BY <1>2, <2>3, <2>4, <2>5, <2>6, <2>7, <2>8, <2>9 DEF Next
  <1> QED
    BY <1>1, <1>2, Invariance, PTL DEF Spec

\* In a driver whose uses are in order whatever runs, on any CPU and at any point of init(), of an
\* error path or of exit(), finds what it uses.
THEOREM UsersOutlived ==
    ASSUME \A d \in Drivers \ Exempt["UsersHold"] : UsesInOrder(d)
    PROVE  Spec => []UsersHold
  <1> DEFINE UsesHeld == Checked("UsersHold") => \A e \in CanRun : Uses(e) \subseteq held
  <1>1. Init => UsesHeld
    BY DEF Init, CanRun
  <1>2. ASSUME Inv, Inv', UsesHeld, [Next]_vars
        PROVE  UsesHeld'
    <2> SUFFICES ASSUME Checked("UsersHold")', NEW e \in CanRun'
                 PROVE  Uses(e)' \subseteq held'
      OBVIOUS
    <2>1. CASE Take /\ CanRun' \subseteq CanRun \cup Opens(driver, NextStep.takes)
      <3>1. /\ driver' = driver /\ step' = step + 1 /\ stage' \in {"init", "live"}
            /\ stage = "init" /\ held' = held \cup NextStep.takes
        BY <2>1 DEF Take, StepDone
      <3>2. Uses(e)' = Uses(e) /\ Uses(e) = UsesOf(driver, e)
        BY <3>1 DEF Uses, UsesOf
      <3>3. CASE e \in CanRun
        BY <1>2, <3>1, <3>2, <3>3 DEF Checked
      <3>4. CASE e \in Opens(driver, NextStep.takes)
        <4>1. /\ step + 1 \in DOMAIN Ladder[driver].init
              /\ NextStep = Ladder[driver].init[step + 1]
          BY <1>2, <3>1, StepInLadder, LadderTypes
        <4>2. UsesInOrder(driver)
          BY <1>2, <3>1 DEF Checked, Inv, TypeOK
        <4>3. UsesOf(driver, e) \subseteq Surely(driver, step + 1)
          BY <3>4, <4>1, <4>2 DEF UsesInOrder
        <4> QED
          BY <1>2, <3>1, <3>2, <4>3 DEF Inv, HeldInv
      <3> QED
        BY <2>1, <3>3, <3>4
    <2>2. CASE CanRun' \subseteq CanRun /\ driver' = driver
      <3>1. Uses(e)' = Uses(e) /\ Uses(e) = UsesOf(driver, e)
        BY <2>2 DEF Uses, UsesOf
      <3>2. Uses(e) \subseteq held
        BY <1>2, <2>2 DEF Checked
      <3>3. UsesInOrder(driver)
        BY <1>2, <2>2 DEF Checked, Inv, TypeOK
      <3>4. CASE held \subseteq held'
        BY <3>1, <3>2, <3>4
      <3>5. ASSUME stage \in {"undo", "exit"}
            PROVE  /\ Ending \in Endings(driver) /\ Ending.after = step
                   /\ todo = <<>> => Done = Len(Ending.list)
                   /\ e \in Opens(driver, May(driver, step))
                   /\ ~ Stopped(driver, Ending, Done, e)
        BY <1>2, <2>2, <3>5, EndingKnown DEF Inv, RunInv
      <3>6. CASE Release
        <4>1. held' = held \ {Head(todo)} /\ stage \in {"undo", "exit"} /\ todo # <<>>
          BY <3>6 DEF Release
        <4>2. /\ Done + 1 \in DOMAIN Ending.list /\ Head(todo) = Ending.list[Done + 1]
              /\ (Done + 1) - 1 = Done
          BY <1>2, <4>1, HeadOfRest DEF Inv
        <4>3. Head(todo) \notin UsesOf(driver, e)
          BY <3>3, <3>5, <4>1, <4>2 DEF UsesInOrder
        <4> QED
          BY <3>1, <3>2, <4>1, <4>3
      <3>7. ASSUME NEW m \in managed, ReleaseManaged(m)
            PROVE  Uses(e)' \subseteq held'
        <4>1. held' = held \ {m} /\ stage \in {"undo", "exit"} /\ todo = <<>>
          BY <3>7 DEF ReleaseManaged
        <4>2. m \in Ladder[driver].devm
          BY <1>2, <3>7 DEF Inv, TypeOK
        <4>3. m \notin UsesOf(driver, e)
          BY <3>3, <3>5, <4>1, <4>2 DEF UsesInOrder
        <4> QED
          BY <3>1, <3>2, <4>1, <4>3
      <3>8. CASE Unloaded
        <4>1. held' = held \ Static /\ stage \in {"undo", "exit"} /\ todo = <<>>
          BY <3>8 DEF Unloaded
        <4>2. UsesOf(driver, e) \cap Static = {}
          BY <3>3, <3>5, <4>1 DEF UsesInOrder
        <4> QED
          BY <3>1, <3>2, <4>1, <4>2
      <3>9. Take \/ IgnoreFailure \/ FailStep \/ BeginExit \/ UNCHANGED vars
                \/ (\E d \in Drivers : Load(d))
                \/ (\E f \in EntryPoints : Enter(f) \/ Fire(f) \/ Leave(f)) =>
            held \subseteq held'
        BY DEF Take, IgnoreFailure, FailStep, BeginExit, Load, Enter, Fire, Leave, vars
      <3> QED
        BY <1>2, <3>4, <3>6, <3>7, <3>8, <3>9 DEF Next
    <2> QED
      BY <1>2, <2>1, <2>2, RunFrame
  <1>3. UsesHeld => UsersHold
    BY DEF UsersHold, CanRun
  <1> HIDE DEF UsesHeld
  <1> QED
    BY <1>1, <1>2, <1>3, Invariance, PTL DEF Spec

\* A driver whose endings are complete leaves nothing behind: after a failed init() or an exit()
\* it holds nothing, the kernel will call nothing of it, and only open files still run.
THEOREM EndsQuiescent ==
    ASSUME \A d \in Drivers \ Exempt["Quiescent"] : EndsClean(d)
    PROVE  Spec => []Quiescent
  <1>1. Init => Quiescent
    BY DEF Init, Quiescent
  <1>2. ASSUME Inv, Quiescent, [Next]_vars
        PROVE  Quiescent'
    <2> SUFFICES ASSUME Checked("Quiescent")', stage' = "absent"
                 PROVE  held' = {} /\ pending' = {} /\ running' \subseteq Files
      BY DEF Quiescent
    <2>1. CASE Unloaded
      <3>1. /\ UNCHANGED <<driver, running, pending>> /\ held' = held \ Static
            /\ stage \in {"undo", "exit"} /\ todo = <<>> /\ managed = {}
        BY <2>1 DEF Unloaded
      <3>2. /\ Ending \in Endings(driver) /\ Ending.after = step /\ Done = Len(Ending.list)
            /\ EndsClean(driver)
        BY <1>2, <3>1, EndingKnown DEF Inv, TypeOK, Checked
      <3>3. held \subseteq Static
        <4>1. held \subseteq May(driver, step) /\ held \cap AllReleased(Ending) = {}
              /\ held \cap Ladder[driver].devm = {}
          BY <1>2, <3>1, <3>2 DEF Inv, HeldInv, AllReleased
        <4> QED
          BY <3>2, <4>1 DEF EndsClean
      <3>4. CanRun \subseteq Files
        BY <1>2, <3>1, <3>2 DEF Inv, RunInv, EndsClean
      <3>5. pending = {}
        BY <1>2, <3>4 DEF CanRun, Inv, TypeOK, Files, Autonomous, Bottoms
      <3> QED
        BY <3>1, <3>3, <3>4, <3>5 DEF CanRun
    <2>2. CASE UNCHANGED vars
      BY <1>2, <2>2 DEF vars, Quiescent, Checked
    <2>3. ASSUME NEW e \in EntryPoints, Enter(e) \/ Fire(e) \/ Leave(e)
          PROVE  held' = {} /\ pending' = {} /\ running' \subseteq Files
      <3>1. UNCHANGED <<driver, stage, held>>
        BY <2>3, CallFrame
      <3>2. held = {} /\ pending = {} /\ running \subseteq Files
        BY <1>2, <3>1 DEF Quiescent, Checked
      <3>3. Leave(e) /\ e \in Files
        BY <2>3, <3>2 DEF Enter, Fire, Leave
      <3>4. e \notin Autonomous /\ e # "irq"
        BY <3>3 DEF Files, Autonomous
      <3> QED
        BY <3>1, <3>2, <3>3, <3>4 DEF Leave
    <2>4. Take \/ IgnoreFailure \/ FailStep \/ BeginExit \/ Release
              \/ (\E r \in managed : ReleaseManaged(r)) \/ (\E d \in Drivers : Load(d)) =>
          stage' # "absent"
      BY DEF Take, IgnoreFailure, StepDone, FailStep, BeginExit, Release, ReleaseManaged, Load
    <2> QED
      BY <1>2, <2>1, <2>2, <2>3, <2>4 DEF Next
  <1> QED
    BY <1>1, <1>2, Invariance, PTL DEF Spec
-----------------------------------------------------------------------------
\* The drivers of the event array (V_07, V_08, V_09, example_select) meet all the conditions.
LEMMA ArrayDriverInOrder ==
    ASSUME NEW d \in Drivers, Ladder[d] = ArrayDriver
    PROVE  ReleasesInOrder(d) /\ BasesInOrder(d) /\ UsesInOrder(d) /\ EndsClean(d)
  <1> DEFINE L == Ladder[d]
             End(i, list, exit) == [after |-> i, list |-> list, exit |-> exit]
  <1>1. /\ L.init = ArrayInit /\ L.exit = <<"misc", "irq", "gpio_in">>
        /\ L.uses = [irq |-> {"lock"}, misc |-> {"lock"}] /\ L.devm = {} /\ L.owned
    BY DEF ArrayDriver, Module
  <1>2. /\ Len(L.init) = 5 /\ DOMAIN L.init = 1 .. 5
        /\ L.init[1] = Try({"gpio_in"}, <<>>)
        /\ L.init[2] = Try({}, <<"gpio_in">>)
        /\ L.init[3] = Sure({"lock"})
        /\ L.init[4] = Try({"irq"}, <<"gpio_in">>)
        /\ L.init[5] = Try({"misc"}, <<"irq", "gpio_in">>)
    BY <1>1 DEF ArrayInit
  <1>3. /\ L.init[1].takes = {"gpio_in"} /\ L.init[1].undo = <<>> /\ L.init[1].on_error = "undo"
        /\ L.init[2].takes = {} /\ L.init[2].undo = <<"gpio_in">> /\ L.init[2].on_error = "undo"
        /\ L.init[3].takes = {"lock"} /\ L.init[3].on_error = "none"
        /\ L.init[4].takes = {"irq"} /\ L.init[4].undo = <<"gpio_in">>
        /\ L.init[4].on_error = "undo"
        /\ L.init[5].takes = {"misc"} /\ L.init[5].undo = <<"irq", "gpio_in">>
        /\ L.init[5].on_error = "undo"
    BY <1>2 DEF Try, Sure
  <1>4. Endings(d) = {End(0, <<>>, FALSE), End(1, <<"gpio_in">>, FALSE),
                      End(3, <<"gpio_in">>, FALSE), End(4, <<"irq", "gpio_in">>, FALSE),
                      End(5, <<"misc", "irq", "gpio_in">>, TRUE)}
    <2>1. {j \in DOMAIN L.init : L.init[j].on_error = "undo"} = {1, 2, 4, 5}
      BY <1>2, <1>3
    <2> DEFINE Fails(i) == End(i - 1, L.init[i].undo, FALSE)
    <2>2. Endings(d) = {Fails(i) : i \in {1, 2, 4, 5}} \cup {End(Len(L.init), L.exit, TRUE)}
      BY <2>1 DEF Endings
    <2>3. /\ Fails(1) = End(0, <<>>, FALSE) /\ Fails(2) = End(1, <<"gpio_in">>, FALSE)
          /\ Fails(4) = End(3, <<"gpio_in">>, FALSE)
          /\ Fails(5) = End(4, <<"irq", "gpio_in">>, FALSE)
          /\ End(Len(L.init), L.exit, TRUE) = End(5, <<"misc", "irq", "gpio_in">>, TRUE)
      <3>1. 1 - 1 = 0 /\ 2 - 1 = 1 /\ 4 - 1 = 3 /\ 5 - 1 = 4
        OBVIOUS
      <3> HIDE DEF L
      <3> QED
        BY <1>1, <1>2, <1>3, <3>1
    <2> HIDE DEF Fails, End, L
    <2>4. {Fails(i) : i \in {1, 2, 4, 5}} = {Fails(1), Fails(2), Fails(4), Fails(5)}
      OBVIOUS
    <2> QED
      BY <2>2, <2>3, <2>4
  <1>5. /\ May(d, 0) = {} /\ Surely(d, 0) = {}
        /\ May(d, 1) = {"gpio_in"} /\ Surely(d, 1) = {"gpio_in"}
        /\ May(d, 2) = {"gpio_in"} /\ Surely(d, 2) = {"gpio_in"}
        /\ May(d, 3) = {"gpio_in", "lock"} /\ Surely(d, 3) = {"gpio_in", "lock"}
        /\ May(d, 4) = {"gpio_in", "lock", "irq"} /\ Surely(d, 4) = {"gpio_in", "lock", "irq"}
        /\ May(d, 5) = {"gpio_in", "lock", "irq", "misc"} /\ Surely(d, 5) = May(d, 5)
    <2> HIDE DEF L
    <2>1. May(d, 0) = {} /\ Surely(d, 0) = {}
      BY MayTake
    <2>2. \A i \in 0 .. 4 :
              /\ May(d, i + 1) = May(d, i) \cup L.init[i + 1].takes
              /\ L.init[i + 1].on_error # "ignored" =>
                     Surely(d, i + 1) = Surely(d, i) \cup L.init[i + 1].takes
      BY StepTakes DEF L
    <2>3. May(d, 1) = {"gpio_in"} /\ Surely(d, 1) = {"gpio_in"}
      BY <1>3, <2>1, <2>2, 0 \in 0 .. 4, 0 + 1 = 1
    <2>4. May(d, 2) = {"gpio_in"} /\ Surely(d, 2) = {"gpio_in"}
      BY <1>3, <2>2, <2>3, 1 \in 0 .. 4, 1 + 1 = 2
    <2>5. May(d, 3) = {"gpio_in", "lock"} /\ Surely(d, 3) = {"gpio_in", "lock"}
      BY <1>3, <2>2, <2>4, 2 \in 0 .. 4, 2 + 1 = 3
    <2>6. May(d, 4) = {"gpio_in", "lock", "irq"} /\ Surely(d, 4) = {"gpio_in", "lock", "irq"}
      BY <1>3, <2>2, <2>5, 3 \in 0 .. 4, 3 + 1 = 4
    <2>7. /\ May(d, 5) = {"gpio_in", "lock", "irq", "misc"}
          /\ Surely(d, 5) = {"gpio_in", "lock", "irq", "misc"}
      BY <1>3, <2>2, <2>6, 4 \in 0 .. 4, 4 + 1 = 5
    <2> QED
      BY <2>1, <2>3, <2>4, <2>5, <2>6, <2>7
  <1>6. ASSUME NEW w \in Endings(d)
        PROVE  \/ /\ w.after = 0 /\ ~ w.exit /\ Len(w.list) = 0
               \/ /\ w.after \in {1, 3} /\ ~ w.exit /\ Len(w.list) = 1 /\ w.list[1] = "gpio_in"
               \/ /\ w.after = 4 /\ ~ w.exit /\ Len(w.list) = 2
                  /\ w.list[1] = "irq" /\ w.list[2] = "gpio_in"
               \/ /\ w.after = 5 /\ w.exit /\ Len(w.list) = 3
                  /\ w.list[1] = "misc" /\ w.list[2] = "irq" /\ w.list[3] = "gpio_in"
    <2> HIDE DEF L
    <2> QED
      BY <1>4, <1>6
  <1>7. \A w \in Endings(d) :
            /\ DOMAIN w.list = 1 .. Len(w.list)
            /\ Released(w, 0) = {} /\ Released(w, 1) = {w.list[1]}
            /\ Released(w, 2) = {w.list[1], w.list[2]}
            /\ Released(w, 3) = {w.list[1], w.list[2], w.list[3]}
    <2> HIDE DEF L
    <2>1. \A w : /\ Released(w, 0) = {} /\ Released(w, 0 + 1) = Released(w, 0) \cup {w.list[0 + 1]}
                /\ Released(w, 1 + 1) = Released(w, 1) \cup {w.list[1 + 1]}
                /\ Released(w, 2 + 1) = Released(w, 2) \cup {w.list[2 + 1]}
      BY ReleasedMore
    <2>2. 0 + 1 = 1 /\ 1 + 1 = 2 /\ 2 + 1 = 3
      OBVIOUS
    <2> QED
      BY <2>1, <2>2, EndingTypes
  <1>8. ASSUME NEW w \in Endings(d)
         PROVE  /\ AllReleased(w) = Released(w, Len(w.list))
                /\ w.after \in {1, 3} => AllReleased(w) = {"gpio_in"}
                /\ w.after = 4 => AllReleased(w) = {"irq", "gpio_in"}
                /\ w.after = 5 => AllReleased(w) = {"misc", "irq", "gpio_in"}
                /\ w.after \in {0, 1, 3, 4, 5}
    <2> HIDE DEF L
    <2>1. CASE Len(w.list) = 0
      BY <1>6, <2>1 DEF AllReleased
    <2>2. CASE Len(w.list) = 1
      BY <1>6, <1>7, <2>2 DEF AllReleased
    <2>3. CASE Len(w.list) = 2
      BY <1>6, <1>7, <2>3 DEF AllReleased
    <2>4. CASE Len(w.list) = 3
      BY <1>6, <1>7, <2>4 DEF AllReleased
    <2>5. Len(w.list) \in {0, 1, 2, 3}
      BY <1>6
    <2> QED
      BY <2>1, <2>2, <2>3, <2>4, <2>5
  <1>9. /\ Opens(d, May(d, 0)) = {} /\ Opens(d, May(d, 1)) = {} /\ Opens(d, May(d, 3)) = {}
        /\ Opens(d, May(d, 4)) = {"irq"} /\ Opens(d, May(d, 5)) = {"irq", "misc"}
        /\ \A e : UsesOf(d, e) \subseteq {"lock"}
    <2>1. Bottoms \cap DOMAIN L.uses = {}
      BY <1>1 DEF Bottoms
    <2>2. \A e \in DOMAIN L.uses : L.uses[e] = {"lock"}
      BY <1>1
    <2> HIDE DEF L
    <2>3. \A e : UsesOf(d, e) \subseteq {"lock"}
      BY <2>2 DEF UsesOf, L
    <2> QED
      BY <1>5, <2>1, <2>3 DEF Opens, EntryPoints, Files, Autonomous, Bottoms, Direct, L
  <1> HIDE DEF L
  <1>10. ReleasesInOrder(d)
    <2> SUFFICES ASSUME NEW w \in Endings(d), NEW k \in 1 .. Len(w.list)
                 PROVE  w.list[k] \in Surely(d, w.after) \ Released(w, k - 1)
      BY <1>1, <1>7 DEF ReleasesInOrder, L
    <2>1. k \in 1 .. 3
      <3>1. Len(w.list) \in {0, 1, 2, 3}
        BY <1>6
      <3>2. \A n \in {0, 1, 2, 3} : 1 .. n \subseteq 1 .. 3
        OBVIOUS
      <3> QED
        BY <3>1, <3>2
    <2>2. k - 1 = IF k = 1 THEN 0 ELSE IF k = 2 THEN 1 ELSE 2
      BY <2>1
    <2> QED
      BY <1>5, <1>6, <1>7, <2>1, <2>2
  <1>11. BasesInOrder(d)
    <2>1. \A r \in {"gpio_in", "lock", "misc"} : BuiltOn(r) = {}
      BY DEF BuiltOn
    <2>2. BuiltOn("irq") = {"gpio_in"}
      BY DEF BuiltOn
    <2>3. ASSUME NEW i \in DOMAIN L.init, NEW r \in L.init[i].takes
          PROVE  BuiltOn(r) \subseteq Surely(d, i)
      BY <1>2, <1>3, <1>5, <2>1, <2>2, <2>3
    <2>4. ASSUME NEW w \in Endings(d), NEW r \in May(d, w.after), NEW k \in 1 .. Len(w.list),
                 w.list[k] \in BuiltOn(r)
          PROVE  r \in Released(w, k - 1)
      <3>1. r = "irq" /\ w.list[k] = "gpio_in"
        BY <1>5, <1>6, <2>1, <2>2, <2>4
      <3>2. w.after \in {4, 5}
        BY <1>5, <1>6, <3>1
      <3>3. k - 1 = IF w.after = 4 THEN 1 ELSE 2
        BY <1>6, <3>1, <3>2
      <3> QED
        BY <1>6, <1>7, <3>1, <3>2, <3>3
    <2> QED
      BY <1>1, <1>7, <2>3, <2>4 DEF BasesInOrder, L
  <1>12. ASSUME NEW w \in Endings(d), NEW e \in Opens(d, May(d, w.after))
         PROVE  Stopped(d, w, Len(w.list), e)
    <2>1. w.after \in {4, 5}
      BY <1>6, <1>9
    <2>2. "irq" \in Released(w, Len(w.list))
      BY <1>8, <2>1
    <2>3. CASE e = "irq"
      BY <2>2, <2>3, Waiting DEF Stopped, Direct
    <2>4. CASE e = "misc"
      <3>1. w.after = 5
        BY <1>6, <1>9, <1>12, <2>1, <2>4
      <3>2. w.exit /\ "misc" \in AllReleased(w)
        BY <1>6, <1>8, <3>1
      <3> QED
        BY <1>1, <2>4, <3>2 DEF Stopped, Files, L
    <2> QED
      BY <1>9, <2>1, <2>3, <2>4
  <1>13. UsesInOrder(d)
    <2>1. ASSUME NEW i \in DOMAIN L.init, NEW e \in Opens(d, L.init[i].takes)
          PROVE  UsesOf(d, e) \subseteq Surely(d, i)
      <3>1. \A rs : "irq" \notin rs /\ rs \cap EntryPoints = {} => Opens(d, rs) = {}
        BY DEF Opens
      <3>2. i \in {4, 5}
        BY <1>2, <1>3, <2>1, <3>1 DEF EntryPoints, Files, Autonomous, Bottoms, Direct
      <3> QED
        BY <1>5, <1>9, <3>2
    <2>2. \A w \in Endings(d) : \A k \in 1 .. Len(w.list) : w.list[k] # "lock"
      BY <1>6
    <2>3. ASSUME NEW w \in Endings(d), NEW e \in Opens(d, May(d, w.after))
          PROVE  \A k \in DOMAIN w.list : w.list[k] \notin UsesOf(d, e)
      <3>1. UsesOf(d, e) \subseteq {"lock"}
        <4>1. UsesOf(d, e) = IF e \in DOMAIN L.uses THEN L.uses[e] ELSE {}
          BY DEF UsesOf, L
        <4>2. /\ DOMAIN L.uses = {"irq", "misc"}
              /\ L.uses["irq"] = {"lock"} /\ L.uses["misc"] = {"lock"}
          BY <1>1
        <4> HIDE DEF L
        <4> QED
          BY <4>1, <4>2
      <3>2. DOMAIN w.list = 1 .. Len(w.list)
        BY <1>7
      <3> QED
        BY <2>2, <3>1, <3>2
    <2> HIDE DEF L
    <2> QED
      BY <1>12, <2>1, <2>3 DEF UsesInOrder, L
  <1>14. EndsClean(d)
    <2>1. ASSUME NEW w \in Endings(d)
          PROVE  May(d, w.after) \subseteq AllReleased(w) \cup Static
      BY <1>5, <1>8 DEF Static
    <2> QED
      BY <1>12, <2>1 DEF EndsClean
  <1> QED
    BY <1>10, <1>11, <1>13, <1>14

\* Hence they release what they took, outlive nothing they stand on, run on nothing that has
\* gone, and leave nothing behind, none of them exempt.
THEOREM ArrayDriversSafe ==
    ASSUME \A d \in Drivers : Ladder[d] = ArrayDriver
    PROVE  Spec => [](ReleasesHeld /\ BaseHeld /\ UsersHold /\ Quiescent)
  <1>1. \A d \in Drivers :
            ReleasesInOrder(d) /\ BasesInOrder(d) /\ UsesInOrder(d) /\ EndsClean(d)
    BY ArrayDriverInOrder
  <1>2. Spec => []ReleasesHeld
    BY <1>1, ReleasesTheirOwn
  <1>3. Spec => []BaseHeld
    BY <1>1, BasesOutlive
  <1>4. Spec => []UsersHold
    BY <1>1, UsersOutlived
  <1>5. Spec => []Quiescent
    BY <1>1, EndsQuiescent
  <1> QED
    BY <1>2, <1>3, <1>4, <1>5, PTL
-----------------------------------------------------------------------------
\* Four elements, as in GpioPair, joined with a fifth.
LEMMA FourAndOne ==
    ASSUME NEW S, NEW a1 \in S, NEW a2 \in S, NEW a3 \in S, NEW a4 \in S, NEW a5 \in S
    PROVE  <<a1, a2, a3, a4>> \o <<a5>> = <<a1, a2, a3, a4, a5>>
  <1> DEFINE s == <<a1, a2, a3, a4>>
             t == <<a5>>
             u == s \o t
  <1>1. /\ s \in Seq(S) /\ t \in Seq(S) /\ Len(s) = 4 /\ Len(t) = 1
        /\ s[1] = a1 /\ s[2] = a2 /\ s[3] = a3 /\ s[4] = a4
        /\ t[1] = a5
    OBVIOUS
  <1>2. /\ u \in Seq(S) /\ Len(u) = Len(s) + Len(t)
        /\ \A i \in 1 .. Len(s) + Len(t) : u[i] = IF i <= Len(s) THEN s[i] ELSE t[i - Len(s)]
    <2> HIDE DEF s, t
    <2> QED
      BY <1>1, ConcatProperties
  <1> HIDE DEF s, t, u
  <1>3. DOMAIN u = 1 .. 5
    BY <1>1, <1>2
  <1>4. u[1] = a1 /\ u[2] = a2 /\ u[3] = a3 /\ u[4] = a4 /\ u[5] = a5
    BY <1>1, <1>2
  <1> DEFINE v == <<a1, a2, a3, a4, a5>>
  <1>5. v \in Seq(S) /\ Len(v) = 5
        /\ v[1] = a1 /\ v[2] = a2 /\ v[3] = a3 /\ v[4] = a4 /\ v[5] = a5
    OBVIOUS
  <1> HIDE DEF v
  <1>6. \A i \in 1 .. 5 : u[i] = v[i]
    BY <1>4, <1>5
  <1>7. u = v
    BY <1>1, <1>2, <1>5, <1>6
  <1> QED
    BY <1>7 DEF s, t, u, v

\* One element joined with two, as in the exit() of V_03 and V_06.
LEMMA OneAndTwo ==
    ASSUME NEW S, NEW a1 \in S, NEW a2 \in S, NEW a3 \in S
    PROVE  <<a1>> \o <<a2, a3>> = <<a1, a2, a3>>
  <1> DEFINE s == <<a1>>
             t == <<a2, a3>>
             u == s \o t
  <1>1. /\ s \in Seq(S) /\ t \in Seq(S) /\ Len(s) = 1 /\ Len(t) = 2
        /\ s[1] = a1
        /\ t[1] = a2 /\ t[2] = a3
    OBVIOUS
  <1>2. /\ u \in Seq(S) /\ Len(u) = Len(s) + Len(t)
        /\ \A i \in 1 .. Len(s) + Len(t) : u[i] = IF i <= Len(s) THEN s[i] ELSE t[i - Len(s)]
    <2> HIDE DEF s, t
    <2> QED
      BY <1>1, ConcatProperties
  <1> HIDE DEF s, t, u
  <1>3. DOMAIN u = 1 .. 3
    BY <1>1, <1>2
  <1>4. u[1] = a1 /\ u[2] = a2 /\ u[3] = a3
    BY <1>1, <1>2
  <1> DEFINE v == <<a1, a2, a3>>
  <1>5. v \in Seq(S) /\ Len(v) = 3
        /\ v[1] = a1 /\ v[2] = a2 /\ v[3] = a3
    OBVIOUS
  <1> HIDE DEF v
  <1>6. \A i \in 1 .. 3 : u[i] = v[i]
    BY <1>4, <1>5
  <1>7. u = v
    BY <1>1, <1>2, <1>5, <1>6
  <1> QED
    BY <1>7 DEF s, t, u, v

\* Two elements joined with two, as in the exit() of V_04 and V_05.
LEMMA TwoAndTwo ==
    ASSUME NEW S, NEW a1 \in S, NEW a2 \in S, NEW a3 \in S, NEW a4 \in S
    PROVE  <<a1, a2>> \o <<a3, a4>> = <<a1, a2, a3, a4>>
  <1> DEFINE s == <<a1, a2>>
             t == <<a3, a4>>
             u == s \o t
  <1>1. /\ s \in Seq(S) /\ t \in Seq(S) /\ Len(s) = 2 /\ Len(t) = 2
        /\ s[1] = a1 /\ s[2] = a2
        /\ t[1] = a3 /\ t[2] = a4
    OBVIOUS
  <1>2. /\ u \in Seq(S) /\ Len(u) = Len(s) + Len(t)
        /\ \A i \in 1 .. Len(s) + Len(t) : u[i] = IF i <= Len(s) THEN s[i] ELSE t[i - Len(s)]
    <2> HIDE DEF s, t
    <2> QED
      BY <1>1, ConcatProperties
  <1> HIDE DEF s, t, u
  <1>3. DOMAIN u = 1 .. 4
    BY <1>1, <1>2
  <1>4. u[1] = a1 /\ u[2] = a2 /\ u[3] = a3 /\ u[4] = a4
    BY <1>1, <1>2
  <1> DEFINE v == <<a1, a2, a3, a4>>
  <1>5. v \in Seq(S) /\ Len(v) = 4
        /\ v[1] = a1 /\ v[2] = a2 /\ v[3] = a3 /\ v[4] = a4
    OBVIOUS
  <1> HIDE DEF v
  <1>6. \A i \in 1 .. 4 : u[i] = v[i]
    BY <1>4, <1>5
  <1>7. u = v
    BY <1>1, <1>2, <1>5, <1>6
  <1> QED
    BY <1>7 DEF s, t, u, v

\* The drivers of two GPIOs and an interrupt (V_03 to V_06): the code that runs behind the
\* interrupt and writes the output, in the handler, a threaded handler, a tasklet or a work.
Writers == {"irq", "irq_thread", "tasklet", "work"}
Waited == {"tasklet", "work"}

GpioInterrupt(d, e) ==
    /\ e \in Writers
    /\ Ladder[d].init = GpioPair \o <<Try({"irq"}, BothGpios)>>
    /\ Ladder[d].exit = IF e \in Waited THEN <<"irq", e, "gpio_out", "gpio_in">>
                                        ELSE <<"irq", "gpio_out", "gpio_in">>
    /\ DOMAIN Ladder[d].uses = {e} /\ Ladder[d].uses[e] = {"gpio_out"}
    /\ Ladder[d].devm = {}

\* Each of the four is one of them.
LEMMA InterruptLadders ==
    ASSUME NEW d \in Drivers, Ladder[d] \in {V_03, V_04, V_05, V_06}
    PROVE  \E e \in Writers : GpioInterrupt(d, e)
  <1> DEFINE L == Ladder[d]
  <1>1. ASSUME NEW e \in Writers,
               L.init = GpioPair \o <<Try({"irq"}, BothGpios)>>,
               L.exit = IF e \in Waited THEN <<"irq", e, "gpio_out", "gpio_in">>
                                        ELSE <<"irq", "gpio_out", "gpio_in">>,
               DOMAIN L.uses = {e}, L.uses[e] = {"gpio_out"}, L.devm = {}
        PROVE  GpioInterrupt(d, e)
    BY <1>1 DEF GpioInterrupt
  <1>2. /\ <<"irq">> \o BothGpios = <<"irq", "gpio_out", "gpio_in">>
        /\ <<"irq", "tasklet">> \o BothGpios = <<"irq", "tasklet", "gpio_out", "gpio_in">>
        /\ <<"irq", "work">> \o BothGpios = <<"irq", "work", "gpio_out", "gpio_in">>
    <2> DEFINE S == {"irq", "tasklet", "work", "gpio_out", "gpio_in"}
    <2>1. /\ "irq" \in S /\ "tasklet" \in S /\ "work" \in S
          /\ "gpio_out" \in S /\ "gpio_in" \in S
      OBVIOUS
    <2> HIDE DEF S, L
    <2>2. \A b \in S : <<"irq", b>> \o <<"gpio_out", "gpio_in">>
                           = <<"irq", b, "gpio_out", "gpio_in">>
      BY <2>1, TwoAndTwo
    <2>3. <<"irq">> \o <<"gpio_out", "gpio_in">> = <<"irq", "gpio_out", "gpio_in">>
      BY <2>1, OneAndTwo
    <2> QED
      BY <2>1, <2>2, <2>3 DEF BothGpios
  <1>3. CASE L = V_03
    <2>1. /\ L.init = GpioPair \o <<Try({"irq"}, BothGpios)>> /\ L.devm = {}
          /\ L.exit = <<"irq">> \o BothGpios /\ L.uses = [irq |-> {"gpio_out"}]
      BY <1>3 DEF V_03, Module
    <2>2. DOMAIN L.uses = {"irq"} /\ L.uses["irq"] = {"gpio_out"}
      BY <2>1
    <2> HIDE DEF L
    <2> QED
      BY <1>1, <1>2, <2>1, <2>2 DEF Writers, Waited
  <1>4. CASE L = V_04
    <2>1. /\ L.init = GpioPair \o <<Try({"irq"}, BothGpios)>> /\ L.devm = {}
          /\ L.exit = <<"irq", "tasklet">> \o BothGpios /\ L.uses = [tasklet |-> {"gpio_out"}]
      BY <1>4 DEF V_04, Module
    <2>2. DOMAIN L.uses = {"tasklet"} /\ L.uses["tasklet"] = {"gpio_out"}
      BY <2>1
    <2> HIDE DEF L
    <2> QED
      BY <1>1, <1>2, <2>1, <2>2 DEF Writers, Waited
  <1>5. CASE L = V_05
    <2>1. /\ L.init = GpioPair \o <<Try({"irq"}, BothGpios)>> /\ L.devm = {}
          /\ L.exit = <<"irq", "work">> \o BothGpios /\ L.uses = [work |-> {"gpio_out"}]
      BY <1>5 DEF V_05, Module
    <2>2. DOMAIN L.uses = {"work"} /\ L.uses["work"] = {"gpio_out"}
      BY <2>1
    <2> HIDE DEF L
    <2> QED
      BY <1>1, <1>2, <2>1, <2>2 DEF Writers, Waited
  <1>6. CASE L = V_06
    <2>1. /\ L.init = GpioPair \o <<Try({"irq"}, BothGpios)>> /\ L.devm = {}
          /\ L.exit = <<"irq">> \o BothGpios /\ L.uses = [irq_thread |-> {"gpio_out"}]
      BY <1>6 DEF V_06, Module
    <2>2. DOMAIN L.uses = {"irq_thread"} /\ L.uses["irq_thread"] = {"gpio_out"}
      BY <2>1
    <2> HIDE DEF L
    <2> QED
      BY <1>1, <1>2, <2>1, <2>2 DEF Writers, Waited
  <1> QED
    BY <1>3, <1>4, <1>5, <1>6

\* They meet all the conditions: the interrupt goes before what it may have scheduled is waited
\* for, and both before the GPIOs.
LEMMA InterruptInOrder ==
    ASSUME NEW d \in Drivers, NEW e, GpioInterrupt(d, e)
    PROVE  ReleasesInOrder(d) /\ BasesInOrder(d) /\ UsesInOrder(d) /\ EndsClean(d)
  <1> DEFINE L == Ladder[d]
             End(i, list, exit) == [after |-> i, list |-> list, exit |-> exit]
  <1>1. /\ L.init = GpioPair \o <<Try({"irq"}, BothGpios)>> /\ e \in Writers
        /\ L.exit = IF e \in Waited THEN <<"irq", e, "gpio_out", "gpio_in">>
                                    ELSE <<"irq", "gpio_out", "gpio_in">>
        /\ DOMAIN L.uses = {e} /\ L.uses[e] = {"gpio_out"} /\ L.devm = {}
    BY DEF GpioInterrupt
  <1>2. /\ Len(L.init) = 5 /\ DOMAIN L.init = 1 .. 5
        /\ L.init[1] = Try({"gpio_in"}, <<>>) /\ L.init[2] = Try({"gpio_out"}, <<"gpio_in">>)
        /\ L.init[3] = Try({}, BothGpios) /\ L.init[4] = Try({}, BothGpios)
        /\ L.init[5] = Try({"irq"}, BothGpios)
    <2> DEFINE S == {Try({"gpio_in"}, <<>>), Try({"gpio_out"}, <<"gpio_in">>),
                     Try({}, BothGpios), Try({"irq"}, BothGpios)}
    <2>1. \A a, b, c, f, g \in S : <<a, b, c, f>> \o <<g>> = <<a, b, c, f, g>>
      <3> HIDE DEF S
      <3> QED
        BY FourAndOne
    <2> HIDE DEF L
    <2>2. L.init = <<Try({"gpio_in"}, <<>>), Try({"gpio_out"}, <<"gpio_in">>),
                     Try({}, BothGpios), Try({}, BothGpios), Try({"irq"}, BothGpios)>>
      BY <1>1, <2>1 DEF GpioPair
    <2> QED
      BY <2>2
  <1>3. /\ L.init[1].takes = {"gpio_in"} /\ L.init[1].undo = <<>> /\ L.init[1].on_error = "undo"
        /\ L.init[2].takes = {"gpio_out"} /\ L.init[2].undo = <<"gpio_in">>
        /\ L.init[2].on_error = "undo"
        /\ L.init[3].takes = {} /\ L.init[3].undo = BothGpios /\ L.init[3].on_error = "undo"
        /\ L.init[4].takes = {} /\ L.init[4].undo = BothGpios /\ L.init[4].on_error = "undo"
        /\ L.init[5].takes = {"irq"} /\ L.init[5].undo = BothGpios
        /\ L.init[5].on_error = "undo"
    <2> HIDE DEF L
    <2> QED
      BY <1>2 DEF Try
  <1>4. Endings(d) = {End(0, <<>>, FALSE), End(1, <<"gpio_in">>, FALSE),
                      End(2, BothGpios, FALSE), End(3, BothGpios, FALSE),
                      End(4, BothGpios, FALSE), End(5, L.exit, TRUE)}
    <2>1. {j \in DOMAIN L.init : L.init[j].on_error = "undo"} = {1, 2, 3, 4, 5}
      <3> HIDE DEF L
      <3> QED
        BY <1>2, <1>3
    <2> DEFINE Fails(i) == End(i - 1, L.init[i].undo, FALSE)
    <2>2. Endings(d) = {Fails(i) : i \in {1, 2, 3, 4, 5}} \cup {End(Len(L.init), L.exit, TRUE)}
      BY <2>1 DEF Endings
    <2>3. /\ Fails(1) = End(0, <<>>, FALSE) /\ Fails(2) = End(1, <<"gpio_in">>, FALSE)
          /\ Fails(3) = End(2, BothGpios, FALSE) /\ Fails(4) = End(3, BothGpios, FALSE)
          /\ Fails(5) = End(4, BothGpios, FALSE)
          /\ End(Len(L.init), L.exit, TRUE) = End(5, L.exit, TRUE)
      <3>1. 1 - 1 = 0 /\ 2 - 1 = 1 /\ 3 - 1 = 2 /\ 4 - 1 = 3 /\ 5 - 1 = 4
        OBVIOUS
      <3> HIDE DEF L
      <3> QED
        BY <1>2, <1>3, <3>1
    <2> HIDE DEF Fails, End, L
    <2>4. {Fails(i) : i \in {1, 2, 3, 4, 5}} = {Fails(1), Fails(2), Fails(3), Fails(4), Fails(5)}
      OBVIOUS
    <2> QED
      BY <2>2, <2>3, <2>4
  <1>5. /\ May(d, 0) = {} /\ Surely(d, 0) = {}
        /\ May(d, 1) = {"gpio_in"} /\ Surely(d, 1) = {"gpio_in"}
        /\ May(d, 2) = {"gpio_in", "gpio_out"} /\ Surely(d, 2) = {"gpio_in", "gpio_out"}
        /\ May(d, 3) = {"gpio_in", "gpio_out"} /\ Surely(d, 3) = {"gpio_in", "gpio_out"}
        /\ May(d, 4) = {"gpio_in", "gpio_out"} /\ Surely(d, 4) = {"gpio_in", "gpio_out"}
        /\ May(d, 5) = {"gpio_in", "gpio_out", "irq"}
        /\ Surely(d, 5) = {"gpio_in", "gpio_out", "irq"}
    <2> HIDE DEF L
    <2>1. May(d, 0) = {} /\ Surely(d, 0) = {}
      BY MayTake
    <2>2. \A i \in 0 .. 4 :
              /\ May(d, i + 1) = May(d, i) \cup L.init[i + 1].takes
              /\ L.init[i + 1].on_error # "ignored" =>
                     Surely(d, i + 1) = Surely(d, i) \cup L.init[i + 1].takes
      BY StepTakes DEF L
    <2>3. May(d, 1) = {"gpio_in"} /\ Surely(d, 1) = {"gpio_in"}
      BY <1>3, <2>1, <2>2, 0 \in 0 .. 4, 0 + 1 = 1
    <2>4. May(d, 2) = {"gpio_in", "gpio_out"} /\ Surely(d, 2) = {"gpio_in", "gpio_out"}
      BY <1>3, <2>2, <2>3, 1 \in 0 .. 4, 1 + 1 = 2
    <2>5. May(d, 3) = {"gpio_in", "gpio_out"} /\ Surely(d, 3) = {"gpio_in", "gpio_out"}
      BY <1>3, <2>2, <2>4, 2 \in 0 .. 4, 2 + 1 = 3
    <2>6. May(d, 4) = {"gpio_in", "gpio_out"} /\ Surely(d, 4) = {"gpio_in", "gpio_out"}
      BY <1>3, <2>2, <2>5, 3 \in 0 .. 4, 3 + 1 = 4
    <2>7. /\ May(d, 5) = {"gpio_in", "gpio_out", "irq"}
          /\ Surely(d, 5) = {"gpio_in", "gpio_out", "irq"}
      BY <1>3, <2>2, <2>6, 4 \in 0 .. 4, 4 + 1 = 5
    <2> QED
      BY <2>1, <2>3, <2>4, <2>5, <2>6, <2>7
  <1> HIDE DEF L
  <1>6. ASSUME NEW w \in Endings(d)
        PROVE  \/ w.after = 0 /\ Len(w.list) = 0
               \/ w.after = 1 /\ Len(w.list) = 1 /\ w.list[1] = "gpio_in"
               \/ /\ w.after \in {2, 3, 4} /\ Len(w.list) = 2
                  /\ w.list[1] = "gpio_out" /\ w.list[2] = "gpio_in"
               \/ /\ w.after = 5 /\ e \notin Waited /\ Len(w.list) = 3
                  /\ w.list[1] = "irq" /\ w.list[2] = "gpio_out" /\ w.list[3] = "gpio_in"
               \/ /\ w.after = 5 /\ e \in Waited /\ Len(w.list) = 4
                  /\ w.list[1] = "irq" /\ w.list[2] = e
                  /\ w.list[3] = "gpio_out" /\ w.list[4] = "gpio_in"
    <2>1. CASE w.after # 5
      BY <1>4, <1>6, <2>1 DEF BothGpios
    <2>2. CASE w = End(5, L.exit, TRUE)
      BY <1>1, <2>2
    <2> QED
      BY <1>4, <1>6, <2>1, <2>2
  <1>7. \A w \in Endings(d) :
            /\ DOMAIN w.list = 1 .. Len(w.list)
            /\ Released(w, 0) = {} /\ Released(w, 1) = {w.list[1]}
            /\ Released(w, 2) = {w.list[1], w.list[2]}
            /\ Released(w, 3) = {w.list[1], w.list[2], w.list[3]}
            /\ Released(w, 4) = {w.list[1], w.list[2], w.list[3], w.list[4]}
    <2>1. \A w : /\ Released(w, 0) = {} /\ Released(w, 0 + 1) = Released(w, 0) \cup {w.list[0 + 1]}
                /\ Released(w, 1 + 1) = Released(w, 1) \cup {w.list[1 + 1]}
                /\ Released(w, 2 + 1) = Released(w, 2) \cup {w.list[2 + 1]}
                /\ Released(w, 3 + 1) = Released(w, 3) \cup {w.list[3 + 1]}
      BY ReleasedMore
    <2>2. 0 + 1 = 1 /\ 1 + 1 = 2 /\ 2 + 1 = 3 /\ 3 + 1 = 4
      OBVIOUS
    <2> QED
      BY <2>1, <2>2, EndingTypes
  <1>8. ASSUME NEW w \in Endings(d)
        PROVE  May(d, w.after) \subseteq AllReleased(w)
    <2>1. CASE w.after = 0
      BY <1>5, <2>1
    <2>2. CASE w.after = 1
      BY <1>5, <1>6, <1>7, <2>2 DEF AllReleased
    <2>3. CASE w.after \in {2, 3, 4}
      <3>1. Len(w.list) = 2 /\ w.list[1] = "gpio_out" /\ w.list[2] = "gpio_in"
        BY <1>6, <2>3
      <3>2. AllReleased(w) = {"gpio_out", "gpio_in"}
        BY <1>7, <3>1 DEF AllReleased
      <3>3. May(d, w.after) = {"gpio_in", "gpio_out"}
        BY <1>5, <2>3
      <3> QED
        BY <3>2, <3>3
    <2>4. CASE w.after = 5 /\ e \notin Waited
      <3>1. /\ Len(w.list) = 3
            /\ w.list[1] = "irq" /\ w.list[2] = "gpio_out" /\ w.list[3] = "gpio_in"
        BY <1>6, <2>4
      <3>2. AllReleased(w) = {"irq", "gpio_out", "gpio_in"}
        BY <1>7, <3>1 DEF AllReleased
      <3> QED
        BY <1>5, <2>4, <3>2
    <2>5. CASE w.after = 5 /\ e \in Waited
      <3>1. /\ Len(w.list) = 4
            /\ w.list[1] = "irq" /\ w.list[3] = "gpio_out" /\ w.list[4] = "gpio_in"
        BY <1>6, <2>5
      <3>2. {"irq", "gpio_out", "gpio_in"} \subseteq AllReleased(w)
        BY <1>7, <3>1 DEF AllReleased
      <3> QED
        BY <1>5, <2>5, <3>2
    <2> QED
      BY <1>6, <2>1, <2>2, <2>3, <2>4, <2>5
  <1>9. /\ \A i \in 0 .. 4 : Opens(d, May(d, i)) = {}
        /\ Opens(d, {"gpio_in"}) = {} /\ Opens(d, {"gpio_out"}) = {} /\ Opens(d, {}) = {}
        /\ Opens(d, May(d, 5)) = {"irq", e} /\ Opens(d, {"irq"}) = {"irq", e}
    <2>1. "irq" \in EntryPoints /\ "gpio_in" \notin EntryPoints /\ "gpio_out" \notin EntryPoints
      BY DEF EntryPoints, Files, Autonomous, Bottoms, Direct
    <2>2. (Bottoms \cap DOMAIN Ladder[d].uses) \cup {"irq"} = {"irq", e}
      BY <1>1 DEF Bottoms, Writers, L
    <2>3. \A S \in SUBSET {"gpio_in", "gpio_out"} : Opens(d, S) = {}
      BY <2>1 DEF Opens
    <2>4. \A S \in SUBSET {"gpio_in", "gpio_out", "irq"} : "irq" \in S => Opens(d, S) = {"irq", e}
      BY <2>1, <2>2 DEF Opens
    <2> QED
      BY <1>5, <2>3, <2>4
  <1>10. \A f : UsesOf(d, f) = IF f = e THEN {"gpio_out"} ELSE {}
    BY <1>1 DEF UsesOf, L
  <1>11. /\ BuiltOn("irq") = {"gpio_in"} /\ BuiltOn("gpio_in") = {} /\ BuiltOn("gpio_out") = {}
         /\ "irq" \in Awaits("irq") /\ "irq_thread" \in Awaits("irq")
         /\ \A b \in Waited : b \in Awaits(b)
         /\ Waited \subseteq Bottoms \cap Idempotent /\ "irq_thread" \in Bottoms /\ "irq" \in Direct
    BY DEF BuiltOn, Awaits, Waited, Bottoms, Direct, Idempotent
  <1>12. ReleasesInOrder(d)
    <2> SUFFICES ASSUME NEW w \in Endings(d), NEW k \in 1 .. Len(w.list)
                 PROVE  w.list[k] \in Idempotent
                            \/ w.list[k] \in Surely(d, w.after) \ Released(w, k - 1)
      BY <1>1, <1>7 DEF ReleasesInOrder, L
    <2>1. k \in 1 .. 4
      <3>1. Len(w.list) \in {0, 1, 2, 3, 4}
        BY <1>6
      <3>2. \A n \in {0, 1, 2, 3, 4} : 1 .. n \subseteq 1 .. 4
        OBVIOUS
      <3> QED
        BY <3>1, <3>2
    <2>2. k - 1 = IF k = 1 THEN 0 ELSE IF k = 2 THEN 1 ELSE IF k = 3 THEN 2 ELSE 3
      BY <2>1
    <2>3. CASE w.after # 5
      BY <1>5, <1>6, <1>7, <2>1, <2>2, <2>3
    <2>4. CASE w.after = 5 /\ e \notin Waited
      BY <1>5, <1>6, <1>7, <2>1, <2>2, <2>4
    <2>5. CASE w.after = 5 /\ e \in Waited
      <3>1. e \notin {"gpio_in", "gpio_out"}
        BY <2>5 DEF Waited
      <3> QED
        BY <1>5, <1>6, <1>7, <1>11, <2>1, <2>2, <2>5, <3>1
    <2> QED
      BY <2>3, <2>4, <2>5
  <1>13. BasesInOrder(d)
    <2>1. ASSUME NEW i \in DOMAIN L.init, NEW r \in L.init[i].takes
          PROVE  BuiltOn(r) \subseteq Surely(d, i)
      BY <1>2, <1>3, <1>5, <1>11, <2>1
    <2>2. ASSUME NEW w \in Endings(d), NEW r \in May(d, w.after), NEW k \in 1 .. Len(w.list),
                 w.list[k] \in BuiltOn(r)
          PROVE  r \in Released(w, k - 1)
      <3>1. r = "irq" /\ w.list[k] = "gpio_in" /\ w.after = 5
        BY <1>5, <1>6, <1>11, <2>2
      <3>2. w.list[1] = "irq" /\ k # 1
        BY <1>6, <3>1
      <3>3. k - 1 \in Nat /\ 1 \in 1 .. k - 1
        BY <1>6, <3>2
      <3> QED
        BY <3>1, <3>2, <3>3 DEF Released
    <2> QED
      BY <1>1, <1>7, <2>1, <2>2 DEF BasesInOrder, L
  <1>14. ASSUME NEW w \in Endings(d), NEW f \in Opens(d, May(d, w.after)),
                NEW k \in 1 .. Len(w.list),
                f = e => w.list[k] = "gpio_in" \/ w.list[k + 1] = "gpio_out"
         PROVE  Stopped(d, w, k, f)
    <2>1. w.after = 5 /\ f \in {"irq", e}
      BY <1>6, <1>9
    <2>2. w.list[1] = "irq" /\ 1 \in 1 .. k
      BY <1>6, <2>1
    <2>3. \A j \in 1 .. k : "irq" \in Released(w, j)
      BY <2>2 DEF Released
    <2>4. CASE f = "irq"
      BY <1>11, <2>2, <2>3, <2>4 DEF Stopped
    <2>5. CASE f = "irq_thread"
      BY <1>11, <2>2, <2>3, <2>5 DEF Stopped
    <2>6. CASE f = e /\ e \in Waited
      <3>1. e \notin {"irq", "gpio_in", "gpio_out"}
        BY <2>6 DEF Waited
      <3>2. w.list[2] = e /\ k # 1
        BY <1>6, <1>14, <2>1, <2>6, <3>1
      <3>3. 2 \in 1 .. k
        BY <1>6, <3>2
      <3> QED
        BY <1>11, <2>3, <2>6, <3>2, <3>3 DEF Stopped
    <2> QED
      BY <1>1, <2>1, <2>4, <2>5, <2>6 DEF Writers, Waited
  <1>15. ASSUME NEW w \in Endings(d), NEW f \in Opens(d, May(d, w.after))
         PROVE  Stopped(d, w, Len(w.list), f)
    <2>1. w.after = 5
      BY <1>6, <1>9
    <2>2. Len(w.list) \in 1 .. Len(w.list) /\ w.list[Len(w.list)] = "gpio_in"
      BY <1>6, <2>1
    <2> QED
      BY <1>14, <2>2
  <1>16. UsesInOrder(d)
    <2>1. ASSUME NEW i \in DOMAIN L.init, NEW f \in Opens(d, L.init[i].takes)
          PROVE  UsesOf(d, f) \subseteq Surely(d, i)
      <3>1. i \in {1, 2, 3, 4, 5}
        BY <1>2
      <3>2. \A j \in {1, 2, 3, 4} : Opens(d, L.init[j].takes) = {}
        BY <1>3, <1>9
      <3>3. i = 5
        BY <2>1, <3>1, <3>2
      <3> QED
        BY <1>5, <1>10, <3>3
    <2>2. ASSUME NEW w \in Endings(d), NEW f \in Opens(d, May(d, w.after)),
                 NEW k \in 1 .. Len(w.list), w.list[k] \in UsesOf(d, f)
          PROVE  Stopped(d, w, k - 1, f)
      <3>1. f = e /\ w.list[k] = "gpio_out"
        BY <1>10, <2>2
      <3>2. w.after = 5
        BY <1>6, <1>9
      <3>3. k # 1
        BY <1>6, <3>1, <3>2
      <3>4. k - 1 \in 1 .. Len(w.list) /\ (k - 1) + 1 = k
        BY <1>6, <3>3
      <3> QED
        BY <1>14, <3>1, <3>4
    <2>3. \A f : UsesOf(d, f) \cap (L.devm \cup Static) = {}
      BY <1>1, <1>10 DEF Static
    <2> QED
      BY <1>7, <2>1, <2>2, <2>3 DEF UsesInOrder, L
  <1>17. EndsClean(d)
    BY <1>8, <1>15 DEF EndsClean
  <1> QED
    BY <1>12, <1>13, <1>16, <1>17

\* Hence none of them releases what it does not have, and the code behind the interrupt never
\* finds the GPIO it writes gone, at rmmod nor after a failed init().
THEOREM InterruptDriversSafe ==
    ASSUME \A d \in Drivers : Ladder[d] \in {V_03, V_04, V_05, V_06}
    PROVE  Spec => [](ReleasesHeld /\ BaseHeld /\ UsersHold /\ Quiescent)
  <1>1. \A d \in Drivers :
            ReleasesInOrder(d) /\ BasesInOrder(d) /\ UsesInOrder(d) /\ EndsClean(d)
    BY InterruptLadders, InterruptInOrder
  <1>2. Spec => []ReleasesHeld
    BY <1>1, ReleasesTheirOwn
  <1>3. Spec => []BaseHeld
    BY <1>1, BasesOutlive
  <1>4. Spec => []UsersHold
    BY <1>1, UsersOutlived
  <1>5. Spec => []Quiescent
    BY <1>1, EndsQuiescent
  <1> QED
    BY <1>2, <1>3, <1>4, <1>5, PTL
-----------------------------------------------------------------------------
\* The network drivers (VI_02, VI_03) release in the reverse order of what they took, in exit() and
\* in every error path.
LEMMA NetDriverInOrder ==
    ASSUME NEW d \in Drivers, Ladder[d] = VI_02
    PROVE  ReleasesInOrder(d) /\ BasesInOrder(d) /\ EndsClean(d)
  <1> DEFINE L == Ladder[d]
             End(i, list, exit) == [after |-> i, list |-> list, exit |-> exit]
             Backwards == <<"net1", "dev1", "net0", "dev0">>
  <1>1. /\ L.init = <<Try({"dev0"}, <<>>), Try({"net0"}, <<"dev0">>),
                      Try({"dev1"}, <<"net0", "dev0">>),
                      Try({"net1"}, <<"dev1", "net0", "dev0">>)>>
        /\ L.exit = Backwards /\ L.devm = {}
        /\ L.uses = [net0 |-> {"dev0", "dev1"}, net1 |-> {"dev0", "dev1"}]
    BY DEF VI_02, Module
  <1>2. /\ Len(L.init) = 4 /\ DOMAIN L.init = 1 .. 4
        /\ L.init[1] = Try({"dev0"}, <<>>) /\ L.init[2] = Try({"net0"}, <<"dev0">>)
        /\ L.init[3] = Try({"dev1"}, <<"net0", "dev0">>)
        /\ L.init[4] = Try({"net1"}, <<"dev1", "net0", "dev0">>)
    <2> HIDE DEF L, Backwards
    <2> QED
      BY <1>1
  <1>3. /\ L.init[1].takes = {"dev0"} /\ L.init[1].undo = <<>> /\ L.init[1].on_error = "undo"
        /\ L.init[2].takes = {"net0"} /\ L.init[2].undo = <<"dev0">>
        /\ L.init[2].on_error = "undo"
        /\ L.init[3].takes = {"dev1"} /\ L.init[3].undo = <<"net0", "dev0">>
        /\ L.init[3].on_error = "undo"
        /\ L.init[4].takes = {"net1"} /\ L.init[4].undo = <<"dev1", "net0", "dev0">>
        /\ L.init[4].on_error = "undo"
    <2> HIDE DEF L
    <2> QED
      BY <1>2 DEF Try
  <1>4. Endings(d) = {End(0, <<>>, FALSE), End(1, <<"dev0">>, FALSE),
                      End(2, <<"net0", "dev0">>, FALSE),
                      End(3, <<"dev1", "net0", "dev0">>, FALSE), End(4, Backwards, TRUE)}
    <2>1. {j \in DOMAIN L.init : L.init[j].on_error = "undo"} = {1, 2, 3, 4}
      <3> HIDE DEF L
      <3> QED
        BY <1>2, <1>3
    <2> DEFINE Fails(i) == End(i - 1, L.init[i].undo, FALSE)
    <2>2. Endings(d) = {Fails(i) : i \in {1, 2, 3, 4}} \cup {End(Len(L.init), L.exit, TRUE)}
      BY <2>1 DEF Endings
    <2>3. /\ Fails(1) = End(0, <<>>, FALSE) /\ Fails(2) = End(1, <<"dev0">>, FALSE)
          /\ Fails(3) = End(2, <<"net0", "dev0">>, FALSE)
          /\ Fails(4) = End(3, <<"dev1", "net0", "dev0">>, FALSE)
          /\ End(Len(L.init), L.exit, TRUE) = End(4, Backwards, TRUE)
      <3>1. 1 - 1 = 0 /\ 2 - 1 = 1 /\ 3 - 1 = 2 /\ 4 - 1 = 3
        OBVIOUS
      <3> HIDE DEF L, Backwards
      <3> QED
        BY <1>1, <1>2, <1>3, <3>1
    <2> HIDE DEF Fails, End, L
    <2>4. {Fails(i) : i \in {1, 2, 3, 4}} = {Fails(1), Fails(2), Fails(3), Fails(4)}
      OBVIOUS
    <2> QED
      BY <2>2, <2>3, <2>4
  <1>5. /\ May(d, 0) = {} /\ Surely(d, 0) = {}
        /\ May(d, 1) = {"dev0"} /\ Surely(d, 1) = {"dev0"}
        /\ May(d, 2) = {"dev0", "net0"} /\ Surely(d, 2) = {"dev0", "net0"}
        /\ May(d, 3) = {"dev0", "net0", "dev1"} /\ Surely(d, 3) = {"dev0", "net0", "dev1"}
        /\ May(d, 4) = {"dev0", "net0", "dev1", "net1"}
        /\ Surely(d, 4) = {"dev0", "net0", "dev1", "net1"}
    <2> HIDE DEF L
    <2>1. May(d, 0) = {} /\ Surely(d, 0) = {}
      BY MayTake
    <2>2. \A i \in 0 .. 3 :
              /\ May(d, i + 1) = May(d, i) \cup L.init[i + 1].takes
              /\ L.init[i + 1].on_error # "ignored" =>
                     Surely(d, i + 1) = Surely(d, i) \cup L.init[i + 1].takes
      BY StepTakes DEF L
    <2>3. May(d, 1) = {"dev0"} /\ Surely(d, 1) = {"dev0"}
      BY <1>3, <2>1, <2>2, 0 \in 0 .. 3, 0 + 1 = 1
    <2>4. May(d, 2) = {"dev0", "net0"} /\ Surely(d, 2) = {"dev0", "net0"}
      BY <1>3, <2>2, <2>3, 1 \in 0 .. 3, 1 + 1 = 2
    <2>5. May(d, 3) = {"dev0", "net0", "dev1"} /\ Surely(d, 3) = {"dev0", "net0", "dev1"}
      BY <1>3, <2>2, <2>4, 2 \in 0 .. 3, 2 + 1 = 3
    <2>6. /\ May(d, 4) = {"dev0", "net0", "dev1", "net1"}
          /\ Surely(d, 4) = {"dev0", "net0", "dev1", "net1"}
      BY <1>3, <2>2, <2>5, 3 \in 0 .. 3, 3 + 1 = 4
    <2> QED
      BY <2>1, <2>3, <2>4, <2>5, <2>6
  <1> HIDE DEF L
  <1>6. ASSUME NEW w \in Endings(d)
        PROVE  \/ w.after = 0 /\ Len(w.list) = 0
               \/ w.after = 1 /\ Len(w.list) = 1 /\ w.list[1] = "dev0"
               \/ w.after = 2 /\ Len(w.list) = 2 /\ w.list[1] = "net0" /\ w.list[2] = "dev0"
               \/ /\ w.after = 3 /\ Len(w.list) = 3
                  /\ w.list[1] = "dev1" /\ w.list[2] = "net0" /\ w.list[3] = "dev0"
               \/ /\ w.after = 4 /\ Len(w.list) = 4 /\ w.list[1] = "net1"
                  /\ w.list[2] = "dev1" /\ w.list[3] = "net0" /\ w.list[4] = "dev0"
    BY <1>4, <1>6
  <1> HIDE DEF Backwards
  <1>7. \A w \in Endings(d) :
            /\ DOMAIN w.list = 1 .. Len(w.list)
            /\ Released(w, 0) = {} /\ Released(w, 1) = {w.list[1]}
            /\ Released(w, 2) = {w.list[1], w.list[2]}
            /\ Released(w, 3) = {w.list[1], w.list[2], w.list[3]}
            /\ Released(w, 4) = {w.list[1], w.list[2], w.list[3], w.list[4]}
    <2>1. \A w : /\ Released(w, 0) = {} /\ Released(w, 0 + 1) = Released(w, 0) \cup {w.list[0 + 1]}
                /\ Released(w, 1 + 1) = Released(w, 1) \cup {w.list[1 + 1]}
                /\ Released(w, 2 + 1) = Released(w, 2) \cup {w.list[2 + 1]}
                /\ Released(w, 3 + 1) = Released(w, 3) \cup {w.list[3 + 1]}
      BY ReleasedMore
    <2>2. 0 + 1 = 1 /\ 1 + 1 = 2 /\ 2 + 1 = 3 /\ 3 + 1 = 4
      OBVIOUS
    <2> QED
      BY <2>1, <2>2, EndingTypes
  <1>8. ASSUME NEW w \in Endings(d)
        PROVE  AllReleased(w) = May(d, w.after)
    <2>1. CASE w.after = 0
      BY <1>5, <1>6, <1>7, <2>1 DEF AllReleased
    <2>2. CASE w.after = 1
      BY <1>5, <1>6, <1>7, <2>2 DEF AllReleased
    <2>3. CASE w.after = 2
      <3>1. Len(w.list) = 2 /\ w.list[1] = "net0" /\ w.list[2] = "dev0"
        BY <1>6, <2>3
      <3>2. AllReleased(w) = {"net0", "dev0"}
        BY <1>7, <3>1 DEF AllReleased
      <3> QED
        BY <1>5, <2>3, <3>2
    <2>4. CASE w.after = 3
      <3>1. Len(w.list) = 3 /\ w.list[1] = "dev1" /\ w.list[2] = "net0" /\ w.list[3] = "dev0"
        BY <1>6, <2>4
      <3>2. AllReleased(w) = {"dev1", "net0", "dev0"}
        BY <1>7, <3>1 DEF AllReleased
      <3> QED
        BY <1>5, <2>4, <3>2
    <2>5. CASE w.after = 4
      <3>1. /\ Len(w.list) = 4 /\ w.list[1] = "net1"
            /\ w.list[2] = "dev1" /\ w.list[3] = "net0" /\ w.list[4] = "dev0"
        BY <1>6, <2>5
      <3>2. AllReleased(w) = {"net1", "dev1", "net0", "dev0"}
        BY <1>7, <3>1 DEF AllReleased
      <3> QED
        BY <1>5, <2>5, <3>2
    <2> QED
      BY <1>6, <2>1, <2>2, <2>3, <2>4, <2>5
  <1>9. ASSUME NEW w \in Endings(d), NEW k \in 1 .. Len(w.list)
        PROVE  /\ k \in 1 .. 4
               /\ k - 1 = IF k = 1 THEN 0 ELSE IF k = 2 THEN 1 ELSE IF k = 3 THEN 2 ELSE 3
    <2>1. Len(w.list) \in {0, 1, 2, 3, 4}
      BY <1>6
    <2>2. \A n \in {0, 1, 2, 3, 4} : 1 .. n \subseteq 1 .. 4
      OBVIOUS
    <2>3. k \in 1 .. 4
      BY <2>1, <2>2
    <2> QED
      BY <2>3
  <1>10. ReleasesInOrder(d)
    <2> SUFFICES ASSUME NEW w \in Endings(d), NEW k \in 1 .. Len(w.list)
                 PROVE  w.list[k] \in Surely(d, w.after) \ Released(w, k - 1)
      BY <1>1, <1>7 DEF ReleasesInOrder, L
    <2>1. CASE w.after \in {0, 1, 2}
      BY <1>5, <1>6, <1>7, <1>9, <2>1
    <2>2. CASE w.after = 3
      BY <1>5, <1>6, <1>7, <1>9, <2>2
    <2>3. CASE w.after = 4
      BY <1>5, <1>6, <1>7, <1>9, <2>3
    <2> QED
      BY <1>6, <2>1, <2>2, <2>3
  <1>11. /\ BuiltOn("net0") = {"dev0"} /\ BuiltOn("net1") = {"dev1"}
         /\ BuiltOn("dev0") = {} /\ BuiltOn("dev1") = {}
    BY DEF BuiltOn
  <1>12. BasesInOrder(d)
    <2>1. ASSUME NEW i \in DOMAIN L.init, NEW r \in L.init[i].takes
          PROVE  BuiltOn(r) \subseteq Surely(d, i)
      BY <1>2, <1>3, <1>5, <1>11, <2>1
    <2>2. ASSUME NEW w \in Endings(d), NEW r \in May(d, w.after), NEW k \in 1 .. Len(w.list),
                 w.list[k] \in BuiltOn(r)
          PROVE  r \in Released(w, k - 1)
      <3>1. r \in {"dev0", "net0", "dev1", "net1"}
        BY <1>5, <1>6
      <3>2. r # "dev0" /\ r # "dev1"
        BY <1>11, <2>2
      <3>3. CASE r = "net0"
        <4>1. w.list[k] = "dev0"
          BY <1>11, <2>2, <3>3
        <4>2. w.after \in {2, 3, 4}
          BY <1>5, <1>6, <3>3
        <4> QED
          BY <1>6, <1>7, <1>9, <3>3, <4>1, <4>2
      <3>4. CASE r = "net1"
        <4>1. w.list[k] = "dev1"
          BY <1>11, <2>2, <3>4
        <4>2. w.after = 4
          BY <1>5, <1>6, <3>4
        <4> QED
          BY <1>6, <1>7, <1>9, <3>4, <4>1, <4>2
      <3> QED
        BY <3>1, <3>2, <3>3, <3>4
    <2> QED
      BY <1>1, <1>7, <2>1, <2>2 DEF BasesInOrder, L
  <1>13. EndsClean(d)
    <2> SUFFICES ASSUME NEW w \in Endings(d), NEW e \in Opens(d, May(d, w.after)) \ Files
                 PROVE  Stopped(d, w, Len(w.list), e)
      BY <1>8 DEF EndsClean
    <2>1. "irq" \notin May(d, w.after)
      BY <1>5, <1>6
    <2>2. e \in May(d, w.after) \cap EntryPoints
      BY <2>1 DEF Opens
    <2>3. e \in AllReleased(w) /\ e \in Direct
      BY <1>5, <1>6, <1>8, <2>2 DEF EntryPoints, Files, Autonomous, Bottoms, Direct
    <2> QED
      BY <2>3, Waiting DEF Stopped, AllReleased
  <1> QED
    BY <1>10, <1>12, <1>13

\* Hence they free no device that is not theirs or still registered, and leave none behind.  The
\* fourth property is not theirs: the first device is registered before the second is allocated,
\* and still is when the second is freed (example-VI-02.c lines 236 and 241, 265 and 270).
THEOREM NetDriversClean ==
    ASSUME \A d \in Drivers : Ladder[d] = VI_02
    PROVE  Spec => [](ReleasesHeld /\ BaseHeld /\ Quiescent)
  <1>1. \A d \in Drivers : ReleasesInOrder(d) /\ BasesInOrder(d) /\ EndsClean(d)
    BY NetDriverInOrder
  <1>2. Spec => []ReleasesHeld
    BY <1>1, ReleasesTheirOwn
  <1>3. Spec => []BaseHeld
    BY <1>1, BasesOutlive
  <1>4. Spec => []Quiescent
    BY <1>1, EndsQuiescent
  <1> QED
    BY <1>2, <1>3, <1>4, PTL
=============================================================================
