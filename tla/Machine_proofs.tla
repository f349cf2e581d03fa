---------------------------- MODULE Machine_proofs ----------------------------
(***************************************************************************)
(* Proofs about the machine of module Machine, for every value of its      *)
(* constants, and about the weather of module Weather that is composed     *)
(* with it, for every simulation.                                          *)
(***************************************************************************)
EXTENDS Weather, FiniteSetTheorems, TLAPS

-----------------------------------------------------------------------------
(* The type invariant, and the two facts it needs: the bound on lives is   *)
(* respected inside restart(), and a thread that is handling a call knows  *)
(* for which life.                                                         *)

RoomToRebuild ==
    dpc \in {"revive", "clear", "start", "release", "await", "rebuild"} => life < MaxLives

HandlersHaveALife == \A s \in Slots : hpc[s] # "idle" <=> hlife[s] # 0

TypeInv == TypeOK /\ RoomToRebuild /\ HandlersHaveALife

\* What the assumption says of the number of lives.
LEMMA SomeLife == MaxLives \in Nat /\ MaxLives >= 1
  BY MachineAssumption

\* What a heap walk answers is a number of bytes: the store is finite.
LEMMA HoldingType == ASSUME ServicesOK PROVE Holding \in Nat
  <1>1. IsFiniteSet(1 .. MaxLives)
    BY FS_Interval, MachineAssumption
  <1>2. IsFiniteSet(store)
    BY <1>1, FS_Subset DEF ServicesOK
  <1>3. Cardinality(store) \in Nat
    BY <1>2, FS_CardinalityType
  <1> QED
    BY <1>3 DEF ServicesOK, Holding

\* A part of the state nobody writes keeps its type.
LEMMA Frame ==
    /\ VitalsOK /\ UNCHANGED <<now, vitals>> => VitalsOK'
    /\ GaugesOK /\ UNCHANGED gauges => GaugesOK'
    /\ ServicesOK /\ UNCHANGED services => ServicesOK'
    /\ NetOK /\ UNCHANGED net => NetOK'
    /\ WalkersOK /\ UNCHANGED walkers => WalkersOK'
    /\ HandlersOK /\ UNCHANGED handlers => HandlersOK'
    /\ DispatcherOK /\ UNCHANGED <<dpc, mishaps>> => DispatcherOK'
    /\ EndingOK /\ UNCHANGED ending => EndingOK'
    /\ RoomToRebuild /\ UNCHANGED <<dpc, life>> => RoomToRebuild'
    /\ HandlersHaveALife /\ UNCHANGED handlers => HandlersHaveALife'
  BY DEF VitalsOK, GaugesOK, ServicesOK, NetOK, WalkersOK, HandlersOK, DispatcherOK, EndingOK,
         RoomToRebuild, HandlersHaveALife, vitals, gauges, services, net, walkers, handlers,
         ending

\* A walk leaves the walkers well typed.
LEMMA WalkType == ASSUME ServicesOK, WalkersOK, NEW w \in Walkers, Walk(w) PROVE WalkersOK'
  <1>1. wpc' \in [Walkers -> {"idle", "walked", "report", "kill"}]
    BY DEF Walk, WalkersOK
  <1>2. Holding \in Nat /\ life \in 0 .. MaxLives
    BY HoldingType, SomeLife DEF ServicesOK
  <1>3. [bytes |-> Holding, of |-> life] \in [bytes : Nat, of : 0 .. MaxLives]
    BY <1>2
  <1>4. measured' \in [Walkers -> [bytes : Nat, of : 0 .. MaxLives]]
    BY <1>3 DEF Walk, WalkersOK
  <1> QED
    BY <1>1, <1>4 DEF WalkersOK

\* So does the end of one, ...
LEMMA ForgetType == ASSUME WalkersOK, NEW w \in Walkers, Forget(w) PROVE WalkersOK'
  <1>1. wpc' \in [Walkers -> {"idle", "walked", "report", "kill"}]
    BY DEF Forget, WalkersOK
  <1>2. Nothing \in [bytes : Nat, of : 0 .. MaxLives]
    BY SomeLife DEF Nothing
  <1>3. measured' \in [Walkers -> [bytes : Nat, of : 0 .. MaxLives]]
    BY <1>2 DEF Forget, WalkersOK
  <1> QED
    BY <1>1, <1>3 DEF WalkersOK

\* ... and a thread that goes back to the pool leaves the handlers well typed.
LEMMA LeaveType == ASSUME HandlersOK, NEW s \in Slots, Leave(s) PROVE HandlersOK'
  <1>1. 0 \in 0 .. MaxLives
    BY SomeLife
  <1>2. hlife' \in [Slots -> 0 .. MaxLives]
    BY <1>1 DEF Leave, HandlersOK
  <1>3. hpc' \in [Slots -> {"idle", "handling", "full"}]
    BY DEF Leave, HandlersOK
  <1> QED
    BY <1>2, <1>3 DEF HandlersOK

\* Giving the name back leaves the field and the registry well typed.
LEMMA ReleaseNameType == ASSUME NetOK, releaseName PROVE NetOK'
  <1>1. server' \in 0 .. MaxLives
    BY SomeLife DEF releaseName
  <1>2. bound' \in 0 .. MaxLives
    BY DEF releaseName, NetOK
  <1>3. stopping' \in BOOLEAN
    BY DEF releaseName, NetOK
  <1> QED
    BY <1>1, <1>2, <1>3 DEF NetOK

LEMMA TypeInvInit == ASSUME Init PROVE TypeInv
  <1>1. VitalsOK /\ GaugesOK /\ DispatcherOK /\ EndingOK
    BY DEF Init, VitalsOK, GaugesOK, DispatcherOK, EndingOK
  <1>2. ServicesOK
    BY SomeLife DEF Init, ServicesOK
  <1>3. NetOK
    <2>1. server \in 0 .. MaxLives
      BY SomeLife DEF Init
    <2>2. bound \in 0 .. MaxLives
      BY SomeLife DEF Init
    <2> QED
      BY <2>1, <2>2 DEF Init, NetOK
  <1>4. RoomToRebuild /\ HandlersHaveALife
    BY DEF Init, RoomToRebuild, HandlersHaveALife
  <1>5. WalkersOK /\ HandlersOK
    BY SomeLife DEF Init, WalkersOK, HandlersOK, Nothing
  <1> QED
    BY <1>1, <1>2, <1>3, <1>4, <1>5 DEF TypeInv, TypeOK

LEMMA TypeInvNext == ASSUME TypeInv, [Next]_vars PROVE TypeInv'
  <1> USE DEF TypeInv, TypeOK

  <1>1. CASE Tick
    <2>1. VitalsOK'
      BY <1>1 DEF Tick, vitals, VitalsOK
    <2> QED
      BY <1>1, Frame, <2>1 DEF Tick, services
  <1>2. CASE kill
    <2>1. VitalsOK'
      BY <1>2 DEF kill, LoopHead, AtFault, VitalsOK, vitals
    <2>2. DispatcherOK'
      BY <1>2 DEF kill, LoopHead, AtFault, DispatcherOK
    <2>3. RoomToRebuild'
      BY <1>2 DEF kill, LoopHead, AtFault, RoomToRebuild, ServicesOK, services
    <2> QED
      BY <1>2, Frame, <2>1, <2>2, <2>3 DEF kill, services
  <1>3. CASE thaw
    <2>1. VitalsOK'
      BY <1>3 DEF thaw, LoopHead, AtFault, VitalsOK, vitals
    <2>2. DispatcherOK'
      BY <1>3 DEF thaw, LoopHead, AtFault, DispatcherOK
    <2>3. RoomToRebuild'
      BY <1>3 DEF thaw, LoopHead, AtFault, RoomToRebuild, ServicesOK, services
    <2> QED
      BY <1>3, Frame, <2>1, <2>2, <2>3 DEF thaw, services
  <1>4. CASE restart
    <2>1. DispatcherOK'
      BY <1>4 DEF restart, LoopHead, AtFault, services, DispatcherOK
    <2>2. RoomToRebuild'
      BY <1>4 DEF restart, LoopHead, AtFault, services, RoomToRebuild, ServicesOK
    <2> QED
      BY <1>4, Frame, <2>1, <2>2 DEF restart, services
  <1>5. CASE LoopExits
    <2>1. DispatcherOK'
      BY <1>5 DEF LoopExits, DispatcherOK
    <2>2. RoomToRebuild'
      BY <1>5 DEF LoopExits, RoomToRebuild
    <2> QED
      BY <1>5, Frame, <2>1, <2>2 DEF LoopExits, services
  <1>6. ASSUME NEW d \in FreezeFor, freeze(d) PROVE TypeInv'
    <2>1. VitalsOK'
      BY <1>6 DEF freeze, LoopHead, AtFault, Larger, VitalsOK, vitals
    <2>2. DispatcherOK'
      BY <1>6 DEF freeze, LoopHead, AtFault, Larger, DispatcherOK
    <2>3. RoomToRebuild'
      BY <1>6 DEF freeze, LoopHead, AtFault, Larger, RoomToRebuild, ServicesOK, services
    <2> QED
      BY <1>6, Frame, <2>1, <2>2, <2>3 DEF freeze, services
  <1>7. ASSUME NEW f \in Factors, degrade(f) PROVE TypeInv'
    <2>1. VitalsOK'
      BY <1>7 DEF degrade, LoopHead, AtFault, Larger, VitalsOK, vitals
    <2>2. DispatcherOK'
      BY <1>7 DEF degrade, LoopHead, AtFault, Larger, DispatcherOK
    <2>3. RoomToRebuild'
      BY <1>7 DEF degrade, LoopHead, AtFault, Larger, RoomToRebuild, ServicesOK, services
    <2> QED
      BY <1>7, Frame, <2>1, <2>2, <2>3 DEF degrade, services
  <1>8. CASE Revive
    <2>1. VitalsOK'
      BY <1>8 DEF Revive, services, VitalsOK, vitals
    <2>2. DispatcherOK'
      BY <1>8 DEF Revive, services, DispatcherOK
    <2>3. RoomToRebuild'
      BY <1>8 DEF Revive, services, RoomToRebuild, ServicesOK
    <2> QED
      BY <1>8, Frame, <2>1, <2>2, <2>3 DEF Revive, services
  <1>9. CASE ClearGauges
    <2>1. GaugesOK'
      BY <1>9 DEF ClearGauges, services, GaugesOK, gauges
    <2>2. DispatcherOK'
      BY <1>9 DEF ClearGauges, services, DispatcherOK
    <2>3. RoomToRebuild'
      BY <1>9 DEF ClearGauges, services, RoomToRebuild, ServicesOK
    <2> QED
      BY <1>9, Frame, <2>1, <2>2, <2>3 DEF ClearGauges, services
  <1>10. CASE StartChecksStopped
    <2>1. DispatcherOK'
      BY <1>10 DEF StartChecksStopped, services, DispatcherOK
    <2>2. RoomToRebuild'
      BY <1>10 DEF StartChecksStopped, services, RoomToRebuild, ServicesOK
    <2> QED
      BY <1>10, Frame, <2>1, <2>2 DEF StartChecksStopped, services
  <1>11. CASE StartAwaits
    <2>1. DispatcherOK'
      BY <1>11 DEF StartAwaits, services, DispatcherOK
    <2>2. RoomToRebuild'
      BY <1>11 DEF StartAwaits, services, RoomToRebuild, ServicesOK
    <2> QED
      BY <1>11, Frame, <2>1, <2>2 DEF StartAwaits, services
  <1>12. CASE StartGivesUp
    <2>1. DispatcherOK'
      BY <1>12 DEF StartGivesUp, services, DispatcherOK, Mishaps
    <2>2. RoomToRebuild'
      BY <1>12 DEF StartGivesUp, services, RoomToRebuild, ServicesOK
    <2> QED
      BY <1>12, Frame, <2>1, <2>2 DEF StartGivesUp, services
  <1>13. CASE StartReleases
    <2>1. NetOK'
      BY <1>13, ReleaseNameType DEF StartReleases
    <2>2. DispatcherOK'
      BY <1>13 DEF StartReleases, releaseName, services, net, DispatcherOK
    <2>3. RoomToRebuild'
      BY <1>13 DEF StartReleases, releaseName, services, net, RoomToRebuild, ServicesOK
    <2> QED
      BY <1>13, Frame, <2>1, <2>2, <2>3 DEF StartReleases, services
  <1>14. CASE Rebuild
    <2>1. ServicesOK'
      <3>1. life < MaxLives
        BY <1>14 DEF Rebuild, RoomToRebuild
      <3>2. life' \in 1 .. MaxLives
        BY <1>14, <3>1, SomeLife DEF Rebuild, ServicesOK
      <3>3. held' \in Nat /\ store' = {}
        BY <1>14 DEF Rebuild
      <3> QED
        BY <3>2, <3>3 DEF ServicesOK
    <2>2. DispatcherOK'
      BY <1>14 DEF Rebuild, LoopHead, DispatcherOK, Mishaps
    <2>3. RoomToRebuild'
      BY <1>14 DEF Rebuild, LoopHead, RoomToRebuild, ServicesOK, services
    <2> QED
      BY <1>14, Frame, <2>1, <2>2, <2>3 DEF Rebuild, services
  <1>15. CASE Bind
    <2>1. NetOK'
      <3>1. CASE bound = 0
        <4>1. life \in 0 .. MaxLives
          BY SomeLife DEF ServicesOK
        <4>2. server' \in 0 .. MaxLives /\ bound' \in 0 .. MaxLives
          BY <1>15, <3>1, <4>1 DEF Bind
        <4>3. stopping' = FALSE
          BY <1>15, <3>1 DEF Bind
        <4> QED
          BY <4>2, <4>3 DEF NetOK
      <3>2. CASE bound # 0
        BY <1>15, <3>2, Frame DEF Bind
      <3> QED
        BY <3>1, <3>2
    <2>2. DispatcherOK'
      BY <1>15 DEF Bind, LoopHead, services, net, ServicesOK, DispatcherOK
    <2>3. RoomToRebuild'
      BY <1>15 DEF Bind, LoopHead, services, net, ServicesOK, RoomToRebuild
    <2> QED
      BY <1>15, Frame, <2>1, <2>2, <2>3 DEF Bind, services
  <1>16. CASE RestartDone
    <2>1. DispatcherOK'
      BY <1>16 DEF RestartDone, LoopHead, DispatcherOK
    <2>2. RoomToRebuild'
      BY <1>16 DEF RestartDone, LoopHead, RoomToRebuild, ServicesOK, services
    <2> QED
      BY <1>16, Frame, <2>1, <2>2 DEF RestartDone, services
  <1>17. CASE Unregister
    <2>1. NetOK'
      <3>1. bound' \in 0 .. MaxLives
        BY <1>17, SomeLife DEF Unregister
      <3>2. server' \in 0 .. MaxLives
        BY <1>17 DEF Unregister, NetOK
      <3>3. stopping' = FALSE
        BY <1>17 DEF Unregister
      <3> QED
        BY <3>1, <3>2, <3>3 DEF NetOK
    <2> QED
      BY <1>17, Frame, <2>1 DEF Unregister, services
  <1>18. CASE SamplerWalks
    <2>1. WalkersOK'
      BY <1>18, WalkType DEF SamplerWalks, Walkers
    <2> QED
      BY <1>18, Frame, <2>1 DEF SamplerWalks, services
  <1>19. ASSUME NEW w \in Walkers, OverCapChecks(w) PROVE TypeInv'
    <2>1. GaugesOK'
      <3>1. measured[w].bytes \in Nat
        BY DEF WalkersOK
      <3> QED
        BY <1>19, <3>1 DEF OverCapChecks, GaugesOK, gauges
    <2>2. WalkersOK'
      <3>1. CASE Forget(w)
        BY <3>1, ForgetType
      <3>2. CASE wpc' = [wpc EXCEPT ![w] = "report"] /\ UNCHANGED measured
        BY <3>2 DEF WalkersOK
      <3> QED
        BY <1>19, <3>1, <3>2 DEF OverCapChecks
    <2> QED
      BY <1>19, Frame, <2>1, <2>2 DEF OverCapChecks, services
  <1>20. ASSUME NEW w \in Walkers, OverCapReports(w) PROVE TypeInv'
    <2>1. GaugesOK'
      BY <1>20 DEF OverCapReports, GaugesOK, gauges
    <2>2. WalkersOK'
      BY <1>20 DEF OverCapReports, WalkersOK, walkers
    <2> QED
      BY <1>20, Frame, <2>1, <2>2 DEF OverCapReports, services
  <1>21. ASSUME NEW w \in Walkers, OverCapKills(w) PROVE TypeInv'
    <2>1. VitalsOK'
      BY <1>21 DEF OverCapKills, Forget, Nothing, VitalsOK, vitals
    <2>2. WalkersOK'
      BY <1>21, ForgetType DEF OverCapKills
    <2> QED
      BY <1>21, Frame, <2>1, <2>2 DEF OverCapKills, services
  <1>22. ASSUME NEW s \in Slots, HandlerStarts(s) PROVE TypeInv'
    <2>1. HandlersOK'
      BY <1>22 DEF HandlerStarts, Listening, NetOK, HandlersOK, handlers
    <2>2. HandlersHaveALife'
      BY <1>22 DEF HandlerStarts, Listening, NetOK, HandlersHaveALife, HandlersOK
    <2> QED
      BY <1>22, Frame, <2>1, <2>2 DEF HandlerStarts, services
  <1>23. ASSUME NEW s \in Slots, HandlerHolds(s) PROVE TypeInv'
    <2>1. ServicesOK'
      BY <1>23 DEF HandlerHolds, ServicesOK
    <2> QED
      BY <1>23, Frame, <2>1 DEF HandlerHolds, services
  <1>24. ASSUME NEW s \in Slots, HandlerStores(s) PROVE TypeInv'
    <2>1. ServicesOK'
      <3>1. hlife[s] \in 0 .. MaxLives /\ hlife[s] # 0
        BY <1>24 DEF HandlerStores, HandlersOK, HandlersHaveALife
      <3>2. hlife[s] \in 1 .. MaxLives
        BY <3>1, SomeLife
      <3>3. store' \subseteq 1 .. MaxLives
        BY <1>24, <3>2 DEF HandlerStores, ServicesOK
      <3>4. UNCHANGED <<life, held>>
        BY <1>24 DEF HandlerStores
      <3> QED
        BY <3>3, <3>4 DEF ServicesOK
    <2> QED
      BY <1>24, Frame, <2>1 DEF HandlerStores, services
  <1>25. ASSUME NEW s \in Slots, WroteDisk(s) PROVE TypeInv'
    <2>1. GaugesOK'
      BY <1>25 DEF WroteDisk, GaugesOK, gauges
    <2>2. HandlersOK'
      BY <1>25 DEF WroteDisk, HandlersOK, handlers
    <2>3. HandlersHaveALife'
      BY <1>25 DEF WroteDisk, HandlersHaveALife, HandlersOK
    <2> QED
      BY <1>25, Frame, <2>1, <2>2, <2>3 DEF WroteDisk, services
  <1>26. ASSUME NEW s \in Slots, DiskFull(s) PROVE TypeInv'
    <2>1. GaugesOK'
      BY <1>26 DEF DiskFull, Leave, GaugesOK, gauges
    <2>2. HandlersOK'
      BY <1>26, LeaveType DEF DiskFull
    <2>3. HandlersHaveALife'
      BY <1>26 DEF DiskFull, Leave, HandlersHaveALife, HandlersOK
    <2> QED
      BY <1>26, Frame, <2>1, <2>2, <2>3 DEF DiskFull, services
  <1>27. ASSUME NEW s \in Slots, HandlerEnds(s) PROVE TypeInv'
    <2>1. HandlersOK'
      BY <1>27, LeaveType DEF HandlerEnds
    <2>2. HandlersHaveALife'
      BY <1>27 DEF HandlerEnds, Leave, HandlersHaveALife, HandlersOK
    <2> QED
      BY <1>27, Frame, <2>1, <2>2 DEF HandlerEnds, services
  <1>28. CASE CloseDispatcher
    <2>1. EndingOK'
      BY <1>28 DEF CloseDispatcher, EndingOK, ending
    <2> QED
      BY <1>28, Frame, <2>1 DEF CloseDispatcher, services
  <1>29. CASE StopSampling
    <2>1. EndingOK'
      BY <1>29 DEF StopSampling, EndingOK, ending
    <2> QED
      BY <1>29, Frame, <2>1 DEF StopSampling, services
  <1>30. CASE TakeTotals
    <2>1. EndingOK'
      BY <1>30 DEF TakeTotals, EndingOK, ending
    <2> QED
      BY <1>30, Frame, <2>1 DEF TakeTotals, services
  <1>31. CASE SetStopped
    <2>1. EndingOK'
      BY <1>31 DEF SetStopped, EndingOK, ending
    <2> QED
      BY <1>31, Frame, <2>1 DEF SetStopped, services
  <1>32. CASE ShutdownAwaits
    <2>1. EndingOK'
      BY <1>32 DEF ShutdownAwaits, EndingOK, ending
    <2> QED
      BY <1>32, Frame, <2>1 DEF ShutdownAwaits, services
  <1>33. CASE FinalMeasure
    <2>1. EndingOK'
      BY <1>33 DEF FinalMeasure, Walk, Walkers, walkers, ServicesOK, EndingOK, ending
    <2>2. WalkersOK'
      <3>1. CASE Walk("main")
        BY <3>1, WalkType DEF Walkers
      <3>2. CASE UNCHANGED walkers
        BY <3>2, Frame
      <3> QED
        BY <1>33, <3>1, <3>2 DEF FinalMeasure
    <2> QED
      BY <1>33, Frame, <2>1, <2>2 DEF FinalMeasure, services
  <1>34. CASE ShutdownNow
    <2>1. EndingOK'
      BY <1>34 DEF ShutdownNow, EndingOK, ending
    <2>2. NetOK'
      BY <1>34 DEF ShutdownNow, NetOK, ServicesOK
    <2> QED
      BY <1>34, Frame, <2>1, <2>2 DEF ShutdownNow, services
  <1>35. CASE ShutdownReleases
    <2>1. EndingOK'
      BY <1>35 DEF ShutdownReleases, releaseName, EndingOK, ending
    <2>2. NetOK'
      BY <1>35, ReleaseNameType DEF ShutdownReleases
    <2> QED
      BY <1>35, Frame, <2>1, <2>2 DEF ShutdownReleases, services
  <1>36. CASE UNCHANGED vars
    BY <1>36, Frame DEF vars, services
  <1> QED
    BY <1>1, <1>2, <1>3, <1>4, <1>5, <1>6, <1>7, <1>8, <1>9, <1>10, <1>11, <1>12,
       <1>13, <1>14, <1>15, <1>16, <1>17, <1>18, <1>19, <1>20, <1>21, <1>22, <1>23,
       <1>24, <1>25, <1>26, <1>27, <1>28, <1>29, <1>30, <1>31, <1>32, <1>33, <1>34,
       <1>35, <1>36
       DEF Next, Faults, RestartStep, WalkerStep, HandlerStep, MainStep

\* Every variable of a machine keeps to its type, whatever order the dispatcher, the
\* walkers, the handlers and the teardown run in.
THEOREM TypeCorrect == Spec => []TypeOK
  <1>1. Init => TypeInv
    BY TypeInvInit
  <1>2. TypeInv /\ [Next]_vars => TypeInv'
    BY TypeInvNext
  <1>3. TypeInv => TypeOK
    BY DEF TypeInv
  <1> QED
    BY <1>1, <1>2, <1>3, PTL DEF Spec

-----------------------------------------------------------------------------
(* Out of memory.  LiveCanBeReported is inductive once the walkers are     *)
(* well typed: the flag goes up in the step that takes the walker to its   *)
(* kill, the kill leaves the machine dead, and the one step that revives   *)
(* it goes to the step that takes the flag down.                           *)

LEMMA ReportedNext ==
    ASSUME WalkersOK, LiveCanBeReported, [Next]_vars PROVE LiveCanBeReported'
  <1> USE DEF LiveCanBeReported
  <1>1. CASE \E w \in Walkers : OverCapReports(w)
    BY <1>1 DEF OverCapReports, WalkersOK
  <1>2. ASSUME NEW w \in Walkers, OverCapChecks(w) PROVE LiveCanBeReported'
    <2>1. UNCHANGED <<alive, oomReported, dpc>>
      BY <1>2 DEF OverCapChecks, vitals
    <2>2. wpc[w] = "walked" /\ \A v \in Walkers : v # w => wpc'[v] = wpc[v]
      BY <1>2 DEF OverCapChecks, Forget, WalkersOK
    <2> QED
      BY <2>1, <2>2
  <1>3. CASE \E w \in Walkers : OverCapKills(w)
    BY <1>3 DEF OverCapKills
  <1>4. CASE SamplerWalks \/ FinalMeasure
    <2>1. UNCHANGED <<alive, oomReported, dpc>>
      BY <1>4 DEF SamplerWalks, FinalMeasure, vitals, gauges
    <2>2. \A v \in Walkers : wpc[v] = "kill" => wpc'[v] = "kill"
      BY <1>4 DEF SamplerWalks, FinalMeasure, Walk, walkers, WalkersOK, Walkers
    <2> QED
      BY <2>1, <2>2
  <1>5. CASE Revive \/ ClearGauges
    BY <1>5 DEF Revive, ClearGauges
  <1>6. CASE Faults
    <2>1. UNCHANGED <<oomReported, wpc>> /\ (alive' => alive) /\ dpc # "clear"
      BY <1>6 DEF Faults, LoopExits, kill, thaw, restart, freeze, degrade, AtFault, vitals, gauges, walkers
    <2> QED
      BY <2>1
  <1>7. CASE \/ StartChecksStopped \/ StartReleases \/ StartAwaits
             \/ StartGivesUp \/ Rebuild \/ Bind \/ RestartDone
    <2>1. UNCHANGED <<alive, oomReported, wpc>> /\ dpc # "clear"
      BY <1>7 DEF StartChecksStopped, StartReleases, StartAwaits, StartGivesUp, Rebuild, Bind,
         RestartDone, vitals, gauges, walkers
    <2> QED
      BY <2>1
  <1>8. CASE Tick \/ Unregister \/ HandlerStep \/ UNCHANGED vars
    <2>1. UNCHANGED <<alive, oomReported, wpc, dpc>>
      BY <1>8 DEF Tick, Unregister, HandlerStep, HandlerStarts, HandlerHolds, HandlerStores,
         WroteDisk, DiskFull, HandlerEnds, vars, vitals, gauges, walkers
    <2> QED
      BY <2>1
  <1>9. CASE \/ CloseDispatcher \/ StopSampling \/ TakeTotals \/ SetStopped
             \/ ShutdownNow \/ ShutdownReleases \/ ShutdownAwaits
    <2>1. UNCHANGED <<alive, oomReported, wpc, dpc>>
      BY <1>9 DEF CloseDispatcher, StopSampling, TakeTotals, SetStopped, ShutdownNow,
         ShutdownReleases, ShutdownAwaits, vitals, gauges, walkers
    <2> QED
      BY <2>1
  <1> QED
    BY <1>1, <1>2, <1>3, <1>4, <1>5, <1>6, <1>7, <1>8, <1>9
       DEF Next, RestartStep, WalkerStep, MainStep

\* However the dispatcher and the two walkers interleave, a machine that is up can
\* still be found out of memory and reported (Machine.restart, Machine.overCap).
THEOREM LiveReported == Spec => []LiveCanBeReported
  <1>1. Init => TypeInv /\ LiveCanBeReported
    BY TypeInvInit DEF Init, LiveCanBeReported
  <1>2. TypeInv /\ LiveCanBeReported /\ [Next]_vars => TypeInv' /\ LiveCanBeReported'
    BY TypeInvNext, ReportedNext DEF TypeInv, TypeOK
  <1> QED
    BY <1>1, <1>2, PTL DEF Spec

-----------------------------------------------------------------------------
(* The name.  NameInv says more than ListeningIsCurrent: between the step  *)
(* that gives the name back and the one that takes it again, nobody        *)
(* listens, so the services may be replaced there and nowhere else.        *)

NameInv ==
    /\ ListeningIsCurrent
    /\ dpc \in {"await", "rebuild", "bind"} => ~Listening

\* Telling the server of the field to stop silences whoever listened.
LEMMA ReleaseSilences ==
    ASSUME ServicesOK, ListeningIsCurrent, releaseName PROVE ~Listening'
  <1>1. life # 0
    BY SomeLife DEF ServicesOK
  <1>2. CASE Listening
    BY <1>1, <1>2 DEF releaseName, ListeningIsCurrent, Listening
  <1>3. CASE ~Listening
    BY <1>3 DEF releaseName, Listening
  <1> QED
    BY <1>2, <1>3

LEMMA NameInvNext == ASSUME ServicesOK, NameInv, [Next]_vars PROVE NameInv'
  <1> USE DEF NameInv
  <1>1. CASE StartReleases \/ ShutdownReleases
    BY <1>1, ReleaseSilences DEF StartReleases, ShutdownReleases, ListeningIsCurrent
  <1>2. CASE Rebuild
    <2>1. ~Listening'
      BY <1>2 DEF Rebuild, Listening, net
    <2> QED
      BY <2>1 DEF ListeningIsCurrent
  <1>3. CASE Bind
    BY <1>3 DEF Bind, LoopHead, Listening, ListeningIsCurrent, net, services
  <1>4. CASE Unregister
    BY <1>4 DEF Unregister, Listening, ListeningIsCurrent
  <1>5. CASE ShutdownNow
    BY <1>5 DEF ShutdownNow, Listening, ListeningIsCurrent, services
  <1>6. CASE \/ Faults \/ Revive \/ ClearGauges \/ StartChecksStopped
             \/ StartAwaits \/ StartGivesUp \/ RestartDone
    <2>1. UNCHANGED <<life, server, bound, stopping>>
      BY <1>6 DEF Faults, LoopExits, kill, thaw, restart, freeze, degrade, Revive, ClearGauges,
         StartChecksStopped, StartAwaits, StartGivesUp, RestartDone, services, net
    <2>2. dpc' \in {"await", "rebuild", "bind"} => dpc \in {"await", "rebuild", "bind"}
      BY <1>6 DEF Faults, LoopExits, kill, thaw, restart, freeze, degrade, Revive, ClearGauges,
         StartChecksStopped, StartAwaits, StartGivesUp, RestartDone, LoopHead
    <2> QED
      BY <2>1, <2>2 DEF Listening, ListeningIsCurrent
  <1>7. CASE Tick \/ WalkerStep \/ HandlerStep \/ UNCHANGED vars
    <2>1. UNCHANGED <<life, server, bound, stopping, dpc>>
      BY <1>7 DEF Tick, WalkerStep, SamplerWalks, OverCapChecks, OverCapReports, OverCapKills,
         HandlerStep, HandlerStarts, HandlerHolds, HandlerStores, WroteDisk, DiskFull,
         HandlerEnds, vars, services, net
    <2> QED
      BY <2>1 DEF Listening, ListeningIsCurrent
  <1>8. CASE \/ CloseDispatcher \/ StopSampling \/ FinalMeasure \/ TakeTotals
             \/ SetStopped \/ ShutdownAwaits
    <2>1. UNCHANGED <<life, server, bound, stopping, dpc>>
      BY <1>8 DEF CloseDispatcher, StopSampling, FinalMeasure, TakeTotals, SetStopped,
         ShutdownAwaits, services, net
    <2> QED
      BY <2>1 DEF Listening, ListeningIsCurrent
  <1> QED
    BY <1>1, <1>2, <1>3, <1>4, <1>5, <1>6, <1>7, <1>8 DEF Next, RestartStep, MainStep

LEMMA NameInvInit == ASSUME Init PROVE NameInv
  BY DEF Init, NameInv, ListeningIsCurrent, Listening

\* Whoever answers under a machine's name serves the life whose heap is walked
\* (Machine.start, Machine.releaseName, Machine.shutdown).
THEOREM CurrentListens == Spec => []ListeningIsCurrent
  <1>1. Init => TypeInv /\ NameInv
    BY TypeInvInit, NameInvInit
  <1>2. TypeInv /\ NameInv /\ [Next]_vars => TypeInv' /\ NameInv'
    BY TypeInvNext, NameInvNext DEF TypeInv, TypeOK
  <1>3. NameInv => ListeningIsCurrent
    BY DEF NameInv
  <1> QED
    BY <1>1, <1>2, <1>3, PTL DEF Spec

-----------------------------------------------------------------------------
(* Answering.  A start() that waited for the name finds it free when it    *)
(* binds; ServesInv says so for every step on the way there, of a machine  *)
(* that met no mishap since a server of its was last bound.                *)

ServesInv ==
    /\ mpc \in {"stopped", "release", "await", "end"} => stopped
    /\ ~stopped /\ dpc \in {"idle", "exit", "revive", "clear", "start", "release", "done"}
         => Listening \/ mishaps # {}
    /\ ~stopped /\ dpc \in {"rebuild", "bind"} => bound = 0 \/ mishaps # {}

LEMMA ServesInvInit == ASSUME Init PROVE ServesInv
  BY DEF Init, ServesInv, Listening

LEMMA ServesInvNext ==
    ASSUME ServicesOK, DispatcherOK, NameInv, ServesInv, [Next]_vars PROVE ServesInv'
  <1> USE DEF ServesInv
  <1>1. CASE StartReleases
    <2>1. CASE server = 0
      <3>1. ~Listening
        BY <2>1, SomeLife DEF NameInv, ListeningIsCurrent, ServicesOK
      <3> QED
        BY <1>1, <2>1, <3>1 DEF StartReleases, ending
    <2>2. CASE server # 0
      BY <1>1, <2>2 DEF StartReleases, ending
    <2> QED
      BY <2>1, <2>2
  <1>2. CASE StartAwaits
    <2>1. bound = 0
      BY <1>2 DEF StartAwaits, NameInv, Listening
    <2> QED
      BY <1>2, <2>1 DEF StartAwaits, net, ending
  <1>3. CASE StartGivesUp
    BY <1>3 DEF StartGivesUp, ending
  <1>4. CASE Rebuild
    BY <1>4 DEF Rebuild, LoopHead, Listening, net, ending
  <1>5. CASE Bind
    <2>1. life # 0
      BY SomeLife DEF ServicesOK
    <2>2. CASE bound = 0
      BY <1>5, <2>1, <2>2 DEF Bind, Listening, ending
    <2>3. CASE bound # 0
      BY <1>5, <2>3 DEF Bind, LoopHead, Listening, net, ending
    <2> QED
      BY <2>2, <2>3
  <1>6. CASE StartChecksStopped
    BY <1>6 DEF StartChecksStopped, Listening, net, ending
  <1>7. CASE Faults \/ Revive \/ ClearGauges \/ RestartDone
    <2>1. UNCHANGED <<bound, stopping, mishaps, stopped, mpc>>
      BY <1>7 DEF Faults, LoopExits, kill, thaw, restart, freeze, degrade, Revive, ClearGauges,
         RestartDone, net, ending
    <2>2. /\ dpc \in {"idle", "revive", "clear", "done"}
          /\ dpc' \in {"idle", "exit", "revive", "clear", "start", "done"}
      BY <1>7 DEF Faults, LoopExits, kill, thaw, restart, freeze, degrade, Revive, ClearGauges,
         RestartDone, AtFault, LoopHead
    <2> QED
      BY <2>1, <2>2 DEF Listening
  <1>8. CASE Tick \/ WalkerStep \/ HandlerStep \/ UNCHANGED vars
    <2>1. UNCHANGED <<bound, stopping, mishaps, stopped, mpc, dpc>>
      BY <1>8 DEF Tick, WalkerStep, SamplerWalks, OverCapChecks, OverCapReports, OverCapKills,
         HandlerStep, HandlerStarts, HandlerHolds, HandlerStores, WroteDisk, DiskFull,
         HandlerEnds, vars, net, ending
    <2> QED
      BY <2>1 DEF Listening
  <1>9. CASE Unregister
    BY <1>9 DEF Unregister, Listening, ending
  <1>10. CASE CloseDispatcher \/ StopSampling \/ FinalMeasure \/ TakeTotals
    <2>1. /\ UNCHANGED <<bound, stopping, mishaps, stopped, dpc>>
          /\ mpc' \notin {"stopped", "release", "await", "end"}
      BY <1>10 DEF CloseDispatcher, StopSampling, FinalMeasure, TakeTotals, net
    <2> QED
      BY <2>1 DEF Listening
  <1>11. CASE SetStopped
    BY <1>11 DEF SetStopped
  <1>12. CASE ShutdownNow \/ ShutdownReleases \/ ShutdownAwaits
    <2>1. stopped /\ stopped'
      BY <1>12 DEF ShutdownNow, ShutdownReleases, ShutdownAwaits
    <2> QED
      BY <2>1
  <1> QED
    BY <1>1, <1>2, <1>3, <1>4, <1>5, <1>6, <1>7, <1>8, <1>9, <1>10, <1>11, <1>12
       DEF Next, RestartStep, MainStep

\* A machine that is up and not being restarted answers, as long as no restart since it
\* last did had to stop waiting for its name or failed to build a service (Machine.start,
\* its two-second wait and its factories).
THEOREM UpAnswers == Spec => []AliveServes
  <1>1. Init => TypeInv /\ NameInv /\ ServesInv
    BY TypeInvInit, NameInvInit, ServesInvInit
  <1>2. TypeInv /\ NameInv /\ ServesInv /\ [Next]_vars => TypeInv' /\ NameInv' /\ ServesInv'
    BY TypeInvNext, NameInvNext, ServesInvNext DEF TypeInv, TypeOK
  <1>3. ServesInv => AliveServes
    BY DEF ServesInv, AliveServes
  <1> QED
    BY <1>1, <1>2, <1>3, PTL DEF Spec

-----------------------------------------------------------------------------
(* The refinement.  Of what Machine does, callers notice that the machine  *)
(* is given up or revived (Vital steps), and the steps that give the name  *)
(* back, replace the services and take the name; NameInv says that a       *)
(* server is retired before its services are replaced.                     *)

callers == IF Listening /\ alive THEN bound ELSE 0

standing == CASE Listening -> "serving"
              [] ~Listening /\ dpc = "bind" -> "built"
              [] ~Listening /\ dpc # "bind" -> "retired"

lives == <<callers, life, standing, hlife>>

LEMMA StandingIs ==
    /\ standing = "serving" <=> Listening
    /\ standing = "built" <=> ~Listening /\ dpc = "bind"
    /\ standing = "retired" <=> ~Listening /\ dpc # "bind"
  BY DEF standing

LEMMA LivesInit == ASSUME Init PROVE Lives!Init
  BY DEF Init, Lives!Init, Listening

\* What the steps of Incarnations are, in the variables of Machine.
LEMMA LivesSteps ==
    /\ callers # 0 /\ callers' = 0 /\ UNCHANGED <<life, standing, hlife>> => Lives!Next
    /\ callers = 0 /\ standing = "serving" /\ callers' = life
         /\ UNCHANGED <<life, standing, hlife>> => Lives!Next
    /\ standing = "serving" /\ callers' = 0 /\ standing' = "retired"
         /\ UNCHANGED <<life, hlife>> => Lives!Next
    /\ standing = "retired" /\ life' = life + 1 /\ standing' \in {"built", "retired"}
         /\ UNCHANGED <<callers, hlife>> => Lives!Next
    /\ standing = "built" /\ standing' = "serving" /\ callers' \in {0, life}
         /\ UNCHANGED <<life, hlife>> => Lives!Next
    /\ standing = "built" /\ standing' = "retired"
         /\ UNCHANGED <<callers, life, hlife>> => Lives!Next
  BY DEF Lives!Next, Lives!Mute, Lives!Speak, Lives!Retire, Lives!Build, Lives!Rise,
     Lives!Scrap, callers, standing

\* Steps that leave the name and the services alone: at most alive has changed.
LEMMA LivesVital ==
    ASSUME ServicesOK, ListeningIsCurrent, UNCHANGED <<bound, stopping, life, hlife>>,
           dpc = "bind" <=> dpc' = "bind"
    PROVE  [Lives!Next]_lives
  <1>1. Listening' = Listening /\ standing' = standing
    BY StandingIs DEF Listening, standing
  <1>2. CASE callers' = callers
    BY <1>1, <1>2 DEF lives
  <1>3. CASE callers' # callers /\ alive'
    <2>1. callers = 0 /\ Listening /\ callers' = life
      BY <1>1, <1>3 DEF callers, ListeningIsCurrent
    <2> QED
      BY <1>1, <2>1, StandingIs, LivesSteps
  <1>4. CASE callers' # callers /\ ~alive'
    <2>1. callers # 0 /\ callers' = 0
      BY <1>1, <1>4 DEF callers
    <2> QED
      BY <1>1, <2>1, LivesSteps
  <1> QED
    BY <1>2, <1>3, <1>4

\* Steps after which the server that may have listened does not.
LEMMA LivesRetire ==
    ASSUME UNCHANGED <<life, hlife>>, ~Listening', dpc' # "bind", dpc # "bind"
    PROVE  [Lives!Next]_lives
  <1>1. callers' = 0 /\ standing' = "retired"
    BY DEF callers, standing
  <1>2. CASE Listening
    BY <1>1, <1>2, StandingIs, LivesSteps
  <1>3. CASE ~Listening
    BY <1>1, <1>3, StandingIs DEF callers, lives
  <1> QED
    BY <1>2, <1>3

LEMMA LivesNext ==
    ASSUME TypeInv, NameInv, [Next]_vars PROVE [Lives!Next]_lives
  <1> USE DEF TypeInv, TypeOK
  <1>0. ListeningIsCurrent
    BY DEF NameInv
  <1>1. CASE StartReleases
    <2>1. ~Listening'
      BY <1>1, ReleaseSilences DEF NameInv, StartReleases
    <2>2. UNCHANGED <<life, hlife>> /\ dpc # "bind" /\ dpc' # "bind"
      BY <1>1 DEF StartReleases, services, handlers
    <2> QED
      BY <2>1, <2>2, LivesRetire
  <1>2. CASE ShutdownReleases \/ ShutdownNow
    <2>1. UNCHANGED <<life, hlife, dpc>> /\ bound' = bound
      BY <1>2 DEF ShutdownReleases, releaseName, ShutdownNow, services, handlers
    <2>2. CASE dpc = "bind"
      <3>1. ~Listening /\ ~Listening'
        BY <1>2, <2>1, <2>2
           DEF NameInv, Listening, ShutdownReleases, releaseName, ShutdownNow
      <3> QED
        BY <2>1, <3>1 DEF lives, callers, standing
    <2>3. CASE dpc # "bind"
      <3>1. CASE Listening' = Listening
        <4>1. UNCHANGED alive
          BY <1>2 DEF ShutdownReleases, ShutdownNow, vitals
        <4> QED
          BY <2>1, <3>1, <4>1 DEF lives, callers, standing
      <3>2. CASE ~Listening'
        BY <2>1, <2>3, <3>2, LivesRetire
      <3>3. Listening' => Listening
        BY <1>2 DEF ShutdownReleases, releaseName, ShutdownNow, Listening
      <3> QED
        BY <3>1, <3>2, <3>3 DEF Listening
    <2> QED
      BY <2>2, <2>3
  <1>3. CASE Unregister
    <2>1. ~Listening /\ ~Listening'
      BY <1>3 DEF Unregister, Listening
    <2> QED
      BY <1>3, <2>1 DEF Unregister, lives, callers, standing, services, handlers
  <1>4. CASE Rebuild
    <2>1. ~Listening /\ ~Listening'
      BY <1>4 DEF Rebuild, NameInv, Listening, net
    <2>2. standing = "retired" /\ standing' \in {"built", "retired"}
      BY <1>4, <2>1 DEF Rebuild, LoopHead, standing
    <2>3. life' = life + 1 /\ UNCHANGED <<callers, hlife>>
      BY <1>4, <2>1 DEF Rebuild, callers, handlers
    <2> QED
      BY <2>2, <2>3, LivesSteps
  <1>5. CASE Bind
    <2>1. ~Listening /\ life # 0 /\ UNCHANGED <<life, hlife>> /\ dpc = "bind" /\ dpc' # "bind"
      BY <1>5, SomeLife DEF Bind, LoopHead, NameInv, ServicesOK, services, handlers
    <2>2. standing = "built" /\ callers = 0
      BY <2>1 DEF standing, callers
    <2>3. CASE bound = 0
      <3>1. Listening' /\ bound' = life
        BY <1>5, <2>1, <2>3 DEF Bind, Listening
      <3>2. standing' = "serving" /\ callers' \in {0, life}
        BY <3>1 DEF standing, callers
      <3> QED
        BY <2>1, <2>2, <3>2, LivesSteps
    <2>4. CASE bound # 0
      <3>1. ~Listening'
        BY <1>5, <2>1, <2>4 DEF Bind, Listening, net
      <3>2. standing' = "retired" /\ callers' = 0
        BY <2>1, <3>1 DEF standing, callers
      <3> QED
        BY <2>1, <2>2, <3>2, LivesSteps
    <2> QED
      BY <2>3, <2>4
  <1>6. ASSUME NEW s \in Slots, HandlerStarts(s) PROVE [Lives!Next]_lives
    <2>1. UNCHANGED <<bound, stopping, life, dpc, alive>> /\ Listening
      BY <1>6 DEF HandlerStarts, services, net, vitals
    <2>2. hlife[s] = 0 /\ hlife' = [hlife EXCEPT ![s] = life]
      BY <1>0, <1>6 DEF HandlerStarts, HandlersHaveALife, ListeningIsCurrent
    <2>3. Lives!Call(s)
      BY <2>1, <2>2 DEF Lives!Call, Listening
    <2> QED
      BY <2>3 DEF Lives!Next
  <1>7. ASSUME NEW s \in Slots, DiskFull(s) \/ HandlerEnds(s) PROVE [Lives!Next]_lives
    <2>1. UNCHANGED <<bound, stopping, life, dpc, alive>>
      BY <1>7 DEF DiskFull, HandlerEnds, services, net, vitals
    <2>2. hlife[s] # 0 /\ hlife' = [hlife EXCEPT ![s] = 0]
      BY <1>7 DEF DiskFull, HandlerEnds, Leave, HandlersHaveALife
    <2>3. Lives!Answered(s)
      BY <2>1, <2>2 DEF Lives!Answered, Listening
    <2> QED
      BY <2>3 DEF Lives!Next
  <1>8. ASSUME NEW s \in Slots, HandlerHolds(s) \/ HandlerStores(s) \/ WroteDisk(s)
        PROVE  [Lives!Next]_lives
    <2>1. UNCHANGED <<bound, stopping, life, dpc, hlife>>
      BY <1>8 DEF HandlerHolds, HandlerStores, WroteDisk, services, net, handlers
    <2> QED
      BY <1>0, <2>1, LivesVital
  <1>9. CASE \/ Faults \/ Revive \/ ClearGauges \/ StartChecksStopped
             \/ StartAwaits \/ StartGivesUp \/ RestartDone
    <2>1. UNCHANGED <<bound, stopping, life, hlife>>
      BY <1>9 DEF Faults, LoopExits, kill, thaw, restart, freeze, degrade, Revive, ClearGauges,
         StartChecksStopped, StartAwaits, StartGivesUp, RestartDone, services, net, handlers
    <2>2. dpc # "bind" /\ dpc' # "bind"
      BY <1>9 DEF Faults, LoopExits, kill, thaw, restart, freeze, degrade, Revive, ClearGauges,
         StartChecksStopped, StartAwaits, StartGivesUp, RestartDone, LoopHead, AtFault
    <2> QED
      BY <1>0, <2>1, <2>2, LivesVital
  <1>10. CASE Tick \/ WalkerStep \/ UNCHANGED vars
    <2>1. UNCHANGED <<bound, stopping, life, dpc, hlife>>
      BY <1>10 DEF Tick, WalkerStep, SamplerWalks, OverCapChecks, OverCapReports,
         OverCapKills, vars, services, net, handlers
    <2> QED
      BY <1>0, <2>1, LivesVital
  <1>11. CASE \/ CloseDispatcher \/ StopSampling \/ FinalMeasure \/ TakeTotals
              \/ SetStopped \/ ShutdownAwaits
    <2>1. UNCHANGED <<bound, stopping, life, dpc, hlife>>
      BY <1>11 DEF CloseDispatcher, StopSampling, FinalMeasure, TakeTotals, SetStopped,
         ShutdownAwaits, services, net, handlers
    <2> QED
      BY <1>0, <2>1, LivesVital
  <1> QED
    BY <1>1, <1>2, <1>3, <1>4, <1>5, <1>6, <1>7, <1>8, <1>9, <1>10, <1>11
       DEF Next, RestartStep, MainStep, HandlerStep

\* Callers of a machine see one incarnation at a time, each newer than the last, and
\* none that comes back once its server was told to stop, though one that was killed is
\* heard again if it is revived before that (Machine.kill, restart, start, releaseName,
\* shutdown; ClientSide, which alone looks at alive).
THEOREM MachineImplementsIncarnations == Spec => ImplementsIncarnations
  <1>1. Init => TypeInv /\ NameInv /\ Lives!Init
    BY TypeInvInit, NameInvInit, LivesInit
  <1>2. TypeInv /\ NameInv /\ [Next]_vars => TypeInv' /\ NameInv' /\ [Lives!Next]_lives
    BY TypeInvNext, NameInvNext, LivesNext DEF TypeInv, TypeOK
  <1> QED
    BY <1>1, <1>2, PTL DEF Spec, ImplementsIncarnations, Lives!Spec, lives, callers, standing

-----------------------------------------------------------------------------
(* What is scheduled.  Beside the order of the queue, the invariant says   *)
(* what an entry is, and that the one entry polled is the one that lastAt  *)
(* remembers.                                                              *)

Dos == {"fail", "draw", "thaw", "kill", "restart"}

EntryType == [at : Nat, do : Dos, of : DOMAIN Failures]

EntriesOK == \A e \in Pending : e.at \in Nat /\ e.do \in Dos /\ e.of \in DOMAIN Failures

PolledOK ==
    /\ lastAt \in Nat
    /\ \A e \in next : e.at = lastAt
    /\ \A d, e \in next : d = e

QueueInv == EntriesOK /\ PolledOK /\ InOrder

\* What may be scheduled while the entry of instant lastAt is fired.
Later == {t \in EntryType : t.at >= lastAt}

LEMMA FailureFacts ==
    ASSUME NEW i \in DOMAIN Failures
    PROVE  /\ Failures[i].at \in Nat /\ Failures[i].for \in Nat
           /\ Failures[i].notice \in Nat /\ Failures[i].after \in Nat
           /\ Failures[i].kind = "freeze" => Failures[i].for \in FreezeFor
           /\ Failures[i].kind = "degrade" => Failures[i].factor \in Factors
  <1>1. Failures[i] \in AFailure
    BY WeatherAssumption
  <1> QED
    BY <1>1, WeatherAssumption DEF AFailure

\* Every entry of the queue was there, or is one of those just scheduled.
LEMMA ScheduleAdds ==
    ASSUME NEW T, NEW es \in Seq(T), Schedule(es)
    PROVE  \A x \in queue' :
              x \in queue \/ \E t \in T : x.at = t.at /\ x.do = t.do /\ x.of = t.of
  <1> TAKE x \in queue'
  <1> SUFFICES ASSUME x \notin queue
               PROVE  \E t \in T : x.at = t.at /\ x.do = t.do /\ x.of = t.of
    OBVIOUS
  <1>1. PICK i \in DOMAIN es : x = Numbered(es[i], seq + i)
    BY DEF Schedule
  <1>2. es[i] \in T
    OBVIOUS
  <1> WITNESS es[i] \in T
  <1> QED
    BY <1>1 DEF Numbered

\* Nothing is taken out of the queue by scheduling, and the last of the new entries
\* is in it.
LEMMA ScheduleKeeps == ASSUME NEW es, Schedule(es) PROVE queue \subseteq queue'
  BY DEF Schedule

LEMMA ScheduleLast ==
    ASSUME NEW T, NEW es \in Seq(T), NEW t \in T, Schedule(es \o <<t>>)
    PROVE  \E x \in queue' : x.at = t.at /\ x.do = t.do
  <1> DEFINE all == es \o <<t>>
             i == Len(es) + 1
             x == Numbered(all[i], seq + i)
  <1>1. i \in DOMAIN all /\ all[i] = t
    OBVIOUS
  <1>2. x \in queue'
    BY <1>1 DEF Schedule
  <1>3. x.at = t.at /\ x.do = t.do
    BY <1>1 DEF Numbered
  <1> QED
    BY <1>2, <1>3

\* What fire() and drawn() schedule is never before the instant they were due at.
LEMMA LaterEntry ==
    ASSUME QueueInv, NEW e \in next, NEW d \in Nat, NEW do \in Dos
    PROVE  Entry(e.at + d, do, e.of) \in Later
  <1>1. e.at \in Nat /\ e.of \in DOMAIN Failures /\ e.at = lastAt
    BY DEF QueueInv, EntriesOK, PolledOK, Pending
  <1> QED
    BY <1>1 DEF Later, EntryType, Entry

LEMMA LaterRedraws ==
    ASSUME QueueInv, NEW e \in next, NEW again \in Redraws(e) PROVE again \in Seq(Later)
  <1>1. CASE e.do = "draw"
    <2>1. PICK g \in Gaps : again = <<Entry(e.at + g, "draw", e.of)>>
      BY <1>1 DEF Redraws
    <2>2. g \in Nat /\ "draw" \in Dos
      BY WeatherAssumption DEF Dos
    <2>3. Entry(e.at + g, "draw", e.of) \in Later
      BY <2>2, LaterEntry
    <2> QED
      BY <2>1, <2>3
  <1>2. CASE e.do # "draw"
    BY <1>2 DEF Redraws
  <1> QED
    BY <1>1, <1>2

LEMMA LaterComeback ==
    ASSUME QueueInv, NEW e \in next, NEW d \in Nat
    PROVE  Comeback(e, e.at + d) \in Seq(Later)
  BY LaterEntry DEF Comeback, Dos

\* An entry that was fired leaves the queue as it should be.
LEMMA FiredQueue ==
    ASSUME QueueInv, NEW es \in Seq(Later), Fired(es) PROVE QueueInv'
  <1>1. \A x \in queue' : x \in queue \/ \E t \in Later : x.at = t.at /\ x.do = t.do /\ x.of = t.of
    BY ScheduleAdds DEF Fired
  <1>2. next' = {} /\ lastAt' = lastAt
    BY DEF Fired
  <1>3. EntriesOK'
    BY <1>1, <1>2 DEF QueueInv, EntriesOK, Pending, Later, EntryType
  <1>4. PolledOK'
    BY <1>2 DEF QueueInv, PolledOK
  <1>5. InOrder'
    BY <1>1, <1>2 DEF QueueInv, InOrder, Later, EntryType
  <1> QED
    BY <1>3, <1>4, <1>5 DEF QueueInv

LEMMA QueueInvInit == ASSUME WeatherInit PROVE QueueInv
  <1>1. PICK draw \in [DOMAIN Failures -> Gaps], written \in Simulations :
          queue = {LET f == Failures[i] IN
                   Numbered(IF f.drawn THEN Entry(draw[i], "draw", i) ELSE Entry(f.at, "fail", i), i)
                      : i \in written}
    BY DEF WeatherInit
  <1>2. ASSUME NEW e \in queue
        PROVE  e.at \in Nat /\ e.do \in Dos /\ e.of \in DOMAIN Failures
    <2>0. written \subseteq DOMAIN Failures
      BY <1>1, WeatherAssumption
    <2>1. PICK i \in DOMAIN Failures :
            e = Numbered(IF Failures[i].drawn THEN Entry(draw[i], "draw", i)
                                              ELSE Entry(Failures[i].at, "fail", i), i)
      BY <1>1, <2>0
    <2>2. draw[i] \in Nat /\ Failures[i].at \in Nat
      BY WeatherAssumption, FailureFacts
    <2>3. CASE Failures[i].drawn
      BY <2>1, <2>2, <2>3 DEF Numbered, Entry, Dos
    <2>4. CASE ~Failures[i].drawn
      BY <2>1, <2>2, <2>4 DEF Numbered, Entry, Dos
    <2> QED
      BY <2>3, <2>4
  <1>3. next = {} /\ lastAt = 0
    BY DEF WeatherInit
  <1> QED
    BY <1>2, <1>3 DEF QueueInv, EntriesOK, PolledOK, InOrder, Pending

LEMMA QueueInvNext == ASSUME QueueInv, [WeatherNext]_wvars PROVE QueueInv'
  <1> DEFINE Quiet == UNCHANGED <<queue, next, lastAt>>
  <1>1. ASSUME Quiet PROVE QueueInv'
    BY <1>1 DEF QueueInv, EntriesOK, PolledOK, InOrder, Pending
  <1>2. CASE Exit \/ Meanwhile \/ UNCHANGED wvars
    BY <1>1, <1>2 DEF Exit, Meanwhile, weather, wvars
  <1>3. CASE Poll
    <2>1. PICK e \in queue : /\ \A d \in queue \ {e} : Before(e, d)
                             /\ queue' = queue \ {e}
                             /\ next' = {e} /\ lastAt' = e.at
      BY <1>3 DEF Poll
    <2>2. \A d \in queue : d.at \in Nat /\ d.do \in Dos /\ d.of \in DOMAIN Failures
      BY DEF QueueInv, EntriesOK, Pending
    <2>3. EntriesOK' /\ PolledOK'
      BY <2>1, <2>2 DEF EntriesOK, PolledOK, Pending
    <2>4. InOrder'
      BY <2>1, <2>2 DEF InOrder, Before
    <2> QED
      BY <2>3, <2>4 DEF QueueInv
  <1>4. CASE FireKill
    <2>1. PICK e \in next : \E again \in Redraws(e) :
            Fired(again \o Comeback(e, e.at + Failures[e.of].after))
      BY <1>4 DEF FireKill
    <2>2. PICK again \in Redraws(e) :
            Fired(again \o Comeback(e, e.at + Failures[e.of].after))
      BY <2>1
    <2>3. Failures[e.of].after \in Nat
      BY FailureFacts DEF QueueInv, EntriesOK, Pending
    <2>4. again \in Seq(Later) /\ Comeback(e, e.at + Failures[e.of].after) \in Seq(Later)
      BY <2>3, LaterRedraws, LaterComeback
    <2>5. again \o Comeback(e, e.at + Failures[e.of].after) \in Seq(Later)
      BY <2>4
    <2> QED
      BY <2>2, <2>5, FiredQueue
  <1>5. CASE FireFreeze
    <2>1. PICK e \in next : \E again \in Redraws(e) :
            Fired(again \o <<Entry(e.at + Failures[e.of].for, "thaw", e.of)>>)
      BY <1>5 DEF FireFreeze
    <2>2. PICK again \in Redraws(e) :
            Fired(again \o <<Entry(e.at + Failures[e.of].for, "thaw", e.of)>>)
      BY <2>1
    <2>3. Failures[e.of].for \in Nat /\ "thaw" \in Dos
      BY FailureFacts DEF QueueInv, EntriesOK, Pending, Dos
    <2>4. again \in Seq(Later) /\ Entry(e.at + Failures[e.of].for, "thaw", e.of) \in Later
      BY <2>3, LaterRedraws, LaterEntry
    <2>5. again \o <<Entry(e.at + Failures[e.of].for, "thaw", e.of)>> \in Seq(Later)
      BY <2>4
    <2> QED
      BY <2>2, <2>5, FiredQueue
  <1>6. CASE FireDegrade \/ FirePassesOver
    <2>1. PICK e \in next : \E again \in Redraws(e) : Fired(again)
      BY <1>6 DEF FireDegrade, FirePassesOver
    <2>2. PICK again \in Redraws(e) : Fired(again)
      BY <2>1
    <2> QED
      BY <2>2, LaterRedraws, FiredQueue
  <1>7. CASE FireSpotReclaim
    <2>1. PICK e \in next :
            Fired(<<Entry(e.at + Failures[e.of].notice, "kill", e.of)>>
                    \o Comeback(e, e.at + Failures[e.of].notice + Failures[e.of].after))
      BY <1>7 DEF FireSpotReclaim
    <2> DEFINE notice == Failures[e.of].notice
               after == Failures[e.of].after
    <2>2. notice \in Nat /\ after \in Nat /\ notice + after \in Nat /\ "kill" \in Dos
      BY FailureFacts DEF QueueInv, EntriesOK, Pending, Dos
    <2>3. Entry(e.at + notice, "kill", e.of) \in Later
      BY <2>2, LaterEntry
    <2>4. Comeback(e, e.at + (notice + after)) \in Seq(Later)
      BY <2>2, LaterComeback
    <2>5. e.at + (notice + after) = e.at + notice + after
      BY <2>2 DEF QueueInv, EntriesOK, Pending
    <2>6. <<Entry(e.at + notice, "kill", e.of)>> \o Comeback(e, e.at + notice + after)
            \in Seq(Later)
      BY <2>3, <2>4, <2>5
    <2> QED
      BY <2>1, <2>6, FiredQueue
  <1>8. CASE \/ FireRestart \/ FirePartition \/ FireHeal
             \/ FireThaw \/ FireReclaim \/ FireComeback
    <2>1. Fired(<<>>)
      BY <1>8 DEF FireRestart, FirePartition, FireHeal, FireThaw, FireReclaim, FireComeback,
         Scheduled
    <2>2. <<>> \in Seq(Later)
      OBVIOUS
    <2> QED
      BY <2>1, <2>2, FiredQueue
  <1> QED
    BY <1>2, <1>3, <1>4, <1>5, <1>6, <1>7, <1>8 DEF WeatherNext, Fire

\* Weather happens in the order it was written for: nothing pending is due before what
\* the dispatcher took last (Dispatcher.loop, Simulate.fire, Simulate.drawn).
THEOREM WeatherInOrder == WeatherSpec => []InOrder
  <1>1. WeatherInit => QueueInv
    BY QueueInvInit
  <1>2. QueueInv /\ [WeatherNext]_wvars => QueueInv'
    BY QueueInvNext
  <1>3. QueueInv => InOrder
    BY DEF QueueInv
  <1> QED
    BY <1>1, <1>2, <1>3, PTL DEF WeatherSpec

-----------------------------------------------------------------------------
(* A run under weather is a run of module Machine: every theorem about the *)
(* machine holds under every weather.                                      *)

LEMMA MachineStep == ASSUME QueueInv, [WeatherNext]_wvars PROVE [Next]_vars
  <1>1. CASE Poll \/ UNCHANGED wvars
    BY <1>1 DEF Poll, wvars
  <1>2. CASE Exit \/ Meanwhile
    BY <1>2 DEF Exit, Meanwhile, Next, Faults
  <1>3. CASE FireKill \/ FireRestart \/ FireThaw \/ FireReclaim \/ FireComeback
    BY <1>3 DEF FireKill, FireRestart, FireThaw, FireReclaim, FireComeback, Scheduled, Next,
       Faults
  <1>4. CASE FireFreeze
    <2>1. PICK e \in next : Failures[e.of].kind = "freeze" /\ freeze(Failures[e.of].for)
      BY <1>4 DEF FireFreeze, Strikes
    <2>2. Failures[e.of].for \in FreezeFor
      BY <2>1, FailureFacts DEF QueueInv, EntriesOK, Pending
    <2> QED
      BY <2>1, <2>2 DEF Next, Faults
  <1>5. CASE FireDegrade
    <2>1. PICK e \in next : Failures[e.of].kind = "degrade" /\ degrade(Failures[e.of].factor)
      BY <1>5 DEF FireDegrade, Strikes
    <2>2. Failures[e.of].factor \in Factors
      BY <2>1, FailureFacts DEF QueueInv, EntriesOK, Pending
    <2> QED
      BY <2>1, <2>2 DEF Next, Faults
  <1>6. CASE FireSpotReclaim \/ FirePartition \/ FireHeal \/ FirePassesOver
    <2>1. GoOn
      BY <1>6 DEF FireSpotReclaim, FirePartition, FireHeal, FirePassesOver
    <2> QED
      BY <2>1 DEF GoOn, Next, Faults
  <1> QED
    BY <1>1, <1>2, <1>3, <1>4, <1>5, <1>6 DEF WeatherNext, Fire

-----------------------------------------------------------------------------
(* Thaws.  The thaw a freeze schedules is never later than the end of the  *)
(* freeze, because an entry is never fired before its instant; and only    *)
(* the firing of a thaw takes one out of the queue.                        *)

LEMMA ThawComingInit == ASSUME WeatherInit PROVE ThawIsComing
  BY DEF WeatherInit, Init, ThawIsComing

LEMMA ThawComingNext ==
    ASSUME VitalsOK, QueueInv, ThawIsComing, [WeatherNext]_wvars PROVE ThawIsComing'
  <1>1. ASSUME frozenUntil' \in {0, frozenUntil}, Pending \subseteq Pending'
        PROVE  ThawIsComing'
    BY <1>1 DEF ThawIsComing
  <1>2. ASSUME frozenUntil' \in {0, frozenUntil}, queue \subseteq queue',
               \A e \in next : e.do # "thaw"
        PROVE  ThawIsComing'
    BY <1>2 DEF ThawIsComing, Pending
  <1>3. CASE Poll
    <2>1. Pending \subseteq Pending' /\ UNCHANGED frozenUntil
      BY <1>3 DEF Poll, Pending, vars, vitals
    <2> QED
      BY <1>1, <2>1
  <1>4. CASE Exit \/ Meanwhile \/ UNCHANGED wvars
    <2>1. frozenUntil' \in {0, frozenUntil}
      BY <1>4 DEF Exit, LoopExits, Meanwhile, Tick, RestartStep, Revive, ClearGauges,
         StartChecksStopped, StartReleases, StartAwaits, StartGivesUp, Rebuild, Bind,
         RestartDone, WalkerStep, SamplerWalks, OverCapChecks, OverCapReports, OverCapKills,
         HandlerStep, HandlerStarts, HandlerHolds, HandlerStores, WroteDisk, DiskFull,
         HandlerEnds, MainStep, CloseDispatcher, StopSampling, FinalMeasure, TakeTotals,
         SetStopped, ShutdownNow, ShutdownReleases, ShutdownAwaits, Unregister, wvars, vars,
         vitals
    <2>2. Pending' = Pending
      BY <1>4 DEF Exit, Meanwhile, weather, wvars, Pending
    <2> QED
      BY <1>1, <2>1, <2>2
  <1>5. CASE FireFreeze
    <2>1. PICK e \in next : \E again \in Redraws(e) :
            /\ e.at <= now /\ freeze(Failures[e.of].for)
            /\ Fired(again \o <<Entry(e.at + Failures[e.of].for, "thaw", e.of)>>)
      BY <1>5 DEF FireFreeze, Strikes
    <2>2. PICK again \in Redraws(e) :
            Fired(again \o <<Entry(e.at + Failures[e.of].for, "thaw", e.of)>>)
      BY <2>1
    <2> DEFINE t == Entry(e.at + Failures[e.of].for, "thaw", e.of)
    <2>3. e.at \in Nat /\ Failures[e.of].for \in Nat /\ "thaw" \in Dos
      BY FailureFacts DEF QueueInv, EntriesOK, Pending, Dos
    <2>4. again \in Seq(Later) /\ t \in Later
      BY <2>3, LaterRedraws, LaterEntry
    <2>5. Schedule(again \o <<t>>)
      BY <2>2 DEF Fired
    <2>6. \E x \in queue' : x.at = t.at /\ x.do = t.do
      BY <2>4, <2>5, ScheduleLast
    <2>7. t.do = "thaw" /\ t.at <= frozenUntil'
      BY <2>1, <2>3 DEF Entry, freeze, Larger, VitalsOK
    <2> QED
      BY <2>6, <2>7 DEF ThawIsComing, Pending
  <1>6. CASE FireThaw
    <2>1. frozenUntil' = 0
      BY <1>6 DEF FireThaw, Scheduled, thaw
    <2> QED
      BY <2>1 DEF ThawIsComing
  <1>7. CASE \/ FireKill \/ FireDegrade \/ FireRestart \/ FireSpotReclaim \/ FirePartition
             \/ FireHeal \/ FirePassesOver \/ FireReclaim \/ FireComeback
    <2>1. UNCHANGED frozenUntil
      BY <1>7 DEF FireKill, FireDegrade, FireRestart, FireSpotReclaim, FirePartition, FireHeal,
         FirePassesOver, FireReclaim, FireComeback, Scheduled, kill, degrade, restart, GoOn,
         LoopExits, vars, vitals
    <2>2. \E e \in next : e.do # "thaw"
      BY <1>7 DEF FireKill, FireDegrade, FireRestart, FireSpotReclaim, FirePartition, FireHeal,
         FirePassesOver, FireReclaim, FireComeback, Scheduled, Strikes
    <2>3. \A e \in next : e.do # "thaw"
      BY <2>2 DEF QueueInv, PolledOK
    <2>4. queue \subseteq queue'
      BY <1>7, ScheduleKeeps DEF FireKill, FireDegrade, FireRestart, FireSpotReclaim,
         FirePartition, FireHeal, FirePassesOver, FireReclaim, FireComeback, Scheduled, Fired
    <2> QED
      BY <1>2, <2>1, <2>3, <2>4
  <1> QED
    BY <1>3, <1>4, <1>5, <1>6, <1>7 DEF WeatherNext, Fire

\* A frozen machine always has a thaw ahead of it, no later than its freeze would have
\* ended (Simulate.fire, Machine.freeze).
THEOREM ThawComes == WeatherSpec => []ThawIsComing
  <1>1. WeatherInit => QueueInv /\ TypeInv /\ ThawIsComing
    BY QueueInvInit, TypeInvInit, ThawComingInit DEF WeatherInit
  <1>2. QueueInv /\ TypeInv /\ ThawIsComing /\ [WeatherNext]_wvars
          => QueueInv' /\ TypeInv' /\ ThawIsComing'
    BY QueueInvNext, MachineStep, TypeInvNext, ThawComingNext DEF TypeInv, TypeOK
  <1> QED
    BY <1>1, <1>2, PTL DEF WeatherSpec

-----------------------------------------------------------------------------
(* Rates.  An entry that was polled is not in the queue any more, so that  *)
(* firing a draw takes away the one its rule had; what is scheduled beside *)
(* the next draw is never a draw.                                          *)

DrawOf(e, i) == e.do = "draw" /\ e.of = i

PolledIsGone == next \cap queue = {}

OnlyRatesDraw == \A e \in Pending : e.do = "draw" => Failures[e.of].drawn

OneDraw ==
    \A i \in DOMAIN Failures :
        \A x, y \in Pending : DrawOf(x, i) /\ DrawOf(y, i) => x = y

HasDraw(i) == \E x \in Pending : DrawOf(x, i)

GoesOn == \A i \in DOMAIN Failures : HasDraw(i)' <=> HasDraw(i)

RatesInv == PolledIsGone /\ OnlyRatesDraw /\ OneDraw

NoDraw(entries) == \A k \in DOMAIN entries : entries[k].do # "draw"

LEMMA RatesInit == ASSUME WeatherInit PROVE RatesInv
  <1> DEFINE first(draw, i) ==
               Numbered(IF Failures[i].drawn THEN Entry(draw[i], "draw", i)
                                             ELSE Entry(Failures[i].at, "fail", i), i)
  <1>1. PICK draw \in [DOMAIN Failures -> Gaps], written \in Simulations :
          queue = {first(draw, i) : i \in written}
    BY DEF WeatherInit
  <1>0. written \subseteq DOMAIN Failures
    BY <1>1, WeatherAssumption
  <1>2. Pending = queue /\ PolledIsGone
    BY DEF WeatherInit, Pending, PolledIsGone
  <1>3. \A i \in DOMAIN Failures :
          /\ first(draw, i).of = i
          /\ first(draw, i).do = IF Failures[i].drawn THEN "draw" ELSE "fail"
    BY DEF Numbered, Entry
  <1> HIDE DEF first
  <1>4. OnlyRatesDraw
    BY <1>0, <1>1, <1>2, <1>3 DEF OnlyRatesDraw
  <1>5. OneDraw
    BY <1>0, <1>1, <1>2, <1>3 DEF OneDraw, DrawOf
  <1> QED
    BY <1>2, <1>4, <1>5 DEF RatesInv

\* However an entry is fired: its rule has the draw that was scheduled in place of it,
\* and every other rule the one it had.
LEMMA FiredRates ==
    ASSUME QueueInv, RatesInv, NEW e \in next, NEW again \in Redraws(e),
           NEW T, NEW rest \in Seq(T), NoDraw(rest), Fired(again \o rest)
    PROVE  RatesInv' /\ GoesOn
  <1> DEFINE all == again \o rest
             new(k) == Numbered(all[k], seq + k)
  <1>1. next = {e} /\ e \notin queue /\ e \in Pending /\ queue \subseteq Pending
    BY DEF QueueInv, PolledOK, RatesInv, PolledIsGone, Pending
  <1>2. Pending' = queue' /\ next' = {} /\ queue \subseteq queue'
    BY ScheduleKeeps DEF Fired, Pending
  <1>3. /\ \A x \in queue' : x \in queue \/ \E k \in DOMAIN all : x = new(k)
        /\ \A k \in DOMAIN all : new(k) \in queue'
    BY DEF Fired, Schedule
  <1>4. \A k \in DOMAIN all : new(k).do = all[k].do /\ new(k).of = all[k].of
    BY DEF Numbered
  <1>5. \A x \in Pending : x = e \/ x \in queue
    BY <1>1 DEF Pending
  <1>6. CASE e.do = "draw"
    <2>1. PICK t : again = <<t>> /\ t.do = "draw" /\ t.of = e.of
      BY <1>6 DEF Redraws, Entry
    <2>2. 1 \in DOMAIN all /\ all[1] = t
      BY <2>1
    <2>3. \A k \in DOMAIN all \ {1} : all[k].do # "draw"
      BY <2>1 DEF NoDraw
    <2> HIDE DEF new, all
    <2>4. /\ new(1) \in queue' /\ new(1).do = "draw" /\ new(1).of = e.of
          /\ \A x \in queue' : x.do = "draw" => x \in queue \/ x = new(1)
      BY <1>3, <1>4, <2>1, <2>2, <2>3
    <2>5. OnlyRatesDraw'
      BY <1>1, <1>2, <1>6, <2>4 DEF OnlyRatesDraw, RatesInv
    <2>6. ASSUME NEW i \in DOMAIN Failures
          PROVE  /\ (\E x \in queue' : DrawOf(x, i)) <=> (\E x \in Pending : DrawOf(x, i))
                 /\ \A x, y \in queue' : DrawOf(x, i) /\ DrawOf(y, i) => x = y
      <3>1. CASE i = e.of
        BY <1>1, <1>6, <2>4, <2>6, <3>1 DEF RatesInv, OneDraw, DrawOf
      <3>2. CASE i # e.of
        BY <1>1, <1>2, <1>5, <2>4, <2>6, <3>2 DEF RatesInv, OneDraw, DrawOf
      <3> QED BY <3>1, <3>2
    <2> QED BY <1>2, <2>5, <2>6 DEF RatesInv, PolledIsGone, OneDraw, GoesOn, HasDraw
  <1>7. CASE e.do # "draw"
    <2>1. \A k \in DOMAIN all : all[k].do # "draw"
      BY <1>7 DEF Redraws, NoDraw
    <2> HIDE DEF new, all
    <2>2. \A x \in queue' : x.do = "draw" => x \in queue
      BY <1>3, <1>4, <2>1
    <2>3. OnlyRatesDraw'
      BY <1>1, <1>2, <2>2 DEF OnlyRatesDraw, RatesInv
    <2>4. OneDraw'
      BY <1>1, <1>2, <1>5, <1>7, <2>2 DEF RatesInv, OneDraw, DrawOf
    <2>5. GoesOn
      BY <1>1, <1>2, <1>5, <1>7, <2>2 DEF GoesOn, HasDraw, DrawOf
    <2> QED BY <1>2, <2>3, <2>4, <2>5 DEF RatesInv, PolledIsGone
  <1> QED BY <1>6, <1>7

\* A failure of a kind that takes no rate was written for an instant.
LEMMA Undrawn ==
    ASSUME QueueInv, RatesInv, NEW e \in next,
           \/ e.do # "draw"
           \/ Failures[e.of].kind \notin {"kill", "freeze", "degrade"}
    PROVE  <<>> \in Redraws(e)
  <1>1. e.of \in DOMAIN Failures /\ (e.do = "draw" => Failures[e.of].drawn)
    BY DEF QueueInv, EntriesOK, Pending, RatesInv, OnlyRatesDraw
  <1>2. e.do # "draw"
    BY <1>1, WeatherAssumption
  <1> QED BY <1>2 DEF Redraws

LEMMA RatesNext == ASSUME QueueInv, RatesInv, [WeatherNext]_wvars PROVE RatesInv' /\ GoesOn
  <1>1. CASE Exit \/ Meanwhile \/ UNCHANGED wvars
    BY <1>1 DEF Exit, Meanwhile, weather, wvars, RatesInv, PolledIsGone, OnlyRatesDraw,
       OneDraw, Pending, GoesOn, HasDraw
  <1>2. CASE Poll
    <2>1. Pending' = Pending /\ PolledIsGone'
      BY <1>2 DEF Poll, Pending, PolledIsGone
    <2> QED BY <2>1 DEF RatesInv, OnlyRatesDraw, OneDraw, GoesOn, HasDraw
  <1>3. CASE FireKill
    <2>1. PICK e \in next : \E again \in Redraws(e) :
            Fired(again \o Comeback(e, e.at + Failures[e.of].after))
      BY <1>3 DEF FireKill
    <2>2. NoDraw(Comeback(e, e.at + Failures[e.of].after))
      BY DEF Comeback, NoDraw, Entry
    <2>3. Comeback(e, e.at + Failures[e.of].after) \in Seq(Later)
      BY LaterComeback, FailureFacts DEF QueueInv, EntriesOK, Pending
    <2> QED BY <2>1, <2>2, <2>3, FiredRates
  <1>4. CASE FireFreeze
    <2>1. PICK e \in next : \E again \in Redraws(e) :
            Fired(again \o <<Entry(e.at + Failures[e.of].for, "thaw", e.of)>>)
      BY <1>4 DEF FireFreeze
    <2> DEFINE t == Entry(e.at + Failures[e.of].for, "thaw", e.of)
    <2>2. NoDraw(<<t>>) /\ <<t>> \in Seq({t})
      BY DEF NoDraw, Entry
    <2> QED BY <2>1, <2>2, FiredRates
  <1>5. CASE FireDegrade \/ FirePassesOver
    <2>1. PICK e \in next : \E again \in Redraws(e) : Fired(again)
      BY <1>5 DEF FireDegrade, FirePassesOver
    <2>2. PICK again \in Redraws(e) : Fired(again)
      BY <2>1
    <2>3. again \in Seq(Later) /\ <<>> \in Seq(Later) /\ NoDraw(<<>>)
      BY LaterRedraws DEF NoDraw
    <2>4. again \o <<>> = again
      BY <2>3
    <2> QED BY <2>2, <2>3, <2>4, FiredRates
  <1>6. CASE FireSpotReclaim
    <2>1. PICK e \in next :
            /\ Failures[e.of].kind = "spotReclaim"
            /\ Fired(<<Entry(e.at + Failures[e.of].notice, "kill", e.of)>>
                       \o Comeback(e, e.at + Failures[e.of].notice + Failures[e.of].after))
      BY <1>6 DEF FireSpotReclaim, Strikes
    <2> DEFINE gone == Entry(e.at + Failures[e.of].notice, "kill", e.of)
               back == Comeback(e, e.at + Failures[e.of].notice + Failures[e.of].after)
               at == e.at + Failures[e.of].notice + Failures[e.of].after
               up == Entry(at, "restart", e.of)
               T == {gone, up}
    <2>2. \A t \in T : t.do # "draw"
      BY DEF Entry
    <2>3. <<gone>> \o back \in Seq(T)
      <3>1. back = <<up>> \/ back = <<>>
        BY DEF Comeback
      <3> HIDE DEF gone, back, up
      <3>2. <<gone>> \in Seq(T) /\ <<up>> \in Seq(T) /\ <<>> \in Seq(T)
        OBVIOUS
      <3>3. back \in Seq(T)
        BY <3>1, <3>2
      <3> HIDE DEF T
      <3> QED BY <3>2, <3>3
    <2>4. NoDraw(<<gone>> \o back)
      BY <2>2, <2>3 DEF NoDraw
    <2>5. <<>> \o (<<gone>> \o back) = <<gone>> \o back
      BY <2>3
    <2>6. <<>> \in Redraws(e)
      BY <2>1, Undrawn
    <2> QED BY <2>1, <2>3, <2>4, <2>5, <2>6, FiredRates
  <1>7. CASE \/ FireRestart \/ FirePartition \/ FireHeal
             \/ FireThaw \/ FireReclaim \/ FireComeback
    <2>1. PICK e \in next :
            /\ \/ e.do # "draw"
               \/ Failures[e.of].kind \notin {"kill", "freeze", "degrade"}
            /\ Fired(<<>>)
      BY <1>7 DEF FireRestart, FirePartition, FireHeal, FireThaw, FireReclaim, FireComeback,
         Scheduled, Strikes
    <2>2. <<>> \in Redraws(e) /\ <<>> \in Seq(Later) /\ NoDraw(<<>>)
      BY <2>1, Undrawn DEF NoDraw
    <2>3. <<>> \o <<>> = <<>>
      OBVIOUS
    <2> QED BY <2>1, <2>2, <2>3, FiredRates
  <1> QED
    BY <1>1, <1>2, <1>3, <1>4, <1>5, <1>6, <1>7 DEF WeatherNext, Fire

\* Whatever a drawn failure meets, its rule has as many next instants pending as it
\* had, for any simulations and any draws (Simulate.drawn, Dispatcher.loop).
THEOREM RateGoesOn == WeatherSpec => RateOutlives
  <1>1. ASSUME QueueInv, RatesInv, [WeatherNext]_wvars, NEW i \in DOMAIN Failures
        PROVE  Cardinality(DrawsOf(i)') = Cardinality(DrawsOf(i))
    <2>1. RatesInv' /\ GoesOn
      BY <1>1, RatesNext
    <2>2. CASE HasDraw(i)
      <3>1. PICK x \in Pending : DrawsOf(i) = {x}
        BY <1>1, <2>2 DEF RatesInv, OneDraw, HasDraw, DrawOf, DrawsOf
      <3>2. PICK y \in Pending' : DrawsOf(i)' = {y}
        BY <2>1, <2>2 DEF RatesInv, OneDraw, HasDraw, DrawOf, DrawsOf, GoesOn
      <3> QED BY <3>1, <3>2, FS_Singleton
    <2>3. CASE ~HasDraw(i)
      BY <2>1, <2>3 DEF HasDraw, DrawOf, DrawsOf, GoesOn
    <2> QED BY <2>2, <2>3
  <1>2. WeatherInit => QueueInv /\ RatesInv
    BY QueueInvInit, RatesInit
  <1>3. QueueInv /\ RatesInv /\ [WeatherNext]_wvars => QueueInv' /\ RatesInv'
    BY QueueInvNext, RatesNext
  <1>4. QueueInv /\ RatesInv /\ [WeatherNext]_wvars
        => [\A i \in DOMAIN Failures : Cardinality(DrawsOf(i)') = Cardinality(DrawsOf(i))]_wvars
    BY <1>1
  <1> QED
    BY <1>2, <1>3, <1>4, PTL DEF WeatherSpec, RateOutlives
=============================================================================
