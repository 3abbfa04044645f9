--------------------------- MODULE Process_proofs ---------------------------
(***************************************************************************)
(* Theorems about Process: what RobotSession guarantees of one life of the *)
(* process holds over all of them, a robot that runs has what it needs,    *)
(* and a saved cookie is kept.                                             *)
(*                                                                         *)
(* The inductive invariant joins IInv of RobotSession with what the stage  *)
(* of main says of the robot, the cookie and the files.                    *)
(***************************************************************************)
EXTENDS Process, RobotSession_proofs

Confirmed == {"openCookieFile", "getBuvid", "saveCookie", "adoptCookie", "pollAgain", "loadUID"}

\* The robot is untouched until main comes to its loop, and started with the key.
RobotWaits ==
    /\ stage # "loop" => robotStop /\ pc["robot"] = "none" /\ ~joinable /\ ~hasSession
    /\ ~robotStop \/ pc["robot"] # "none" => wbiMixKey

\* What main has when it comes to a stage.
Equipment ==
    /\ stage \in {"loadUID", "loadConfig", "openDataBase", "loop"} => biliCookie = "complete"
    /\ stage \in {"openDataBase", "loop"} => configLoaded

\* The QR code is used up once the answer was read; as long as main may still
\* write the file, there is no complete cookie in it.
Saved == samePath /\ onDisk["saved"] = "complete"
FileIsSafe ==
    /\ stage \in Confirmed => confirmed
    /\ Saved => /\ stage \notin {"getLoginUrl", "openCookieFile", "getBuvid", "saveCookie"}
                /\ stage = "poll" => confirmed

PInv == IInv /\ ProcessTypeOK /\ RobotWaits /\ Equipment /\ FileIsSafe

-----------------------------------------------------------------------------
(* Before the loop                                                         *)

LEMMA StartKeepsRobot ==
    ASSUME StartSteps \/ KilledBeforeLoop
    PROVE  /\ UNCHANGED <<robotVars, sessionVars, pc>>
           /\ Alive
           /\ terminated' \in {terminated, "uncaught", "killed"}
           /\ stage # "loop"
BY DEF StartSteps, KilledBeforeLoop, Kill, KeepRobot, At, Enter, Exit, Throws, Terminate, PollAgain,
       CheckArguments, LoadBiliCookieByPath, LoadBiliCookieByJson, LoadFromJson, OpenDataBase,
       GetLoginUrl, GetLoginInfo, OpenCookieFile, GetBuvid, SaveCookie, AdoptCookie, GiveUpPoll,
       LoadUIDForLogin

\* Of the invariants of RobotSession only the types speak of terminated.
LEMMA SameRobot ==
    ASSUME IInv, UNCHANGED <<robotVars, sessionVars, pc>>,
           terminated' \in {terminated, "uncaught", "killed"}
    PROVE  IInv'
<1>1. TypeOK'
  BY DEF IInv, TypeOK, robotVars, sessionVars
<1>2. WhoIsWhere' /\ FlagTells' /\ FirstCallerOnly' /\ OneChain'
  BY DEF IInv, WhoIsWhere, FlagTells, FirstCallerOnly, OneChain, NoOrphanSession, Cancelling,
         Connecting, UnderWay, Rearming, robotVars, sessionVars
<1> QED BY <1>1, <1>2 DEF IInv

\* Every step before the loop keeps what concerns main itself.
LEMMA StartKeepsMain ==
    ASSUME ProcessTypeOK, Equipment, FileIsSafe, StartSteps
    PROVE  ProcessTypeOK' /\ Equipment' /\ FileIsSafe'
<1> USE DEF ProcessTypeOK, Equipment, FileIsSafe, Saved, Confirmed, Stages, Contents, Files, MaxPolls,
            At, Enter, Exit, Throws, loginVars, configVars, memory
<1>1. CASE CheckArguments
  BY <1>1 DEF CheckArguments, Given
<1>2. CASE LoadBiliCookieByPath
  BY <1>2 DEF LoadBiliCookieByPath, LoadBiliCookieByJson, Given
<1>3. CASE LoadFromJson
  BY <1>3 DEF LoadFromJson
<1>4. CASE OpenDataBase
  BY <1>4 DEF OpenDataBase
<1>5. CASE GetLoginUrl
  BY <1>5 DEF GetLoginUrl
<1>6. CASE GetLoginInfo
  <2>0. At("poll") /\ UNCHANGED <<samePath, onDisk, biliCookie, configVars, starts>>
    BY <1>6 DEF GetLoginInfo
  <2>1. CASE PollAgain /\ (UNCHANGED confirmed \/ confirmed' = TRUE)
    <3>1. polls' \in 0..MaxPolls /\ stage' \in {"poll", "exited"} /\ (stage' = "poll" => polls' < MaxPolls)
      BY <2>0, <2>1 DEF PollAgain
    <3>2. CASE UNCHANGED confirmed
      BY <2>0, <2>1, <3>1, <3>2 DEF PollAgain
    <3>3. CASE confirmed' = TRUE
      <4>1. confirmed' \in BOOLEAN /\ confirmed'
        BY <3>3
      <4> QED BY <2>0, <2>1, <3>1, <4>1 DEF PollAgain
    <3> QED BY <2>1, <3>2, <3>3
  <2>2. CASE Throws /\ UNCHANGED loginVars
    BY <2>0, <2>2
  <2>3. CASE ~confirmed /\ confirmed' = TRUE /\ cookieJson' \in {"partial", "complete"}
             /\ Enter("openCookieFile") /\ UNCHANGED polls
    BY <2>0, <2>3
  <2> QED BY <1>6, <2>1, <2>2, <2>3 DEF GetLoginInfo
<1>7. CASE OpenCookieFile
  BY <1>7 DEF OpenCookieFile, PollAgain
<1>8. CASE GetBuvid
  BY <1>8 DEF GetBuvid, PollAgain
<1>9. CASE SaveCookie
  BY <1>9 DEF SaveCookie
<1>10. CASE AdoptCookie
  BY <1>10 DEF AdoptCookie, LoadBiliCookieByJson
<1>11. CASE GiveUpPoll
  BY <1>11 DEF GiveUpPoll, PollAgain
<1>12. CASE LoadUIDForLogin
  <2>0. /\ At("loadUID") /\ UNCHANGED <<samePath, onDisk, biliCookie, configLoaded, starts>>
        /\ isLogined' \in BOOLEAN /\ wbiMixKey' \in BOOLEAN
    BY <1>12 DEF LoadUIDForLogin, LoadUIDFails, LoadUIDSucceeds
  <2>1. CASE Enter("loadConfig") /\ LoginIsOver
    <3>1. confirmed' \in BOOLEAN /\ polls' = 0 /\ cookieJson' = "absent"
      BY <2>1 DEF LoginIsOver
    <3>2. 0 \in 0..MaxPolls
      OBVIOUS
    <3> QED BY <2>0, <2>1, <3>1, <3>2
  <2>2. CASE PollAgain /\ UNCHANGED confirmed
    <3>1. polls' \in 0..MaxPolls /\ stage' \in {"poll", "exited"} /\ (stage' = "poll" => polls' < MaxPolls)
      BY <2>0, <2>2 DEF PollAgain
    <3> QED BY <2>0, <2>2, <3>1 DEF PollAgain
  <2>3. CASE Throws /\ UNCHANGED loginVars
    BY <2>0, <2>3
  <2> QED BY <1>12, <2>1, <2>2, <2>3 DEF LoadUIDForLogin
<1> QED BY <1>1, <1>2, <1>3, <1>4, <1>5, <1>6, <1>7, <1>8, <1>9, <1>10, <1>11, <1>12 DEF StartSteps

LEMMA StartKeepsKey ==
    ASSUME StartSteps, ProcessTypeOK
    PROVE  wbiMixKey => wbiMixKey'
BY DEF StartSteps, ProcessTypeOK, LoadUIDFails, LoadUIDSucceeds, loginVars, configVars, memory,
       CheckArguments, LoadBiliCookieByPath, LoadFromJson, OpenDataBase,
       GetLoginUrl, GetLoginInfo, OpenCookieFile, GetBuvid, SaveCookie, AdoptCookie, GiveUpPoll,
       LoadUIDForLogin

-----------------------------------------------------------------------------
(* In the loop, and from one life to the next                              *)

\* Only LoadUID makes Robot::IsRunning true, and a thread is only started for a
\* robot that runs.
LEMMA RobotStartsWithUID ==
    ASSUME IInv, Next
    PROVE  /\ robotStop /\ ~robotStop' => LoadUID
           /\ pc["robot"] = "none" /\ pc'["robot"] # "none" => ~robotStop
<1> USE DEF IInv, TypeOK, WhoIsWhere, FlagTells, Threads, Goto, robotVars
<1>1. CASE MainControl
  BY <1>1 DEF MainControl, GetRoomInfo, RoomIsLiving, RoomIsNotLiving, Run, LoadUID, StartThread, JoinRobot
<1>2. CASE RobotControl
  BY <1>2 DEF RobotControl, Begin, CreateSession, EnterRun, InitRoomInfo, RunReturns, FinishThread, JoinSelf
<1>3. CASE \E t \in Threads : StopSteps(t)
  <2>1. PICK t \in Threads : StopSteps(t)
    BY <1>3
  <2>2. pc[t] # "none"
    BY <2>1 DEF StopSteps, SetRobotStop, SkipJoin, ResetSession, ExchangeStop, Cancel, StopIoc, StopLabels
  <2>3. (robotStop => robotStop') /\ \A u \in Threads : u # t => pc'[u] = pc[u]
    BY <2>1 DEF StopSteps, SetRobotStop, SkipJoin, ResetSession, ExchangeStop, Cancel, StopIoc
  <2> QED BY <2>2, <2>3
<1>4. CASE Handlers
  BY <1>4, HandlersKeepControl
<1>5. CASE Kill
  BY <1>5 DEF Kill
<1> QED BY StepsSorted, <1>1, <1>2, <1>3, <1>4, <1>5

LEMMA LoopKeeps ==
    ASSUME PInv, LoopStep
    PROVE  PInv'
<1>1. Next /\ stage = "loop" /\ IInv'
  <2>1. Next /\ stage = "loop"
    BY DEF LoopStep, At
  <2> QED BY <2>1, NextKeepsIInv DEF PInv
<1>2. /\ UNCHANGED <<stage, samePath, onDisk, polls, confirmed, cookieJson, biliCookie, configLoaded, starts>>
      /\ isLogined' \in BOOLEAN /\ wbiMixKey' \in BOOLEAN
      /\ wbiMixKey => wbiMixKey'
      /\ LoadUID /\ ~robotStop' => wbiMixKey'
  BY DEF LoopStep, startVars, memory, loginVars, configVars, LoadUIDFails, LoadUIDSucceeds, PInv, ProcessTypeOK
<1>3. RobotWaits'
  <2>1. ~robotStop' => wbiMixKey'
    BY <1>1, <1>2, RobotStartsWithUID DEF PInv, RobotWaits
  <2>2. pc'["robot"] # "none" => wbiMixKey'
    BY <1>1, <1>2, RobotStartsWithUID DEF PInv, RobotWaits
  <2> QED BY <1>1, <1>2, <2>1, <2>2 DEF RobotWaits
<1>4. ProcessTypeOK' /\ Equipment' /\ FileIsSafe'
  BY <1>2 DEF PInv, ProcessTypeOK, Equipment, FileIsSafe, Saved
<1> QED BY <1>1, <1>3, <1>4 DEF PInv

\* A new life begins like the first.
LEMMA LivesBeginAlike == Start => Init'
BY DEF Start, Init

LEMMA StartOfLife ==
    ASSUME PInv, Start
    PROVE  PInv'
<1>1. IInv'
  <2>1. Init'
    BY LivesBeginAlike
  <2>2. (Init => IInv)'
    BY IInvAtStart, PTL
  <2> QED BY <2>1, <2>2
<1>2. /\ robotStop' /\ ~joinable' /\ ~hasSession'
      /\ pc'["robot"] = "none" /\ stage' = "arguments" /\ UNCHANGED <<samePath, onDisk>>
  BY DEF Start, Threads
<1>3. ProcessTypeOK'
  <2>1. starts' \in 1..MaxStarts
    BY MaxStartsAssumption DEF PInv, ProcessTypeOK, Start
  <2>2. polls' \in 0..MaxPolls /\ polls' < MaxPolls /\ stage' \in Stages
    BY DEF Start, LoginIsOver, Stages, MaxPolls
  <2>3. /\ samePath' \in BOOLEAN /\ confirmed' \in BOOLEAN /\ onDisk' \in [Files -> Contents]
        /\ configLoaded' \in BOOLEAN /\ isLogined' \in BOOLEAN /\ wbiMixKey' \in BOOLEAN
        /\ cookieJson' \in Contents /\ biliCookie' \in Contents
    BY DEF PInv, ProcessTypeOK, Start, LoginIsOver, Contents
  <2> QED BY <2>1, <2>2, <2>3 DEF ProcessTypeOK
<1>4. RobotWaits' /\ Equipment' /\ FileIsSafe'
  BY <1>2 DEF RobotWaits, Equipment, FileIsSafe, Confirmed
<1> QED BY <1>1, <1>3, <1>4 DEF PInv

-----------------------------------------------------------------------------
LEMMA PInvAtStart == ProcessInit => PInv
<1> SUFFICES ASSUME ProcessInit
             PROVE  PInv
  OBVIOUS
<1>1. IInv
  BY IInvAtStart DEF ProcessInit
<1>2. ProcessTypeOK
  <2>1. starts \in 1..MaxStarts
    BY MaxStartsAssumption DEF ProcessInit
  <2>2. polls \in 0..MaxPolls /\ polls < MaxPolls /\ stage \in Stages
    BY DEF ProcessInit, Stages, MaxPolls
  <2>3. samePath \in BOOLEAN /\ onDisk \in [Files -> Contents]
    BY DEF ProcessInit, Contents
  <2>4. /\ confirmed \in BOOLEAN /\ configLoaded \in BOOLEAN /\ isLogined \in BOOLEAN
        /\ wbiMixKey \in BOOLEAN /\ cookieJson \in Contents /\ biliCookie \in Contents
    BY DEF ProcessInit, Contents
  <2> QED BY <2>1, <2>2, <2>3, <2>4 DEF ProcessTypeOK
<1>3. RobotWaits /\ Equipment /\ FileIsSafe
  BY DEF ProcessInit, Init, Threads, RobotWaits, Equipment, FileIsSafe, Confirmed
<1> QED BY <1>1, <1>2, <1>3 DEF PInv

LEMMA PInvKept == PInv /\ [ProcessNext]_processVars => PInv'
<1> SUFFICES ASSUME PInv, [ProcessNext]_processVars
             PROVE  PInv'
  OBVIOUS
<1>1. CASE StartSteps
  <2>1. IInv'
    BY <1>1, StartKeepsRobot, SameRobot DEF PInv
  <2>2. RobotWaits'
    BY <1>1, StartKeepsRobot, StartKeepsKey DEF PInv, RobotWaits, robotVars
  <2> QED BY <1>1, <2>1, <2>2, StartKeepsMain DEF PInv
<1>2. CASE KilledBeforeLoop
  <2>1. IInv'
    BY <1>2, StartKeepsRobot, SameRobot DEF PInv
  <2>2. UNCHANGED <<robotVars, pc, startVars>>
    BY <1>2 DEF KilledBeforeLoop, Kill
  <2> QED BY <2>1, <2>2 DEF PInv, ProcessTypeOK, RobotWaits, Equipment, FileIsSafe, Saved, robotVars, startVars,
                            memory, loginVars, configVars
<1>3. CASE LoopStep
  BY <1>3, LoopKeeps
<1>4. CASE Start
  BY <1>4, StartOfLife
<1>5. CASE UNCHANGED processVars
  <2>1. UNCHANGED <<vars, startVars>>
    BY <1>5 DEF processVars
  <2>2. IInv'
    BY <2>1, SameRobot DEF PInv, vars
  <2> QED BY <2>1, <2>2 DEF PInv, ProcessTypeOK, RobotWaits, Equipment, FileIsSafe, Saved, vars, robotVars,
                            startVars, memory, loginVars, configVars
<1> QED BY <1>1, <1>2, <1>3, <1>4, <1>5 DEF ProcessNext

LEMMA PInvAlways == ProcessSpec => []PInv
BY PInvAtStart, PInvKept, PTL DEF ProcessSpec

\* The variables of main and what outlives it keep their types; the login is
\* asked for 15 times at most.
THEOREM ProcessTypes == ProcessSpec => []ProcessTypeOK
<1>1. PInv => ProcessTypeOK
  BY DEF PInv
<1> QED BY <1>1, PInvAlways, PTL

\* Whatever failed before, a robot that was started has the cookie, the
\* configuration and the key.
THEOREM RobotsAreEquipped == ProcessSpec => []RunningRobotIsEquipped
<1>1. PInv => RunningRobotIsEquipped
  BY DEF PInv, RobotWaits, Equipment, RunningRobotIsEquipped
<1> QED BY <1>1, PInvAlways, PTL

\* Over all lives of the process there is no second session beside the first, a
\* lost one is noticed, no session is cleaned up twice, and one read and one timer
\* are under way.
THEOREM NoLifeOrphansSessions ==
    ProcessSpec => [](NoOrphanSession /\ LostSessionIsNoticed /\ OneReadOneTimer /\ CleanedUpOnce)
<1>1. PInv => NoOrphanSession /\ LostSessionIsNoticed
  BY DEF PInv, IInv, FlagTells, LostSessionIsNoticed
<1>2. PInv => OneReadOneTimer /\ CleanedUpOnce
  BY InvariantsOfSession DEF PInv
<1> QED BY <1>1, <1>2, PInvAlways, PTL

\* What a step before the loop does to the robot is nothing, or its end.
LEMMA StartIsRobot ==
    ASSUME PInv, StartSteps \/ KilledBeforeLoop
    PROVE  Robot!Next \/ UNCHANGED RobotPhase
<1> USE DEF RobotPhase, Alive
<1>1. /\ terminated = "no" /\ UNCHANGED <<robotStop, hasSession, joinable, pc>>
      /\ terminated' \in {terminated, "uncaught", "killed"}
  BY StartKeepsRobot DEF robotVars
<1>2. CASE terminated' = "no"
  BY <1>1, <1>2
<1>3. CASE terminated' # "no"
  <2>1. RobotPhase \in Robot!Phases \ {"dead"} /\ RobotPhase' = "dead"
    BY <1>1, <1>3 DEF Robot!Phases
  <2> QED BY <2>1 DEF Robot!Next, Robot!Die, Robot!Move
<1> QED BY <1>2, <1>3

\* A process that died begins again with the robot off; one that exited never
\* had a robot, so the robot was off before.
LEMMA StartOfLifeIsRobot ==
    ASSUME PInv, Start
    PROVE  Robot!Next \/ UNCHANGED RobotPhase
<1>1. RobotPhase' = "off"
  BY DEF Start, RobotPhase, Alive, Threads, SessionPath
<1>2. CASE ~Alive
  <2>1. RobotPhase = "dead"
    BY <1>2 DEF RobotPhase
  <2> QED BY <1>1, <2>1 DEF Robot!Next, Robot!Restart, Robot!Move
<1>3. CASE Alive /\ stage = "exited"
  <2>1. RobotPhase = "off"
    BY <1>3 DEF PInv, RobotWaits, RobotPhase, SessionPath
  <2> QED BY <1>1, <2>1
<1> QED BY <1>2, <1>3 DEF Start

\* All lives of the process together, with whatever ends them, are one Robot:
\* a session begins only when the thread of the last was joined and its object
\* released, or they went with a life before.
THEOREM LivesImplementRobot == ProcessSpec => ImplementsRobot
<1>1. ProcessInit => Robot!Init
  BY DEF ProcessInit, Init, Robot!Init, RobotPhase, Alive, SessionPath, Threads
<1>2. PInv /\ [ProcessNext]_processVars => [Robot!Next]_RobotPhase
  <2> SUFFICES ASSUME PInv, [ProcessNext]_processVars
               PROVE  Robot!Next \/ UNCHANGED RobotPhase
    OBVIOUS
  <2>1. CASE StartSteps \/ KilledBeforeLoop
    BY <2>1, StartIsRobot
  <2>2. CASE LoopStep
    <3>1. IInv /\ Next
      BY <2>2 DEF PInv, LoopStep
    <3> QED BY <3>1, StepOfRobot
  <2>3. CASE Start
    BY <2>3, StartOfLifeIsRobot
  <2>4. CASE UNCHANGED processVars
    BY <2>4 DEF processVars, vars, robotVars, RobotPhase, Alive
  <2> QED BY <2>1, <2>2, <2>3, <2>4 DEF ProcessNext
<1> QED BY <1>1, <1>2, PInvAlways, PTL DEF ProcessSpec, ImplementsRobot, Robot!Spec

\* Nor is a stop lost in any of its lives.
THEOREM StopsDrainInEveryLife ==
    ASSUME ~SlowStart
    PROVE  ProcessSpec => StopDrains
<1>1. ProcessInit => StopLasts
  BY StopLastsAtStart DEF ProcessInit
<1>2. PInv /\ StopLasts /\ [ProcessNext]_processVars => StopLasts' /\ (Draining \/ UNCHANGED vars)
  <2> SUFFICES ASSUME PInv, StopLasts, [ProcessNext]_processVars
               PROVE  StopLasts' /\ (Draining \/ UNCHANGED vars)
    OBVIOUS
  <2>1. CASE StartSteps \/ KilledBeforeLoop
    <3>1. UNCHANGED <<robotVars, sessionVars, pc>> /\ pc["robot"] = "none"
      BY <2>1, StartKeepsRobot DEF PInv, RobotWaits
    <3> QED BY <3>1 DEF StopLasts, Draining, SessionPath, robotVars, sessionVars
  <2>2. CASE LoopStep
    <3>1. IInv /\ Next
      BY <2>2 DEF PInv, LoopStep
    <3> QED BY <3>1, KeepsStopLasts, StepDrains
  <2>3. CASE Start
    <3>1. StopLasts'
      <4>1. Init'
        BY <2>3, LivesBeginAlike
      <4>2. (Init => StopLasts)'
        BY StopLastsAtStart, PTL
      <4> QED BY <4>1, <4>2
    <3>2. sessionStop' /\ \A op \in Ops : pending'[op] = 0 /\ pending[op] \in Nat
      BY <2>3 DEF Start, None, PInv, IInv, TypeOK
    <3> QED BY <3>1, <3>2 DEF Draining
  <2>4. CASE UNCHANGED processVars
    BY <2>4 DEF processVars, vars, StopLasts, robotVars, sessionVars
  <2> QED BY <2>1, <2>2, <2>3, <2>4 DEF ProcessNext
<1>3. PInv /\ StopLasts /\ [ProcessNext]_processVars => [Draining]_vars
  BY <1>2
<1> QED BY <1>1, <1>2, <1>3, PInvAlways, PTL DEF ProcessSpec, StopDrains, Draining

\* A saved cookie that main will find is not lost to a later start, a failed
\* request or another poll.
THEOREM SavedLoginsStay == ProcessSpec => SavedLoginIsKept
<1> DEFINE Kept == Saved => onDisk'["saved"] = "complete"
<1>1. PInv /\ [ProcessNext]_processVars => [Kept]_processVars
  <2> SUFFICES ASSUME PInv, ProcessNext, Saved
               PROVE  onDisk' = onDisk
    BY DEF Saved, processVars
  <2>1. CASE StartSteps
    <3>1. ~OpenCookieFile /\ ~SaveCookie
      BY DEF PInv, FileIsSafe, OpenCookieFile, SaveCookie, At
    <3> QED
      BY <2>1, <3>1 DEF StartSteps, CheckArguments, LoadBiliCookieByPath, LoadFromJson, OpenDataBase,
         GetLoginUrl, GetLoginInfo, GetBuvid, AdoptCookie, GiveUpPoll, LoadUIDForLogin
  <2>2. CASE KilledBeforeLoop \/ LoopStep \/ Start
    BY <2>2 DEF KilledBeforeLoop, LoopStep, Start, startVars
  <2> QED BY <2>1, <2>2 DEF ProcessNext
<1> QED BY <1>1, PInvAlways, PTL DEF ProcessSpec, SavedLoginIsKept, Saved
=============================================================================
