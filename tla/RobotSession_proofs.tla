------------------------ MODULE RobotSession_proofs ------------------------
(***************************************************************************)
(* Theorems about RobotSession: its types, that there is never a second    *)
(* session beside the first, that a lost session is noticed, that one read *)
(* and one timer are under way, and that a session is cleaned up once.     *)
(*                                                                         *)
(* One inductive invariant, IInv, gives all of them.  Its parts are proved *)
(* in lemmas of their own, since a part is disturbed by few actions.       *)
(***************************************************************************)
EXTENDS RobotSession, TLAPS

\* The two halves of TypeOK.
Labels == {"none", "poll", "decide", "run", "loadUID", "startThread", "begin", "finish", "ended"}
          \cup StopPath \cup SessionPath
ControlTypes ==
    /\ robotStop \in BOOLEAN /\ hasSession \in BOOLEAN /\ joinable \in BOOLEAN
    /\ pc \in [Threads -> Labels]
    /\ terminated \in {"no", "assigned", "selfJoin", "uncaught", "killed"}
SessionTypes ==
    /\ sessionStop \in BOOLEAN /\ iocStopped \in BOOLEAN /\ wsOpen \in BOOLEAN
    /\ pending \in [Ops -> 0..MaxWrites]
    /\ handling \in Ops \cup {"none", "rearm"}
    /\ handled \in BOOLEAN
    /\ cleanups \in Nat

StopsAfterFlag == {"stopSession", "cancelSession", "stopIoc", "join", "reset"}

\* Where the threads may be, and what that says of the thread and the session:
\* a thread that runs was not joined, and a session outlives its thread only
\* until Robot::Stop resets it.
WhoIsWhere ==
    /\ pc["main"] \in {"poll", "decide", "run", "loadUID", "startThread"} \cup StopPath
    /\ pc["robot"] \in {"none", "begin", "finish", "ended"} \cup SessionPath
                        \cup (StopPath \ {"reset"})
    /\ pc["robot"] \notin {"none", "ended"} => joinable
    /\ hasSession => joinable \/ pc["main"] = "reset"
    /\ pc["robot"] \in {"begin", "create"} =>
          ~hasSession /\ pc["main"] \notin {"stopSession", "cancelSession", "stopIoc"}

\* What Robot::stopFlag says of the two threads.
FlagTells ==
    /\ pc["main"] \in {"loadUID"} \cup StopsAfterFlag => robotStop
    /\ pc["robot"] \in {"none", "ended"} /\ pc["main"] # "startThread" => robotStop
    /\ NoOrphanSession
    /\ pc["main"] = "reset" => ~joinable
    /\ pc["main"] = "startThread" => ~robotStop
    /\ (robotStop /\ pc["main"] \notin StopPath) \/ pc["main"] = "startThread" =>
          pc["robot"] \in {"none", "ended"} \cup StopsAfterFlag

\* Who is between the exchange of the flag and the cleanup, and how many
\* cleanups there were.
Cancelling(t) == pc[t] \in {"cancelSession", "cancelFailed"}
FirstCallerOnly ==
    /\ ~sessionStop => cleanups = 0
    /\ cleanups <= 1
    /\ ~(Cancelling("main") /\ Cancelling("robot"))
    /\ Cancelling("main") \/ Cancelling("robot") => sessionStop /\ cleanups = 0
    /\ pc["robot"] = "enter" => sessionStop /\ cleanups = 0 /\ ~Cancelling("main")
    /\ pending["close"] <= cleanups

\* Connecting is a chain: at most one of its operations is under way, and none
\* once there is a read and a timer.
Connecting == UnderWay("resolve") + UnderWay("connect") + UnderWay("sslHandshake")
              + UnderWay("handshake") + UnderWay("auth")
Rearming == IF handling = "rearm" THEN 1 ELSE 0
OneChain ==
    /\ handling # "none" => pc["robot"] = "loop"
    /\ pc["robot"] \in {"enter", "initRoomInfo"} =>
          Connecting = 0 /\ UnderWay("read") = 0 /\ UnderWay("timer") = 0
    /\ Connecting + UnderWay("read") <= 1
    /\ Connecting + UnderWay("timer") + Rearming <= 1

IInv == TypeOK /\ WhoIsWhere /\ FlagTells /\ FirstCallerOnly /\ OneChain

-----------------------------------------------------------------------------
(* The steps, sorted by what they touch *)

MainControl == GetRoomInfo \/ RoomIsLiving \/ RoomIsNotLiving \/ Run \/ LoadUID
               \/ StartThread \/ JoinRobot
RobotControl == Begin \/ CreateSession \/ EnterRun \/ InitRoomInfo \/ RunReturns
                \/ FinishThread \/ JoinSelf
Handlers ==
    \/ Proceed \/ OnAuth \/ OnRead \/ OnWrite \/ DoPing \/ RearmTimer
    \/ \E op \in Ops : Fails(op) \/ Completes(op)

LEMMA StepsSorted ==
    ASSUME Next
    PROVE  MainControl \/ RobotControl \/ Handlers \/ Kill \/ \E t \in Threads : StopSteps(t)
BY DEF Next, MainSteps, RobotSteps, MainControl, RobotControl, Handlers, Threads

\* The handlers touch the session only.
LEMMA HandlersKeepControl ==
    ASSUME Handlers
    PROVE  UNCHANGED <<pc, robotStop, hasSession, joinable>>
BY DEF Handlers, Proceed, OnAuth, OnRead, OnWrite, DoPing, RearmTimer, Fails, Completes, robotVars

\* What the main thread does outside Robot::Stop touches no session.
LEMMA MainKeepsSession ==
    ASSUME MainControl
    PROVE  UNCHANGED sessionVars
BY DEF MainControl, GetRoomInfo, RoomIsLiving, RoomIsNotLiving, Run, LoadUID, StartThread, JoinRobot

-----------------------------------------------------------------------------
(* The invariant is kept, part by part *)

\* Both threads stay on their paths, and a session outlives its thread only in
\* Robot::Stop.
LEMMA KeepsWhoIsWhere ==
    ASSUME IInv, Next
    PROVE  WhoIsWhere'
<1> USE DEF IInv, TypeOK, WhoIsWhere, Threads, Goto, StopPath, SessionPath, robotVars
<1>1. CASE MainControl
  <2>1. CASE GetRoomInfo
    BY <2>1 DEF GetRoomInfo, PollTime
  <2>2. CASE RoomIsLiving
    BY <2>2 DEF RoomIsLiving
  <2>3. CASE RoomIsNotLiving
    BY <2>3 DEF RoomIsNotLiving
  <2>4. CASE Run
    BY <2>4 DEF Run
  <2>5. CASE LoadUID
    BY <2>5 DEF LoadUID
  <2>6. CASE StartThread
    BY <2>6 DEF StartThread
  <2>7. CASE JoinRobot
    BY <2>7 DEF JoinRobot
  <2> QED BY <1>1, <2>1, <2>2, <2>3, <2>4, <2>5, <2>6, <2>7 DEF MainControl
<1>2. CASE RobotControl
  <2>1. CASE Begin
    BY <2>1 DEF Begin
  <2>2. CASE CreateSession
    BY <2>2 DEF CreateSession
  <2>3. CASE EnterRun
    BY <2>3 DEF EnterRun
  <2>4. CASE InitRoomInfo
    BY <2>4 DEF InitRoomInfo
  <2>5. CASE RunReturns
    BY <2>5 DEF RunReturns
  <2>6. CASE FinishThread
    BY <2>6 DEF FinishThread
  <2>7. CASE JoinSelf
    BY <2>7 DEF JoinSelf
  <2> QED BY <1>2, <2>1, <2>2, <2>3, <2>4, <2>5, <2>6, <2>7 DEF RobotControl
<1>3. CASE \E t \in Threads : StopSteps(t)
  <2> SUFFICES ASSUME NEW t \in Threads, StopSteps(t) PROVE WhoIsWhere'
    BY <1>3
  <2>1. CASE SetRobotStop(t)
    BY <2>1 DEF SetRobotStop
  <2>2. CASE SkipJoin(t)
    BY <2>2 DEF SkipJoin
  <2>3. CASE ResetSession(t)
    BY <2>3 DEF ResetSession
  <2>4. CASE ExchangeStop(t)
    BY <2>4 DEF ExchangeStop, ReturnOf, StopLabels
  <2>5. CASE Cancel(t)
    BY <2>5 DEF Cancel
  <2>6. CASE StopIoc(t)
    BY <2>6 DEF StopIoc, ReturnOf
  <2> QED BY <2>1, <2>2, <2>3, <2>4, <2>5, <2>6 DEF StopSteps
<1>4. CASE Handlers
  BY <1>4, HandlersKeepControl
<1>5. CASE Kill
  BY <1>5 DEF Kill
<1> QED BY StepsSorted, <1>1, <1>2, <1>3, <1>4, <1>5

\* Robot::stopFlag keeps telling what the threads do.
LEMMA KeepsFlagTells ==
    ASSUME IInv, Next
    PROVE  FlagTells'
<1> USE DEF IInv, TypeOK, WhoIsWhere, FlagTells, NoOrphanSession, StopsAfterFlag, Threads, Goto,
        StopPath, SessionPath, robotVars
<1>1. CASE MainControl
  <2>1. CASE GetRoomInfo
    BY <2>1 DEF GetRoomInfo, PollTime
  <2>2. CASE RoomIsLiving
    BY <2>2 DEF RoomIsLiving
  <2>3. CASE RoomIsNotLiving
    BY <2>3 DEF RoomIsNotLiving
  <2>4. CASE Run
    BY <2>4 DEF Run
  <2>5. CASE LoadUID
    BY <2>5 DEF LoadUID
  <2>6. CASE StartThread
    BY <2>6 DEF StartThread
  <2>7. CASE JoinRobot
    BY <2>7 DEF JoinRobot
  <2> QED BY <1>1, <2>1, <2>2, <2>3, <2>4, <2>5, <2>6, <2>7 DEF MainControl
<1>2. CASE RobotControl
  <2>1. CASE Begin
    BY <2>1 DEF Begin
  <2>2. CASE CreateSession
    BY <2>2 DEF CreateSession
  <2>3. CASE EnterRun
    BY <2>3 DEF EnterRun
  <2>4. CASE InitRoomInfo
    BY <2>4 DEF InitRoomInfo
  <2>5. CASE RunReturns
    BY <2>5 DEF RunReturns
  <2>6. CASE FinishThread
    BY <2>6 DEF FinishThread
  <2>7. CASE JoinSelf
    BY <2>7 DEF JoinSelf
  <2> QED BY <1>2, <2>1, <2>2, <2>3, <2>4, <2>5, <2>6, <2>7 DEF RobotControl
<1>3. CASE \E t \in Threads : StopSteps(t)
  <2> SUFFICES ASSUME NEW t \in Threads, StopSteps(t) PROVE FlagTells'
    BY <1>3
  <2>1. CASE SetRobotStop(t)
    BY <2>1 DEF SetRobotStop
  <2>2. CASE SkipJoin(t)
    BY <2>2 DEF SkipJoin
  <2>3. CASE ResetSession(t)
    BY <2>3 DEF ResetSession
  <2>4. CASE ExchangeStop(t)
    BY <2>4 DEF ExchangeStop, ReturnOf, StopLabels
  <2>5. CASE Cancel(t)
    BY <2>5 DEF Cancel
  <2>6. CASE StopIoc(t)
    BY <2>6 DEF StopIoc, ReturnOf
  <2> QED BY <2>1, <2>2, <2>3, <2>4, <2>5, <2>6 DEF StopSteps
<1>4. CASE Handlers
  BY <1>4, HandlersKeepControl
<1>5. CASE Kill
  BY <1>5 DEF Kill
<1> QED BY StepsSorted, <1>1, <1>2, <1>3, <1>4, <1>5

\* The first caller of BiliLiveSession::stop cleans up, the others do not.
LEMMA KeepsFirstCallerOnly ==
    ASSUME IInv, Next
    PROVE  FirstCallerOnly'
<1> USE DEF IInv, TypeOK, WhoIsWhere, FirstCallerOnly, Cancelling, Threads, Goto, StopPath,
        SessionPath, sessionVars, None, Ops, Steps, MaxWrites
<1>1. CASE MainControl
  <2>1. CASE GetRoomInfo
    BY <2>1 DEF GetRoomInfo, PollTime
  <2>2. CASE RoomIsLiving
    BY <2>2 DEF RoomIsLiving
  <2>3. CASE RoomIsNotLiving
    BY <2>3 DEF RoomIsNotLiving
  <2>4. CASE Run
    BY <2>4 DEF Run
  <2>5. CASE LoadUID
    BY <2>5 DEF LoadUID
  <2>6. CASE StartThread
    BY <2>6 DEF StartThread
  <2>7. CASE JoinRobot
    BY <2>7 DEF JoinRobot
  <2> QED BY <1>1, <2>1, <2>2, <2>3, <2>4, <2>5, <2>6, <2>7 DEF MainControl
<1>2. CASE RobotControl
  <2>1. CASE Begin
    BY <2>1 DEF Begin
  <2>2. CASE CreateSession
    BY <2>2 DEF CreateSession
  <2>3. CASE EnterRun
    BY <2>3 DEF EnterRun
  <2>4. CASE InitRoomInfo
    BY <2>4 DEF InitRoomInfo, Post
  <2>5. CASE RunReturns
    BY <2>5 DEF RunReturns
  <2>6. CASE FinishThread
    BY <2>6 DEF FinishThread
  <2>7. CASE JoinSelf
    BY <2>7 DEF JoinSelf
  <2> QED BY <1>2, <2>1, <2>2, <2>3, <2>4, <2>5, <2>6, <2>7 DEF RobotControl
<1>3. CASE \E t \in Threads : StopSteps(t)
  <2> SUFFICES ASSUME NEW t \in Threads, StopSteps(t) PROVE FirstCallerOnly'
    BY <1>3
  <2>1. CASE SetRobotStop(t)
    BY <2>1 DEF SetRobotStop
  <2>2. CASE SkipJoin(t)
    BY <2>2 DEF SkipJoin
  <2>3. CASE ResetSession(t)
    BY <2>3 DEF ResetSession
  <2>4. CASE ExchangeStop(t)
    BY <2>4 DEF ExchangeStop, ReturnOf, StopLabels
  <2>5. CASE Cancel(t)
    BY <2>5 DEF Cancel, Post
  <2>6. CASE StopIoc(t)
    BY <2>6 DEF StopIoc, ReturnOf
  <2> QED BY <2>1, <2>2, <2>3, <2>4, <2>5, <2>6 DEF StopSteps
<1>4. CASE Handlers
  <2>1. CASE Proceed
    BY <2>1 DEF Proceed, Post, Successor
  <2>2. CASE OnAuth
    BY <2>2 DEF OnAuth, Post
  <2>3. CASE OnRead
    BY <2>3 DEF OnRead, Post
  <2>4. CASE OnWrite
    BY <2>4 DEF OnWrite
  <2>5. CASE DoPing
    BY <2>5 DEF DoPing, Post
  <2>6. CASE RearmTimer
    BY <2>6 DEF RearmTimer, Post
  <2>7. CASE \E op \in Ops : Fails(op) \/ Completes(op)
    BY <2>7 DEF Fails, Completes, Ready
  <2> QED BY <1>4, <2>1, <2>2, <2>3, <2>4, <2>5, <2>6, <2>7 DEF Handlers
<1>5. CASE Kill
  BY <1>5 DEF Kill
<1> QED BY StepsSorted, <1>1, <1>2, <1>3, <1>4, <1>5

\* Connecting, reading and pinging stay one chain.
LEMMA KeepsOneChain ==
    ASSUME IInv, Next
    PROVE  OneChain'
<1> USE DEF IInv, TypeOK, WhoIsWhere, OneChain, Connecting, UnderWay, Rearming, Threads, Goto,
        StopPath, SessionPath, sessionVars, None, Ops, Steps, MaxWrites
<1>1. CASE MainControl
  <2>1. CASE GetRoomInfo
    BY <2>1 DEF GetRoomInfo, PollTime
  <2>2. CASE RoomIsLiving
    BY <2>2 DEF RoomIsLiving
  <2>3. CASE RoomIsNotLiving
    BY <2>3 DEF RoomIsNotLiving
  <2>4. CASE Run
    BY <2>4 DEF Run
  <2>5. CASE LoadUID
    BY <2>5 DEF LoadUID
  <2>6. CASE StartThread
    BY <2>6 DEF StartThread
  <2>7. CASE JoinRobot
    BY <2>7 DEF JoinRobot
  <2> QED BY <1>1, <2>1, <2>2, <2>3, <2>4, <2>5, <2>6, <2>7 DEF MainControl
<1>2. CASE RobotControl
  <2>1. CASE Begin
    BY <2>1 DEF Begin
  <2>2. CASE CreateSession
    BY <2>2 DEF CreateSession
  <2>3. CASE EnterRun
    BY <2>3 DEF EnterRun
  <2>4. CASE InitRoomInfo
    BY <2>4 DEF InitRoomInfo, Post
  <2>5. CASE RunReturns
    BY <2>5 DEF RunReturns
  <2>6. CASE FinishThread
    BY <2>6 DEF FinishThread
  <2>7. CASE JoinSelf
    BY <2>7 DEF JoinSelf
  <2> QED BY <1>2, <2>1, <2>2, <2>3, <2>4, <2>5, <2>6, <2>7 DEF RobotControl
<1>3. CASE \E t \in Threads : StopSteps(t)
  <2> SUFFICES ASSUME NEW t \in Threads, StopSteps(t) PROVE OneChain'
    BY <1>3
  <2>1. CASE SetRobotStop(t)
    BY <2>1 DEF SetRobotStop
  <2>2. CASE SkipJoin(t)
    BY <2>2 DEF SkipJoin
  <2>3. CASE ResetSession(t)
    BY <2>3 DEF ResetSession
  <2>4. CASE ExchangeStop(t)
    BY <2>4 DEF ExchangeStop, ReturnOf, StopLabels
  <2>5. CASE Cancel(t)
    BY <2>5 DEF Cancel, Post
  <2>6. CASE StopIoc(t)
    BY <2>6 DEF StopIoc, ReturnOf
  <2> QED BY <2>1, <2>2, <2>3, <2>4, <2>5, <2>6 DEF StopSteps
<1>4. CASE Handlers
  <2>1. CASE Proceed
    BY <2>1 DEF Proceed, Post, Successor
  <2>2. CASE OnAuth
    BY <2>2 DEF OnAuth, Post
  <2>3. CASE OnRead
    BY <2>3 DEF OnRead, Post
  <2>4. CASE OnWrite
    BY <2>4 DEF OnWrite
  <2>5. CASE DoPing
    BY <2>5 DEF DoPing, Post
  <2>6. CASE RearmTimer
    BY <2>6 DEF RearmTimer, Post
  <2>7. CASE \E op \in Ops : Fails(op) \/ Completes(op)
    BY <2>7 DEF Fails, Completes, Ready
  <2> QED BY <1>4, <2>1, <2>2, <2>3, <2>4, <2>5, <2>6, <2>7 DEF Handlers
<1>5. CASE Kill
  BY <1>5 DEF Kill
<1> QED BY StepsSorted, <1>1, <1>2, <1>3, <1>4, <1>5

\* Control stays on the labels of the code.
LEMMA KeepsControlTypes ==
    ASSUME IInv, Next
    PROVE  ControlTypes'
<1> USE DEF IInv, TypeOK, WhoIsWhere, ControlTypes, Labels, Threads, Goto, Terminate, StopPath,
        SessionPath, robotVars
<1>1. CASE MainControl
  <2>1. CASE GetRoomInfo
    BY <2>1 DEF GetRoomInfo, PollTime
  <2>2. CASE RoomIsLiving
    BY <2>2 DEF RoomIsLiving
  <2>3. CASE RoomIsNotLiving
    BY <2>3 DEF RoomIsNotLiving
  <2>4. CASE Run
    BY <2>4 DEF Run
  <2>5. CASE LoadUID
    BY <2>5 DEF LoadUID
  <2>6. CASE StartThread
    BY <2>6 DEF StartThread
  <2>7. CASE JoinRobot
    BY <2>7 DEF JoinRobot
  <2> QED BY <1>1, <2>1, <2>2, <2>3, <2>4, <2>5, <2>6, <2>7 DEF MainControl
<1>2. CASE RobotControl
  <2>1. CASE Begin
    BY <2>1 DEF Begin
  <2>2. CASE CreateSession
    BY <2>2 DEF CreateSession
  <2>3. CASE EnterRun
    BY <2>3 DEF EnterRun
  <2>4. CASE InitRoomInfo
    BY <2>4 DEF InitRoomInfo, Post
  <2>5. CASE RunReturns
    BY <2>5 DEF RunReturns
  <2>6. CASE FinishThread
    BY <2>6 DEF FinishThread
  <2>7. CASE JoinSelf
    BY <2>7 DEF JoinSelf
  <2> QED BY <1>2, <2>1, <2>2, <2>3, <2>4, <2>5, <2>6, <2>7 DEF RobotControl
<1>3. CASE \E t \in Threads : StopSteps(t)
  <2> SUFFICES ASSUME NEW t \in Threads, StopSteps(t) PROVE ControlTypes'
    BY <1>3
  <2>1. CASE SetRobotStop(t)
    BY <2>1 DEF SetRobotStop
  <2>2. CASE SkipJoin(t)
    BY <2>2 DEF SkipJoin
  <2>3. CASE ResetSession(t)
    BY <2>3 DEF ResetSession
  <2>4. CASE ExchangeStop(t)
    BY <2>4 DEF ExchangeStop, ReturnOf, StopLabels
  <2>5. CASE Cancel(t)
    BY <2>5 DEF Cancel, Post
  <2>6. CASE StopIoc(t)
    BY <2>6 DEF StopIoc, ReturnOf
  <2> QED BY <2>1, <2>2, <2>3, <2>4, <2>5, <2>6 DEF StopSteps
<1>4. CASE Handlers
  <2>1. CASE Proceed
    BY <2>1 DEF Proceed, Post, Successor
  <2>2. CASE OnAuth
    BY <2>2 DEF OnAuth, Post
  <2>3. CASE OnRead
    BY <2>3 DEF OnRead, Post
  <2>4. CASE OnWrite
    BY <2>4 DEF OnWrite
  <2>5. CASE DoPing
    BY <2>5 DEF DoPing, Post
  <2>6. CASE RearmTimer
    BY <2>6 DEF RearmTimer, Post
  <2>7. CASE \E op \in Ops : Fails(op) \/ Completes(op)
    BY <2>7 DEF Fails, Completes, Ready
  <2> QED BY <1>4, <2>1, <2>2, <2>3, <2>4, <2>5, <2>6, <2>7 DEF Handlers
<1>5. CASE Kill
  BY <1>5 DEF Kill
<1> QED BY StepsSorted, <1>1, <1>2, <1>3, <1>4, <1>5

LEMMA NoneType == None \in [Ops -> 0..MaxWrites]
BY DEF None, MaxWrites

\* No more than MaxWrites operations of a kind are under way: this follows from
\* the chain and from the single cleanup.
LEMMA KeepsSessionTypes ==
    ASSUME IInv, Next
    PROVE  SessionTypes'
<1> USE DEF IInv, TypeOK, FirstCallerOnly, OneChain, Connecting, UnderWay, Rearming,
        SessionTypes, Threads, robotVars, sessionVars, None, Ops, Steps, MaxWrites
<1>1. CASE MainControl
  BY <1>1, MainKeepsSession
<1>2. CASE RobotControl
  <2>1. CASE Begin
    BY <2>1 DEF Begin
  <2>2. CASE CreateSession
    BY <2>2, NoneType DEF CreateSession
  <2>3. CASE EnterRun
    BY <2>3 DEF EnterRun
  <2>4. CASE InitRoomInfo
    BY <2>4 DEF InitRoomInfo, Post
  <2>5. CASE RunReturns
    BY <2>5 DEF RunReturns
  <2>6. CASE FinishThread
    BY <2>6 DEF FinishThread
  <2>7. CASE JoinSelf
    BY <2>7 DEF JoinSelf
  <2> QED BY <1>2, <2>1, <2>2, <2>3, <2>4, <2>5, <2>6, <2>7 DEF RobotControl
<1>3. CASE \E t \in Threads : StopSteps(t)
  <2> SUFFICES ASSUME NEW t \in Threads, StopSteps(t) PROVE SessionTypes'
    BY <1>3
  <2>1. CASE SetRobotStop(t)
    BY <2>1 DEF SetRobotStop
  <2>2. CASE SkipJoin(t)
    BY <2>2 DEF SkipJoin
  <2>3. CASE ResetSession(t)
    BY <2>3 DEF ResetSession
  <2>4. CASE ExchangeStop(t)
    BY <2>4 DEF ExchangeStop, ReturnOf, StopLabels
  <2>5. CASE Cancel(t)
    BY <2>5 DEF Cancel, Post
  <2>6. CASE StopIoc(t)
    BY <2>6 DEF StopIoc, ReturnOf
  <2> QED BY <2>1, <2>2, <2>3, <2>4, <2>5, <2>6 DEF StopSteps
<1>4. CASE Handlers
  <2>1. CASE Proceed
    BY <2>1 DEF Proceed, Post, Successor
  <2>2. CASE OnAuth
    BY <2>2 DEF OnAuth, Post
  <2>3. CASE OnRead
    BY <2>3 DEF OnRead, Post
  <2>4. CASE OnWrite
    BY <2>4 DEF OnWrite
  <2>5. CASE DoPing
    BY <2>5 DEF DoPing, Post
  <2>6. CASE RearmTimer
    BY <2>6 DEF RearmTimer, Post
  <2>7. CASE \E op \in Ops : Fails(op) \/ Completes(op)
    <3>1. PICK op \in Ops : Fails(op) \/ Completes(op)
      BY <2>7
    <3>2. /\ pending[op] \in 1..MaxWrites
          /\ pending' = [pending EXCEPT ![op] = @ - 1]
          /\ UNCHANGED <<iocStopped, cleanups>>
      BY <3>1 DEF Fails, Completes, Ready
    <3>3. sessionStop' \in BOOLEAN /\ wsOpen' \in BOOLEAN /\ handled' \in BOOLEAN
      BY <3>1 DEF Fails, Completes
    <3>4. handling' \in Ops \cup {"none", "rearm"}
      BY <3>1 DEF Fails, Completes
    <3> QED BY <3>2, <3>3, <3>4
  <2> QED BY <1>4, <2>1, <2>2, <2>3, <2>4, <2>5, <2>6, <2>7 DEF Handlers
<1>5. CASE Kill
  BY <1>5 DEF Kill
<1> QED BY StepsSorted, <1>1, <1>2, <1>3, <1>4, <1>5

-----------------------------------------------------------------------------
(* The theorems *)

LEMMA IInvAtStart == Init => IInv
<1> SUFFICES ASSUME Init PROVE IInv
  OBVIOUS
<1> USE DEF Init
<1>1. TypeOK
  BY NoneType DEF TypeOK, Threads, StopPath, SessionPath
<1>2. WhoIsWhere /\ FlagTells
  BY DEF WhoIsWhere, FlagTells, NoOrphanSession, Threads, StopPath, SessionPath, StopsAfterFlag
<1>3. \A op \in Ops : UnderWay(op) = 0
  BY DEF UnderWay, None, Ops, Steps
<1>4. FirstCallerOnly
  BY DEF FirstCallerOnly, Cancelling, Threads, None, Ops, Steps
<1>5. OneChain
  BY <1>3 DEF OneChain, Connecting, Rearming, Ops, Steps
<1> QED BY <1>1, <1>2, <1>4, <1>5 DEF IInv

LEMMA NextKeepsIInv == IInv /\ [Next]_vars => IInv'
<1>1. IInv /\ UNCHANGED vars => IInv'
  BY DEF IInv, TypeOK, WhoIsWhere, FlagTells, FirstCallerOnly, OneChain, NoOrphanSession,
         Cancelling, Connecting, UnderWay, Rearming, vars, robotVars, sessionVars
<1>2. ASSUME IInv, Next PROVE IInv'
  BY <1>2, KeepsControlTypes, KeepsSessionTypes, KeepsWhoIsWhere, KeepsFlagTells,
     KeepsFirstCallerOnly, KeepsOneChain DEF IInv, TypeOK, ControlTypes, SessionTypes, Labels
<1> QED BY <1>1, <1>2

LEMMA IInvAlways == Spec => []IInv
BY IInvAtStart, NextKeepsIInv, PTL DEF Spec

-----------------------------------------------------------------------------
(* A stop is not lost, if a new thread gets to its network calls in time   *)

\* Once the main thread has exchanged the flag of a session that is at work it
\* stays set, because the robot thread is past EnterRun; a session that is told
\* before its io_context runs finds it stopped.
StopLasts ==
    /\ pc["main"] # "poll" => pc["robot"] \notin Prologue
    /\ pc["robot"] \in SessionPath \ {"create"} => hasSession
    /\ pc["main"] \in {"cancelSession", "stopIoc", "join"} /\ pc["robot"] \in SessionPath => sessionStop
    /\ pc["robot"] = "initRoomInfo" /\ sessionStop => pc["main"] \in {"cancelSession", "stopIoc"} \/ iocStopped
    /\ pc["robot"] \in {"enter", "initRoomInfo", "stopFailed", "cancelFailed", "stopFailedIoc"} => ~wsOpen

LEMMA KeepsStopLasts ==
    ASSUME ~SlowStart, IInv, StopLasts, Next
    PROVE  StopLasts'
<1> USE DEF IInv, TypeOK, WhoIsWhere, FlagTells, StopLasts, Threads, Goto, StopPath, SessionPath, Prologue,
        robotVars, sessionVars
<1>1. CASE MainControl
  <2>1. CASE GetRoomInfo
    BY <2>1 DEF GetRoomInfo, PollTime
  <2>2. CASE RoomIsLiving \/ RoomIsNotLiving \/ Run \/ LoadUID \/ StartThread \/ JoinRobot
    BY <2>2 DEF RoomIsLiving, RoomIsNotLiving, Run, LoadUID, StartThread, JoinRobot
  <2> QED BY <1>1, <2>1, <2>2 DEF MainControl
<1>2. CASE RobotControl
  <2>1. CASE Begin \/ CreateSession \/ EnterRun
    BY <2>1 DEF Begin, CreateSession, EnterRun
  <2>2. CASE InitRoomInfo \/ RunReturns \/ FinishThread \/ JoinSelf
    BY <2>2 DEF InitRoomInfo, RunReturns, FinishThread, JoinSelf
  <2> QED BY <1>2, <2>1, <2>2 DEF RobotControl
<1>3. CASE \E t \in Threads : StopSteps(t)
  <2> SUFFICES ASSUME NEW t \in Threads, StopSteps(t) PROVE StopLasts'
    BY <1>3
  <2>1. CASE SetRobotStop(t)
    BY <2>1 DEF SetRobotStop
  <2>2. CASE SkipJoin(t) \/ ResetSession(t)
    BY <2>2 DEF SkipJoin, ResetSession
  <2>3. CASE ExchangeStop(t)
    BY <2>3 DEF ExchangeStop, ReturnOf, StopLabels
  <2>4. CASE Cancel(t)
    BY <2>4 DEF Cancel
  <2>5. CASE StopIoc(t)
    BY <2>5 DEF StopIoc, ReturnOf
  <2> QED BY <2>1, <2>2, <2>3, <2>4, <2>5 DEF StopSteps
<1>4. CASE Handlers
  <2>1. UNCHANGED <<pc, hasSession>>
    BY <1>4, HandlersKeepControl
  <2>2. /\ sessionStop => sessionStop'
        /\ UNCHANGED iocStopped
        /\ pc["robot"] = "loop" \/ UNCHANGED <<sessionStop, wsOpen>>
    BY <1>4 DEF Handlers, Proceed, OnAuth, OnRead, OnWrite, DoPing, RearmTimer, Fails, Completes, Ready
  <2> QED BY <2>1, <2>2
<1>5. CASE Kill
  BY <1>5 DEF Kill
<1> QED BY StepsSorted, <1>1, <1>2, <1>3, <1>4, <1>5

LEMMA StopLastsAtStart == Init => StopLasts
BY DEF Init, StopLasts, Threads, Prologue, SessionPath

\* What a step may do while the main thread waits for the robot thread.
Draining ==
    pc["main"] = "join" /\ pc["robot"] \in SessionPath =>
        /\ sessionStop'
        /\ \/ iocStopped \/ handling # "none"
           \/ \A op \in Ops : pending'[op] <= pending[op]

LEMMA StepDrains ==
    ASSUME IInv, StopLasts, Next
    PROVE  Draining
<1> SUFFICES ASSUME pc["main"] = "join", pc["robot"] \in SessionPath
             PROVE  /\ sessionStop'
                    /\ iocStopped \/ handling # "none" \/ \A op \in Ops : pending'[op] <= pending[op]
  BY DEF Draining
<1> USE DEF Threads, Goto, StopPath, SessionPath, Prologue, sessionVars
<1>1. /\ sessionStop /\ pc["robot"] \notin Prologue
      /\ pc["robot"] = "initRoomInfo" => iocStopped
      /\ pc["robot"] = "cancelFailed" => ~wsOpen
      /\ \A op \in Ops : pending[op] \in Nat
  BY DEF StopLasts, IInv, TypeOK
<1>2. CASE MainControl
  BY <1>1, <1>2, MainKeepsSession
<1>3. CASE RobotControl
  <2>1. ~Begin /\ ~CreateSession /\ ~EnterRun /\ ~FinishThread
    BY <1>1 DEF Begin, CreateSession, EnterRun, FinishThread
  <2>2. CASE InitRoomInfo
    BY <1>1, <2>2 DEF InitRoomInfo
  <2>3. CASE RunReturns \/ JoinSelf
    <3>1. UNCHANGED <<sessionStop, pending>>
      BY <2>3 DEF RunReturns, JoinSelf
    <3> QED BY <1>1, <3>1
  <2> QED BY <1>3, <2>1, <2>2, <2>3 DEF RobotControl
<1>4. CASE \E t \in Threads : StopSteps(t)
  <2> SUFFICES ASSUME NEW t \in Threads, StopSteps(t)
               PROVE  sessionStop' /\ UNCHANGED pending
    BY <1>1, <1>4
  <2> QED BY <1>1 DEF StopSteps, SetRobotStop, SkipJoin, ResetSession, ExchangeStop, Cancel, StopIoc, StopLabels
<1>5. CASE Handlers
  <2>1. sessionStop'
    BY <1>1, <1>5 DEF Handlers, Proceed, OnAuth, OnRead, OnWrite, DoPing, RearmTimer, Fails, Completes
  <2>2. ASSUME handling = "none"
        PROVE  \A op \in Ops : pending'[op] <= pending[op]
    <3>1. PICK op \in Ops : Fails(op) \/ Completes(op)
      BY <1>5, <2>2 DEF Handlers, Proceed, OnAuth, OnRead, OnWrite, DoPing, RearmTimer, Steps
    <3>2. pending \in [Ops -> Nat] /\ pending' = [pending EXCEPT ![op] = @ - 1]
      BY <3>1 DEF Fails, Completes, IInv, TypeOK
    <3> QED BY <3>2
  <2> QED BY <2>1, <2>2
<1>6. CASE Kill
  BY <1>1, <1>6 DEF Kill
<1> QED BY StepsSorted, <1>2, <1>3, <1>4, <1>5, <1>6

-----------------------------------------------------------------------------
(* The refinement of Robot *)

\* A step that ends the process is Die; the others are steps of Robot, or leave
\* what it sees alone.
LEMMA StepOfRobot ==
    ASSUME IInv, Next
    PROVE  Robot!Next \/ UNCHANGED RobotPhase
<1> USE DEF RobotPhase, Alive
<1>a. terminated = "no"
  BY DEF Next
<1>1. CASE terminated' # "no"
  <2>1. RobotPhase \in Robot!Phases \ {"dead"} /\ RobotPhase' = "dead"
    BY <1>a, <1>1 DEF Robot!Phases
  <2> QED BY <2>1 DEF Robot!Next, Robot!Die, Robot!Move
<1>2. CASE terminated' = "no"
  <2> USE <1>a, <1>2 DEF IInv, TypeOK, WhoIsWhere, FlagTells, NoOrphanSession, StopsAfterFlag, Threads,
          Goto, StopPath, SessionPath, robotVars, sessionVars
  <2>1. CASE MainControl
    <3>1. CASE GetRoomInfo \/ RoomIsLiving \/ RoomIsNotLiving \/ Run
      BY <3>1 DEF GetRoomInfo, PollTime, RoomIsLiving, RoomIsNotLiving, Run
    <3>4. CASE JoinRobot
      <4>1. RobotPhase = "over" /\ RobotPhase' \in {"over", "off"}
        BY <3>4 DEF JoinRobot
      <4> QED BY <4>1 DEF Robot!Next, Robot!Release, Robot!Move
    <3>2. CASE LoadUID
      <4>1. \/ RobotPhase = "off" /\ RobotPhase' \in {"off", "starting"}
            \/ RobotPhase = "over" /\ RobotPhase' \in {"over", "doomed"}
        BY <3>2 DEF LoadUID
      <4> QED BY <4>1 DEF Robot!Next, Robot!Start, Robot!Doom, Robot!Move
    <3>3. CASE StartThread
      BY <3>3 DEF StartThread, Terminate
    <3> QED BY <2>1, <3>1, <3>2, <3>3, <3>4 DEF MainControl
  <2>2. CASE RobotControl
    <3>1. CASE Begin
      <4>1. \/ RobotPhase = "starting" /\ RobotPhase' = "working"
            \/ UNCHANGED RobotPhase
        BY <3>1 DEF Begin
      <4> QED BY <4>1 DEF Robot!Next, Robot!Work, Robot!Move
    <3>2. CASE CreateSession \/ EnterRun \/ InitRoomInfo
      BY <3>2 DEF CreateSession, EnterRun, InitRoomInfo
    <3>3. CASE RunReturns
      <4>1. \/ RobotPhase = "working" /\ RobotPhase' = "lost"
            \/ RobotPhase = "closing" /\ RobotPhase' = "over"
        BY <3>3 DEF RunReturns
      <4> QED BY <4>1 DEF Robot!Next, Robot!Lose, Robot!Retire, Robot!Move
    <3>4. CASE FinishThread
      <4>1. \/ RobotPhase = "lost" /\ RobotPhase' = "over"
            \/ UNCHANGED RobotPhase
        BY <3>4 DEF FinishThread
      <4> QED BY <4>1 DEF Robot!Next, Robot!Retire, Robot!Move
    <3>5. CASE JoinSelf
      BY <3>5 DEF JoinSelf, Terminate
    <3> QED BY <2>2, <3>1, <3>2, <3>3, <3>4, <3>5 DEF RobotControl
  <2>3. ASSUME NEW t \in Threads, StopSteps(t)
        PROVE  Robot!Next \/ UNCHANGED RobotPhase
    <3>1. CASE SetRobotStop(t)
      <4>1. \/ RobotPhase \in {"starting", "lost"} /\ RobotPhase' = "over"
            \/ RobotPhase = "working" /\ RobotPhase' = "closing"
            \/ UNCHANGED RobotPhase
        BY <3>1 DEF SetRobotStop
      <4> QED BY <4>1 DEF Robot!Next, Robot!Close, Robot!Retire, Robot!Move
    <3>2. CASE SkipJoin(t) \/ ResetSession(t)
      <4>1. \/ RobotPhase = "over" /\ RobotPhase' = "off"
            \/ UNCHANGED RobotPhase
        BY <3>2 DEF SkipJoin, ResetSession
      <4> QED BY <4>1 DEF Robot!Next, Robot!Release, Robot!Move
    <3>3. CASE ExchangeStop(t) \/ Cancel(t) \/ StopIoc(t)
      <4>1. \/ RobotPhase = "working" /\ RobotPhase' = "lost"
            \/ RobotPhase = "closing" /\ RobotPhase' = "over"
            \/ UNCHANGED RobotPhase
        BY <3>3 DEF ExchangeStop, Cancel, StopIoc, ReturnOf, StopLabels
      <4> QED BY <4>1 DEF Robot!Next, Robot!Lose, Robot!Retire, Robot!Move
    <3> QED BY <2>3, <3>1, <3>2, <3>3 DEF StopSteps
  <2>4. CASE Handlers
    BY <2>4, HandlersKeepControl
  <2>5. CASE Kill
    BY <2>5 DEF Kill, Terminate
  <2> QED BY StepsSorted, <2>1, <2>2, <2>3, <2>4, <2>5
<1> QED BY <1>1, <1>2

\* The loop, the threads and the session together are a Robot.
THEOREM RobotIsImplemented == Spec => ImplementsRobot
<1>1. Init => Robot!Init
  BY DEF Init, Robot!Init, RobotPhase, Alive, SessionPath, Threads
<1>2. IInv /\ [Next]_vars => [Robot!Next]_RobotPhase
  BY StepOfRobot DEF vars, robotVars, RobotPhase, Alive
<1> QED BY <1>1, <1>2, IInvAlways, PTL DEF Spec, ImplementsRobot, Robot!Spec

\* The variables of the main thread, the robot and the session keep their types;
\* in particular no kind of operation is started a third time while two are
\* under way.
THEOREM Types == Spec => []TypeOK
<1>1. IInv => TypeOK
  BY DEF IInv
<1> QED BY IInvAlways, <1>1, PTL

\* While the robot thread works for a session, Robot::IsRunning says so or the
\* main thread waits for it in Robot::Stop: the loop of cli.cpp never starts a
\* second session beside the first.
THEOREM SessionsAreNotOrphaned == Spec => []NoOrphanSession
<1>1. IInv => NoOrphanSession
  BY DEF IInv, FlagTells
<1> QED BY IInvAlways, <1>1, PTL

\* A session that ended on its own does not leave Robot::IsRunning true.
THEOREM LostSessionsAreNoticed == Spec => []LostSessionIsNoticed
<1>1. IInv => LostSessionIsNoticed
  BY DEF IInv, FlagTells, LostSessionIsNoticed
<1> QED BY IInvAlways, <1>1, PTL

\* What the invariant says of the operations and the cleanup of a session.
LEMMA InvariantsOfSession == IInv => OneReadOneTimer /\ CleanedUpOnce
<1>1. IInv => OneReadOneTimer
  BY DEF IInv, TypeOK, OneChain, OneReadOneTimer, Connecting, Rearming, UnderWay, Ops, Steps, MaxWrites
<1>2. IInv => CleanedUpOnce
  BY DEF IInv, FirstCallerOnly, CleanedUpOnce
<1> QED BY <1>1, <1>2

\* Whatever completes, fails or is cancelled, the handlers of BiliLiveSession
\* keep at most one read and one timer under way.
THEOREM ReadsAndTimersAreSingle == Spec => []OneReadOneTimer
<1> QED BY IInvAlways, InvariantsOfSession, PTL

\* BiliLiveSession::stop cleans a session up at most once, whoever calls it.
THEOREM CleanupsAreSingle == Spec => []CleanedUpOnce
<1> QED BY IInvAlways, InvariantsOfSession, PTL

\* If a new thread gets to its network calls before the next poll, Robot::Stop of
\* the main thread does not wait for a session that goes on as if nobody had
\* stopped it: its flag stays set and no operation is begun that was not being
\* begun already.
THEOREM StopsDrain ==
    ASSUME ~SlowStart
    PROVE  Spec => StopDrains
<1>1. Init => StopLasts
  BY StopLastsAtStart
<1>2. IInv /\ StopLasts /\ [Next]_vars => StopLasts'
  <2>1. StopLasts /\ UNCHANGED vars => StopLasts'
    BY DEF StopLasts, vars, robotVars, sessionVars
  <2> QED BY <2>1, KeepsStopLasts
<1>3. IInv /\ StopLasts /\ [Next]_vars => [Draining]_vars
  BY StepDrains
<1> QED BY <1>1, <1>2, <1>3, IInvAlways, PTL DEF Spec, StopDrains, Draining
=============================================================================
