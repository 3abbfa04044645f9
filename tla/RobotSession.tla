---------------------------- MODULE RobotSession ----------------------------
(***************************************************************************)
(* Entity/Robot, Util/BiliUtil/BiliLiveSession and the loop of cli.cpp.    *)
(* The main thread polls the room, starts the robot when the room goes     *)
(* live and stops it when it no longer is.  The robot thread makes a       *)
(* session, fetches the address of the message server and runs the         *)
(* io_context of the session, whose handlers connect, authenticate, read   *)
(* and ping.  Both threads may be in Robot::Stop and BiliLiveSession::stop *)
(* at the same time.                                                       *)
(***************************************************************************)
EXTENDS Integers

CONSTANTS
    SlowStart   \* may a new thread take longer than the 60 s between two
                \* polls to reach the network calls of BiliLiveSession::run?

ASSUME SlowStartAssumption == SlowStart \in BOOLEAN

Threads == {"main", "robot"}

\* The asynchronous operations, each with the handler that completes it.
Steps == {"resolve", "connect", "sslHandshake", "handshake", "auth"}
Ops   == Steps \cup {"read", "write", "timer", "close"}
None  == [op \in Ops |-> 0]
Successor == [op \in Steps \ {"auth"} |->
                CASE op = "resolve" -> "connect"
                  [] op = "connect" -> "sslHandshake"
                  [] op = "sslHandshake" -> "handshake"
                  [] op = "handshake" -> "auth"]

VARIABLES
    robotStop,      \* Robot::stopFlag
    hasSession,     \* Robot::liveSessionPtr is not null
    joinable,       \* Robot::robotThread holds a thread that was not joined
    pc,             \* where the main and the robot thread are
    sessionStop,    \* BiliLiveSession::stopFlag
    iocStopped,     \* io_context::stop was called
    wsOpen,         \* ws.is_open()
    pending,        \* how many operations of each kind are under way
    handling,       \* the operation whose handler runs
    handled,        \* has io_context::run run a handler?
    cleanups,       \* history: how often stop cleaned this session up
    terminated      \* how the process ended, or "no"

robotVars   == <<robotStop, hasSession, joinable>>
sessionVars == <<sessionStop, iocStopped, wsOpen, pending, handling, handled, cleanups>>
vars == <<robotVars, sessionVars, pc, terminated>>

Init ==
    /\ robotStop = TRUE /\ hasSession = FALSE /\ joinable = FALSE
    /\ pc = [t \in Threads |-> IF t = "main" THEN "poll" ELSE "none"]
    /\ sessionStop = TRUE /\ iocStopped = FALSE /\ wsOpen = FALSE
    /\ pending = None /\ handling = "none" /\ handled = FALSE
    /\ cleanups = 0
    /\ terminated = "no"

Goto(t, label) == pc' = [pc EXCEPT ![t] = label]
Terminate(how) == terminated' = how
Post(ops) == pending' = [op \in Ops |-> IF op \in ops THEN pending[op] + 1 ELSE pending[op]]

-----------------------------------------------------------------------------
(* The loop of cli.cpp.  A request that fails changes nothing.             *)

Prologue == {"begin", "create", "enter"}
PollTime == pc["main"] = "poll" /\ (SlowStart \/ pc["robot"] \notin Prologue)

\* The room is asked for, at least 60 s after the last time; an answer that is
\* not what it should be is an exception nobody catches.
GetRoomInfo ==
    /\ PollTime
    /\ \/ Goto("main", "decide") /\ UNCHANGED terminated
       \/ Terminate("uncaught") /\ UNCHANGED pc
    /\ UNCHANGED <<robotVars, sessionVars>>

RoomIsLiving ==
    /\ pc["main"] = "decide"
    /\ Goto("main", IF robotStop THEN "run" ELSE "poll")
    /\ UNCHANGED <<robotVars, sessionVars, terminated>>

RoomIsNotLiving ==
    /\ pc["main"] = "decide"
    /\ Goto("main", IF robotStop THEN "poll" ELSE "stop")
    /\ UNCHANGED <<robotVars, sessionVars, terminated>>

\* Robot::Run returns at once if the robot runs.
Run ==
    /\ pc["main"] = "run"
    /\ Goto("main", IF robotStop THEN "loadUID" ELSE "poll")
    /\ UNCHANGED <<robotVars, sessionVars, terminated>>

\* Config::LoadUID makes a request; when it fails Run returns, otherwise the
\* flag is cleared.  It too may throw.
LoadUID ==
    /\ pc["main"] = "loadUID"
    /\ \/ Goto("main", "poll") /\ UNCHANGED <<robotStop, terminated>>
       \/ robotStop' = FALSE /\ Goto("main", "startThread") /\ UNCHANGED terminated
       \/ Terminate("uncaught") /\ UNCHANGED <<robotStop, pc>>
    /\ UNCHANGED <<hasSession, joinable, sessionVars>>

\* The new thread is assigned to robotThread.  Assigning to a std::thread that
\* is still joinable calls std::terminate.
StartThread ==
    /\ pc["main"] = "startThread"
    /\ IF joinable
       THEN Terminate("assigned") /\ UNCHANGED <<joinable, pc>>
       ELSE /\ joinable' = TRUE
            /\ pc' = [pc EXCEPT !["main"] = "poll", !["robot"] = "begin"]
            /\ UNCHANGED terminated
    /\ UNCHANGED <<robotStop, hasSession, sessionVars>>

-----------------------------------------------------------------------------
(* Robot::Stop, called by the main thread or by the robot thread itself    *)

SetRobotStop(t) ==
    /\ pc[t] = "stop"
    /\ robotStop' = TRUE
    /\ Goto(t, IF hasSession THEN "stopSession" ELSE "join")
    /\ UNCHANGED <<hasSession, joinable, sessionVars, terminated>>

\* The thread was joined before, or never started.
SkipJoin(t) ==
    /\ pc[t] = "join" /\ ~joinable
    /\ Goto(t, "reset")
    /\ UNCHANGED <<robotVars, sessionVars, terminated>>

\* A thread that joins itself gets an exception nobody catches.
JoinSelf ==
    /\ pc["robot"] = "join" /\ joinable
    /\ Terminate("selfJoin")
    /\ UNCHANGED <<robotVars, sessionVars, pc>>

\* Faulty variant: the thread is detached instead of joined.
DetachRobot ==
    /\ pc["main"] = "join" /\ joinable
    /\ joinable' = FALSE
    /\ Goto("main", "reset")
    /\ UNCHANGED <<robotStop, hasSession, sessionVars, terminated>>

\* The main thread sleeps in join until the robot thread is over.
JoinRobot ==
    /\ pc["main"] = "join" /\ joinable /\ pc["robot"] = "ended"
    /\ joinable' = FALSE
    /\ Goto("main", "reset")
    /\ UNCHANGED <<robotStop, hasSession, sessionVars, terminated>>

ResetSession(t) ==
    /\ pc[t] = "reset"
    /\ hasSession' = FALSE
    /\ Goto(t, IF t = "main" THEN "poll" ELSE "ended")
    /\ UNCHANGED <<robotStop, joinable, sessionVars, terminated>>

-----------------------------------------------------------------------------
(* BiliLiveSession::stop, called from Robot::Stop ("stopSession") or from  *)
(* BiliLiveSession::run ("stopFailed")                                     *)

StopLabels == {"stopSession", "stopFailed"}
\* Where the caller is when stop returns: in Robot::Stop before the join, or
\* in RobotThread, which calls Robot::Stop because run returned false.
ReturnOf(label) == IF label \in {"stopSession", "cancelSession", "stopIoc"} THEN "join" ELSE "stop"

\* Faulty variant: the flag is set, but the value it had is not looked at.
ExchangeStopBlindly(t) ==
    /\ pc[t] \in StopLabels
    /\ sessionStop' = TRUE
    /\ Goto(t, IF pc[t] = "stopSession" THEN "cancelSession" ELSE "cancelFailed")
    /\ UNCHANGED <<robotVars, iocStopped, wsOpen, pending, handling, handled, cleanups, terminated>>


\* The flag is exchanged: only the first caller goes on.
ExchangeStop(t) ==
    /\ pc[t] \in StopLabels
    /\ sessionStop' = TRUE
    /\ Goto(t, IF sessionStop THEN ReturnOf(pc[t])
               ELSE IF pc[t] = "stopSession" THEN "cancelSession" ELSE "cancelFailed")
    /\ UNCHANGED <<robotVars, iocStopped, wsOpen, pending, handling, handled, cleanups, terminated>>

\* pingTimer and resolver are cancelled and a close is begun if the socket is
\* open; what is cancelled stays pending until its handler has run.
Cancel(t) ==
    /\ pc[t] \in {"cancelSession", "cancelFailed"}
    /\ cleanups' = cleanups + 1
    /\ IF wsOpen THEN Post({"close"}) ELSE UNCHANGED pending
    /\ Goto(t, IF pc[t] = "cancelSession" THEN "stopIoc" ELSE "stopFailedIoc")
    /\ UNCHANGED <<robotVars, sessionStop, iocStopped, wsOpen, handling, handled, terminated>>

StopIoc(t) ==
    /\ pc[t] \in {"stopIoc", "stopFailedIoc"}
    /\ iocStopped' = TRUE
    /\ Goto(t, ReturnOf(pc[t]))
    /\ UNCHANGED <<robotVars, sessionStop, wsOpen, pending, handling, handled, cleanups, terminated>>

-----------------------------------------------------------------------------
(* Robot::RobotThread and BiliLiveSession::run *)

\* RobotThread looks at the flag and at the pointer, and gives up if the robot
\* was stopped or a session is left.
Begin ==
    /\ pc["robot"] = "begin"
    /\ Goto("robot", IF robotStop \/ hasSession THEN "ended" ELSE "create")
    /\ UNCHANGED <<robotVars, sessionVars, terminated>>

\* A new session replaces what is left of the last one.
CreateSession ==
    /\ pc["robot"] = "create"
    /\ hasSession' = TRUE
    /\ sessionStop' = TRUE /\ iocStopped' = FALSE /\ wsOpen' = FALSE
    /\ pending' = None /\ handling' = "none" /\ handled' = FALSE /\ cleanups' = 0
    /\ Goto("robot", "enter")
    /\ UNCHANGED <<robotStop, joinable, terminated>>

\* BiliLiveSession::run stores FALSE in the flag of the session, which the
\* constructor left TRUE.
EnterRun ==
    /\ pc["robot"] = "enter"
    /\ sessionStop' = FALSE
    /\ Goto("robot", "initRoomInfo")
    /\ UNCHANGED <<robotVars, iocStopped, wsOpen, pending, handling, handled, cleanups, terminated>>

\* Faulty variant: the flag is cleared once the message server is known.
InitRoomInfoThenFlag ==
    /\ pc["robot"] = "initRoomInfo"
    /\ \/ Post({"resolve"}) /\ Goto("robot", "loop") /\ sessionStop' = FALSE /\ UNCHANGED terminated
       \/ Goto("robot", "stopFailed") /\ UNCHANGED <<sessionStop, pending, terminated>>
       \/ Terminate("uncaught") /\ UNCHANGED <<sessionStop, pending, pc>>
    /\ UNCHANGED <<robotVars, iocStopped, wsOpen, handling, handled, cleanups>>

\* InitRoomInfo asks for the message server: it succeeds, returns false, or
\* throws what nobody catches.
InitRoomInfo ==
    /\ pc["robot"] = "initRoomInfo"
    /\ \/ Post({"resolve"}) /\ Goto("robot", "loop") /\ UNCHANGED terminated
       \/ Goto("robot", "stopFailed") /\ UNCHANGED <<pending, terminated>>
       \/ Terminate("uncaught") /\ UNCHANGED <<pending, pc>>
    /\ UNCHANGED <<robotVars, sessionStop, iocStopped, wsOpen, handling, handled, cleanups>>

\* io_context::run returns when it is stopped or has nothing left to do.  The
\* number of handlers it ran becomes the result of BiliLiveSession::run.
RunReturns ==
    /\ pc["robot"] = "loop" /\ handling = "none"
    /\ iocStopped \/ pending = None
    /\ Goto("robot", IF handled THEN "finish" ELSE "stop")
    /\ UNCHANGED <<robotVars, sessionVars, terminated>>

\* Faulty variant: the flag is left as it is when the session is over.
FinishThreadSilently ==
    /\ pc["robot"] = "finish"
    /\ Goto("robot", "ended")
    /\ UNCHANGED <<robotVars, sessionVars, terminated>>

FinishThread ==
    /\ pc["robot"] = "finish"
    /\ robotStop' = TRUE
    /\ Goto("robot", "ended")
    /\ UNCHANGED <<hasSession, joinable, sessionVars, terminated>>

-----------------------------------------------------------------------------
(* The handlers.  The first step of each looks at the error code and at    *)
(* the flag; the second acts on what it saw, whatever the main thread did  *)
(* meanwhile.                                                              *)

Ready(op) == pc["robot"] = "loop" /\ handling = "none" /\ ~iocStopped /\ pending[op] > 0

\* Errors of a read, a write or the close set the flag; the other handlers
\* only return.  A timer fails when it is cancelled.
Fails(op) ==
    /\ Ready(op)
    /\ op = "timer" => sessionStop
    /\ pending' = [pending EXCEPT ![op] = @ - 1]
    /\ handled' = TRUE
    /\ sessionStop' = (sessionStop \/ op \in {"read", "write", "close"})
    /\ wsOpen' = (wsOpen /\ op \notin {"read", "write", "close"})
    /\ UNCHANGED <<robotVars, iocStopped, handling, cleanups, pc, terminated>>

Completes(op) ==
    /\ Ready(op)
    /\ op \in {"auth", "read", "write", "close"} => wsOpen
    /\ pending' = [pending EXCEPT ![op] = @ - 1]
    /\ handled' = TRUE
    /\ wsOpen' = (op = "handshake" \/ (wsOpen /\ op # "close"))
    /\ handling' = IF sessionStop \/ op = "close" THEN "none" ELSE op
    /\ UNCHANGED <<robotVars, sessionStop, iocStopped, cleanups, pc, terminated>>

\* on_resolve, on_connect, on_ssl_handshake and on_handshake start the next
\* operation; on_connect may fail to set the name of the host.
Proceed ==
    /\ handling \in Steps \ {"auth"}
    /\ \/ Post({Successor[handling]})
       \/ handling = "connect" /\ UNCHANGED pending
    /\ handling' = "none"
    /\ UNCHANGED <<robotVars, sessionStop, iocStopped, wsOpen, handled, cleanups, pc, terminated>>

OnAuth ==
    /\ handling = "auth"
    /\ Post({"read", "timer"})
    /\ handling' = "none"
    /\ UNCHANGED <<robotVars, sessionStop, iocStopped, wsOpen, handled, cleanups, pc, terminated>>

\* on_read hands the packet to the thread pool and reads on unless the flag
\* has been set since.  What Unpack throws leaves io_context::run and the
\* thread.
OnRead ==
    /\ handling = "read"
    /\ \/ /\ IF sessionStop THEN UNCHANGED pending ELSE Post({"read"})
          /\ handling' = "none"
          /\ UNCHANGED terminated
       \/ Terminate("uncaught") /\ UNCHANGED <<pending, handling>>
    /\ UNCHANGED <<robotVars, sessionStop, iocStopped, wsOpen, handled, cleanups, pc>>

\* Faulty variant: the handler of the ping's write reads on as well.
OnWriteReading ==
    /\ handling = "write"
    /\ IF sessionStop THEN UNCHANGED pending ELSE Post({"read"})
    /\ handling' = "none"
    /\ UNCHANGED <<robotVars, sessionStop, iocStopped, wsOpen, handled, cleanups, pc, terminated>>

OnWrite ==
    /\ handling = "write"
    /\ handling' = "none"
    /\ UNCHANGED <<robotVars, sessionStop, iocStopped, wsOpen, pending, handled, cleanups, pc, terminated>>

\* Bound: pings that are being written at the same time.  Nothing in the code
\* waits for one to be written before the next.
MaxWrites == 2

\* Faulty variant: do_ping sets the timer as well.
DoPingRearming ==
    /\ handling = "timer"
    /\ IF ~sessionStop /\ wsOpen /\ pending["write"] < MaxWrites THEN Post({"write", "timer"})
                                                                ELSE UNCHANGED pending
    /\ handling' = "rearm"
    /\ UNCHANGED <<robotVars, sessionStop, iocStopped, wsOpen, handled, cleanups, pc, terminated>>

\* do_ping, called by ping_task: a ping unless the flag has been set since or
\* the socket is closed.
DoPing ==
    /\ handling = "timer"
    /\ IF ~sessionStop /\ wsOpen /\ pending["write"] < MaxWrites THEN Post({"write"})
                                                                ELSE UNCHANGED pending
    /\ handling' = "rearm"
    /\ UNCHANGED <<robotVars, sessionStop, iocStopped, wsOpen, handled, cleanups, pc, terminated>>

\* The rest of ping_task: the timer is set again unless the flag has been set.
RearmTimer ==
    /\ handling = "rearm"
    /\ IF sessionStop THEN UNCHANGED pending ELSE Post({"timer"})
    /\ handling' = "none"
    /\ UNCHANGED <<robotVars, sessionStop, iocStopped, wsOpen, handled, cleanups, pc, terminated>>

-----------------------------------------------------------------------------
StopSteps(t) ==
    \/ SetRobotStop(t) \/ SkipJoin(t) \/ ResetSession(t)
    \/ ExchangeStop(t) \/ Cancel(t) \/ StopIoc(t)
MainSteps ==
    \/ RoomIsLiving \/ RoomIsNotLiving \/ Run \/ LoadUID \/ StartThread \/ JoinRobot \/ StopSteps("main")
RobotSteps ==
    \/ Begin \/ CreateSession \/ EnterRun \/ InitRoomInfo \/ RunReturns \/ FinishThread
    \/ JoinSelf \/ StopSteps("robot")
    \/ Proceed \/ OnAuth \/ OnRead \/ OnWrite \/ DoPing \/ RearmTimer

\* The process is killed, or what it runs on goes down.
Kill == Terminate("killed") /\ UNCHANGED <<robotVars, sessionVars, pc>>

Alive == terminated = "no"

Next ==
    /\ Alive
    /\ \/ GetRoomInfo \/ MainSteps \/ RobotSteps \/ Kill
       \/ \E op \in Ops : Fails(op) \/ Completes(op)

Spec == Init /\ [][Next]_vars

\* Both threads run while the process does, the timer expires, and the
\* asynchronous operations end: connecting and closing after 30 s at the latest,
\* a read when the socket is closed.  What waits for the server without a limit is
\* not fair: a read on an open socket and the requests of LoadUID and
\* InitRoomInfo.
Fairness ==
    /\ WF_vars(Alive /\ pc["main"] # "loadUID" /\ MainSteps)
    /\ WF_vars(Alive /\ pc["robot"] # "initRoomInfo" /\ RobotSteps)
    /\ \A op \in Ops \ {"read"} : WF_vars(Alive /\ (Fails(op) \/ Completes(op)))
    /\ WF_vars(Alive /\ ~wsOpen /\ Fails("read"))

FairSpec == Spec /\ Fairness

-----------------------------------------------------------------------------
(* Properties *)

StopPath == {"stop", "stopSession", "cancelSession", "stopIoc", "join", "reset"}
SessionPath == {"create", "enter", "initRoomInfo", "stopFailed", "cancelFailed", "stopFailedIoc",
                "loop"}

\* The variables keep their types.
TypeOK ==
    /\ robotStop \in BOOLEAN /\ hasSession \in BOOLEAN /\ joinable \in BOOLEAN
    /\ pc \in [Threads -> {"none", "poll", "decide", "run", "loadUID", "startThread", "begin", "finish", "ended"}
                             \cup StopPath \cup SessionPath]
    /\ sessionStop \in BOOLEAN /\ iocStopped \in BOOLEAN /\ wsOpen \in BOOLEAN
    /\ pending \in [Ops -> 0..MaxWrites]
    /\ handling \in Ops \cup {"none", "rearm"}
    /\ handled \in BOOLEAN
    /\ cleanups \in Nat
    /\ terminated \in {"no", "assigned", "selfJoin", "uncaught", "killed"}

\* While the robot thread works for a session, IsRunning() says so or the main
\* thread is waiting for it in Stop.  Otherwise the loop of cli.cpp would start
\* a second session beside the first, and Stop would release what the first
\* still uses.
NoOrphanSession ==
    pc["robot"] \in SessionPath =>
        ~robotStop \/ pc["main"] \in StopPath \ {"stop", "reset"}

\* A session that ended on its own does not leave IsRunning() true: the loop of
\* cli.cpp would never start another one.
LostSessionIsNoticed == pc["robot"] = "ended" /\ pc["main"] = "poll" => robotStop

\* The handlers keep one read and one timer going, never two, so packets are
\* handled in the order they arrive and the buffer has one user.
UnderWay(op) == pending[op] + (IF handling = op THEN 1 ELSE 0)
OneReadOneTimer ==
    /\ UnderWay("read") <= 1
    /\ UnderWay("timer") + (IF handling = "rearm" THEN 1 ELSE 0) <= 1

\* A session is cleaned up at most once, although run, the robot thread and the
\* main thread may all call stop.
CleanedUpOnce == cleanups <= 1

\* A stop is not lost: while the main thread waits for the robot thread the
\* session's flag stays set, and io_context::run gets nothing new to wait for.
\* Only the handler that was running may still add to it, and so may a session
\* whose io_context was stopped before it ran.
StopDrains ==
    [][pc["main"] = "join" /\ pc["robot"] \in SessionPath =>
          /\ sessionStop'
          /\ \/ iocStopped \/ handling # "none"
             \/ \A op \in Ops : pending'[op] <= pending[op]]_vars

\* What Robot calls phase.
RobotPhase ==
    IF ~Alive THEN "dead"
    ELSE IF pc["robot"] \in SessionPath THEN IF robotStop THEN "closing" ELSE "working"
    ELSE IF robotStop THEN IF joinable \/ hasSession THEN "over" ELSE "off"
    ELSE IF pc["main"] = "startThread" THEN IF joinable THEN "doomed" ELSE "starting"
    ELSE IF pc["robot"] = "begin" THEN "starting"
    ELSE "lost"

Robot == INSTANCE Robot WITH phase <- RobotPhase

\* The threads, flags and handlers together do no more than Robot allows: a
\* session begins only when the thread of the last was joined and its object
\* released, and is not taken up again once it was told to stop.  A start that
\* comes earlier never gets to a session.
ImplementsRobot == Robot!Spec


\* RobotThread cleans up with Robot::Stop when the session could not run
\* (Robot.cpp:115).
RobotThreadCleansUp == terminated # "selfJoin"

\* Run starts a robot that is not running (Robot.h:12).
RunStartsTheRobot == terminated # "assigned"
=============================================================================
