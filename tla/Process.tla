------------------------------ MODULE Process ------------------------------
(***************************************************************************)
(* One life of the process after the other: what cli.cpp does before its   *)
(* loop (the login by QR code of Util/BiliUtil/BiliLogin, the cookie of    *)
(* BiliRequestHeader and BiliCookie, Config::LoadFromJson, the database)   *)
(* and then the loop, which is RobotSession.  The process may exit, die or *)
(* be killed anywhere; of all it has, only the files last.                 *)
(***************************************************************************)
EXTENDS RobotSession

CONSTANT MaxStarts      \* bound: how often the process is started

ASSUME MaxStartsAssumption == MaxStarts \in Nat \ {0}

\* The cookie file the command line names (or "./cookie/bili_cookie.json"), and
\* the one BiliLogin writes, Config::GetCookiePath().
Files == {"given", "saved"}

\* What a file or a JSON object holds: nothing, not JSON (an empty or a cut-off
\* file), an object that lacks an entry, all the entries of a cookie.
Contents == {"absent", "unreadable", "partial", "complete"}

VARIABLES
    stage,          \* where main is before the loop, "loop", or "exited"
    samePath,       \* are the two files one?
    onDisk,         \* the files
    polls,          \* how often the login was asked for
    confirmed,      \* has somebody confirmed the QR code, which uses it up?
    cookieJson,     \* what GetLoginInfo read
    biliCookie,     \* BiliRequestHeader::biliCookie
    configLoaded,   \* did LoadFromJson succeed?
    isLogined,      \* Config::isLogined
    wbiMixKey,      \* is Config::wbiMixKey set?
    starts          \* history: how often the process was started

loginVars   == <<polls, confirmed, cookieJson>>
configVars  == <<configLoaded, isLogined, wbiMixKey>>
memory      == <<loginVars, biliCookie, configVars>>
startVars   == <<stage, samePath, onDisk, memory, starts>>
processVars == <<vars, startVars>>

Given == IF samePath THEN "saved" ELSE "given"

ProcessInit ==
    /\ Init
    /\ stage = "arguments"
    /\ samePath \in BOOLEAN
    /\ onDisk \in [Files -> {"absent", "complete"}]
    /\ polls = 0 /\ confirmed = FALSE /\ cookieJson = "absent"
    /\ biliCookie = "absent"
    /\ configLoaded = FALSE /\ isLogined = FALSE /\ wbiMixKey = FALSE
    /\ starts = 1

At(s)     == Alive /\ stage = s
Enter(s)  == stage' = s /\ UNCHANGED terminated
Exit      == Enter("exited")
\* An exception that main does not catch.
Throws    == Terminate("uncaught") /\ UNCHANGED stage

KeepRobot == UNCHANGED <<robotVars, sessionVars, pc>>

-----------------------------------------------------------------------------
(* main of cli.cpp, up to its loop *)

\* Faulty variant: it logs in although there is a cookie file.
CheckArgumentsAndLogin ==
    /\ At("arguments")
    /\ Enter("getLoginUrl")
    /\ UNCHANGED <<samePath, onDisk, memory, starts>> /\ KeepRobot

\* Without a configuration file it exits; without a cookie file it logs in.
CheckArguments ==
    /\ At("arguments")
    /\ \/ Exit
       \/ Enter(IF onDisk[Given] = "absent" THEN "getLoginUrl" ELSE "loadCookie")
    /\ UNCHANGED <<samePath, onDisk, memory, starts>> /\ KeepRobot

\* Faulty variant: the result of LoadBiliCookieByJson is not looked at.
LoadCookieBlindly(content, good, bad) ==
    /\ biliCookie' = content
    /\ Enter(good)

\* LoadBiliCookieByJson assigns the members one after another.  What an entry
\* that is missing or no number does depends on the build: an assertion, an
\* exception that is caught or one that is not.
LoadBiliCookieByJson(content, good, bad) ==
    /\ biliCookie' = content
    /\ IF content = "complete" THEN Enter(good) ELSE Enter(bad) \/ Throws

\* LoadBiliCookieByPath: the file cannot be opened, is not JSON, or is read.
LoadBiliCookieByPath ==
    /\ At("loadCookie")
    /\ \/ Exit /\ UNCHANGED biliCookie
       \/ onDisk[Given] = "unreadable" /\ Throws /\ UNCHANGED biliCookie
       \/ /\ onDisk[Given] \in {"partial", "complete"}
          /\ LoadBiliCookieByJson(onDisk[Given], "loadConfig", "exited")
    /\ UNCHANGED <<samePath, onDisk, loginVars, configVars, starts>> /\ KeepRobot

LoadFromJson ==
    /\ At("loadConfig")
    /\ \/ configLoaded' = TRUE /\ Enter("openDataBase")
       \/ UNCHANGED configLoaded /\ (Exit \/ Throws)
    /\ UNCHANGED <<samePath, onDisk, loginVars, biliCookie, isLogined, wbiMixKey, starts>> /\ KeepRobot

\* The constructor of DataBase opens the file and may throw; the result of Init
\* is not looked at.
OpenDataBase ==
    /\ At("openDataBase")
    /\ Enter("loop") \/ Throws
    /\ UNCHANGED <<samePath, onDisk, memory, starts>> /\ KeepRobot

-----------------------------------------------------------------------------
(* BiliLogin::GetLoginQRCode: the code is shown, then the login is polled    *)
(* every 2 s, MaxPolls times.                                                *)

MaxPolls == 15

GetLoginUrl ==
    /\ At("getLoginUrl")
    /\ Enter("poll") \/ Exit \/ Throws
    /\ UNCHANGED <<samePath, onDisk, memory, starts>> /\ KeepRobot

\* Faulty variant: after the last poll another round begins.
PollRoundAndRound ==
    /\ polls' = (polls + 1) % MaxPolls /\ cookieJson' = "absent"
    /\ Enter("poll")

\* Faulty variant: one poll too many.
PollOnceMore ==
    /\ polls' = polls + 1 /\ cookieJson' = "absent"
    /\ IF polls < MaxPolls THEN Enter("poll") ELSE Exit

\* GetLoginInfo returned false.
PollAgain ==
    /\ polls' = polls + 1 /\ cookieJson' = "absent"
    /\ IF polls + 1 < MaxPolls THEN Enter("poll") ELSE Exit

\* GetLoginInfo up to the answer to the poll.  Somebody may have confirmed the
\* code; the answer may then lack an entry of the cookie, or all of them.
GetLoginInfo ==
    /\ At("poll")
    /\ \/ PollAgain /\ UNCHANGED confirmed
       \/ Throws /\ UNCHANGED loginVars
       \/ /\ ~confirmed /\ confirmed' = TRUE
          /\ \/ PollAgain
             \/ /\ cookieJson' \in {"partial", "complete"}
                /\ Enter("openCookieFile") /\ UNCHANGED polls
    /\ UNCHANGED <<samePath, onDisk, biliCookie, configVars, starts>> /\ KeepRobot

\* Opening the file empties it.
OpenCookieFile ==
    /\ At("openCookieFile")
    /\ \/ PollAgain /\ UNCHANGED onDisk
       \/ /\ onDisk' = [onDisk EXCEPT !["saved"] = "unreadable"]
          /\ Enter("getBuvid") /\ UNCHANGED <<polls, cookieJson>>
    /\ UNCHANGED <<samePath, confirmed, biliCookie, configVars, starts>> /\ KeepRobot

\* The request for buvid3 and buvid4, with the file open; if it fails the file
\* stays empty.
GetBuvid ==
    /\ At("getBuvid")
    /\ \/ PollAgain
       \/ (Throws \/ Enter("saveCookie")) /\ UNCHANGED <<polls, cookieJson>>
    /\ UNCHANGED <<samePath, onDisk, confirmed, biliCookie, configVars, starts>> /\ KeepRobot

\* Whether the write succeeds is not looked at.
SaveCookie ==
    /\ At("saveCookie")
    /\ \E content \in {cookieJson, "unreadable"} : onDisk' = [onDisk EXCEPT !["saved"] = content]
    /\ Enter("adoptCookie")
    /\ UNCHANGED <<samePath, memory, starts>> /\ KeepRobot

\* The rest of GetLoginInfo, first what LoadBiliCookieByJson does.
AdoptCookie ==
    /\ At("adoptCookie")
    /\ LoadBiliCookieByJson(cookieJson, "loadUID", "pollAgain")
    /\ UNCHANGED <<samePath, onDisk, loginVars, configVars, starts>> /\ KeepRobot

GiveUpPoll ==
    /\ At("pollAgain")
    /\ PollAgain
    /\ UNCHANGED <<samePath, onDisk, confirmed, biliCookie, configVars, starts>> /\ KeepRobot

\* Config::LoadUID: whether it knows who is logged in and, if all goes well, has
\* the key.  The answer may say that nobody is logged in: that is no failure.
LoadUIDFails   == isLogined' \in BOOLEAN /\ UNCHANGED wbiMixKey
LoadUIDSucceeds == isLogined' \in BOOLEAN /\ wbiMixKey' = TRUE

\* The BiliLogin of main goes out of scope.
LoginIsOver == polls' = 0 /\ confirmed' = FALSE /\ cookieJson' = "absent"

\* GetLoginInfo does not look at the result of LoadUID but at IsLogined().
LoadUIDForLogin ==
    /\ At("loadUID")
    /\ \/ /\ LoadUIDFails \/ LoadUIDSucceeds
          /\ IF isLogined' THEN Enter("loadConfig") /\ LoginIsOver
                           ELSE PollAgain /\ UNCHANGED confirmed
       \/ Throws /\ UNCHANGED <<isLogined, wbiMixKey, loginVars>>
    /\ UNCHANGED <<samePath, onDisk, biliCookie, configLoaded, starts>> /\ KeepRobot

-----------------------------------------------------------------------------
(* The loop, and the next life *)

\* A step of RobotSession.  When it is LoadUID, Robot::Run goes on only if that
\* succeeded.
LoopStep ==
    /\ At("loop") /\ Next
    /\ IF LoadUID
       THEN /\ IF robotStop' THEN LoadUIDFails ELSE LoadUIDSucceeds
            /\ UNCHANGED <<stage, samePath, onDisk, loginVars, biliCookie, configLoaded, starts>>
       ELSE UNCHANGED startVars

KilledBeforeLoop == Alive /\ stage \notin {"loop", "exited"} /\ Kill /\ UNCHANGED startVars

\* Somebody starts the process again.
Start ==
    /\ ~Alive \/ stage = "exited"
    /\ starts < MaxStarts /\ starts' = starts + 1
    /\ stage' = "arguments"
    /\ LoginIsOver /\ biliCookie' = "absent"
    /\ configLoaded' = FALSE /\ isLogined' = FALSE /\ wbiMixKey' = FALSE
    /\ robotStop' = TRUE /\ hasSession' = FALSE /\ joinable' = FALSE
    /\ pc' = [t \in Threads |-> IF t = "main" THEN "poll" ELSE "none"]
    /\ sessionStop' = TRUE /\ iocStopped' = FALSE /\ wsOpen' = FALSE
    /\ pending' = None /\ handling' = "none" /\ handled' = FALSE
    /\ cleanups' = 0
    /\ terminated' = "no"
    /\ UNCHANGED <<samePath, onDisk>>

StartSteps ==
    \/ CheckArguments \/ LoadBiliCookieByPath \/ LoadFromJson \/ OpenDataBase
    \/ GetLoginUrl \/ GetLoginInfo \/ OpenCookieFile \/ GetBuvid \/ SaveCookie
    \/ AdoptCookie \/ GiveUpPoll \/ LoadUIDForLogin

ProcessNext ==
    \/ StartSteps \/ KilledBeforeLoop
    \/ LoopStep
    \/ Start

ProcessSpec == ProcessInit /\ [][ProcessNext]_processVars

\* The system runs the process while it lives.  The requests before the loop
\* have no time limit, not even where they wait for an answer; StartEnds takes it
\* that bilibili answers them or closes the connection.
FairProcessSpec == ProcessSpec /\ WF_processVars(StartSteps) /\ Fairness

-----------------------------------------------------------------------------
(* Properties *)

Stages == {"arguments", "getLoginUrl", "poll", "openCookieFile", "getBuvid", "saveCookie", "adoptCookie",
           "pollAgain", "loadUID", "loadCookie", "loadConfig", "openDataBase", "loop", "exited"}

\* The variables keep their types, and the login is asked for 15 times at most.
ProcessTypeOK ==
    /\ stage \in Stages
    /\ samePath \in BOOLEAN
    /\ onDisk \in [Files -> Contents]
    /\ polls \in 0..MaxPolls
    /\ stage \in Stages \ {"exited"} => polls < MaxPolls
    /\ confirmed \in BOOLEAN
    /\ cookieJson \in Contents /\ biliCookie \in Contents
    /\ configLoaded \in BOOLEAN /\ isLogined \in BOOLEAN /\ wbiMixKey \in BOOLEAN
    /\ starts \in 1..MaxStarts

\* Whichever way main came to its loop and whatever failed on it, in this life
\* or in one before, a robot that was started has all of the cookie, the
\* configuration and the key that its requests are signed with.
RunningRobotIsEquipped ==
    ~robotStop \/ pc["robot"] # "none" =>
        biliCookie = "complete" /\ configLoaded /\ wbiMixKey

\* A cookie that was saved where main looks for it is not lost: no later start,
\* failed request or poll after the login empties the file.
SavedLoginIsKept ==
    [][samePath /\ onDisk["saved"] = "complete" => onDisk'["saved"] = "complete"]_processVars

\* Each start comes to the loop, or ends, if its requests do: it does not go
\* round in the polls or in what follows them.
StartEnds == stage = "arguments" ~> stage \in {"loop", "exited"} \/ ~Alive
=============================================================================
