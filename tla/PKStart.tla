------------------------------ MODULE PKStart ------------------------------
(***************************************************************************)
(* BiliLiveCommandPKStart: the announcement of a battle with another room. *)
(* A battle is announced by two messages, PK_BATTLE_START and              *)
(* PK_BATTLE_START_NEW, and the factory makes the same kind of object for  *)
(* both.  The static member lastPKRoomID is meant to keep the second from  *)
(* being announced again.  Messages are taken in the order they come, each *)
(* by one worker (CommandPool).                                            *)
(***************************************************************************)
EXTENDS Integers, Sequences

CONSTANTS
    Workers,        \* the threads of the pool
    Rooms,          \* rooms the streamer battles with
    CanPKNotice,    \* Config::canPKNotice; nothing changes it while running
    MaxBattles      \* bound: battles in a behaviour

ASSUME RoomsAssumption   == 0 \notin Rooms
ASSUME SwitchAssumption  == CanPKNotice \in BOOLEAN
ASSUME BattlesAssumption == MaxBattles \in Nat

NoRoom == 0     \* what lastPKRoomID is before the first battle
Messages == {"PK_BATTLE_START", "PK_BATTLE_START_NEW"}

\* The requests LoadMessage makes, one after the other.
Requests == {"getRoomInit", "getUserInfo", "getTopListInfo", "getRankListInfo"}
After(request) == CASE request = "getRoomInit"     -> "getUserInfo"
                    [] request = "getUserInfo"     -> "getTopListInfo"
                    [] request = "getTopListInfo"  -> "getRankListInfo"
                    [] request = "getRankListInfo" -> "run"

VARIABLES
    lastPKRoomID,   \* the static member all objects share
    pc,             \* where each worker is
    battle,         \* the battle whose message a worker handles
    terminated,     \* did an exception leave a worker thread?
    \* The battles that began
    roomOf,         \* their rooms, in the order they began
    arrived,        \* the messages of the last one that arrived
    \* History
    loaded,         \* the battles whose room was read from a message
    failed,         \* the battles for which a request failed
    ran,            \* for each battle, how often Run was called
    announced       \* for each battle, how often it was announced

history == <<loaded, failed, ran, announced>>
vars == <<lastPKRoomID, pc, battle, terminated, roomOf, arrived, history>>

Battles == 1..MaxBattles
begun == Len(roomOf)

Init ==
    /\ lastPKRoomID = NoRoom
    /\ pc = [w \in Workers |-> "idle"]
    /\ battle = [w \in Workers |-> 0]
    /\ terminated = FALSE
    /\ roomOf = <<>>
    /\ arrived = {}
    /\ loaded = {} /\ failed = {}
    /\ ran = [n \in Battles |-> 0]
    /\ announced = [n \in Battles |-> 0]

\* Faulty variant: the object goes to the entity pool before its turn is over.
GotoWithoutObject(w, label) ==
    /\ pc' = [pc EXCEPT ![w] = label]
    /\ battle' = [battle EXCEPT ![w] = 0]

\* The object of a worker that is done goes to the entity pool for good.
Goto(w, label) ==
    /\ pc' = [pc EXCEPT ![w] = label]
    /\ battle' = IF label = "idle" THEN [battle EXCEPT ![w] = 0] ELSE battle

-----------------------------------------------------------------------------
(* Messages *)

Take(w, n) ==
    /\ pc[w] = "idle"
    /\ battle' = [battle EXCEPT ![w] = n]
    /\ pc' = [pc EXCEPT ![w] = "compareRoom"]

\* A battle with a room begins; one of its messages is the first to arrive.
TakeFirst(w, room, message) ==
    /\ begun < MaxBattles
    /\ Take(w, begun + 1)
    /\ roomOf' = Append(roomOf, room)
    /\ arrived' = {message}
    /\ UNCHANGED <<lastPKRoomID, terminated, history>>

\* The other message of the same battle.
TakeSecond(w, message) ==
    /\ begun > 0 /\ message \notin arrived
    /\ Take(w, begun)
    /\ arrived' = arrived \cup {message}
    /\ UNCHANGED <<lastPKRoomID, terminated, roomOf, history>>

-----------------------------------------------------------------------------
(* LoadMessage *)

\* The message lacks the rooms, or both its rooms are the robot's own:
\* LoadMessage returns false before it compares anything.  Reading an entry that
\* is missing may also end the process, as the build has it.
RoomUnreadable(w) ==
    /\ pc[w] = "compareRoom"
    /\ \/ Goto(w, "idle") /\ UNCHANGED terminated
       \/ terminated' = TRUE /\ UNCHANGED <<pc, battle>>
    /\ UNCHANGED <<lastPKRoomID, roomOf, arrived, history>>

\* Faulty variant: the comparison is inverted.
CompareRoomInverted(w) ==
    /\ pc[w] = "compareRoom"
    /\ Goto(w, IF roomOf[battle[w]] # lastPKRoomID THEN "idle" ELSE "markRoom")
    /\ loaded' = loaded \cup {battle[w]}
    /\ UNCHANGED <<lastPKRoomID, terminated, roomOf, arrived, failed, ran, announced>>

\* The room is read and compared with the room of the last battle, under the
\* mutex of this object; a repeated room is given up.
CompareRoom(w) ==
    /\ pc[w] = "compareRoom"
    /\ Goto(w, IF roomOf[battle[w]] = lastPKRoomID THEN "idle" ELSE "markRoom")
    /\ loaded' = loaded \cup {battle[w]}
    /\ UNCHANGED <<lastPKRoomID, terminated, roomOf, arrived, failed, ran, announced>>

\* The room is marked and the mutex released before the first request is made.
MarkRoom(w) ==
    /\ pc[w] = "markRoom"
    /\ lastPKRoomID' = roomOf[battle[w]]
    /\ Goto(w, "getRoomInit")
    /\ UNCHANGED <<terminated, roomOf, arrived, history>>

\* LoadMessage returns false as soon as a request fails; the room stays marked.
Request(w, request) ==
    /\ pc[w] = request
    /\ \/ Goto(w, After(request)) /\ UNCHANGED failed
       \/ Goto(w, "idle") /\ failed' = failed \cup {battle[w]}
    /\ UNCHANGED <<lastPKRoomID, terminated, roomOf, arrived, loaded, ran, announced>>

\* Each of them resolves, connects, sends a request and reads the answer.
GetRoomInit(w)     == Request(w, "getRoomInit")
GetUserInfo(w)     == Request(w, "getUserInfo")
GetTopListInfo(w)  == Request(w, "getTopListInfo")
GetRankListInfo(w) == Request(w, "getRankListInfo")

\* An answer that is not JSON is parsed outside the try block: what is thrown
\* leaves ThreadRun.
Throw(w) ==
    /\ pc[w] \in Requests
    /\ terminated' = TRUE
    /\ UNCHANGED <<lastPKRoomID, pc, battle, roomOf, arrived, history>>

-----------------------------------------------------------------------------
\* Run returns at once when CanPKNotice() is true; otherwise it pushes the two
\* texts of the announcement.
Run(w) ==
    /\ pc[w] = "run"
    /\ ran' = [ran EXCEPT ![battle[w]] = @ + 1]
    /\ announced' = IF CanPKNotice THEN announced
                                   ELSE [announced EXCEPT ![battle[w]] = @ + 1]
    /\ Goto(w, "idle")
    /\ UNCHANGED <<lastPKRoomID, terminated, roomOf, arrived, loaded, failed>>

Next ==
    /\ ~terminated
    /\ \E w \in Workers :
          \/ \E room \in Rooms, message \in Messages : TakeFirst(w, room, message)
          \/ \E message \in Messages : TakeSecond(w, message)
          \/ RoomUnreadable(w) \/ CompareRoom(w) \/ MarkRoom(w)
          \/ GetRoomInit(w) \/ GetUserInfo(w) \/ GetTopListInfo(w) \/ GetRankListInfo(w)
          \/ Throw(w) \/ Run(w)

Spec == Init /\ [][Next]_vars

-----------------------------------------------------------------------------
(* Properties *)

\* The variables keep their types; a worker handles a battle that began.
TypeOK ==
    /\ lastPKRoomID \in Rooms \cup {NoRoom}
    /\ pc \in [Workers -> {"idle", "compareRoom", "markRoom", "run"} \cup Requests]
    /\ battle \in [Workers -> Battles \cup {0}]
    /\ terminated \in BOOLEAN
    /\ roomOf \in Seq(Rooms) /\ begun <= MaxBattles
    /\ arrived \in SUBSET Messages
    /\ loaded \in SUBSET Battles /\ failed \in SUBSET Battles
    /\ ran \in [Battles -> Nat] /\ announced \in [Battles -> Nat]
    /\ \A w \in Workers : pc[w] # "idle" => battle[w] \in 1..begun

\* Although a battle comes with two messages and both make an object, it is
\* announced at most once.
AnnouncedOnce == \A n \in Battles : announced[n] <= 1

\* Suppressing repeated rooms suppresses no battle by mistake, whatever the
\* order in which the workers get on: a battle with a room no other battle is
\* with comes to Run by the time its messages have been handled, unless the room
\* could be read from none of them or one of its requests failed.  Whether Run then
\* announces it is up to the switch, which it reads the wrong way round
\* (BiliLiveCommandPKStart.cpp:109 against Config.h:103).
NoBattleMissed ==
    \A n \in loaded \ failed :
        /\ \A w \in Workers : battle[w] # n
        /\ \A m \in (1..begun) \ {n} : roomOf[m] # roomOf[n]
        => ran[n] >= 1
=============================================================================
