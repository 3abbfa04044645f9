--------------------------- MODULE PKStart_proofs ---------------------------
(***************************************************************************)
(* Proofs about PKStart, for any number of workers, rooms and battles.     *)
(***************************************************************************)
EXTENDS PKStart, TLAPS

-----------------------------------------------------------------------------
(* Types *)

\* The labels of a worker that has passed the comparison.
Announcing == {"markRoom", "run"} \cup Requests

LEMMA Labels ==
    /\ "idle" \notin Announcing /\ "compareRoom" \notin Announcing
    /\ \A request \in Requests :
          /\ request \in Announcing /\ request # "markRoom"
          /\ After(request) \in (Requests \cup {"run"})
BY DEF Announcing, Requests, After

LEMMA FourRequests ==
    ASSUME NEW w \in Workers,
           GetRoomInit(w) \/ GetUserInfo(w) \/ GetTopListInfo(w) \/ GetRankListInfo(w)
    PROVE  \E request \in Requests : Request(w, request)
BY DEF GetRoomInit, GetUserInfo, GetTopListInfo, GetRankListInfo, Requests

LEMMA InitTypes == Init => TypeOK
<1> SUFFICES ASSUME Init
             PROVE  TypeOK
  OBVIOUS
<1>1. roomOf \in Seq(Rooms) /\ begun <= MaxBattles
  BY BattlesAssumption DEF Init, begun
<1>2. /\ announced \in [Battles -> Nat] /\ ran \in [Battles -> Nat]
      /\ failed \in SUBSET Battles /\ loaded \in SUBSET Battles
  BY DEF Init
<1> QED BY <1>1, <1>2 DEF Init, TypeOK

\* The two halves of TypeOK.
HistoryTypes ==
    /\ loaded \in SUBSET Battles /\ failed \in SUBSET Battles
    /\ ran \in [Battles -> Nat] /\ announced \in [Battles -> Nat]
StateTypes ==
    /\ lastPKRoomID \in Rooms \cup {NoRoom}
    /\ pc \in [Workers -> {"idle", "compareRoom", "markRoom", "run"} \cup Requests]
    /\ battle \in [Workers -> Battles \cup {0}]
    /\ terminated \in BOOLEAN
    /\ roomOf \in Seq(Rooms) /\ begun <= MaxBattles
    /\ arrived \in SUBSET Messages
    /\ \A w \in Workers : pc[w] # "idle" => battle[w] \in 1..begun

LEMMA NextKeepsHistory == TypeOK /\ [Next]_vars => HistoryTypes'
<1> SUFFICES ASSUME TypeOK, [Next]_vars
             PROVE  HistoryTypes'
  OBVIOUS
<1>1. HistoryTypes
  BY DEF TypeOK, HistoryTypes
<1>2. ASSUME NEW w \in Workers, pc[w] # "idle"
      PROVE  battle[w] \in Battles
  BY <1>2, BattlesAssumption DEF TypeOK, Battles, begun
<1>3. CASE UNCHANGED history
  BY <1>1, <1>3 DEF HistoryTypes, history
<1>4. ASSUME NEW w \in Workers, CompareRoom(w)
      PROVE  HistoryTypes'
  BY <1>1, <1>2, <1>4 DEF HistoryTypes, CompareRoom
<1>5. ASSUME NEW w \in Workers, NEW request \in Requests, Request(w, request)
      PROVE  HistoryTypes'
  <2>1. pc[w] # "idle"
    BY <1>5, Labels DEF Request
  <2> QED BY <1>1, <1>2, <1>5, <2>1 DEF HistoryTypes, Request
<1>6. ASSUME NEW w \in Workers, Run(w)
      PROVE  HistoryTypes'
  BY <1>1, <1>2, <1>6 DEF HistoryTypes, Run
<1>7. ASSUME NEW w \in Workers, RoomUnreadable(w) \/ MarkRoom(w) \/ Throw(w)
      PROVE  UNCHANGED history
  BY <1>7 DEF RoomUnreadable, MarkRoom, Throw
<1>8. ASSUME NEW w \in Workers, NEW message \in Messages,
             TakeSecond(w, message) \/ \E room \in Rooms : TakeFirst(w, room, message)
      PROVE  UNCHANGED history
  BY <1>8 DEF TakeSecond, TakeFirst
<1> QED BY <1>3, <1>4, <1>5, <1>6, <1>7, <1>8, FourRequests DEF Next, vars

LEMMA NextKeepsState == TypeOK /\ [Next]_vars => StateTypes'
<1> SUFFICES ASSUME TypeOK, [Next]_vars
             PROVE  StateTypes'
  OBVIOUS
<1>0. StateTypes
  BY DEF TypeOK, StateTypes
<1> USE <1>0, BattlesAssumption DEF StateTypes, Goto, Battles, begun
<1>1. ASSUME NEW w \in Workers, NEW room \in Rooms, NEW message \in Messages,
             TakeFirst(w, room, message)
      PROVE  StateTypes'
  BY <1>1 DEF TakeFirst, Take
<1>2. ASSUME NEW w \in Workers, NEW message \in Messages, TakeSecond(w, message)
      PROVE  StateTypes'
  BY <1>2 DEF TakeSecond, Take
<1>3. ASSUME NEW w \in Workers, CompareRoom(w)
      PROVE  StateTypes'
  BY <1>3 DEF CompareRoom
<1>4. ASSUME NEW w \in Workers, MarkRoom(w)
      PROVE  StateTypes'
  BY <1>4 DEF MarkRoom, Requests
<1>5. ASSUME NEW w \in Workers, NEW request \in Requests, Request(w, request)
      PROVE  StateTypes'
  <2>1. pc[w] # "idle" /\ UNCHANGED <<lastPKRoomID, terminated, roomOf, arrived>>
    BY <1>5, Labels DEF Request
  <2>2. CASE Goto(w, After(request))
    BY <1>5, <2>1, <2>2, Labels DEF Request, Requests
  <2>3. CASE Goto(w, "idle")
    BY <2>1, <2>3
  <2> QED BY <1>5, <2>2, <2>3 DEF Request
<1>6. ASSUME NEW w \in Workers, Throw(w)
      PROVE  StateTypes'
  BY <1>6 DEF Throw
<1>7. ASSUME NEW w \in Workers, Run(w)
      PROVE  StateTypes'
  BY <1>7 DEF Run
<1>8. ASSUME NEW w \in Workers, RoomUnreadable(w)
      PROVE  StateTypes'
  BY <1>8 DEF RoomUnreadable
<1>9. CASE UNCHANGED vars
  BY <1>9 DEF vars
<1> QED BY <1>1, <1>2, <1>3, <1>4, <1>5, <1>6, <1>7, <1>8, <1>9, FourRequests DEF Next

LEMMA NextKeepsTypes == TypeOK /\ [Next]_vars => TypeOK'
<1>1. HistoryTypes' /\ StateTypes' => TypeOK'
  BY DEF HistoryTypes, StateTypes, TypeOK
<1> QED BY <1>1, NextKeepsHistory, NextKeepsState

\* PKStart keeps its types, and a worker only handles a battle that began.
THEOREM Types == Spec => []TypeOK
BY InitTypes, NextKeepsTypes, PTL DEF Spec

-----------------------------------------------------------------------------
(* NoBattleMissed *)

\* No other battle is with the room of n.
Unique(n) == \A m \in (1 .. begun) \ {n} : roomOf[m] # roomOf[n]

\* Run was called for a battle, or a worker has passed the comparison.
Handled(n) ==
    \/ ran[n] >= 1
    \/ \E w \in Workers : battle[w] = n /\ pc[w] \in Announcing

\* The mark is the room of a battle, and where it is the room of this battle
\* alone one of its own workers set it.
MarkedRoom == lastPKRoomID = NoRoom \/ \E m \in 1 .. begun : lastPKRoomID = roomOf[m]
Compared(n) == n \in loaded \/ lastPKRoomID = roomOf[n]
NothingMissed ==
    /\ MarkedRoom
    /\ loaded \subseteq 1 .. begun
    /\ \A n \in 1 .. begun : Unique(n) /\ Compared(n) /\ n \notin failed => Handled(n)

\* When no battle begins and no other room is marked, it is enough to look at a
\* battle that was handled, and at one that is compared.
LEMMA SameBattles ==
    ASSUME TypeOK, NothingMissed, UNCHANGED <<roomOf, lastPKRoomID>>,
           failed \subseteq failed', loaded' = loaded,
           \A n \in 1 .. begun : n \notin failed' /\ Handled(n) => Handled(n)'
    PROVE  NothingMissed'
BY DEF NothingMissed, MarkedRoom, Compared, Unique, begun

LEMMA NextKeepsNothingMissed == TypeOK /\ NothingMissed /\ [Next]_vars => NothingMissed'
<1> SUFFICES ASSUME TypeOK, NothingMissed, [Next]_vars
             PROVE  NothingMissed'
  OBVIOUS
<1> USE BattlesAssumption, RoomsAssumption, Labels DEF TypeOK, begun, history
<1>0. MarkedRoom
  BY DEF NothingMissed
<1>1. ASSUME NEW w \in Workers, NEW room \in Rooms, NEW message \in Messages,
             TakeFirst(w, room, message)
      PROVE  NothingMissed'
  <2>1. /\ Len(roomOf') = Len(roomOf) + 1 /\ roomOf'[Len(roomOf) + 1] = room
        /\ \A m \in 1 .. Len(roomOf) : roomOf'[m] = roomOf[m]
        /\ UNCHANGED <<lastPKRoomID, loaded, failed, ran>>
    BY <1>1 DEF TakeFirst
  <2>2. /\ pc[w] = "idle"
        /\ \A v \in Workers \ {w} : pc'[v] = pc[v] /\ battle'[v] = battle[v]
    BY <1>1 DEF TakeFirst, Take
  <2>3. MarkedRoom' /\ loaded' \subseteq 1 .. Len(roomOf')
    BY <1>0, <2>1 DEF MarkedRoom, NothingMissed
  <2>4. ASSUME NEW n \in 1 .. Len(roomOf), Unique(n)', Compared(n)', n \notin failed'
        PROVE  Handled(n)'
    <3>1. Unique(n) /\ Compared(n)
      BY <2>1, <2>4 DEF Unique, Compared
    <3>2. Handled(n)
      BY <2>1, <2>4, <3>1 DEF NothingMissed
    <3> QED BY <2>1, <2>2, <3>2 DEF Handled
  <2>5. ASSUME NEW n, n = Len(roomOf) + 1, Unique(n)'
        PROVE  ~Compared(n)'
    <3>1. \A m \in 1 .. Len(roomOf) : roomOf[m] # room
      BY <2>1, <2>5 DEF Unique
    <3>2. lastPKRoomID # room
      BY <1>0, <3>1 DEF MarkedRoom, NoRoom
    <3>3. n \notin loaded
      BY <2>5 DEF NothingMissed
    <3> QED BY <2>1, <2>5, <3>2, <3>3 DEF Compared
  <2> QED BY <2>1, <2>3, <2>4, <2>5 DEF NothingMissed
<1>2. ASSUME NEW w \in Workers, NEW message \in Messages, TakeSecond(w, message)
      PROVE  NothingMissed'
  <2>1. /\ UNCHANGED <<roomOf, loaded, failed, ran, lastPKRoomID>>
        /\ pc[w] = "idle" /\ \A v \in Workers \ {w} : pc'[v] = pc[v] /\ battle'[v] = battle[v]
    BY <1>2 DEF TakeSecond, Take
  <2>2. ASSUME NEW n, Handled(n)
        PROVE  Handled(n)'
    BY <2>1, <2>2 DEF Handled
  <2> QED BY <2>1, <2>2, SameBattles
<1>3. ASSUME NEW w \in Workers, CompareRoom(w)
      PROVE  NothingMissed'
  <2>1. /\ UNCHANGED <<roomOf, failed, ran, lastPKRoomID>>
        /\ pc[w] = "compareRoom" /\ battle[w] \in 1 .. Len(roomOf)
        /\ loaded' = loaded \cup {battle[w]}
        /\ \A v \in Workers \ {w} : pc'[v] = pc[v] /\ battle'[v] = battle[v]
    BY <1>3 DEF CompareRoom, Goto
  <2>2. lastPKRoomID # roomOf[battle[w]] => pc'[w] \in Announcing /\ battle'[w] = battle[w]
    <3>1. "markRoom" \in Announcing
      BY DEF Announcing
    <3> QED BY <1>3, <3>1 DEF CompareRoom, Goto
  <2>3. MarkedRoom' /\ loaded' \subseteq 1 .. Len(roomOf')
    BY <1>0, <2>1 DEF MarkedRoom, NothingMissed
  <2>4. ASSUME NEW n, Handled(n)
        PROVE  Handled(n)'
    BY <2>1, <2>4 DEF Handled
  <2>5. ASSUME NEW n \in 1 .. Len(roomOf), Unique(n), Compared(n)', n \notin failed
        PROVE  Handled(n)'
    <3>1. CASE Compared(n)
      BY <2>4, <2>5, <3>1 DEF NothingMissed
    <3>2. CASE ~Compared(n)
      <4>1. n = battle[w] /\ lastPKRoomID # roomOf[n]
        BY <2>1, <2>5, <3>2 DEF Compared
      <4> QED BY <2>2, <4>1 DEF Handled
    <3> QED BY <3>1, <3>2
  <2>6. \A n \in 1 .. Len(roomOf) : Unique(n)' => Unique(n)
    BY <2>1 DEF Unique
  <2> QED BY <2>1, <2>3, <2>5, <2>6 DEF NothingMissed
<1>4. ASSUME NEW w \in Workers, MarkRoom(w)
      PROVE  NothingMissed'
  <2>1. /\ UNCHANGED <<roomOf, loaded, failed, ran, battle>>
        /\ pc[w] = "markRoom" /\ pc'[w] \in Announcing /\ battle[w] \in 1 .. Len(roomOf)
        /\ \A v \in Workers \ {w} : pc'[v] = pc[v]
        /\ lastPKRoomID' = roomOf[battle[w]]
    BY <1>4 DEF MarkRoom, Goto, Announcing, Requests
  <2>2. MarkedRoom' /\ loaded' \subseteq 1 .. Len(roomOf')
    BY <2>1 DEF MarkedRoom, NothingMissed
  <2>3. ASSUME NEW n \in 1 .. Len(roomOf), Unique(n), Compared(n)', n \notin failed
        PROVE  Handled(n)'
    <3>1. CASE battle[w] = n
      BY <2>1, <3>1 DEF Handled
    <3>2. CASE battle[w] # n
      <4>1. n \in loaded
        BY <2>1, <2>3, <3>2 DEF Unique, Compared
      <4>2. Handled(n)
        BY <2>3, <4>1 DEF NothingMissed, Compared
      <4> QED BY <2>1, <3>2, <4>2 DEF Handled
    <3> QED BY <3>1, <3>2
  <2>4. \A n \in 1 .. Len(roomOf) : Unique(n)' => Unique(n)
    BY <2>1 DEF Unique
  <2> QED BY <2>1, <2>2, <2>3, <2>4 DEF NothingMissed
<1>5. ASSUME NEW w \in Workers, NEW request \in Requests, Request(w, request)
      PROVE  NothingMissed'
  <2>1. /\ UNCHANGED <<roomOf, loaded, ran, lastPKRoomID>>
        /\ pc[w] \in Announcing /\ failed \subseteq failed'
        /\ \A v \in Workers \ {w} : pc'[v] = pc[v] /\ battle'[v] = battle[v]
    BY <1>5 DEF Request, Goto
  <2>2. \/ battle'[w] = battle[w] /\ pc'[w] \in Announcing
        \/ battle[w] \in failed'
    <3>1. CASE Goto(w, After(request))
      BY <1>5, <3>1 DEF Goto, Announcing, Requests
    <3>2. CASE failed' = failed \cup {battle[w]}
      BY <3>2
    <3> QED BY <1>5, <3>1, <3>2 DEF Request
  <2>3. ASSUME NEW n, n \notin failed', Handled(n)
        PROVE  Handled(n)'
    BY <2>1, <2>2, <2>3 DEF Handled
  <2> QED BY <2>1, <2>3, SameBattles
<1>6. ASSUME NEW w \in Workers, Run(w)
      PROVE  NothingMissed'
  <2>1. /\ UNCHANGED <<roomOf, loaded, failed, lastPKRoomID>>
        /\ pc[w] = "run" /\ battle[w] \in 1 .. Len(roomOf)
        /\ \A v \in Workers \ {w} : pc'[v] = pc[v] /\ battle'[v] = battle[v]
        /\ ran' = [ran EXCEPT ![battle[w]] = @ + 1]
    BY <1>6 DEF Run, Goto
  <2>2. ASSUME NEW n \in 1 .. Len(roomOf), Handled(n)
        PROVE  Handled(n)'
    <3>1. n \in Battles /\ battle[w] \in Battles
      BY <2>1 DEF Battles
    <3>2. CASE battle[w] = n
      BY <2>1, <3>1, <3>2 DEF Handled
    <3>3. CASE battle[w] # n
      BY <2>1, <2>2, <3>1, <3>3 DEF Handled
    <3> QED BY <3>2, <3>3
  <2> QED BY <2>1, <2>2, SameBattles
<1>7. CASE UNCHANGED vars \/ \E w \in Workers : Throw(w)
  <2>1. UNCHANGED <<roomOf, loaded, failed, ran, lastPKRoomID, pc, battle>>
    BY <1>7 DEF vars, Throw
  <2>2. \A n : Handled(n) => Handled(n)'
    BY <2>1 DEF Handled
  <2> QED BY <2>1, <2>2, SameBattles
<1>8. ASSUME NEW w \in Workers, RoomUnreadable(w)
      PROVE  NothingMissed'
  <2>1. /\ UNCHANGED <<roomOf, loaded, failed, ran, lastPKRoomID>>
        /\ pc[w] = "compareRoom"
        /\ \A v \in Workers \ {w} : pc'[v] = pc[v] /\ battle'[v] = battle[v]
    BY <1>8 DEF RoomUnreadable, Goto
  <2>2. ASSUME NEW n, Handled(n)
        PROVE  Handled(n)'
    BY <2>1, <2>2 DEF Handled
  <2> QED BY <2>1, <2>2, SameBattles
<1> QED BY <1>1, <1>2, <1>3, <1>4, <1>5, <1>6, <1>7, <1>8, FourRequests DEF Next

\* However the workers interleave, a battle with a room of its own comes to Run
\* once its room was read from one of its messages, unless one of its requests
\* failed: a room that is marked while its battle is being handled suppresses the
\* other message, never both.  Whether Run announces it is not part of this.
THEOREM BattlesAreNotMissed == Spec => []NoBattleMissed
<1>1. Init => NothingMissed
  BY DEF Init, NothingMissed, MarkedRoom, begun
<1>2. TypeOK /\ NothingMissed => NoBattleMissed
  <2> SUFFICES ASSUME TypeOK, NothingMissed, NEW n \in loaded \ failed,
                      \A w \in Workers : battle[w] # n, Unique(n)
               PROVE  ran[n] >= 1
    BY DEF NoBattleMissed, Unique
  <2>1. n \in 1 .. begun /\ Compared(n)
    BY DEF NothingMissed, Compared
  <2> QED BY <2>1 DEF NothingMissed, Handled
<1> QED BY <1>1, <1>2, InitTypes, NextKeepsTypes, NextKeepsNothingMissed, PTL DEF Spec

-----------------------------------------------------------------------------
(* AnnouncedOnce, with one worker *)

\* The one worker handles the last battle only; the room of a battle that was
\* announced stays marked until the next battle begins.
OneAtATime ==
    /\ \A w \in Workers :
          /\ battle[w] \in {0, begun}
          /\ pc[w] \in Announcing => announced[begun] = 0
          /\ pc[w] \in Announcing \ {"markRoom"} => lastPKRoomID = roomOf[begun]
    /\ \A n \in Battles : announced[n] \in {0, 1} /\ (n > begun => announced[n] = 0)
    /\ begun > 0 /\ announced[begun] = 1 => lastPKRoomID = roomOf[begun]

LEMMA NextKeepsOneAtATime ==
    ASSUME \A v, w \in Workers : v = w
    PROVE  TypeOK /\ OneAtATime /\ [Next]_vars => OneAtATime'
<1> SUFFICES ASSUME TypeOK, OneAtATime, [Next]_vars
             PROVE  OneAtATime'
  OBVIOUS
<1> USE BattlesAssumption, RoomsAssumption, Labels DEF TypeOK, OneAtATime, begun, Battles, history
<1>1. ASSUME NEW w \in Workers, NEW room \in Rooms, NEW message \in Messages,
             TakeFirst(w, room, message)
      PROVE  OneAtATime'
  <2>1. Len(roomOf') = Len(roomOf) + 1 /\ Len(roomOf) + 1 \in Battles
        /\ announced' = announced
    BY <1>1 DEF TakeFirst
  <2>2. \A v \in Workers : battle'[v] = Len(roomOf) + 1 /\ pc'[v] = "compareRoom"
    BY <1>1 DEF TakeFirst, Take
  <2> QED BY <2>1, <2>2
<1>2. ASSUME NEW w \in Workers, NEW message \in Messages, TakeSecond(w, message)
      PROVE  OneAtATime'
  <2>1. UNCHANGED <<roomOf, announced, lastPKRoomID>>
        /\ \A v \in Workers : battle'[v] = Len(roomOf) /\ pc'[v] = "compareRoom"
    BY <1>2 DEF TakeSecond, Take
  <2> QED BY <2>1
<1>3. ASSUME NEW w \in Workers, CompareRoom(w)
      PROVE  OneAtATime'
  <2>1. UNCHANGED <<roomOf, announced, lastPKRoomID>> /\ battle[w] = Len(roomOf)
        /\ battle[w] \in Battles
    BY <1>3 DEF CompareRoom
  <2>2. \/ \A v \in Workers : battle'[v] = 0 /\ pc'[v] = "idle"
        \/ /\ \A v \in Workers : battle'[v] = Len(roomOf) /\ pc'[v] = "markRoom"
           /\ roomOf[Len(roomOf)] # lastPKRoomID
    BY <1>3, <2>1 DEF CompareRoom, Goto
  <2> QED BY <2>1, <2>2
<1>4. ASSUME NEW w \in Workers, MarkRoom(w)
      PROVE  OneAtATime'
  <2>1. UNCHANGED <<roomOf, announced, battle>> /\ battle[w] = Len(roomOf)
        /\ pc[w] \in Announcing
    <3>1. UNCHANGED <<roomOf, announced, battle>> /\ pc[w] = "markRoom"
      BY <1>4 DEF MarkRoom, Goto
    <3>2. pc[w] \in Announcing
      BY <3>1 DEF Announcing
    <3> QED BY <3>1, <3>2
  <2>2. lastPKRoomID' = roomOf[Len(roomOf)] /\ \A v \in Workers : pc'[v] = "getRoomInit"
    BY <1>4, <2>1 DEF MarkRoom, Goto
  <2> QED BY <2>1, <2>2
<1>5. ASSUME NEW w \in Workers, NEW request \in Requests, Request(w, request)
      PROVE  OneAtATime'
  <2>1. UNCHANGED <<roomOf, announced, lastPKRoomID>> /\ pc[w] \in Announcing
        /\ pc[w] # "markRoom"
    BY <1>5 DEF Request
  <2>2. \/ UNCHANGED battle
        \/ \A v \in Workers : battle'[v] = 0 /\ pc'[v] = "idle"
    BY <1>5, <2>1 DEF Request, Goto
  <2> QED BY <2>1, <2>2
<1>6. ASSUME NEW w \in Workers, Run(w)
      PROVE  OneAtATime'
  <2>1. UNCHANGED <<roomOf, lastPKRoomID>> /\ battle[w] = Len(roomOf) /\ battle[w] \in Battles
        /\ pc[w] = "run"
    BY <1>6 DEF Run
  <2>2. \A v \in Workers : battle'[v] = 0 /\ pc'[v] = "idle"
    BY <1>6 DEF Run, Goto
  <2>3. announced[Len(roomOf)] = 0 /\ lastPKRoomID = roomOf[Len(roomOf)]
    <3>1. pc[w] \in Announcing /\ pc[w] # "markRoom"
      BY <2>1 DEF Announcing
    <3> QED BY <3>1
  <2>4. \/ announced' = announced
        \/ announced' = [announced EXCEPT ![Len(roomOf)] = 1]
    BY <1>6, <2>1, <2>3 DEF Run
  <2> QED BY <2>1, <2>2, <2>3, <2>4
<1>7. CASE UNCHANGED vars \/ \E w \in Workers : Throw(w)
  BY <1>7 DEF vars, Throw
<1>8. ASSUME NEW w \in Workers, RoomUnreadable(w)
      PROVE  OneAtATime'
  <2>1. UNCHANGED <<roomOf, announced, lastPKRoomID>>
    BY <1>8 DEF RoomUnreadable
  <2>2. \/ UNCHANGED <<pc, battle>>
        \/ \A v \in Workers : battle'[v] = 0 /\ pc'[v] = "idle"
    BY <1>8 DEF RoomUnreadable, Goto
  <2> QED BY <2>1, <2>2
<1> QED BY <1>1, <1>2, <1>3, <1>4, <1>5, <1>6, <1>7, <1>8, FourRequests DEF Next

\* With one worker no battle is announced twice, whichever of its messages comes
\* first and whichever of the requests fail.
THEOREM OneWorkerAnnouncesOnce ==
    ASSUME \A v, w \in Workers : v = w
    PROVE  Spec => []AnnouncedOnce
<1>1. Init => OneAtATime
  BY DEF Init, OneAtATime, begun, Announcing, Requests
<1>2. TypeOK /\ OneAtATime /\ [Next]_vars => OneAtATime'
  BY NextKeepsOneAtATime
<1>3. OneAtATime => AnnouncedOnce
  <2> SUFFICES ASSUME OneAtATime, NEW n \in Battles
               PROVE  announced[n] <= 1
    BY DEF AnnouncedOnce
  <2>1. announced[n] = 0 \/ announced[n] = 1
    BY DEF OneAtATime
  <2> QED BY <2>1
<1> QED BY <1>1, <1>2, <1>3, InitTypes, NextKeepsTypes, PTL DEF Spec
=============================================================================
