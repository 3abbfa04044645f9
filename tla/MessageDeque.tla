---------------------------- MODULE MessageDeque ----------------------------
(***************************************************************************)
(* Entity/MessageDeque: the queue of danmaku waiting to be sent and the    *)
(* thanks collected for gifts.  Three kinds of thread meet here:           *)
(*   - the Workers (the command threads) push texts and add gifts;         *)
(*   - the sender thread takes one piece at a time and sends it over the   *)
(*     network while it holds messageQueueMutex;                           *)
(*   - the timer thread turns the collected gifts into texts, holding      *)
(*     giftMapMutex and, for each text, messageQueueMutex inside it.       *)
(* A step is a stretch of code between two accesses to what the threads    *)
(* share.                                                                  *)
(***************************************************************************)
EXTENDS Integers, Sequences

CONSTANTS
    Workers,        \* threads of ProcessingMessageThreadPool
    Users,          \* people who send gifts
    GiftNames,
    Counts,         \* gifts given in one message
    ChatLengths,    \* code points of the texts the commands push
    ThanksLengths,  \* code points of the texts the timer thread composes
    TestBuild,      \* was the program compiled with -DTEST?
    NonJsonReply,   \* may bilibili answer 200 with a body that is not JSON?
    MaxCalls        \* bound: calls the workers make in a behaviour

Timer  == "timer"
Sender == "sender"
Nobody == "nobody"

Producers == Workers \cup {Timer}
Threads   == Producers \cup {Sender}

ASSUME ThreadsAssumption == Workers \cap {Timer, Sender, Nobody} = {}
ASSUME UsersAssumption   == Nobody \notin Users
ASSUME CountsAssumption  == Counts \subseteq Nat \ {0}
ASSUME LengthsAssumption == ChatLengths \cup ThanksLengths \subseteq Nat
ASSUME SwitchAssumption  == TestBuild \in BOOLEAN /\ NonJsonReply \in BOOLEAN
ASSUME BoundAssumption   == MaxCalls \in Nat

-----------------------------------------------------------------------------
(* Texts and gifts *)

TextLimit  == 40    \* longer texts are dropped
PieceLimit == 20    \* longer texts are cut

\* The two maps of collected gifts: giftMap and blindBoxMap.
Maps   == {"giftMap", "blindBoxMap"}
Thanks == Maps \X Users
\* A key of one of the maps: which map, who gave, which gift.
Entries == Maps \X Users \X GiftNames
ThanksOf(entry) == <<entry[1], entry[2]>>

\* A text and whom it thanks; a text a command pushes thanks nobody here.
Chat == <<"chat", Nobody>>
Text(about, length) == [about |-> about, length |-> length]
Texts == [about : Thanks \cup {Chat}, length : ChatLengths \cup ThanksLengths]
NoText == Text(Chat, 1)

\* A piece is the range first..last of the code points of a text.
Piece(t, first, last) == [text |-> t, first |-> first, last |-> last]
\* Faulty variant: the loop cuts after 21 code points.
SplitOffByOne(t) ==
    IF t.length > PieceLimit
    THEN <<Piece(t, 1, PieceLimit + 1), Piece(t, PieceLimit + 2, t.length)>>
    ELSE <<Piece(t, 1, t.length)>>
Split(t) ==
    IF t.length > PieceLimit
    THEN <<Piece(t, 1, PieceLimit), Piece(t, PieceLimit + 1, t.length)>>
    ELSE <<Piece(t, 1, t.length)>>
Pushable(t) == t.length \in 1..TextLimit

NoGifts == [entry \in Entries |-> 0]
NoGift  == [entry |-> <<>>, count |-> 0]

-----------------------------------------------------------------------------
VARIABLES
    messageQueue,           \* pieces waiting to be sent
    messageQueueMutex,      \* its owner, or Nobody
    giftMapMutex,           \* its owner, or Nobody
    gifts,                  \* giftMap and blindBoxMap; an absent key is 0
    sendGiftMessageTip,
    pc,                     \* where each thread is
    text,                   \* the message argument of PushWaitedMessage
    rest,                   \* pieces the mutex holder has yet to push
    gift,                   \* the arguments of Add...Message
    toThank,                \* loop of SendGiftMessageToBili: users to come
    outgoing,               \* the piece the sender took: length at most one
    calls,                  \* calls the workers made
    \* History
    delivered,              \* pieces bilibili received
    received,               \* gifts added since the start
    thanked,                \* gifts whose thanks entered the queue
    dropped                 \* gifts whose thanks were too long

queueVars   == <<messageQueue, messageQueueMutex, rest, text>>
giftVars    == <<gifts, giftMapMutex, sendGiftMessageTip, gift, toThank>>
historyVars == <<received, thanked, dropped>>
senderVars  == <<outgoing, delivered>>
vars == <<queueVars, giftVars, historyVars, senderVars, pc, calls>>

Init ==
    /\ messageQueue = <<>>
    /\ messageQueueMutex = Nobody
    /\ giftMapMutex = Nobody
    /\ gifts = NoGifts
    /\ sendGiftMessageTip = FALSE
    /\ pc = [t \in Threads |-> IF t = Sender THEN "running" ELSE "idle"]
    /\ text = [t \in Producers |-> NoText]
    /\ rest = [t \in Producers |-> <<>>]
    /\ gift = [w \in Workers |-> NoGift]
    /\ toThank = {}
    /\ outgoing = <<>>
    /\ calls = 0
    /\ delivered = <<>>
    /\ received = NoGifts /\ thanked = NoGifts /\ dropped = NoGifts

Goto(t, label) == pc' = [pc EXCEPT ![t] = label]

-----------------------------------------------------------------------------
(* PushWaitedMessage, called by a worker or by the timer thread *)

\* A command pushes a text.  One that is empty or too long is logged and
\* dropped before the mutex is taken.
CallPush(w, length) ==
    /\ pc[w] = "idle" /\ calls < MaxCalls
    /\ calls' = calls + 1
    /\ IF length \in 1..TextLimit
       THEN /\ text' = [text EXCEPT ![w] = Text(Chat, length)]
            /\ Goto(w, "lockQueue")
       ELSE UNCHANGED <<text, pc>>
    /\ UNCHANGED <<messageQueue, messageQueueMutex, rest, giftVars, historyVars, senderVars>>

\* Faulty variant: the queue is changed without holding its mutex.
LockQueueWithoutMutex(t) ==
    /\ pc[t] = "lockQueue"
    /\ rest' = [rest EXCEPT ![t] = Split(text[t])]
    /\ Goto(t, "push")
    /\ UNCHANGED <<messageQueue, messageQueueMutex, text, giftVars, historyVars, senderVars, calls>>

\* messageQueueMutex is acquired; the text is about to be cut.
LockQueue(t) ==
    /\ pc[t] = "lockQueue" /\ messageQueueMutex = Nobody
    /\ messageQueueMutex' = t
    /\ rest' = [rest EXCEPT ![t] = Split(text[t])]
    /\ Goto(t, "push")
    /\ UNCHANGED <<messageQueue, text, giftVars, historyVars, senderVars, calls>>

\* One piece is pushed.
PushPiece(t) ==
    /\ pc[t] = "push" /\ rest[t] # <<>>
    /\ messageQueue' = Append(messageQueue, Head(rest[t]))
    /\ rest' = [rest EXCEPT ![t] = Tail(rest[t])]
    /\ UNCHANGED <<messageQueueMutex, text, giftVars, historyVars, senderVars, pc, calls>>

\* The pushed text thanks for a user's entries in one of the maps.
CountThanks(ledger, about) ==
    [entry \in Entries |-> IF ThanksOf(entry) = about THEN ledger[entry] + gifts[entry]
                                                       ELSE ledger[entry]]

Notified(label) == IF label = "asleep" THEN "running" ELSE label

\* Faulty variant: nobody is notified.
FinishPushWithoutNotify(t) ==
    /\ pc[t] = "push" /\ rest[t] = <<>>
    /\ messageQueueMutex' = Nobody
    /\ Goto(t, IF t = Timer THEN "thank" ELSE "idle")
    /\ thanked' = CountThanks(thanked, text[t].about)
    /\ toThank' = toThank \ {text[t].about}
    /\ text' = [text EXCEPT ![t] = NoText]
    /\ UNCHANGED <<messageQueue, rest, gifts, giftMapMutex, sendGiftMessageTip, gift,
                   received, dropped, senderVars, calls>>

\* notify_one, then the lock goes out of scope.  The timer thread returns to
\* the loop of SendGiftMessageToBili.
FinishPush(t) ==
    /\ pc[t] = "push" /\ rest[t] = <<>>
    /\ messageQueueMutex' = Nobody
    /\ pc' = [pc EXCEPT ![t] = IF t = Timer THEN "thank" ELSE "idle",
                        ![Sender] = Notified(@)]
    /\ thanked' = CountThanks(thanked, text[t].about)
    /\ toThank' = toThank \ {text[t].about}
    /\ text' = [text EXCEPT ![t] = NoText]
    /\ UNCHANGED <<messageQueue, rest, gifts, giftMapMutex, sendGiftMessageTip, gift,
                   received, dropped, senderVars, calls>>

-----------------------------------------------------------------------------
(* AddGiftMessage and AddBlindBoxMessage, called by a worker *)

CallAdd(w, entry, count) ==
    /\ pc[w] = "idle" /\ calls < MaxCalls
    /\ calls' = calls + 1
    /\ gift' = [gift EXCEPT ![w] = [entry |-> entry, count |-> count]]
    /\ Goto(w, "lockGifts")
    /\ UNCHANGED <<queueVars, gifts, giftMapMutex, sendGiftMessageTip, toThank,
                   historyVars, senderVars>>

\* giftMapMutex is acquired and the count goes into the map.
AddToMap(w) ==
    LET entry == gift[w].entry
        count == gift[w].count
    IN  /\ w \in Workers /\ pc[w] = "lockGifts" /\ giftMapMutex = Nobody
        /\ giftMapMutex' = w
        /\ gifts' = [gifts EXCEPT ![entry] = @ + count]
        /\ received' = [received EXCEPT ![entry] = @ + count]
        /\ Goto(w, "resetTip")
        /\ UNCHANGED <<queueVars, sendGiftMessageTip, gift, toThank,
                       thanked, dropped, senderVars, calls>>

\* The flag is cleared, then the lock goes out of scope.
ResetTip(w) ==
    /\ pc[w] = "resetTip"
    /\ sendGiftMessageTip' = FALSE
    /\ giftMapMutex' = Nobody
    /\ gift' = [gift EXCEPT ![w] = NoGift]
    /\ Goto(w, "idle")
    /\ UNCHANGED <<queueVars, gifts, toThank, historyVars, senderVars, calls>>

-----------------------------------------------------------------------------
(* The timer thread: CheckSendMessageToBili and SendGiftMessageToBili *)

Collected(map) == \E entry \in Entries : entry[1] = map /\ gifts[entry] > 0

\* The timer expires; its handler reads the flag without a lock.
CheckTip ==
    /\ pc[Timer] = "idle"
    /\ Goto(Timer, IF sendGiftMessageTip THEN "lockGifts" ELSE "lockToArm")
    /\ UNCHANGED <<queueVars, giftVars, historyVars, senderVars, calls>>

\* Faulty variant: the test of giftMap is inverted.
ReadGiftMapInverted ==
    /\ pc[Timer] = "lockToArm" /\ messageQueueMutex = Nobody
    /\ IF ~Collected("giftMap")
       THEN messageQueueMutex' = Timer /\ Goto(Timer, "setTip")
       ELSE UNCHANGED messageQueueMutex /\ Goto(Timer, "idle")
    /\ UNCHANGED <<messageQueue, rest, text, giftVars, historyVars, senderVars, calls>>

\* The flag was false: giftMap, not blindBoxMap, is looked at under the mutex
\* of the queue.  When it is empty the handler re-arms the timer and returns.
ReadGiftMap ==
    /\ pc[Timer] = "lockToArm" /\ messageQueueMutex = Nobody
    /\ IF Collected("giftMap")
       THEN messageQueueMutex' = Timer /\ Goto(Timer, "setTip")
       ELSE UNCHANGED messageQueueMutex /\ Goto(Timer, "idle")
    /\ UNCHANGED <<messageQueue, rest, text, giftVars, historyVars, senderVars, calls>>

SetTip ==
    /\ pc[Timer] = "setTip"
    /\ sendGiftMessageTip' = TRUE
    /\ messageQueueMutex' = Nobody
    /\ Goto(Timer, "idle")
    /\ UNCHANGED <<messageQueue, rest, text, gifts, giftMapMutex, gift, toThank,
                   historyVars, senderVars, calls>>

\* The flag was true: giftMapMutex is acquired, and kept unless one of the
\* maps is empty.
LockGifts ==
    /\ pc[Timer] = "lockGifts" /\ giftMapMutex = Nobody
    /\ IF \A map \in Maps : Collected(map)
       THEN /\ giftMapMutex' = Timer
            /\ toThank' = {ThanksOf(entry) : entry \in {e \in Entries : gifts[e] > 0}}
            /\ Goto(Timer, "thank")
       ELSE UNCHANGED <<giftMapMutex, toThank>> /\ Goto(Timer, "idle")
    /\ UNCHANGED <<queueVars, gifts, sendGiftMessageTip, gift, historyVars, senderVars, calls>>

\* The next user of giftMap, or of blindBoxMap when giftMap is done, in any
\* order.  PushWaitedMessage drops a text that is too long.
ThankUser(about, length) ==
    /\ pc[Timer] = "thank" /\ about \in toThank
    /\ about[1] = "blindBoxMap" => \A other \in toThank : other[1] = "blindBoxMap"
    /\ IF Pushable(Text(about, length))
       THEN /\ text' = [text EXCEPT ![Timer] = Text(about, length)]
            /\ Goto(Timer, "lockQueue")
            /\ UNCHANGED <<toThank, dropped>>
       ELSE /\ toThank' = toThank \ {about}
            /\ dropped' = CountThanks(dropped, about)
            /\ UNCHANGED <<text, pc>>
    /\ UNCHANGED <<messageQueue, messageQueueMutex, rest, gifts, giftMapMutex,
                   sendGiftMessageTip, gift, received, thanked, senderVars, calls>>

\* Faulty variant: only giftMap is cleared.
FinishFlushKeepingBlindBoxes ==
    /\ pc[Timer] = "thank" /\ toThank = {}
    /\ gifts' = [entry \in Entries |-> IF entry[1] = "giftMap" THEN 0 ELSE gifts[entry]]
    /\ sendGiftMessageTip' = FALSE
    /\ giftMapMutex' = Nobody
    /\ Goto(Timer, "idle")
    /\ UNCHANGED <<queueVars, gift, toThank, historyVars, senderVars, calls>>

\* Both maps are cleared and giftMapMutex released; the timer is re-armed.
FinishFlush ==
    /\ pc[Timer] = "thank" /\ toThank = {}
    /\ gifts' = NoGifts
    /\ sendGiftMessageTip' = FALSE
    /\ giftMapMutex' = Nobody
    /\ Goto(Timer, "idle")
    /\ UNCHANGED <<queueVars, gift, toThank, historyVars, senderVars, calls>>

-----------------------------------------------------------------------------
(* The sender thread: SendMessageInThread *)

\* Under the mutex: the front piece is taken, or the thread sleeps on the
\* condition variable, which releases the mutex.
TakePiece ==
    /\ pc[Sender] = "running" /\ messageQueueMutex = Nobody
    /\ IF messageQueue = <<>>
       THEN /\ Goto(Sender, "asleep")
            /\ UNCHANGED <<messageQueue, messageQueueMutex, outgoing>>
       ELSE /\ outgoing' = <<Head(messageQueue)>>
            /\ messageQueue' = Tail(messageQueue)
            /\ messageQueueMutex' = Sender
            /\ Goto(Sender, "sending")
    /\ UNCHANGED <<rest, text, giftVars, historyVars, delivered, calls>>

SpuriousWakeup ==
    /\ pc[Sender] = "asleep"
    /\ Goto(Sender, "running")
    /\ UNCHANGED <<queueVars, giftVars, historyVars, senderVars, calls>>

\* Faulty variant: the loop continues with the mutex locked.
LogPieceKeepingMutex ==
    /\ pc[Sender] = "sending" /\ TestBuild
    /\ outgoing' = <<>>
    /\ Goto(Sender, "running")
    /\ UNCHANGED <<queueVars, giftVars, historyVars, delivered, calls>>

\* Compiled with -DTEST the piece is logged and the loop continues.
LogPiece ==
    /\ pc[Sender] = "sending" /\ TestBuild
    /\ outgoing' = <<>>
    /\ messageQueueMutex' = Nobody
    /\ Goto(Sender, "running")
    /\ UNCHANGED <<messageQueue, rest, text, giftVars, historyVars, delivered, calls>>

\* SendMessageToBili returns, true or false.  Whatever it returns the piece is
\* not sent again, and a failure to read the answer says nothing about
\* whether bilibili received the piece.
SendPiece ==
    /\ pc[Sender] = "sending" /\ ~TestBuild
    /\ delivered' \in {delivered, delivered \o outgoing}
    /\ outgoing' = <<>>
    /\ messageQueueMutex' = Nobody
    /\ Goto(Sender, "running")
    /\ UNCHANGED <<messageQueue, rest, text, giftVars, historyVars, calls>>

\* The body of a 200 answer is parsed outside the try block: what it throws
\* leaves the thread function and std::terminate ends the process.
Terminate ==
    /\ pc[Sender] = "sending" /\ ~TestBuild /\ NonJsonReply
    /\ delivered' = delivered \o outgoing
    /\ outgoing' = <<>>
    /\ Goto(Sender, "terminated")
    /\ UNCHANGED <<queueVars, giftVars, historyVars, calls>>

-----------------------------------------------------------------------------
PushSteps(t) == LockQueue(t) \/ PushPiece(t) \/ FinishPush(t)
WorkerCalls(w) ==
    \/ \E length \in ChatLengths : CallPush(w, length)
    \/ \E entry \in Entries, count \in Counts : CallAdd(w, entry, count)
WorkerSteps(w) == PushSteps(w) \/ AddToMap(w) \/ ResetTip(w)
TimerSteps ==
    \/ CheckTip \/ ReadGiftMap \/ SetTip \/ LockGifts \/ FinishFlush
    \/ \E about \in Thanks, length \in ThanksLengths : ThankUser(about, length)
    \/ PushSteps(Timer)
SenderSteps == TakePiece \/ LogPiece \/ SendPiece

Alive == pc[Sender] # "terminated"

Next ==
    /\ Alive
    /\ \/ \E w \in Workers : WorkerCalls(w) \/ WorkerSteps(w)
       \/ TimerSteps
       \/ SenderSteps \/ SpuriousWakeup \/ Terminate

Spec == Init /\ [][Next]_vars

\* The operating system runs every thread that can run, the timer expires and
\* a network call returns.  Nothing is said of who gets a contended mutex: as
\* MaxCalls bounds what the workers ask for, no mutex is taken for ever anew.
Fairness ==
    /\ \A w \in Workers : WF_vars(Alive /\ WorkerSteps(w))
    /\ WF_vars(Alive /\ TimerSteps)
    /\ WF_vars(Alive /\ SenderSteps)

FairSpec == Spec /\ Fairness

-----------------------------------------------------------------------------
(* Properties *)

Labels == {"idle", "lockQueue", "push", "lockGifts", "resetTip", "thank", "lockToArm",
           "setTip", "running", "asleep", "sending", "terminated"}
Pieces == [text : Texts, first : {1, PieceLimit + 1}, last : 1..TextLimit]

\* The variables keep their types.
TypeOK ==
    /\ messageQueue \in Seq(Pieces)
    /\ messageQueueMutex \in Threads \cup {Nobody}
    /\ giftMapMutex \in Producers \cup {Nobody}
    /\ gifts \in [Entries -> Nat]
    /\ sendGiftMessageTip \in BOOLEAN
    /\ pc \in [Threads -> Labels]
    /\ text \in [Producers -> Texts \cup {NoText}]
    /\ rest \in [Producers -> Seq(Pieces)]
    /\ gift \in [Workers -> [entry : Entries, count : Counts] \cup {NoGift}]
    /\ toThank \in SUBSET Thanks
    /\ outgoing \in Seq(Pieces) /\ Len(outgoing) <= 1
    /\ calls \in 0..MaxCalls
    /\ delivered \in Seq(Pieces)
    /\ received \in [Entries -> Nat]
    /\ thanked \in [Entries -> Nat]
    /\ dropped \in [Entries -> Nat]

\* Each mutex belongs to the thread whose code has it locked, so at most one
\* thread is inside; a text is pushed by the thread that asked for it, from
\* inside the loop over the users if it is a thanks.
PushLabels == {"idle", "lockQueue", "push", "lockGifts"}
QueueMutexDiscipline ==
    /\ \A t \in Producers : pc[t] = "push" => messageQueueMutex = t
    /\ \A w \in Workers : messageQueueMutex = w => pc[w] = "push"
    /\ messageQueueMutex = Timer <=> pc[Timer] \in {"push", "setTip"}
    /\ messageQueueMutex = Sender <=> pc[Sender] \in {"sending", "terminated"}
    /\ \A t \in Producers : rest[t] # <<>> => pc[t] = "push"
    /\ outgoing # <<>> <=> pc[Sender] = "sending"
GiftMapMutexDiscipline ==
    /\ \A w \in Workers : giftMapMutex = w <=> pc[w] = "resetTip"
    /\ giftMapMutex = Timer <=> pc[Timer] \in {"lockQueue", "push", "thank"}
ArgumentDiscipline ==
    /\ \A w \in Workers :
          /\ pc[w] \in PushLabels \cup {"resetTip"}
          /\ text[w].about = Chat
          /\ pc[w] = "lockGifts" => gift[w] # NoGift
    /\ pc[Timer] \in PushLabels \cup {"thank", "lockToArm", "setTip"}
    /\ pc[Sender] \in {"running", "asleep", "sending", "terminated"}
    /\ pc[Timer] \in {"lockQueue", "push"} => text[Timer].about \in toThank
    /\ \A t \in Producers : pc[t] \in {"lockQueue", "push"} => text[t] \in Texts /\ Pushable(text[t])
MutexDiscipline == QueueMutexDiscipline /\ GiftMapMutexDiscipline /\ ArgumentDiscipline

\* Every gift that was added is still collected, or was thanked for exactly
\* once, or belonged to a thanks text PushWaitedMessage found too long: no
\* addition is lost to a flush that runs at the same time, none is thanked
\* for twice.
Collecting(entry) ==
    IF giftMapMutex = Timer /\ ThanksOf(entry) \notin toThank THEN 0 ELSE gifts[entry]
ThanksConservation ==
    \A entry \in Entries :
        received[entry] = thanked[entry] + dropped[entry] + Collecting(entry)

\* The sender thread never sleeps on a piece nobody will wake it up for: when
\* the queue is not empty, the thread that filled it has yet to notify.
NoLostWakeup ==
    pc[Sender] = "asleep" /\ messageQueue # <<>> => \E t \in Producers : pc[t] = "push"

\* MessageDeque implements the Outbox: a text is accepted when its pusher gets
\* the mutex, so the pieces the pusher has yet to push count as queued.
AcceptedPieces ==
    IF messageQueueMutex \in Producers THEN messageQueue \o rest[messageQueueMutex]
                                       ELSE messageQueue
Promise == INSTANCE Outbox WITH
    queue <- AcceptedPieces, inFlight <- outgoing, delivered <- delivered,
    Batches <- {Split(t) : t \in {u \in Texts : Pushable(u)}}
ImplementsOutbox == Promise!Spec

\* No command waits for ever in PushWaitedMessage or Add...Message, although
\* the timer thread holds both mutexes at times and the sender thread holds
\* one across a network call.
CallsReturn == \A w \in Workers : pc[w] # "idle" ~> pc[w] = "idle"

\* When the commands stop, every piece that waits is taken.
QueueDrains == messageQueue # <<>> ~> messageQueue = <<>>

\* When the commands stop, gifts are thanked for if both maps hold some.
BothMapsAreThanked == (\A map \in Maps : Collected(map)) ~> gifts = NoGifts

\* Gifts collected in either map are thanked for: SendGiftMessageToBili gives
\* up only where there is no gift to thank for (MessageDeque.cpp:255-256).
CollectedGiftsAreThanked == \A map \in Maps : Collected(map) ~> ~Collected(map)
=============================================================================
