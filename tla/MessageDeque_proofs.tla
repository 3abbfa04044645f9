------------------------- MODULE MessageDeque_proofs -------------------------
(***************************************************************************)
(* Proofs about MessageDeque, for any set of workers, users, gifts, counts *)
(* and lengths.                                                            *)
(***************************************************************************)
EXTENDS MessageDeque, SequenceTheorems, TLAPS

-----------------------------------------------------------------------------
(* Lemmas about the operators *)

\* The loop over the code points cuts a text into one or two pieces.
LEMMA SplitType ==
    ASSUME NEW t \in Texts, Pushable(t)
    PROVE  Split(t) \in Seq(Pieces) /\ Split(t) # <<>>
<1>1. t.length \in 1 .. TextLimit /\ TextLimit = 40 /\ PieceLimit = 20
  BY DEF Pushable, TextLimit, PieceLimit
<1>2. \A first \in {1, PieceLimit + 1}, last \in 1 .. TextLimit :
         Piece(t, first, last) \in Pieces
  BY DEF Piece, Pieces
<1>3. CASE t.length > PieceLimit
  <2>1. Piece(t, 1, PieceLimit) \in Pieces /\ Piece(t, PieceLimit + 1, t.length) \in Pieces
    BY <1>1, <1>2
  <2>2. Split(t) = <<Piece(t, 1, PieceLimit), Piece(t, PieceLimit + 1, t.length)>>
    BY <1>3 DEF Split
  <2> QED BY <2>1, <2>2
<1>4. CASE ~(t.length > PieceLimit)
  <2>1. Piece(t, 1, t.length) \in Pieces
    BY <1>1, <1>2
  <2>2. Split(t) = <<Piece(t, 1, t.length)>>
    BY <1>4 DEF Split
  <2> QED BY <2>1, <2>2
<1> QED BY <1>3, <1>4

\* The three kinds of thread are distinct, and none is Nobody.
LEMMA ThreadsDistinct ==
    /\ Timer # Sender /\ Timer # Nobody /\ Sender # Nobody
    /\ Timer \notin Workers /\ Sender \notin Workers /\ Nobody \notin Workers
    /\ Timer \in Producers /\ Sender \notin Producers /\ Nobody \notin Producers
    /\ Workers \subseteq Producers /\ Producers \subseteq Threads /\ Sender \in Threads
BY ThreadsAssumption DEF Timer, Sender, Nobody, Producers, Threads

\* Pushing the first of the remaining pieces does not change what is queued
\* or about to be.
LEMMA PushShift ==
    ASSUME NEW S, NEW q \in Seq(S), NEW r \in Seq(S), r # <<>>
    PROVE  Append(q, Head(r)) \o Tail(r) = q \o r
<1> DEFINE left == Append(q, Head(r)) \o Tail(r)
           right == q \o r
<1>1. Head(r) \in S /\ Tail(r) \in Seq(S) /\ Len(Tail(r)) = Len(r) - 1
      /\ \A i \in 1 .. Len(Tail(r)) : Tail(r)[i] = r[i + 1]
  BY HeadTailProperties
<1>2. Len(r) \in Nat \ {0} /\ Len(q) \in Nat
  BY EmptySeq, LenProperties
<1>3. Append(q, Head(r)) \in Seq(S) /\ Len(Append(q, Head(r))) = Len(q) + 1
      /\ \A i \in 1 .. Len(q) + 1 :
            Append(q, Head(r))[i] = IF i <= Len(q) THEN q[i] ELSE Head(r)
  BY <1>1, <1>2
<1>4. Head(r) = r[1]
  OBVIOUS
<1>5. left \in Seq(S) /\ Len(left) = Len(q) + Len(r)
      /\ \A i \in 1 .. Len(q) + Len(r) :
            left[i] = IF i <= Len(q) + 1 THEN Append(q, Head(r))[i] ELSE Tail(r)[i - (Len(q) + 1)]
  BY ConcatProperties, <1>1, <1>2, <1>3
<1>6. right \in Seq(S) /\ Len(right) = Len(q) + Len(r)
      /\ \A i \in 1 .. Len(q) + Len(r) : right[i] = IF i <= Len(q) THEN q[i] ELSE r[i - Len(q)]
  BY ConcatProperties
<1>7. \A i \in 1 .. Len(left) : left[i] = right[i]
  <2> SUFFICES ASSUME NEW i \in 1 .. Len(q) + Len(r) PROVE left[i] = right[i]
    BY <1>5
  <2>1. CASE i <= Len(q)
    BY <2>1, <1>2, <1>3, <1>5, <1>6
  <2>2. CASE i = Len(q) + 1
    BY <2>2, <1>2, <1>3, <1>4, <1>5, <1>6
  <2>3. CASE i > Len(q) + 1
    <3>1. i - (Len(q) + 1) \in 1 .. Len(Tail(r))
      BY <2>3, <1>1, <1>2
    <3>2. Tail(r)[i - (Len(q) + 1)] = r[i - Len(q)]
      BY <3>1, <1>1, <1>2
    <3> QED BY <2>3, <3>2, <1>2, <1>5, <1>6
  <2> QED BY <2>1, <2>2, <2>3, <1>2
<1> HIDE DEF left, right
<1>8. left = right
  BY <1>5, <1>6, <1>7, SeqEqual
<1> QED BY <1>8 DEF left, right

\* Adding the counts of a map to a ledger gives a ledger.
LEMMA CountThanksType ==
    ASSUME NEW ledger \in [Entries -> Nat], gifts \in [Entries -> Nat], NEW about
    PROVE  CountThanks(ledger, about) \in [Entries -> Nat]
BY DEF CountThanks

\* Whom an entry's giver is thanked by is a member of Thanks, never Chat.
LEMMA ThanksOfType ==
    /\ \A entry \in Entries : ThanksOf(entry) \in Thanks
    /\ Chat \notin Thanks
BY DEF Entries, ThanksOf, Thanks, Maps, Chat

-----------------------------------------------------------------------------
(* The inductive invariant: the types and who holds which mutex where.     *)

IInv == TypeOK /\ MutexDiscipline

LEMMA InitIInv == Init => IInv
<1> SUFFICES ASSUME Init PROVE IInv
  OBVIOUS
<1> USE ThreadsDistinct DEF Init
<1>1. TypeOK
  <2>1. NoGifts \in [Entries -> Nat]
    BY DEF NoGifts
  <2>2. calls \in 0 .. MaxCalls
    BY BoundAssumption
  <2>3. <<>> \in Seq(Pieces) /\ Len(<<>>) = 0
    BY EmptySeq
  <2>4. pc \in [Threads -> Labels]
    BY DEF Labels
  <2>5. text \in [Producers -> Texts \cup {NoText}] /\ rest \in [Producers -> Seq(Pieces)]
        /\ gift \in [Workers -> [entry : Entries, count : Counts] \cup {NoGift}]
    BY <2>3
  <2>6. outgoing \in Seq(Pieces) /\ Len(outgoing) <= 1 /\ messageQueue \in Seq(Pieces)
        /\ delivered \in Seq(Pieces)
    BY <2>3
  <2> QED BY <2>1, <2>2, <2>4, <2>5, <2>6 DEF TypeOK
<1>2. QueueMutexDiscipline
  BY DEF QueueMutexDiscipline
<1>3. GiftMapMutexDiscipline
  BY DEF GiftMapMutexDiscipline
<1>4. ArgumentDiscipline
  BY DEF ArgumentDiscipline, PushLabels, NoText, Text, Chat
<1> QED BY <1>1, <1>2, <1>3, <1>4 DEF IInv, MutexDiscipline

\* A step of PushWaitedMessage keeps the invariant.
LEMMA PushKeepsIInv ==
    ASSUME IInv,
           \/ \E w \in Workers, length \in ChatLengths : CallPush(w, length)
           \/ \E t \in Producers : PushSteps(t)
    PROVE  IInv'
<1> USE ThreadsDistinct DEF IInv, MutexDiscipline, TypeOK, QueueMutexDiscipline,
        GiftMapMutexDiscipline, ArgumentDiscipline, PushLabels, Labels, Goto,
        queueVars, giftVars, historyVars, senderVars
<1>1. ASSUME NEW w \in Workers, NEW length \in ChatLengths, CallPush(w, length)
      PROVE  IInv'
  <2> USE <1>1 DEF CallPush
  <2>1. Text(Chat, length) \in Texts /\ Text(Chat, length).about = Chat
        /\ (length \in 1 .. TextLimit => Pushable(Text(Chat, length)))
    BY DEF Texts, Text, Pushable
  <2>2. calls' \in 0 .. MaxCalls
    BY BoundAssumption
  <2>3. CASE length \notin 1 .. TextLimit
    <3>1. UNCHANGED <<text, pc>>
      BY <2>3
    <3>2. TypeOK'
      BY <2>2, <3>1
    <3> QED BY <3>1, <3>2
  <2>4. CASE length \in 1 .. TextLimit
    <3>1. text' = [text EXCEPT ![w] = Text(Chat, length)]
          /\ pc' = [pc EXCEPT ![w] = "lockQueue"]
      BY <2>4
    <3>2. text' \in [Producers -> Texts \cup {NoText}] /\ pc' \in [Threads -> Labels]
      BY <2>1, <3>1
    <3>3. TypeOK'
      BY <2>2, <3>2
    <3>4. QueueMutexDiscipline'
      BY <3>1
    <3>5. GiftMapMutexDiscipline'
      BY <3>1
    <3>6. ArgumentDiscipline'
      BY <2>1, <2>4, <3>1
    <3> QED BY <3>3, <3>4, <3>5, <3>6
  <2> QED BY <2>3, <2>4
<1>2. ASSUME NEW t \in Producers, LockQueue(t)
      PROVE  IInv'
  <2> USE <1>2 DEF LockQueue
  <2>1. rest' \in [Producers -> Seq(Pieces)]
    BY SplitType
  <2>2. TypeOK'
    BY <2>1
  <2>3. QueueMutexDiscipline'
    OBVIOUS
  <2>4. GiftMapMutexDiscipline'
    OBVIOUS
  <2>5. ArgumentDiscipline'
    OBVIOUS
  <2> QED BY <2>2, <2>3, <2>4, <2>5
<1>3. ASSUME NEW t \in Producers, PushPiece(t)
      PROVE  IInv'
  <2> USE <1>3 DEF PushPiece
  <2>1. Head(rest[t]) \in Pieces /\ Tail(rest[t]) \in Seq(Pieces)
    BY HeadTailProperties
  <2>2. messageQueue' \in Seq(Pieces) /\ rest' \in [Producers -> Seq(Pieces)]
    BY <2>1
  <2>3. TypeOK'
    BY <2>2
  <2>4. QueueMutexDiscipline'
    OBVIOUS
  <2>5. GiftMapMutexDiscipline'
    OBVIOUS
  <2>6. ArgumentDiscipline'
    OBVIOUS
  <2> QED BY <2>3, <2>4, <2>5, <2>6
<1>4. ASSUME NEW t \in Producers, FinishPush(t)
      PROVE  IInv'
  <2> USE <1>4 DEF FinishPush, Notified
  <2>1. thanked' \in [Entries -> Nat]
    BY CountThanksType
  <2>2. toThank' \in SUBSET Thanks
    OBVIOUS
  <2>3. text' \in [Producers -> Texts \cup {NoText}]
    OBVIOUS
  <2>4. pc' \in [Threads -> Labels] /\ pc'[Sender] = Notified(pc[Sender])
        /\ \A u \in Producers \ {t} : pc'[u] = pc[u]
        /\ pc'[t] = IF t = Timer THEN "thank" ELSE "idle"
    OBVIOUS
  <2>5. TypeOK'
    BY <2>1, <2>2, <2>3, <2>4
  <2>6. pc'[Sender] \in {"sending", "terminated"} <=> pc[Sender] \in {"sending", "terminated"}
    BY <2>4
  <2>7. messageQueueMutex = t /\ messageQueueMutex' = Nobody /\ rest'[t] = <<>>
    OBVIOUS
  <2>8. QueueMutexDiscipline'
    <3>1. \A u \in Producers : pc'[u] = "push" => FALSE
      BY <2>4, <2>7
    <3>2. pc'[Timer] \notin {"push", "setTip"}
      BY <2>4, <2>7
    <3>3. pc[Sender] \notin {"sending", "terminated"}
      BY <2>7
    <3>4. \A u \in Producers : rest'[u] = <<>>
      BY <2>4, <2>7
    <3>5. outgoing' = <<>>
      BY <3>3
    <3>6. pc'[Sender] \notin {"sending", "terminated"}
      BY <2>6, <3>3
    <3>7. \A u \in Producers \cup {Sender} : messageQueueMutex' # u
      BY <2>7
    <3> QED BY <3>1, <3>2, <3>4, <3>5, <3>6, <3>7, Zenon
  <2>9. GiftMapMutexDiscipline'
    BY <2>4
  <2>10. ArgumentDiscipline'
    <3>1. NoText.about = Chat
      BY DEF NoText, Text
    <3>2. \A w \in Workers : text'[w].about = Chat
      BY <3>1
    <3>3. pc'[Sender] \in {"running", "asleep", "sending", "terminated"}
      BY <2>4
    <3>4. pc'[Timer] \notin {"lockQueue", "push"} \/ t # Timer
      BY <2>4
    <3>5. ASSUME t # Timer PROVE toThank' = toThank
      <4>1. text[t].about = Chat
        BY <3>5 DEF Producers
      <4> QED BY <4>1, ThanksOfType
    <3> QED BY <2>4, <2>7, <3>2, <3>3, <3>4, <3>5
  <2> QED BY <2>5, <2>8, <2>9, <2>10
<1> QED BY <1>1, <1>2, <1>3, <1>4 DEF PushSteps

\* A step of Add...Message keeps the invariant.
LEMMA AddKeepsIInv ==
    ASSUME IInv,
           NEW w \in Workers,
           \/ \E entry \in Entries, count \in Counts : CallAdd(w, entry, count)
           \/ AddToMap(w)
           \/ ResetTip(w)
    PROVE  IInv'
<1> USE ThreadsDistinct, CountsAssumption DEF IInv, MutexDiscipline, TypeOK,
        QueueMutexDiscipline, GiftMapMutexDiscipline, ArgumentDiscipline, PushLabels, Labels,
        Goto, queueVars, giftVars, historyVars, senderVars, NoGift
<1>1. ASSUME NEW entry \in Entries, NEW count \in Counts, CallAdd(w, entry, count)
      PROVE  IInv'
  <2> USE <1>1 DEF CallAdd
  <2>1. calls' \in 0 .. MaxCalls
    BY BoundAssumption
  <2>2. gift' \in [Workers -> [entry : Entries, count : Counts] \cup {NoGift}]
    OBVIOUS
  <2>3. gift'[w].count # 0 /\ \A v \in Workers \ {w} : gift'[v] = gift[v]
    OBVIOUS
  <2>4. TypeOK'
    BY <2>1, <2>2
  <2>5. QueueMutexDiscipline'
    OBVIOUS
  <2>6. GiftMapMutexDiscipline'
    OBVIOUS
  <2>7. ArgumentDiscipline'
    BY <2>3
  <2> QED BY <2>4, <2>5, <2>6, <2>7
<1>2. ASSUME AddToMap(w)
      PROVE  IInv'
  <2> USE <1>2 DEF AddToMap
  <2>1. gift[w].entry \in Entries /\ gift[w].count \in Nat
    OBVIOUS
  <2>2. gifts' \in [Entries -> Nat] /\ received' \in [Entries -> Nat]
    <3>1. gifts' = [gifts EXCEPT ![gift[w].entry] = @ + gift[w].count]
          /\ received' = [received EXCEPT ![gift[w].entry] = @ + gift[w].count]
      OBVIOUS
    <3>2. gifts[gift[w].entry] + gift[w].count \in Nat
          /\ received[gift[w].entry] + gift[w].count \in Nat
      BY <2>1
    <3> QED BY <3>1, <3>2
  <2>3. TypeOK'
    BY <2>2
  <2>4. QueueMutexDiscipline'
    OBVIOUS
  <2>5. GiftMapMutexDiscipline'
    OBVIOUS
  <2>6. ArgumentDiscipline'
    OBVIOUS
  <2> QED BY <2>3, <2>4, <2>5, <2>6
<1>3. ASSUME ResetTip(w)
      PROVE  IInv'
  <2> USE <1>3 DEF ResetTip
  <2>1. TypeOK'
    OBVIOUS
  <2>2. QueueMutexDiscipline'
    OBVIOUS
  <2>3. GiftMapMutexDiscipline'
    OBVIOUS
  <2>4. ArgumentDiscipline'
    OBVIOUS
  <2> QED BY <2>1, <2>2, <2>3, <2>4
<1> QED BY <1>1, <1>2, <1>3

\* A step of CheckSendMessageToBili that arms the flag keeps the invariant.
LEMMA ArmKeepsIInv ==
    ASSUME IInv, CheckTip \/ ReadGiftMap \/ SetTip
    PROVE  IInv'
<1> USE ThreadsDistinct DEF IInv, MutexDiscipline, TypeOK, QueueMutexDiscipline,
        GiftMapMutexDiscipline, ArgumentDiscipline, PushLabels, Labels, Goto,
        queueVars, giftVars, historyVars, senderVars
<1>1. ASSUME CheckTip PROVE IInv'
  <2> USE <1>1 DEF CheckTip
  <2>1. TypeOK'
    OBVIOUS
  <2>2. QueueMutexDiscipline'
    OBVIOUS
  <2>3. GiftMapMutexDiscipline'
    OBVIOUS
  <2>4. ArgumentDiscipline'
    OBVIOUS
  <2> QED BY <2>1, <2>2, <2>3, <2>4
<1>2. ASSUME ReadGiftMap PROVE IInv'
  <2> USE <1>2 DEF ReadGiftMap
  <2>1. TypeOK'
    OBVIOUS
  <2>2. QueueMutexDiscipline'
    OBVIOUS
  <2>3. GiftMapMutexDiscipline'
    OBVIOUS
  <2>4. ArgumentDiscipline'
    OBVIOUS
  <2> QED BY <2>1, <2>2, <2>3, <2>4
<1>3. ASSUME SetTip PROVE IInv'
  <2> USE <1>3 DEF SetTip
  <2>1. TypeOK'
    OBVIOUS
  <2>2. QueueMutexDiscipline'
    OBVIOUS
  <2>3. GiftMapMutexDiscipline'
    OBVIOUS
  <2>4. ArgumentDiscipline'
    OBVIOUS
  <2> QED BY <2>1, <2>2, <2>3, <2>4
<1> QED BY <1>1, <1>2, <1>3

\* A step of SendGiftMessageToBili keeps the invariant.
LEMMA FlushKeepsIInv ==
    ASSUME IInv,
           \/ LockGifts
           \/ \E about \in Thanks, length \in ThanksLengths : ThankUser(about, length)
           \/ FinishFlush
    PROVE  IInv'
<1> USE ThreadsDistinct DEF IInv, MutexDiscipline, TypeOK, QueueMutexDiscipline,
        GiftMapMutexDiscipline, ArgumentDiscipline, PushLabels, Labels, Goto,
        queueVars, giftVars, historyVars, senderVars
<1>1. ASSUME LockGifts PROVE IInv'
  <2> USE <1>1 DEF LockGifts
  <2>1. toThank' \in SUBSET Thanks
    BY ThanksOfType
  <2>2. TypeOK'
    BY <2>1
  <2>3. QueueMutexDiscipline'
    OBVIOUS
  <2>4. GiftMapMutexDiscipline'
    OBVIOUS
  <2>5. ArgumentDiscipline'
    <3>1. UNCHANGED <<text, gift>> /\ \E label \in {"idle", "thank"} :
             pc' = [pc EXCEPT ![Timer] = label]
      OBVIOUS
    <3> QED BY <3>1
  <2> QED BY <2>2, <2>3, <2>4, <2>5
<1>2. ASSUME NEW about \in Thanks, NEW length \in ThanksLengths, ThankUser(about, length)
      PROVE  IInv'
  <2>1. CASE Pushable(Text(about, length))
    <3>1. Text(about, length) \in Texts /\ Text(about, length).about = about
      BY DEF Texts, Text
    <3>2. /\ pc[Timer] = "thank" /\ about \in toThank
          /\ text' = [text EXCEPT ![Timer] = Text(about, length)]
          /\ pc' = [pc EXCEPT ![Timer] = "lockQueue"]
          /\ UNCHANGED <<toThank, dropped, messageQueue, messageQueueMutex, rest, gifts,
                         giftMapMutex, sendGiftMessageTip, gift, received, thanked,
                         outgoing, delivered, calls>>
      BY <1>2, <2>1 DEF ThankUser
    <3>3. TypeOK'
      BY <3>1, <3>2
    <3>4. QueueMutexDiscipline'
      BY <3>2
    <3>5. GiftMapMutexDiscipline'
      BY <3>2
    <3>6. ArgumentDiscipline'
      BY <2>1, <3>1, <3>2
    <3> QED BY <3>3, <3>4, <3>5, <3>6
  <2>2. CASE ~Pushable(Text(about, length))
    <3>1. /\ pc[Timer] = "thank"
          /\ toThank' = toThank \ {about}
          /\ dropped' = CountThanks(dropped, about)
          /\ UNCHANGED <<text, pc, messageQueue, messageQueueMutex, rest, gifts,
                         giftMapMutex, sendGiftMessageTip, gift, received, thanked,
                         outgoing, delivered, calls>>
      BY <1>2, <2>2 DEF ThankUser
    <3>2. dropped' \in [Entries -> Nat]
      BY <3>1, CountThanksType
    <3>3. TypeOK'
      BY <3>1, <3>2
    <3>4. QueueMutexDiscipline'
      BY <3>1
    <3>5. GiftMapMutexDiscipline'
      BY <3>1
    <3>6. ArgumentDiscipline'
      BY <3>1
    <3> QED BY <3>3, <3>4, <3>5, <3>6
  <2> QED BY <2>1, <2>2
<1>3. ASSUME FinishFlush PROVE IInv'
  <2> USE <1>3 DEF FinishFlush
  <2>1. gifts' \in [Entries -> Nat]
    BY DEF NoGifts
  <2>2. TypeOK'
    BY <2>1
  <2>3. QueueMutexDiscipline'
    OBVIOUS
  <2>4. GiftMapMutexDiscipline'
    OBVIOUS
  <2>5. ArgumentDiscipline'
    OBVIOUS
  <2> QED BY <2>2, <2>3, <2>4, <2>5
<1> QED BY <1>1, <1>2, <1>3

\* A step of the sender thread keeps the invariant.
LEMMA SenderKeepsIInv ==
    ASSUME IInv, SenderSteps \/ SpuriousWakeup \/ Terminate
    PROVE  IInv'
<1> USE ThreadsDistinct DEF IInv, MutexDiscipline, TypeOK, QueueMutexDiscipline,
        GiftMapMutexDiscipline, ArgumentDiscipline, PushLabels, Labels, Goto,
        queueVars, giftVars, historyVars, senderVars
<1>1. ASSUME TakePiece PROVE IInv'
  <2>1. CASE messageQueue = <<>>
    <3>1. /\ pc' = [pc EXCEPT ![Sender] = "asleep"] /\ pc[Sender] = "running"
          /\ UNCHANGED <<queueVars, giftVars, historyVars, senderVars, calls>>
      BY <1>1, <2>1 DEF TakePiece
    <3>2. TypeOK'
      BY <3>1
    <3>3. QueueMutexDiscipline'
      BY <3>1
    <3>4. GiftMapMutexDiscipline'
      BY <3>1
    <3>5. ArgumentDiscipline'
      BY <3>1
    <3> QED BY <3>2, <3>3, <3>4, <3>5
  <2>2. CASE messageQueue # <<>>
    <3>1. /\ pc' = [pc EXCEPT ![Sender] = "sending"] /\ pc[Sender] = "running"
          /\ messageQueueMutex = Nobody /\ messageQueueMutex' = Sender
          /\ messageQueue' = Tail(messageQueue) /\ outgoing' = <<Head(messageQueue)>>
          /\ UNCHANGED <<rest, text, giftVars, historyVars, delivered, calls>>
      BY <1>1, <2>2 DEF TakePiece
    <3>2. Head(messageQueue) \in Pieces /\ Tail(messageQueue) \in Seq(Pieces)
      BY <2>2, HeadTailProperties
    <3>3. outgoing' \in Seq(Pieces) /\ Len(outgoing') = 1 /\ outgoing' # <<>>
      BY <3>1, <3>2
    <3>4. TypeOK'
      BY <3>1, <3>2, <3>3
    <3>5. QueueMutexDiscipline'
      BY <3>1, <3>3
    <3>6. GiftMapMutexDiscipline'
      BY <3>1
    <3>7. ArgumentDiscipline'
      BY <3>1
    <3> QED BY <3>4, <3>5, <3>6, <3>7
  <2> QED BY <2>1, <2>2
<1>2. ASSUME LogPiece \/ SendPiece \/ Terminate PROVE IInv'
  <2> USE <1>2 DEF LogPiece, SendPiece, Terminate
  <2>1. delivered' \in Seq(Pieces)
    <3>1. delivered \o outgoing \in Seq(Pieces)
      BY ConcatProperties
    <3> QED BY <3>1
  <2>2. outgoing' = <<>> /\ outgoing' \in Seq(Pieces) /\ Len(outgoing') <= 1
    BY EmptySeq
  <2>3. TypeOK'
    BY <2>1, <2>2
  <2>4. QueueMutexDiscipline'
    BY <2>2
  <2>5. GiftMapMutexDiscipline'
    OBVIOUS
  <2>6. ArgumentDiscipline'
    OBVIOUS
  <2> QED BY <2>3, <2>4, <2>5, <2>6
<1>3. ASSUME SpuriousWakeup PROVE IInv'
  <2> USE <1>3 DEF SpuriousWakeup
  <2>1. TypeOK'
    OBVIOUS
  <2>2. QueueMutexDiscipline'
    OBVIOUS
  <2>3. GiftMapMutexDiscipline'
    OBVIOUS
  <2>4. ArgumentDiscipline'
    OBVIOUS
  <2> QED BY <2>1, <2>2, <2>3, <2>4
<1> QED BY <1>1, <1>2, <1>3 DEF SenderSteps

\* The invariant is inductive.
LEMMA NextKeepsIInv == IInv /\ [Next]_vars => IInv'
<1> SUFFICES ASSUME IInv, [Next]_vars PROVE IInv'
  OBVIOUS
<1>1. CASE UNCHANGED vars
  BY <1>1 DEF vars, queueVars, giftVars, historyVars, senderVars, IInv, TypeOK, MutexDiscipline,
     QueueMutexDiscipline, GiftMapMutexDiscipline, ArgumentDiscipline
<1>2. ASSUME NEW w \in Workers, WorkerCalls(w) \/ WorkerSteps(w) PROVE IInv'
  BY <1>2, PushKeepsIInv, AddKeepsIInv, ThreadsDistinct DEF WorkerCalls, WorkerSteps
<1>3. CASE TimerSteps
  BY <1>3, PushKeepsIInv, ArmKeepsIInv, FlushKeepsIInv, ThreadsDistinct DEF TimerSteps
<1>4. CASE SenderSteps \/ SpuriousWakeup \/ Terminate
  BY <1>4, SenderKeepsIInv
<1> QED BY <1>1, <1>2, <1>3, <1>4 DEF Next

\* The variables keep their types and every mutex is held exactly by the
\* thread inside it, whatever the threads, gifts and lengths.
THEOREM TypesAndMutexes == Spec => [](TypeOK /\ MutexDiscipline)
BY InitIInv, NextKeepsIInv, PTL DEF Spec, IInv

\* The types alone: queues hold pieces of texts, the counts of gifts stay natural
\* numbers, and the sender has one piece in its hands at most.
THEOREM Types == Spec => []TypeOK
BY TypesAndMutexes, PTL

-----------------------------------------------------------------------------
(* No lost wake-up *)

LEMMA NextKeepsNoLostWakeup ==
    ASSUME IInv, NoLostWakeup, [Next]_vars
    PROVE  NoLostWakeup'
<1> USE ThreadsDistinct DEF IInv, MutexDiscipline, TypeOK, QueueMutexDiscipline,
        ArgumentDiscipline, NoLostWakeup, Goto, queueVars, giftVars, historyVars, senderVars
<1>1. CASE UNCHANGED vars
  BY <1>1 DEF vars
<1>2. ASSUME NEW w \in Workers, WorkerCalls(w) \/ AddToMap(w) \/ ResetTip(w)
      PROVE  NoLostWakeup'
  BY <1>2 DEF WorkerCalls, CallPush, CallAdd, AddToMap, ResetTip
<1>3. ASSUME NEW t \in Producers, LockQueue(t)
      PROVE  NoLostWakeup'
  BY <1>3 DEF LockQueue
<1>4. ASSUME NEW t \in Producers, PushPiece(t)
      PROVE  NoLostWakeup'
  BY <1>4 DEF PushPiece
<1>5. ASSUME NEW t \in Producers, FinishPush(t)
      PROVE  NoLostWakeup'
  <2>1. pc'[Sender] # "asleep"
    BY <1>5 DEF FinishPush, Notified
  <2> QED BY <2>1
<1>6. CASE CheckTip \/ LockGifts \/ FinishFlush
  BY <1>6 DEF CheckTip, LockGifts, FinishFlush
<1>7. ASSUME NEW about \in Thanks, NEW length \in ThanksLengths, ThankUser(about, length)
      PROVE  NoLostWakeup'
  BY <1>7 DEF ThankUser
<1>8. CASE ReadGiftMap
  BY <1>8 DEF ReadGiftMap
<1>9. CASE SetTip
  BY <1>9 DEF SetTip
<1>10. CASE SenderSteps \/ SpuriousWakeup \/ Terminate
  BY <1>10 DEF SenderSteps, TakePiece, LogPiece, SendPiece, SpuriousWakeup, Terminate
<1> QED
  BY <1>1, <1>2, <1>3, <1>4, <1>5, <1>6, <1>7, <1>8, <1>9, <1>10
  DEF Next, WorkerSteps, TimerSteps, PushSteps

\* The sender thread never sleeps on a queue that nobody will notify it of.
THEOREM WakeupsAreNotLost == Spec => []NoLostWakeup
<1>1. Init => NoLostWakeup
  BY DEF Init, NoLostWakeup
<1>2. TypeOK /\ MutexDiscipline /\ NoLostWakeup /\ [Next]_vars => NoLostWakeup'
  BY NextKeepsNoLostWakeup DEF IInv
<1> QED BY <1>1, <1>2, TypesAndMutexes, PTL DEF Spec

-----------------------------------------------------------------------------
(* No thanks are lost or repeated *)

\* What ThanksConservation says of an entry only depends on these variables.
LEMMA ConservationFrame ==
    ASSUME ThanksConservation,
           UNCHANGED <<gifts, toThank, received, thanked, dropped>>,
           giftMapMutex = Timer <=> giftMapMutex' = Timer
    PROVE  ThanksConservation'
BY DEF ThanksConservation, Collecting

\* Moving a user's entries to a ledger as the loop passes them keeps the sum.
LEMMA ConservationOfLoop ==
    ASSUME IInv, ThanksConservation, NEW about \in toThank,
           giftMapMutex = Timer, UNCHANGED <<giftMapMutex, gifts, received>>,
           toThank' = toThank \ {about},
           \/ thanked' = CountThanks(thanked, about) /\ dropped' = dropped
           \/ dropped' = CountThanks(dropped, about) /\ thanked' = thanked
    PROVE  ThanksConservation'
<1> SUFFICES ASSUME NEW entry \in Entries
             PROVE  received'[entry] = thanked'[entry] + dropped'[entry] + Collecting(entry)'
  BY DEF ThanksConservation
<1>1. received[entry] = thanked[entry] + dropped[entry] + Collecting(entry)
  BY DEF ThanksConservation
<1>2. /\ thanked[entry] \in Nat /\ dropped[entry] \in Nat /\ gifts[entry] \in Nat
      /\ received'[entry] = received[entry]
  BY DEF IInv, TypeOK
<1>3. CASE ThanksOf(entry) = about
  <2>1. Collecting(entry) = gifts[entry] /\ Collecting(entry)' = 0
    BY <1>3 DEF Collecting
  <2>2. thanked'[entry] + dropped'[entry] = thanked[entry] + dropped[entry] + gifts[entry]
    BY <1>2, <1>3 DEF CountThanks
  <2> QED BY <1>1, <1>2, <2>1, <2>2
<1>4. CASE ThanksOf(entry) # about
  <2>1. Collecting(entry)' = Collecting(entry)
    BY <1>4 DEF Collecting
  <2>2. thanked'[entry] = thanked[entry] /\ dropped'[entry] = dropped[entry]
    BY <1>2, <1>4 DEF CountThanks
  <2> QED BY <1>1, <1>2, <2>1, <2>2
<1> QED BY <1>3, <1>4

LEMMA NextKeepsConservation ==
    ASSUME IInv, ThanksConservation, [Next]_vars
    PROVE  ThanksConservation'
<1> USE ThreadsDistinct DEF queueVars, giftVars, historyVars, senderVars
<1>1. CASE UNCHANGED vars
  BY <1>1, ConservationFrame DEF vars
<1>2. ASSUME NEW w \in Workers, WorkerCalls(w) \/ ResetTip(w)
      PROVE  ThanksConservation'
  <2>1. giftMapMutex = Timer <=> giftMapMutex' = Timer
    BY <1>2 DEF WorkerCalls, CallPush, CallAdd, ResetTip, IInv, MutexDiscipline,
       GiftMapMutexDiscipline
  <2> QED BY <1>2, <2>1, ConservationFrame DEF WorkerCalls, CallPush, CallAdd, ResetTip
<1>3. ASSUME NEW t \in Producers, LockQueue(t) \/ PushPiece(t)
      PROVE  ThanksConservation'
  BY <1>3, ConservationFrame DEF LockQueue, PushPiece
<1>4. ASSUME NEW t \in Producers, FinishPush(t)
      PROVE  ThanksConservation'
  <2>1. CASE t = Timer
    <3>1. text[t].about \in toThank /\ giftMapMutex = Timer
      BY <1>4, <2>1 DEF FinishPush, IInv, MutexDiscipline, GiftMapMutexDiscipline,
         ArgumentDiscipline
    <3> QED BY <1>4, <3>1, ConservationOfLoop DEF FinishPush
  <2>2. CASE t \in Workers
    <3>1. text[t].about = Chat
      BY <2>2 DEF IInv, MutexDiscipline, ArgumentDiscipline
    <3>2. \A entry \in Entries : ThanksOf(entry) # Chat
      BY ThanksOfType
    <3>3. toThank' = toThank
      BY <1>4, <3>1, ThanksOfType DEF FinishPush, IInv, TypeOK
    <3>4. thanked \in [Entries -> Nat] /\ thanked' = CountThanks(thanked, Chat)
      BY <1>4, <3>1 DEF FinishPush, IInv, TypeOK
    <3>5. thanked' = thanked
      BY <3>2, <3>4 DEF CountThanks
    <3> QED BY <1>4, <3>3, <3>5, ConservationFrame DEF FinishPush
  <2> QED BY <2>1, <2>2 DEF Producers
<1>5. ASSUME NEW w \in Workers, AddToMap(w)
      PROVE  ThanksConservation'
  <2> DEFINE e == gift[w].entry
             n == gift[w].count
  <2>1. /\ giftMapMutex = Nobody /\ giftMapMutex' = w
        /\ gifts' = [gifts EXCEPT ![e] = @ + n]
        /\ received' = [received EXCEPT ![e] = @ + n]
        /\ UNCHANGED <<toThank, thanked, dropped>>
    BY <1>5 DEF AddToMap
  <2>2. n \in Nat
    <3>1. gift[w] \in [entry : Entries, count : Counts] \cup {NoGift}
      BY DEF IInv, TypeOK
    <3>2. gift[w].count \in Counts \cup {0}
      BY <3>1 DEF NoGift
    <3>3. \A c \in Counts \cup {0} : c \in Nat
      BY CountsAssumption
    <3> QED BY <3>2, <3>3
  <2> HIDE DEF e, n
  <2> SUFFICES ASSUME NEW entry \in Entries
               PROVE  received'[entry] = thanked'[entry] + dropped'[entry] + Collecting(entry)'
    BY DEF ThanksConservation
  <2>3. received[entry] = thanked[entry] + dropped[entry] + Collecting(entry)
    BY DEF ThanksConservation
  <2>4. /\ thanked[entry] \in Nat /\ dropped[entry] \in Nat /\ gifts[entry] \in Nat
        /\ received[entry] \in Nat
    BY DEF IInv, TypeOK
  <2>5. Collecting(entry) = gifts[entry] /\ Collecting(entry)' = gifts'[entry]
    BY <2>1 DEF Collecting
  <2>6. \/ gifts'[entry] = gifts[entry] + n /\ received'[entry] = received[entry] + n
        \/ gifts'[entry] = gifts[entry] /\ received'[entry] = received[entry]
    BY <2>1 DEF IInv, TypeOK
  <2> QED BY <2>1, <2>2, <2>3, <2>4, <2>5, <2>6
<1>6. CASE CheckTip \/ ReadGiftMap \/ SetTip
  BY <1>6, ConservationFrame DEF CheckTip, ReadGiftMap, SetTip
<1>7. CASE LockGifts
  <2>1. CASE giftMapMutex' = Timer
    <3>1. /\ giftMapMutex = Nobody /\ UNCHANGED <<gifts, received, thanked, dropped>>
          /\ toThank' = {ThanksOf(entry) : entry \in {e \in Entries : gifts[e] > 0}}
      BY <1>7, <2>1 DEF LockGifts
    <3>2. \A entry \in Entries : gifts[entry] \in Nat
      BY DEF IInv, TypeOK
    <3>3. \A entry \in Entries : ThanksOf(entry) \notin toThank' => gifts[entry] = 0
      BY <3>1, <3>2
    <3>4. \A entry \in Entries : Collecting(entry)' = Collecting(entry)
      BY <2>1, <3>1, <3>3 DEF Collecting
    <3> QED BY <3>1, <3>4 DEF ThanksConservation
  <2>2. CASE giftMapMutex' # Timer
    BY <1>7, <2>2, ConservationFrame DEF LockGifts
  <2> QED BY <2>1, <2>2
<1>8. ASSUME NEW about \in Thanks, NEW length \in ThanksLengths, ThankUser(about, length)
      PROVE  ThanksConservation'
  <2>1. CASE Pushable(Text(about, length))
    BY <1>8, <2>1, ConservationFrame DEF ThankUser
  <2>2. CASE ~Pushable(Text(about, length))
    <3>1. giftMapMutex = Timer
      BY <1>8 DEF ThankUser, IInv, MutexDiscipline, GiftMapMutexDiscipline
    <3> QED BY <1>8, <2>2, <3>1, ConservationOfLoop DEF ThankUser
  <2> QED BY <2>1, <2>2
<1>9. CASE FinishFlush
  <2>1. /\ giftMapMutex = Timer /\ giftMapMutex' = Nobody /\ toThank = {}
        /\ gifts' = NoGifts /\ UNCHANGED <<toThank, received, thanked, dropped>>
    BY <1>9 DEF FinishFlush, IInv, MutexDiscipline, GiftMapMutexDiscipline
  <2>2. \A entry \in Entries : Collecting(entry) = 0 /\ Collecting(entry)' = 0
    BY <2>1 DEF Collecting, NoGifts
  <2> QED BY <2>1, <2>2 DEF ThanksConservation
<1>10. CASE SenderSteps \/ SpuriousWakeup \/ Terminate
  BY <1>10, ConservationFrame
  DEF SenderSteps, TakePiece, LogPiece, SendPiece, SpuriousWakeup, Terminate
<1> QED
  BY <1>1, <1>2, <1>3, <1>4, <1>5, <1>6, <1>7, <1>8, <1>9, <1>10
  DEF Next, WorkerSteps, TimerSteps, PushSteps

\* Every gift that was added is collected, was thanked for once, or belonged
\* to a thanks text that was too long: no flush loses an addition made by a
\* command at the same time.
THEOREM ThanksAreConserved == Spec => []ThanksConservation
<1>1. Init => ThanksConservation
  BY DEF Init, ThanksConservation, Collecting, NoGifts
<1>2. TypeOK /\ MutexDiscipline /\ ThanksConservation /\ [Next]_vars => ThanksConservation'
  BY NextKeepsConservation DEF IInv
<1> QED BY <1>1, <1>2, TypesAndMutexes, PTL DEF Spec

-----------------------------------------------------------------------------
(* MessageDeque implements the Outbox *)

\* Outside of a push, and at the end of one, what is accepted is the queue.
LEMMA AcceptedIsQueue ==
    ASSUME TypeOK, \A t \in Producers : messageQueueMutex = t => rest[t] = <<>>
    PROVE  AcceptedPieces = messageQueue
<1>1. messageQueue \o <<>> = messageQueue
  BY ConcatEmptySeq DEF TypeOK
<1> QED BY <1>1 DEF AcceptedPieces

LEMMA NextImplementsOutbox ==
    ASSUME IInv, [Next]_vars
    PROVE  [Promise!Next]_(Promise!vars)
<1> USE ThreadsDistinct DEF queueVars, giftVars, historyVars, senderVars
<1> DEFINE Stutter == UNCHANGED <<AcceptedPieces, outgoing, delivered>>
<1>0. IInv'
  BY NextKeepsIInv
<1>1. ASSUME UNCHANGED <<messageQueue, messageQueueMutex, rest, outgoing, delivered>>
      PROVE  Stutter
  BY <1>1 DEF AcceptedPieces
<1>2. ASSUME Stutter PROVE [Promise!Next]_(Promise!vars)
  BY <1>2 DEF Promise!vars
<1>3. CASE UNCHANGED vars
  BY <1>1, <1>2, <1>3 DEF vars
<1>4. ASSUME NEW w \in Workers, WorkerCalls(w) \/ AddToMap(w) \/ ResetTip(w)
      PROVE  [Promise!Next]_(Promise!vars)
  BY <1>1, <1>2, <1>4 DEF WorkerCalls, CallPush, CallAdd, AddToMap, ResetTip
<1>5. ASSUME NEW t \in Producers, LockQueue(t)
      PROVE  [Promise!Next]_(Promise!vars)
  <2>1. AcceptedPieces = messageQueue
    BY <1>5 DEF LockQueue, AcceptedPieces
  <2>2. messageQueueMutex' = t /\ messageQueue' = messageQueue /\ rest'[t] = Split(text[t])
    BY <1>5 DEF LockQueue, IInv, TypeOK
  <2>3. AcceptedPieces' = AcceptedPieces \o Split(text[t])
    BY <2>1, <2>2 DEF AcceptedPieces
  <2>4. text[t] \in Texts /\ Pushable(text[t])
    BY <1>5 DEF LockQueue, IInv, MutexDiscipline, ArgumentDiscipline
  <2>5. Promise!Accept(Split(text[t]))
    BY <1>5, <2>3 DEF LockQueue, Promise!Accept
  <2> QED BY <2>4, <2>5 DEF Promise!Next
<1>6. ASSUME NEW t \in Producers, PushPiece(t)
      PROVE  [Promise!Next]_(Promise!vars)
  <2>1. /\ messageQueueMutex = t /\ messageQueueMutex' = t
        /\ messageQueue \in Seq(Pieces) /\ rest[t] \in Seq(Pieces) /\ rest[t] # <<>>
        /\ messageQueue' = Append(messageQueue, Head(rest[t]))
        /\ rest'[t] = Tail(rest[t])
        /\ UNCHANGED <<outgoing, delivered>>
    BY <1>6 DEF PushPiece, IInv, TypeOK, MutexDiscipline, QueueMutexDiscipline
  <2>2. messageQueue' \o rest'[t] = messageQueue \o rest[t]
    BY <2>1, PushShift
  <2>3. AcceptedPieces' = AcceptedPieces
    BY <2>1, <2>2 DEF AcceptedPieces
  <2> QED BY <2>1, <2>3, <1>2
<1>7. ASSUME NEW t \in Producers, FinishPush(t)
      PROVE  [Promise!Next]_(Promise!vars)
  <2>1. /\ messageQueueMutex = t /\ messageQueueMutex' = Nobody /\ rest[t] = <<>>
        /\ UNCHANGED <<messageQueue, outgoing, delivered>>
    BY <1>7 DEF FinishPush, IInv, MutexDiscipline, QueueMutexDiscipline
  <2>2. AcceptedPieces = messageQueue
    BY <2>1, AcceptedIsQueue DEF IInv
  <2>3. AcceptedPieces' = messageQueue'
    BY <2>1 DEF AcceptedPieces
  <2> QED BY <2>1, <2>2, <2>3, <1>2
<1>8. CASE CheckTip \/ LockGifts \/ FinishFlush
  BY <1>1, <1>2, <1>8 DEF CheckTip, LockGifts, FinishFlush
<1>9. ASSUME NEW about \in Thanks, NEW length \in ThanksLengths, ThankUser(about, length)
      PROVE  [Promise!Next]_(Promise!vars)
  BY <1>1, <1>2, <1>9 DEF ThankUser
<1>10. CASE ReadGiftMap \/ SetTip
  <2>1. UNCHANGED <<messageQueue, rest, outgoing, delivered>>
    BY <1>10 DEF ReadGiftMap, SetTip
  <2>2. messageQueueMutex \in {Nobody, Timer} /\ messageQueueMutex' \in {Nobody, Timer}
        /\ rest[Timer] = <<>>
    BY <1>10 DEF ReadGiftMap, SetTip, IInv, MutexDiscipline, QueueMutexDiscipline
  <2>3. AcceptedPieces = messageQueue
    BY <2>2, AcceptedIsQueue DEF IInv
  <2>4. AcceptedPieces' = messageQueue'
    <3>1. messageQueue' \o <<>> = messageQueue'
      BY <1>0, ConcatEmptySeq DEF IInv, TypeOK
    <3> QED BY <3>1, <2>1, <2>2 DEF AcceptedPieces
  <2> QED BY <2>1, <2>3, <2>4, <1>2
<1>11. CASE TakePiece
  <2>1. AcceptedPieces = messageQueue /\ AcceptedPieces' = messageQueue'
    BY <1>11 DEF TakePiece, AcceptedPieces
  <2>2. CASE messageQueue = <<>>
    BY <1>2, <1>11, <2>1, <2>2 DEF TakePiece
  <2>3. CASE messageQueue # <<>>
    <3>1. outgoing = <<>>
      BY <1>11 DEF TakePiece, IInv, MutexDiscipline, QueueMutexDiscipline
    <3>2. Promise!Take
      BY <1>11, <2>1, <2>3, <3>1 DEF TakePiece, Promise!Take
    <3> QED BY <3>2 DEF Promise!Next
  <2> QED BY <2>2, <2>3
<1>12. CASE LogPiece \/ SendPiece \/ Terminate
  <2>1. messageQueueMutex \notin Producers /\ messageQueueMutex' \notin Producers
    BY <1>12 DEF LogPiece, SendPiece, Terminate, IInv, MutexDiscipline, QueueMutexDiscipline
  <2>2. outgoing # <<>> /\ outgoing' = <<>> /\ messageQueue' = messageQueue
    BY <1>12 DEF LogPiece, SendPiece, Terminate, IInv, MutexDiscipline, QueueMutexDiscipline
  <2>3. AcceptedPieces' = AcceptedPieces
    BY <2>1, <2>2 DEF AcceptedPieces
  <2>4. CASE delivered' = delivered \o outgoing
    BY <2>2, <2>3, <2>4 DEF Promise!Deliver, Promise!Next
  <2>5. CASE delivered' = delivered
    BY <2>2, <2>3, <2>5 DEF Promise!Lose, Promise!Next
  <2> QED BY <1>12, <2>4, <2>5 DEF LogPiece, SendPiece, Terminate
<1>13. CASE SpuriousWakeup
  BY <1>1, <1>2, <1>13 DEF SpuriousWakeup
<1> QED
  BY <1>3, <1>4, <1>5, <1>6, <1>7, <1>8, <1>9, <1>10, <1>11, <1>12, <1>13
  DEF Next, WorkerSteps, TimerSteps, PushSteps, SenderSteps

\* Every text is queued whole and its pieces leave in the order of the queue,
\* each offered to bilibili at most once.
THEOREM MessageDequeImplementsOutbox == Spec => ImplementsOutbox
<1>1. Init => Promise!Init
  BY ThreadsDistinct DEF Init, Promise!Init, AcceptedPieces
<1>2. TypeOK /\ MutexDiscipline /\ [Next]_vars => [Promise!Next]_(Promise!vars)
  BY NextImplementsOutbox DEF IInv
<1> QED BY <1>1, <1>2, TypesAndMutexes, PTL DEF Spec, ImplementsOutbox, Promise!Spec

-----------------------------------------------------------------------------
(* The mutexes are taken in one order *)

WaitsForQueue(t) == pc[t] \in {"lockQueue", "lockToArm"} \/ (t = Sender /\ pc[t] = "running")
WaitsForGifts(t) == pc[t] = "lockGifts"

\* t waits for a mutex that u has.
WaitsFor(t, u) ==
    \/ WaitsForQueue(t) /\ messageQueueMutex = u
    \/ WaitsForGifts(t) /\ giftMapMutex = u

\* A thread that is waited for may wait itself, as the timer does for
\* messageQueueMutex with giftMapMutex in its hands, but then for one that waits
\* for nobody.
ChainsEnd ==
    \A t, u, v \in Threads :
        WaitsFor(t, u) /\ WaitsFor(u, v) =>
            u = Timer /\ v # Timer /\ ~WaitsForQueue(v) /\ ~WaitsForGifts(v)

\* giftMapMutex is taken before messageQueueMutex and never the other way round:
\* the workers, the timer and the sender do not wait for one another in a circle.
THEOREM NobodyWaitsInACircle == Spec => []ChainsEnd
<1>1. TypeOK /\ MutexDiscipline => ChainsEnd
  <2> SUFFICES ASSUME TypeOK, MutexDiscipline,
                      NEW t \in Threads, NEW u \in Threads, NEW v \in Threads,
                      WaitsFor(t, u), WaitsFor(u, v)
               PROVE  u = Timer /\ v # Timer /\ ~WaitsForQueue(v) /\ ~WaitsForGifts(v)
    BY DEF ChainsEnd
  <2> USE ThreadsDistinct DEF MutexDiscipline, QueueMutexDiscipline, GiftMapMutexDiscipline,
          ArgumentDiscipline, WaitsForQueue, WaitsForGifts, Threads, Producers, PushLabels
  <2>1. ASSUME NEW x \in Threads, messageQueueMutex = x
        PROVE  ~WaitsForQueue(x) /\ ~WaitsForGifts(x)
    BY <2>1
  <2>2. WaitsForGifts(t) /\ giftMapMutex = u
    BY <2>1 DEF WaitsFor
  <2>3. u = Timer /\ WaitsForQueue(u) /\ ~WaitsForGifts(u)
    <3>1. u \in Producers
      BY <2>2 DEF TypeOK
    <3>2. u \notin Workers
      BY <2>2 DEF WaitsFor
    <3> QED BY <2>2, <3>1, <3>2 DEF WaitsFor
  <2>4. messageQueueMutex = v
    BY <2>3 DEF WaitsFor
  <2> QED BY <2>1, <2>3, <2>4
<1> QED BY <1>1, TypesAndMutexes, PTL
=============================================================================
