------------------------------- MODULE Ledger -------------------------------
(***************************************************************************)
(* What the robot remembers: Entity/DataBase and Run of the commands that  *)
(* write to it or thank for something.  Every table has the millisecond of *)
(* the insertion for its primary key.  The pool's workers insert at the    *)
(* same time, the clock may stand still between two insertions or be set   *)
(* back, and the process may die between any two steps; the rows survive.  *)
(* The welcomes of EntryNotice are recorded here too.                      *)
(***************************************************************************)
EXTENDS EntryNotice, FiniteSets

CONSTANTS
    Times,          \* the milliseconds the clock may show
    GiftValues,     \* price, original price and count of blind boxes
    Half,           \* half of 2^32, the range of unsigned
    MaxEvents,      \* bound: messages the commands below are run for
    MaxMessages     \* bound: these and the commands of EntryNotice together

ASSUME LedgerAssumption ==
    /\ Times \subseteq Nat \ {0}
    /\ Half \in Nat \ {0} /\ MaxEvents \in Nat /\ MaxMessages \in Nat
    /\ GiftValues \subseteq [price : Nat, originalPrice : Nat, count : Nat]

\* What a blind box won, in thousandths of a yuan.
Won(v) == v.price * v.count - v.originalPrice * v.count

\* No blind box wins or loses 2^31 thousandths of a yuan.
ASSUME ProfitAssumption == \A v \in GiftValues : Won(v) \in (-Half)..(Half - 1)

Tables == {"gifts", "blindBox", "danmaku", "enterRoomUser"}

\* The messages, told apart by what Run does for them:
\*   gift       SendGift without a blind box, or GuardBuy
\*   lot        Danmu that draws a lot, if canDrawByLot is on
\*   danmaku    any other Danmu
\*   answered   InteractWord of somebody who follows or shares, or GuardBlindBox,
\*              if the switch for that is on: a text is pushed, nothing recorded
\*   nothing    the same with the switch off; Danmu of the robot itself, or one
\*              that could not be read (its LoadMessage succeeds all the same)
\*   entry      InteractWord of somebody who is welcomed
Kinds == {"gift", "blindGift", "superChat", "danmaku", "lot", "answered", "nothing", "entry"}
Events == 1..MaxEvents

\* The switches of Config for gifts, which stay as they were loaded.
Switches == {"thanksGift", "thanksBlindBox"}

VARIABLES
    switches,       \* those that are on
    kind,           \* history: the kind of each message so far, "none" before
    event,          \* the message a worker runs a command for, or 0
    step,           \* what the worker does next for it
    stamp,          \* the milliseconds AddGift and its like have read
    rows,           \* the database: table and millisecond -> message, or 0
    profit,         \* what the room is told blind boxes won, in all
    texts,          \* history: calls of MessageDeque for each message
    gain,           \* history: what those blind boxes won
    refused,        \* history: the insertions that failed, and were logged
    finished        \* history: the messages Run returned for

workVars   == <<event, step, stamp>>
accounts   == <<texts, profit, gain>>
ledgerVars == <<switches, kind, workVars, rows, accounts, refused, finished>>
allVars    == <<vars, ledgerVars>>

LedgerInit ==
    /\ Init
    /\ switches \in SUBSET Switches
    /\ kind = [e \in Events |-> "none"]
    /\ event = [w \in Workers |-> 0]
    /\ step = [w \in Workers |-> "none"]
    /\ stamp = [w \in Workers |-> 0]
    /\ rows = [table \in Tables |-> [t \in Times |-> 0]]
    /\ profit = 0 /\ gain = 0
    /\ texts = [e \in Events |-> 0]
    /\ refused = {} /\ finished = {}

Idle(w) == pc[w] = "idle" /\ event[w] = 0

-----------------------------------------------------------------------------
(* The order of the calls in Run                                           *)

\* How often Run calls MessageDeque for a message of this kind.
Texts(k) ==
    CASE k = "blindGift" -> IF switches # {} THEN 1 ELSE 0
      [] k \in {"gift", "superChat"} -> IF "thanksGift" \in switches THEN 1 ELSE 0
      [] k = "lot" -> 2
      [] k \in {"answered", "entry"} -> 1
      [] OTHER -> 0

\* The tables Run of a message writes to.  SuperChat returns early when the
\* thanks for gifts are off; SendGift and GuardBuy go on and record.
TablesOf(k) ==
    CASE k = "gift"                 -> {"gifts"}
      [] k = "blindGift"            -> {"gifts", "blindBox"}
      [] k = "superChat"            -> IF "thanksGift" \in switches THEN {"gifts"} ELSE {}
      [] k \in {"danmaku", "lot"}   -> {"danmaku"}
      [] k = "entry"                -> {"enterRoomUser"}
      [] OTHER                      -> {}

\* Faulty variant: a blind box is recorded as such before it is as a gift.
TableAfterSwapped(k, last) ==
    IF last = "gifts" THEN "return"
    ELSE IF "blindBox" \in TablesOf(k) /\ last # "blindBox" THEN "blindBox"
    ELSE IF "gifts" \in TablesOf(k) THEN "gifts"
    ELSE IF last = "none" /\ TablesOf(k) # {} THEN CHOOSE table \in TablesOf(k) : TRUE
    ELSE "return"

\* What Run does after the insertion into the last table, or after the texts.
TableAfter(k, last) ==
    CASE last = "none" /\ "gifts" \in TablesOf(k)     -> "gifts"
      [] last = "none" /\ "danmaku" \in TablesOf(k)   -> "danmaku"
      [] last = "none" /\ "enterRoomUser" \in TablesOf(k) -> "enterRoomUser"
      [] last = "gifts" /\ "blindBox" \in TablesOf(k) -> "blindBox"
      [] OTHER                                        -> "return"

-----------------------------------------------------------------------------
(* Config and MessageDeque as the commands use them                        *)

\* The subtraction of two unsigned products, converted to int.
Wrapped(n) == n % (2 * Half)
ToSigned(n) == IF n >= Half THEN n - 2 * Half ELSE n

\* Faulty variant: the difference stays unsigned.
ProfitAndLossUnsigned(v) ==
    Wrapped(Wrapped(v.price * v.count) - Wrapped(v.originalPrice * v.count))

ProfitAndLoss(v) ==
    ToSigned(Wrapped(Wrapped(v.price * v.count) - Wrapped(v.originalPrice * v.count)))

\* Messages come one after another; the bound on all of them is not reached.
Room == commands + Cardinality({e \in Events : kind[e] \notin {"none", "entry"}}) < MaxMessages
IsNext(e) == kind[e] = "none" /\ \A d \in 1..(e - 1) : kind[d] # "none"

\* A worker runs the command of the next message.
Receive(w, e, k) ==
    /\ Idle(w) /\ Room /\ IsNext(e)
    /\ kind' = [kind EXCEPT ![e] = k]
    /\ event' = [event EXCEPT ![w] = e]
    /\ step' = [step EXCEPT ![w] = IF Texts(k) > 0 THEN "answer" ELSE TableAfter(k, "none")]
    /\ UNCHANGED <<vars, switches, stamp, rows, accounts, refused, finished>>

\* InteractWord::Run of somebody who enters goes on to record the welcome that
\* it pushed.
WelcomeAndRecord(w, e) ==
    /\ Welcome(w) /\ IsNext(e)
    /\ kind' = [kind EXCEPT ![e] = "entry"]
    /\ event' = [event EXCEPT ![w] = e]
    /\ step' = [step EXCEPT ![w] = TableAfter("entry", "none")]
    /\ texts' = [texts EXCEPT ![e] = 1]
    /\ UNCHANGED <<switches, stamp, rows, profit, gain, refused, finished>>

\* Faulty variant: who draws a lot is not told the result.
AnswerOnce(w) ==
    LET e == event[w] IN
    /\ step[w] = "answer"
    /\ texts' = [texts EXCEPT ![e] = 1]
    /\ step' = [step EXCEPT ![w] = TableAfter(kind[e], "none")]
    /\ UNCHANGED <<vars, switches, kind, event, stamp, rows, profit, gain, refused, finished>>

\* A call of PushWaitedMessage, AddGiftMessage or AddBlindBoxMessage.  SendGift
\* collects a blind box with what it won or lost if the switch for blind boxes
\* is on, and as a gift like any other if not.
Answer(w) ==
    LET e == event[w]
        k == kind[e]
    IN
    /\ step[w] = "answer"
    /\ texts' = [texts EXCEPT ![e] = @ + 1]
    /\ IF k = "blindGift" /\ "thanksBlindBox" \in switches
       THEN \E v \in GiftValues :
               /\ profit' = profit + ProfitAndLoss(v)
               /\ gain' = gain + Won(v)
       ELSE UNCHANGED <<profit, gain>>
    /\ step' = [step EXCEPT ![w] = IF texts[e] + 1 < Texts(k) THEN "answer" ELSE TableAfter(k, "none")]
    /\ UNCHANGED <<vars, switches, kind, event, stamp, rows, refused, finished>>

-----------------------------------------------------------------------------
(* AddGift, AddBlindBox, AddDanmaku, AddEnterRoomUser                      *)

ReadClock(w, t) ==
    /\ step[w] \in Tables /\ stamp[w] = 0
    /\ stamp' = [stamp EXCEPT ![w] = t]
    /\ UNCHANGED <<vars, switches, kind, event, step, rows, accounts, refused, finished>>

\* Faulty variant: the next insertion is made with the time of the last.
LeaveTableKeepingStamp(w) ==
    /\ step' = [step EXCEPT ![w] = TableAfter(kind[event[w]], step[w])]
    /\ UNCHANGED stamp

\* Whether the insertion succeeded or not, Run only logs it and goes on.
LeaveTable(w) ==
    /\ step' = [step EXCEPT ![w] = TableAfter(kind[event[w]], step[w])]
    /\ stamp' = [stamp EXCEPT ![w] = 0]

\* Faulty variant: INSERT OR REPLACE.
Replace(w) ==
    /\ step[w] \in Tables /\ stamp[w] # 0
    /\ rows' = [rows EXCEPT ![step[w]][stamp[w]] = event[w]]
    /\ LeaveTable(w)
    /\ UNCHANGED <<vars, switches, kind, event, accounts, refused, finished>>

\* Faulty variant: the insertion is repeated although the row was stored.
InsertAgain(w) ==
    /\ step[w] \in Tables /\ stamp[w] # 0
    /\ rows[step[w]][stamp[w]] = 0
    /\ rows' = [rows EXCEPT ![step[w]][stamp[w]] = event[w]]
    /\ stamp' = [stamp EXCEPT ![w] = 0]
    /\ UNCHANGED <<vars, switches, kind, event, step, accounts, refused, finished>>

\* exec of the INSERT statement, in a transaction of its own: the millisecond is
\* not taken in this table.
Insert(w) ==
    /\ step[w] \in Tables /\ stamp[w] # 0
    /\ rows[step[w]][stamp[w]] = 0
    /\ rows' = [rows EXCEPT ![step[w]][stamp[w]] = event[w]]
    /\ LeaveTable(w)
    /\ UNCHANGED <<vars, switches, kind, event, accounts, refused, finished>>

\* Faulty variant: Run returns when an insertion fails.
RefuseAndReturn(w) ==
    /\ step[w] \in Tables /\ stamp[w] # 0
    /\ refused' = refused \cup {<<event[w], step[w]>>}
    /\ step' = [step EXCEPT ![w] = "return"]
    /\ stamp' = [stamp EXCEPT ![w] = 0]
    /\ UNCHANGED <<vars, switches, kind, event, rows, profit, texts, gain, finished>>

\* SQLite throws: the millisecond is taken, or the database cannot be written.
\* The exception is caught and the row is given up.
Refuse(w) ==
    /\ step[w] \in Tables /\ stamp[w] # 0
    /\ refused' = refused \cup {<<event[w], step[w]>>}
    /\ LeaveTable(w)
    /\ UNCHANGED <<vars, switches, kind, event, rows, profit, texts, gain, finished>>

-----------------------------------------------------------------------------
Return(w) ==
    /\ step[w] = "return"
    /\ finished' = finished \cup {event[w]}
    /\ event' = [event EXCEPT ![w] = 0]
    /\ step' = [step EXCEPT ![w] = "none"]
    /\ UNCHANGED <<vars, switches, kind, stamp, rows, profit, texts, gain, refused>>

\* The process dies and is started again: the workers and the collected thanks
\* are gone, the rows are not.
Restart ==
    /\ canEntryNotice' = TRUE
    /\ pc' = [w \in Workers |-> "idle"]
    /\ sinceOff' = [w \in Workers |-> 0]
    /\ event' = [w \in Workers |-> 0]
    /\ step' = [w \in Workers |-> "none"]
    /\ stamp' = [w \in Workers |-> 0]
    /\ profit' = 0 /\ gain' = 0
    /\ UNCHANGED <<commands, announcement, lotteries, broken, switches, kind, rows, texts, refused, finished>>

LedgerNext ==
    \/ \E w \in Workers :
          \/ \E command \in Commands :
                Idle(w) /\ Room /\ Call(w, command) /\ UNCHANGED ledgerVars
          \/ CanEntryNotice(w) /\ UNCHANGED ledgerVars
          \/ Suspend(w) /\ UNCHANGED ledgerVars
          \/ AnnounceSuspension(w) /\ UNCHANGED ledgerVars
          \/ Resume(w) /\ UNCHANGED ledgerVars
          \/ AnnounceReturn(w) /\ UNCHANGED ledgerVars
          \/ WelcomeThrows(w) /\ UNCHANGED ledgerVars
          \/ \E e \in Events : WelcomeAndRecord(w, e)
          \/ \E e \in Events, k \in Kinds \ {"entry"} : Receive(w, e, k)
          \/ Answer(w)
          \/ \E t \in Times : ReadClock(w, t)
          \/ Insert(w) \/ Refuse(w) \/ Return(w)
    \/ Restart

LedgerSpec == LedgerInit /\ [][LedgerNext]_allVars

-----------------------------------------------------------------------------
(* Properties *)

HasRow(e, table) == \E t \in Times : rows[table][t] = e

\* The variables keep their types; a worker runs one command at a time, and reads
\* the clock for one insertion.
LedgerTypeOK ==
    /\ switches \subseteq Switches
    /\ kind \in [Events -> Kinds \cup {"none"}]
    /\ event \in [Workers -> 0..MaxEvents]
    /\ step \in [Workers -> Tables \cup {"none", "answer", "return"}]
    /\ stamp \in [Workers -> Times \cup {0}]
    /\ rows \in [Tables -> [Times -> 0..MaxEvents]]
    /\ texts \in [Events -> Nat]
    /\ profit \in Int /\ gain \in Int
    /\ refused \subseteq Events \X Tables
    /\ finished \subseteq Events
    /\ \A w \in Workers :
          /\ stamp[w] # 0 => step[w] \in Tables
          /\ event[w] # 0 <=> step[w] # "none"
          /\ event[w] # 0 => pc[w] = "idle"

\* No insertion, of whichever command, worker or process, takes a row away that
\* was stored: a second gift of the same millisecond is refused (DataBase.cpp:57).
RowsAreKept ==
    [][\A table \in Tables, t \in Times : rows[table][t] # 0 => rows'[table][t] = rows[table][t]]_allVars

\* At whatever moment the process dies, a blind box that was recorded as one was
\* recorded as a gift before, or that was refused and logged
\* (BiliLiveCommandSendGift.cpp:80).  This is about which rows there are; what
\* the two rows say, names and prices, is left out of the model.
BlindBoxHasGift ==
    \A e \in Events :
        HasRow(e, "blindBox") => HasRow(e, "gifts") \/ <<e, "gifts">> \in refused

\* A message that Run returned for is in every table it belongs to or was
\* refused there; a refusal in one table does not keep it from the other.
FinishedIsRecorded ==
    \A e \in finished : \A table \in TablesOf(kind[e]) :
        HasRow(e, table) \/ <<e, table>> \in refused

\* No message is counted twice in a table, by another worker or after a restart.
OneRowEach ==
    \A e \in Events, table \in Tables, t, u \in Times :
        rows[table][t] = e /\ rows[table][u] = e => t = u

\* Who is in the database was thanked, welcomed or told his lot before, as often
\* as the switches say: the robot does not owe anybody in its tables an answer.
AnsweredBeforeRecorded ==
    \A e \in Events, table \in Tables : HasRow(e, table) => texts[e] = Texts(kind[e])

\* The room is told what the blind boxes won and lost, although the products and
\* the difference wrap around (BiliLiveCommandSendGift.cpp:68).
ProfitIsExact == profit = gain
=============================================================================
