---------------------------- MODULE Ledger_proofs ----------------------------
(***************************************************************************)
(* Proofs about Ledger, for any number of workers, messages and            *)
(* milliseconds, and for any prices that ProfitAssumption admits.          *)
(***************************************************************************)
EXTENDS Ledger, EntryNotice_proofs

-----------------------------------------------------------------------------
(* Where Run goes                                                          *)

LEMMA TablesAreTables ==
    ASSUME NEW k \in Kinds
    PROVE  TablesOf(k) \subseteq Tables
BY DEF TablesOf, Tables, Kinds

LEMMA AfterTexts ==
    ASSUME NEW k \in Kinds
    PROVE  \/ /\ TableAfter(k, "none") = "return" /\ TablesOf(k) = {}
           \/ /\ TableAfter(k, "none") \in TablesOf(k)
              /\ TableAfter(k, "none") \in Tables \ {"blindBox"}
BY DEF TableAfter, TablesOf, Kinds, Tables

LEMMA AfterInsert ==
    ASSUME NEW k \in Kinds, NEW table \in TablesOf(k)
    PROVE  \/ /\ table = "gifts" /\ TableAfter(k, table) = "blindBox"
              /\ "blindBox" \in TablesOf(k)
           \/ /\ TableAfter(k, table) = "return"
              /\ \A other \in TablesOf(k) : other = table \/ (table = "blindBox" /\ other = "gifts")
<1>1. CASE k = "blindGift"
  <2>1. TablesOf(k) = {"gifts", "blindBox"}
    BY <1>1 DEF TablesOf
  <2> QED BY <2>1 DEF TableAfter
<1>2. CASE k # "blindGift"
  <2>1. \A other \in TablesOf(k) : other = table
    BY <1>2 DEF TablesOf, Kinds
  <2>2. table # "none" /\ "blindBox" \notin TablesOf(k)
    BY <1>2 DEF TablesOf, Kinds
  <2>3. TableAfter(k, table) = "return"
    BY <2>2 DEF TableAfter
  <2> QED BY <2>1, <2>3
<1> QED BY <1>1, <1>2

LEMMA TextsAreFew ==
    ASSUME NEW k \in Kinds
    PROVE  Texts(k) \in 0..2
BY DEF Texts, Kinds

-----------------------------------------------------------------------------
(* LedgerTypeOK                                                            *)

WorkerStep(w) ==
    \/ \E e \in Events : WelcomeAndRecord(w, e)
    \/ \E e \in Events, k \in Kinds \ {"entry"} : Receive(w, e, k)
    \/ Answer(w)
    \/ \E t \in Times : ReadClock(w, t)
    \/ Insert(w) \/ Refuse(w) \/ Return(w)

\* The commands of EntryNotice are run by workers that do nothing else.
EntryStep(w) ==
    /\ UNCHANGED ledgerVars
    /\ \/ Idle(w) /\ \E command \in Commands : Call(w, command)
       \/ CanEntryNotice(w) \/ Suspend(w) \/ AnnounceSuspension(w)
       \/ Resume(w) \/ AnnounceReturn(w) \/ WelcomeThrows(w)

LEMMA Steps ==
    ASSUME [LedgerNext]_allVars
    PROVE  \/ \E w \in Workers : EntryStep(w) \/ WorkerStep(w)
           \/ Restart
           \/ UNCHANGED allVars
BY DEF LedgerNext, WorkerStep, EntryStep

\* What EntryNotice keeps, the composition keeps: a worker that records takes no
\* part in it, and a new process begins where EntryNotice does.
LEMMA NextKeepsLateness == IInv /\ [LedgerNext]_allVars => IInv'
<1> SUFFICES ASSUME IInv, [LedgerNext]_allVars
             PROVE  IInv'
  OBVIOUS
<1>1. ASSUME NEW w \in Workers, EntryStep(w)
      PROVE  IInv'
  BY <1>1, NextKeepsIInv DEF EntryStep, Next
<1>2. ASSUME NEW w \in Workers, WorkerStep(w)
      PROVE  IInv'
  <2>1. Welcome(w) \/ UNCHANGED vars
    BY <1>2 DEF WorkerStep, WelcomeAndRecord, Receive, Answer, ReadClock, Insert, Refuse, Return
  <2> QED BY <2>1, NextKeepsIInv DEF Next
<1>3. CASE Restart
  BY <1>3 DEF Restart, IInv, TypeOK, Lateness
<1>4. CASE UNCHANGED allVars
  BY <1>4, NextKeepsIInv DEF allVars
<1> QED BY <1>1, <1>2, <1>3, <1>4, Steps

LEMMA InitTypes == LedgerInit => IInv /\ LedgerTypeOK
<1> SUFFICES ASSUME LedgerInit
             PROVE  IInv /\ LedgerTypeOK
  OBVIOUS
<1>1. IInv
  BY InitIInv DEF LedgerInit
<1> QED BY <1>1, LedgerAssumption DEF LedgerInit, LedgerTypeOK, Events, Tables

LEMMA NextTypes == IInv /\ LedgerTypeOK /\ [LedgerNext]_allVars => LedgerTypeOK'
<1> SUFFICES ASSUME IInv, LedgerTypeOK, [LedgerNext]_allVars
             PROVE  LedgerTypeOK'
  OBVIOUS
<1> USE LedgerAssumption DEF LedgerTypeOK, accounts
<1>a. \A e \in Events : e # 0 /\ e \in 0..MaxEvents
  BY DEF Events
<1>b. pc \in [Workers -> Commands \cup {"idle", "suspend", "announceSuspension",
                                        "resume", "announceReturn", "welcome"}]
  BY DEF IInv, TypeOK
<1>c. \A w \in Workers : event[w] # 0 => event[w] \in Events
  BY DEF Events
<1>1. ASSUME NEW w \in Workers, EntryStep(w)
      PROVE  LedgerTypeOK'
  <2>1. event[w] = 0 /\ \A v \in Workers \ {w} : pc'[v] = pc[v]
    BY <1>1, <1>b DEF EntryStep, Idle, Call, CanEntryNotice, Suspend, AnnounceSuspension, Resume,
                      AnnounceReturn, WelcomeThrows, Goto, Commands
  <2> QED BY <1>1, <2>1 DEF EntryStep, ledgerVars, workVars
<1>2. ASSUME NEW w \in Workers, NEW e \in Events, WelcomeAndRecord(w, e)
      PROVE  LedgerTypeOK'
  <2>1. "entry" \in Kinds /\ TableAfter("entry", "none") \in Tables \cup {"return"}
    BY AfterTexts DEF Kinds
  <2>2. event[w] = 0 /\ stamp[w] = 0 /\ pc' = [pc EXCEPT ![w] = "idle"]
    BY <1>2 DEF WelcomeAndRecord, Welcome, Goto, Tables
  <2> QED BY <1>2, <2>1, <2>2, <1>a, <1>b DEF WelcomeAndRecord, Tables
<1>3. ASSUME NEW w \in Workers, NEW e \in Events, NEW k \in Kinds, Receive(w, e, k)
      PROVE  LedgerTypeOK'
  <2>1. TableAfter(k, "none") \in Tables \cup {"return"}
    BY AfterTexts
  <2>2. stamp[w] = 0
    BY <1>3 DEF Receive, Idle, Tables
  <2> QED BY <1>3, <2>1, <2>2, <1>a DEF Receive, Idle, vars, Tables
<1>4. ASSUME NEW w \in Workers, Answer(w)
      PROVE  LedgerTypeOK'
  <2>1. event[w] \in Events /\ pc[w] = "idle" /\ stamp[w] = 0
    BY <1>4, <1>c DEF Answer, Tables
  <2>2. step'[w] \in Tables \cup {"answer", "return"}
    BY <1>4, <2>1 DEF Answer, TableAfter, Tables
  <2>3. ASSUME NEW v \in GiftValues
        PROVE  Won(v) \in Int /\ ProfitAndLoss(v) \in Int
    <3>1. v.price * v.count \in Int /\ v.originalPrice * v.count \in Int
      OBVIOUS
    <3>2. \A n \in Int : Wrapped(n) \in Int /\ ToSigned(n) \in Int
      BY DEF Wrapped, ToSigned
    <3> HIDE DEF LedgerTypeOK
    <3> QED BY <3>1, <3>2 DEF ProfitAndLoss, Won
  <2>4. profit' \in Int /\ gain' \in Int
    <3>1. CASE UNCHANGED <<profit, gain>>
      BY <3>1
    <3>2. ASSUME NEW v \in GiftValues, profit' = profit + ProfitAndLoss(v), gain' = gain + Won(v)
          PROVE  profit' \in Int /\ gain' \in Int
      BY <3>2, <2>3
    <3> QED BY <1>4, <3>1, <3>2 DEF Answer
  <2>5. texts' \in [Events -> Nat]
    <3>1. texts' = [texts EXCEPT ![event[w]] = texts[event[w]] + 1]
      BY <1>4 DEF Answer
    <3> QED BY <2>1, <3>1
  <2>6. /\ UNCHANGED <<pc, switches, kind, event, stamp, rows, refused, finished>>
        /\ step' = [step EXCEPT ![w] = step'[w]]
    BY <1>4 DEF Answer, vars
  <2>7. step' \in [Workers -> Tables \cup {"none", "answer", "return"}]
    BY <2>2, <2>6
  <2>8. \A v \in Workers : event'[v] # 0 <=> step'[v] # "none"
    BY <2>1, <2>2, <2>6, <1>a DEF Tables
  <2> QED BY <2>1, <2>4, <2>5, <2>6, <2>7, <2>8
<1>5. ASSUME NEW w \in Workers, NEW t \in Times, ReadClock(w, t)
      PROVE  LedgerTypeOK'
  BY <1>5 DEF ReadClock, vars
<1>6. ASSUME NEW w \in Workers, Insert(w) \/ Refuse(w)
      PROVE  LedgerTypeOK'
  <2>1. event[w] \in Events /\ event[w] \in 0..MaxEvents /\ stamp[w] \in Times /\ step[w] \in Tables
    BY <1>6, <1>c DEF Insert, Refuse, Tables
  <2>2. rows' \in [Tables -> [Times -> 0..MaxEvents]] /\ refused' \subseteq Events \X Tables
    BY <1>6, <2>1 DEF Insert, Refuse
  <2>3. TableAfter(kind[event[w]], step[w]) \in Tables \cup {"return"}
    BY DEF TableAfter, Tables
  <2> QED BY <1>6, <2>1, <2>2, <2>3 DEF Insert, Refuse, LeaveTable, vars, Tables
<1>7. ASSUME NEW w \in Workers, Return(w)
      PROVE  LedgerTypeOK'
  BY <1>7, <1>c DEF Return, vars, Tables
<1>8. CASE Restart
  BY <1>8 DEF Restart
<1>9. CASE UNCHANGED allVars
  BY <1>9 DEF allVars, ledgerVars, workVars, vars
<1> QED BY <1>1, <1>2, <1>3, <1>4, <1>5, <1>6, <1>7, <1>8, <1>9, Steps DEF WorkerStep

\* Ledger keeps its types.
THEOREM LedgerTypes == LedgerSpec => []LedgerTypeOK
BY InitTypes, NextKeepsLateness, NextTypes, PTL DEF LedgerSpec

\* The welcomes are as few while workers record gifts and the process restarts.
THEOREM LateWelcomesStayFew == LedgerSpec => []OneLateWelcome
<1>1. IInv => OneLateWelcome
  <2> SUFFICES ASSUME IInv, NEW w \in Workers
               PROVE  sinceOff[w] <= 1
    BY DEF OneLateWelcome
  <2>1. sinceOff[w] = 0 \/ sinceOff[w] = 1
    BY DEF IInv, Lateness
  <2> QED BY <2>1
<1> QED BY <1>1, InitTypes, NextKeepsLateness, PTL DEF LedgerSpec

-----------------------------------------------------------------------------
(* RowsAreKept                                                             *)

\* In every table, whoever inserts and whenever the process dies, a row that is
\* there stays: the primary key refuses the second of a millisecond.
THEOREM RowsStay == LedgerSpec => RowsAreKept
<1> DEFINE Kept == \A table \in Tables, t \in Times :
                      rows[table][t] # 0 => rows'[table][t] = rows[table][t]
<1>1. LedgerTypeOK /\ [LedgerNext]_allVars => [Kept]_allVars
  <2> SUFFICES ASSUME LedgerTypeOK, LedgerNext
               PROVE  Kept
    BY DEF allVars
  <2>1. rows' = rows \/ \E w \in Workers : Insert(w)
    BY DEF LedgerNext, WelcomeAndRecord, Receive, Answer, ReadClock, Refuse, Return, Restart, ledgerVars
  <2>2. ASSUME NEW w \in Workers, Insert(w), NEW table \in Tables, NEW t \in Times, rows[table][t] # 0
        PROVE  rows'[table][t] = rows[table][t]
    BY <2>2 DEF Insert, LedgerTypeOK
  <2> QED BY <2>1, <2>2
<1> QED BY <1>1, InitTypes, NextKeepsLateness, NextTypes, PTL DEF LedgerSpec, RowsAreKept

-----------------------------------------------------------------------------
(* What the tables hold                                                    *)

Recorded(e, table) == HasRow(e, table) \/ <<e, table>> \in refused

\* Where a worker is tells what the database already holds of its message.
AtWork(w) ==
    LET e == event[w] IN
    /\ kind[e] # "none" /\ e \notin finished
    /\ step[w] = "answer" => texts[e] < Texts(kind[e]) /\ \A table \in Tables : ~HasRow(e, table)
    /\ step[w] # "answer" => texts[e] = Texts(kind[e])
    /\ step[w] \in Tables => step[w] \in TablesOf(kind[e]) /\ ~HasRow(e, step[w])
    /\ step[w] \in Tables \ {"blindBox"} => ~HasRow(e, "blindBox")
    /\ step[w] = "blindBox" => Recorded(e, "gifts")
    /\ step[w] = "return" => \A table \in TablesOf(kind[e]) : Recorded(e, table)

\* Nothing is known of a message that has not arrived.
Untouched(e) ==
    /\ texts[e] = 0 /\ e \notin finished
    /\ \A table \in Tables : ~HasRow(e, table)
    /\ \A w \in Workers : event[w] # e

Records ==
    /\ \A e \in Events : kind[e] = "none" => Untouched(e)
    /\ \A w \in Workers : event[w] # 0 => AtWork(w)
    /\ \A v, w \in Workers : event[v] # 0 /\ event[v] = event[w] => v = w
    /\ BlindBoxHasGift /\ FinishedIsRecorded /\ OneRowEach /\ AnsweredBeforeRecorded

LEMMA InitRecords == LedgerInit => Records
<1> SUFFICES ASSUME LedgerInit
             PROVE  Records
  OBVIOUS
<1>1. \A e \in Events, table \in Tables : ~HasRow(e, table)
  BY LedgerAssumption DEF LedgerInit, HasRow, Events
<1>2. \A e \in Events, table \in Tables, t \in Times : rows[table][t] # e
  BY LedgerAssumption DEF LedgerInit, Events
<1>3. \A e \in Events : e # 0
  BY LedgerAssumption DEF Events
<1> QED BY <1>1, <1>2, <1>3 DEF LedgerInit, Records, Untouched, BlindBoxHasGift, FinishedIsRecorded,
           OneRowEach, AnsweredBeforeRecorded, Tables

\* A row is added for the message the worker is at, and no other.
LEMMA InsertAdds ==
    ASSUME LedgerTypeOK, NEW w \in Workers, Insert(w)
    PROVE  \A e \in Events, table \in Tables :
              HasRow(e, table)' <=> HasRow(e, table) \/ (e = event[w] /\ table = step[w])
<1>1. stamp[w] \in Times /\ step[w] \in Tables /\ rows[step[w]][stamp[w]] = 0
  BY DEF Insert, LedgerTypeOK
<1>2. ASSUME NEW e \in Events, NEW table \in Tables
      PROVE  HasRow(e, table)' <=> HasRow(e, table) \/ (e = event[w] /\ table = step[w])
  <2>1. e # 0
    BY LedgerAssumption DEF Events
  <2>2. ASSUME NEW t \in Times
        PROVE  rows'[table][t] = IF table = step[w] /\ t = stamp[w] THEN event[w] ELSE rows[table][t]
    BY <1>1 DEF Insert, LedgerTypeOK
  <2> QED BY <1>1, <2>1, <2>2 DEF HasRow
<1> QED BY <1>2

\* What a step does to Records when it leaves rows and refusals alone.
LEMMA SameTables ==
    ASSUME UNCHANGED <<rows, refused>>
    PROVE  \A e, table : /\ HasRow(e, table)' <=> HasRow(e, table)
                         /\ Recorded(e, table)' <=> Recorded(e, table)
BY DEF HasRow, Recorded

LEMMA NextRecords == LedgerTypeOK /\ Records /\ [LedgerNext]_allVars => Records'
<1> SUFFICES ASSUME LedgerTypeOK, Records, [LedgerNext]_allVars
             PROVE  Records'
  OBVIOUS
<1>a. \A w \in Workers : event[w] # 0 => event[w] \in Events
  BY LedgerAssumption DEF LedgerTypeOK, Events
<1>b. \A e \in Events : e # 0
  BY LedgerAssumption DEF Events
<1>c. kind \in [Events -> Kinds \cup {"none"}] /\ event \in [Workers -> 0..MaxEvents]
  BY DEF LedgerTypeOK
<1>1. CASE UNCHANGED ledgerVars
  BY <1>1 DEF ledgerVars, workVars, accounts, Records, Untouched, AtWork, Recorded, HasRow, BlindBoxHasGift,
              FinishedIsRecorded, OneRowEach, AnsweredBeforeRecorded, Texts, TablesOf
<1>2. CASE Restart
  <2>1. UNCHANGED <<rows, refused, kind, texts, finished, switches>> /\ \A w \in Workers : event'[w] = 0
    BY <1>2 DEF Restart
  <2>2. \A k : Texts(k)' = Texts(k) /\ TablesOf(k)' = TablesOf(k)
    BY <2>1 DEF Texts, TablesOf
  <2>3. \A e \in Events : kind'[e] = "none" => Untouched(e)'
    BY <2>1, <1>b, SameTables DEF Records, Untouched
  <2>4. BlindBoxHasGift' /\ OneRowEach'
    BY <2>1, SameTables DEF Records, BlindBoxHasGift, OneRowEach
  <2>5. FinishedIsRecorded' /\ AnsweredBeforeRecorded'
    BY <2>1, <2>2, SameTables DEF Records, FinishedIsRecorded, AnsweredBeforeRecorded
  <2> QED BY <2>1, <2>3, <2>4, <2>5 DEF Records
<1>3. ASSUME NEW w \in Workers, NEW e \in Events, NEW k \in Kinds,
             event[w] = 0, kind[e] = "none",
             kind' = [kind EXCEPT ![e] = k], event' = [event EXCEPT ![w] = e],
             texts' \in [Events -> Nat], \A d \in Events \ {e} : texts'[d] = texts[d],
             step' = [step EXCEPT ![w] = IF texts'[e] < Texts(k) THEN "answer" ELSE TableAfter(k, "none")],
             texts'[e] <= Texts(k),
             UNCHANGED <<switches, rows, refused, finished>>
      PROVE  Records'
  <2>1. Untouched(e)
    BY <1>3 DEF Records
  <2>2. k # "none"
    BY DEF Kinds
  <2>3. \A table : /\ Texts(table)' = Texts(table)
                   /\ TablesOf(table)' = TablesOf(table)
    BY <1>3 DEF Texts, TablesOf
  <2>4. \A v \in Workers \ {w} : event'[v] # 0 => AtWork(v)'
    BY <1>3, <1>a, <1>c, <2>1, <2>3, SameTables DEF Records, AtWork, Untouched, LedgerTypeOK
  <2>5. AtWork(w)'
    <3>1. event'[w] = e /\ kind'[e] = k /\ step'[w] = IF texts'[e] < Texts(k) THEN "answer" ELSE TableAfter(k, "none")
      BY <1>3, <1>c DEF LedgerTypeOK
    <3>2. CASE texts'[e] < Texts(k)
      BY <3>1, <3>2, <2>1, <2>2, <2>3, <1>3, SameTables DEF AtWork, Untouched, Tables
    <3>3. CASE texts'[e] = Texts(k)
      <4>1. step'[w] = TableAfter(k, "none")
        BY <3>1, <3>3, TextsAreFew
      <4>2. CASE TableAfter(k, "none") = "return" /\ TablesOf(k) = {}
        BY <4>1, <4>2, <3>1, <3>3, <2>1, <2>2, <2>3, <1>3 DEF AtWork, Untouched, Tables
      <4>3. CASE TableAfter(k, "none") \in TablesOf(k) /\ TableAfter(k, "none") \in Tables \ {"blindBox"}
        BY <4>1, <4>3, <3>1, <3>3, <2>1, <2>2, <2>3, <1>3, SameTables DEF AtWork, Untouched, Tables
      <4> QED BY <4>2, <4>3, AfterTexts
    <3> QED BY <3>2, <3>3, <1>3, TextsAreFew
  <2>6. \A d \in Events : kind'[d] = "none" => Untouched(d)'
    BY <1>3, <1>c, <2>2, SameTables DEF Records, Untouched
  <2>7. \A u, v \in Workers : event'[u] # 0 /\ event'[u] = event'[v] => u = v
    BY <1>3, <1>c, <2>1 DEF Records, Untouched
  <2>8. BlindBoxHasGift' /\ OneRowEach'
    BY <1>3, SameTables DEF Records, BlindBoxHasGift, OneRowEach
  <2>9. FinishedIsRecorded'
    BY <1>3, <1>c, <2>1, <2>3, SameTables DEF Records, FinishedIsRecorded, Untouched, Recorded, LedgerTypeOK
  <2>10. AnsweredBeforeRecorded'
    BY <1>3, <1>c, <2>1, <2>3, SameTables DEF Records, AnsweredBeforeRecorded, Untouched
  <2> QED BY <2>4, <2>5, <2>6, <2>7, <2>8, <2>9, <2>10 DEF Records
<1>4. ASSUME NEW w \in Workers, NEW e \in Events, WelcomeAndRecord(w, e)
      PROVE  Records'
  <2>1. Texts("entry") = 1 /\ "entry" \in Kinds
    BY DEF Texts, Kinds
  <2>2. event[w] = 0
    BY <1>4 DEF WelcomeAndRecord, Welcome, LedgerTypeOK
  <2>3. /\ kind[e] = "none" /\ texts' = [texts EXCEPT ![e] = 1]
        /\ kind' = [kind EXCEPT ![e] = "entry"] /\ event' = [event EXCEPT ![w] = e]
        /\ step' = [step EXCEPT ![w] = TableAfter("entry", "none")]
        /\ UNCHANGED <<switches, rows, refused, finished>>
    BY <1>4 DEF WelcomeAndRecord, IsNext
  <2>4. texts' \in [Events -> Nat] /\ texts'[e] = 1 /\ \A d \in Events \ {e} : texts'[d] = texts[d]
    BY <2>3 DEF LedgerTypeOK
  <2>5. ~(texts'[e] < Texts("entry")) /\ texts'[e] <= Texts("entry")
    BY <2>1, <2>4
  <2>6. step' = [step EXCEPT ![w] = IF texts'[e] < Texts("entry") THEN "answer"
                                                                 ELSE TableAfter("entry", "none")]
    BY <2>3, <2>5
  <2> QED BY <1>3, <2>1, <2>2, <2>3, <2>4, <2>5, <2>6
<1>5. ASSUME NEW w \in Workers, NEW e \in Events, NEW k \in Kinds, Receive(w, e, k)
      PROVE  Records'
  <2>1. texts[e] = 0 /\ texts' = texts
    BY <1>5 DEF Receive, IsNext, Records, Untouched, accounts
  <2>2. event[w] = 0
    BY <1>5 DEF Receive, Idle
  <2>3. kind[e] = "none" /\ texts' \in [Events -> Nat] /\ \A d \in Events \ {e} : texts'[d] = texts[d]
    BY <1>5, <2>1 DEF Receive, IsNext, LedgerTypeOK
  <2>4. /\ kind' = [kind EXCEPT ![e] = k] /\ event' = [event EXCEPT ![w] = e]
        /\ step' = [step EXCEPT ![w] = IF Texts(k) > 0 THEN "answer" ELSE TableAfter(k, "none")]
        /\ UNCHANGED <<switches, rows, refused, finished>>
    BY <1>5 DEF Receive
  <2>5. texts'[e] = 0 /\ Texts(k) \in Nat
    BY <2>1, TextsAreFew
  <2>6. step' = [step EXCEPT ![w] = IF texts'[e] < Texts(k) THEN "answer" ELSE TableAfter(k, "none")]
    <3>1. Texts(k) > 0 <=> texts'[e] < Texts(k)
      BY <2>5
    <3> QED BY <2>4, <3>1
  <2>7. texts'[e] <= Texts(k)
    BY <2>5
  <2> QED BY <1>3, <2>2, <2>3, <2>4, <2>6, <2>7
<1>6. ASSUME NEW w \in Workers, Answer(w)
      PROVE  Records'
  <2> DEFINE e == event[w]
             k == kind[e]
  <2>1. e \in Events /\ AtWork(w) /\ k \in Kinds /\ texts[e] < Texts(k) /\ texts[e] \in Nat
    BY <1>6, <1>a, <1>c DEF Answer, Records, AtWork, LedgerTypeOK, Tables
  <2>2. texts' = [texts EXCEPT ![e] = texts[e] + 1]
    BY <1>6 DEF Answer
  <2>3. UNCHANGED <<switches, kind, event, rows, refused, finished>>
    BY <1>6 DEF Answer
  <2>4. \A j : Texts(j)' = Texts(j) /\ TablesOf(j)' = TablesOf(j)
    BY <2>3 DEF Texts, TablesOf
  <2>5. \A table \in Tables : ~HasRow(e, table)
    BY <1>6, <2>1 DEF Answer, AtWork
  <2>6. \A v \in Workers \ {w} : step'[v] = step[v] /\ (event[v] # 0 => event[v] # e)
    BY <1>6, <2>1, <1>b DEF Answer, LedgerTypeOK, Records
  <2>7. \A v \in Workers \ {w} : event'[v] # 0 => AtWork(v)'
    BY <2>2, <2>3, <2>4, <2>6, <1>a, SameTables DEF Records, AtWork, LedgerTypeOK
  <2>8. AtWork(w)'
    <3>1. step'[w] = IF texts[e] + 1 < Texts(k) THEN "answer" ELSE TableAfter(k, "none")
      BY <1>6 DEF Answer, LedgerTypeOK
    <3>2. texts'[e] = texts[e] + 1 /\ k # "none" /\ e \notin finished
      BY <2>1, <2>2 DEF Kinds, AtWork, LedgerTypeOK
    <3>3. CASE texts[e] + 1 < Texts(k)
      BY <3>1, <3>2, <3>3, <2>3, <2>4, <2>5, SameTables DEF AtWork, Tables
    <3>4. CASE texts[e] + 1 = Texts(k)
      <4>1. step'[w] = TableAfter(k, "none")
        BY <3>1, <3>4, <2>1, TextsAreFew
      <4>2. CASE TableAfter(k, "none") = "return" /\ TablesOf(k) = {}
        BY <4>1, <4>2, <3>2, <3>4, <2>3, <2>4 DEF AtWork, Tables
      <4>3. CASE TableAfter(k, "none") \in TablesOf(k) /\ TableAfter(k, "none") \in Tables \ {"blindBox"}
        BY <4>1, <4>3, <3>2, <3>4, <2>3, <2>4, <2>5, SameTables DEF AtWork, Tables
      <4> QED BY <4>2, <4>3, <2>1, AfterTexts
    <3> QED BY <3>3, <3>4, <2>1, TextsAreFew
  <2>9. \A d \in Events : kind'[d] = "none" => Untouched(d)'
    BY <2>1, <2>2, <2>3, SameTables DEF Records, Untouched, Kinds, LedgerTypeOK
  <2>10. BlindBoxHasGift' /\ OneRowEach' /\ FinishedIsRecorded'
    BY <2>3, <2>4, SameTables DEF Records, BlindBoxHasGift, OneRowEach, FinishedIsRecorded
  <2>11. AnsweredBeforeRecorded'
    BY <2>2, <2>3, <2>4, <2>5, SameTables DEF Records, AnsweredBeforeRecorded, LedgerTypeOK
  <2> QED BY <2>3, <2>7, <2>8, <2>9, <2>10, <2>11 DEF Records
<1>7. ASSUME NEW w \in Workers, NEW t \in Times, ReadClock(w, t)
      PROVE  Records'
  BY <1>7, SameTables DEF ReadClock, accounts, Records, Untouched, AtWork, BlindBoxHasGift,
              FinishedIsRecorded, OneRowEach, AnsweredBeforeRecorded, Texts, TablesOf
<1>8. ASSUME NEW w \in Workers, Insert(w) \/ Refuse(w)
      PROVE  Records'
  <2>p. PICK e, k, table : e = event[w] /\ k = kind[e] /\ table = step[w]
    OBVIOUS
  <2> USE <2>p
  <2>1. /\ e \in Events /\ AtWork(w) /\ k \in Kinds
        /\ table \in Tables /\ table \in TablesOf(k) /\ ~HasRow(e, table) /\ texts[e] = Texts(k)
    BY <1>8, <1>a, <1>c DEF Insert, Refuse, Records, AtWork, LedgerTypeOK, Tables
  <2>2. UNCHANGED <<switches, kind, event, texts, finished>> /\ step' = [step EXCEPT ![w] = TableAfter(k, table)]
    BY <1>8 DEF Insert, Refuse, LeaveTable, accounts
  <2>3. \A j : Texts(j)' = Texts(j) /\ TablesOf(j)' = TablesOf(j)
    BY <2>2 DEF Texts, TablesOf
  <2>4. \A d \in Events, other \in Tables :
           /\ HasRow(d, other) => HasRow(d, other)'
           /\ HasRow(d, other)' => HasRow(d, other) \/ (d = e /\ other = table)
           /\ Recorded(d, other) => Recorded(d, other)'
    <3>1. CASE Insert(w)
      BY <3>1, InsertAdds DEF Recorded, Insert
    <3>2. CASE Refuse(w)
      <4>1. rows' = rows /\ refused \subseteq refused'
        BY <3>2 DEF Refuse
      <4> QED BY <4>1 DEF HasRow, Recorded
    <3> QED BY <1>8, <3>1, <3>2
  <2>5. Recorded(e, table)'
    <3>1. CASE Insert(w)
      BY <3>1, <2>1, InsertAdds DEF Recorded
    <3>2. CASE Refuse(w)
      BY <3>2 DEF Refuse, Recorded
    <3> QED BY <1>8, <3>1, <3>2
  <2>6. \A v \in Workers \ {w} : step'[v] = step[v] /\ (event[v] # 0 => event[v] # e)
    BY <2>1, <2>2, <1>b DEF LedgerTypeOK, Records
  <2>7. ASSUME NEW v \in Workers \ {w}, event'[v] # 0
        PROVE  AtWork(v)'
    <3>1. event[v] \in Events /\ event[v] # e /\ AtWork(v) /\ kind[event[v]] \in Kinds
      BY <2>2, <2>6, <2>7, <1>a, <1>c DEF Records, AtWork
    <3>2. TablesOf(kind[event[v]]) \subseteq Tables
      BY <3>1, TablesAreTables
    <3>3. "gifts" \in Tables /\ "blindBox" \in Tables
      BY DEF Tables
    <3> QED BY <2>2, <2>3, <2>4, <2>6, <3>1, <3>2, <3>3 DEF AtWork
  <2>8. AtWork(w)'
    <3>1. /\ event'[w] = e /\ kind'[e] = k /\ texts'[e] = texts[e] /\ finished' = finished
          /\ step'[w] = TableAfter(k, table) /\ k # "none" /\ e \notin finished
      BY <2>1, <2>2 DEF AtWork, LedgerTypeOK, Kinds
    <3>2. CASE table = "gifts" /\ TableAfter(k, table) = "blindBox" /\ "blindBox" \in TablesOf(k)
      <4>1. ~HasRow(e, "blindBox")
        BY <3>2, <2>1 DEF AtWork
      <4>2. ~HasRow(e, "blindBox")'
        BY <4>1, <3>2, <2>1, <2>4 DEF Tables
      <4> QED BY <3>1, <3>2, <4>2, <2>1, <2>3, <2>5 DEF AtWork, Tables
    <3>3. CASE /\ TableAfter(k, table) = "return"
               /\ \A other \in TablesOf(k) : other = table \/ (table = "blindBox" /\ other = "gifts")
      <4>1. table = "blindBox" => Recorded(e, "gifts")'
        BY <2>1, <2>4 DEF AtWork, Tables
      <4>2. \A other \in TablesOf(k) : Recorded(e, other)'
        BY <4>1, <3>3, <2>5
      <4> QED BY <3>1, <3>3, <4>2, <2>1, <2>3 DEF AtWork, Tables
    <3> QED BY <3>2, <3>3, <2>1, AfterInsert
  <2>9. \A d \in Events : kind'[d] = "none" => Untouched(d)'
    BY <2>1, <2>2, <2>4 DEF Records, Untouched, Kinds, LedgerTypeOK
  <2>10. BlindBoxHasGift'
    <3>1. table = "blindBox" => Recorded(e, "gifts")
      BY <2>1 DEF AtWork
    <3>2. ASSUME NEW d \in Events, HasRow(d, "blindBox")'
          PROVE  Recorded(d, "gifts")'
      <4>1. Recorded(d, "gifts")
        BY <3>1, <3>2, <2>4 DEF Records, BlindBoxHasGift, Tables, Recorded
      <4> QED BY <4>1, <2>4 DEF Tables
    <3> QED BY <3>2 DEF BlindBoxHasGift, Recorded
  <2>11. FinishedIsRecorded'
    <3>1. ASSUME NEW d \in finished, NEW other \in TablesOf(kind[d])
          PROVE  Recorded(d, other)'
      <4>1. d \in Events /\ kind[d] # "none"
        BY DEF LedgerTypeOK, Records, Untouched
      <4>2. other \in Tables
        BY <4>1, <1>c, TablesAreTables
      <4>3. Recorded(d, other)
        BY DEF Records, FinishedIsRecorded, Recorded
      <4> QED BY <4>1, <4>2, <4>3, <2>4
    <3> QED BY <3>1, <2>2, <2>3 DEF FinishedIsRecorded, Recorded
  <2>12. OneRowEach'
    <3>1. CASE Insert(w)
      <4>1. \A other \in Tables, t \in Times :
               rows'[other][t] = IF other = table /\ t = stamp[w] THEN e ELSE rows[other][t]
        BY <3>1 DEF Insert, LedgerTypeOK
      <4>2. \A t \in Times : rows[table][t] # e
        BY <2>1 DEF HasRow
      <4> QED BY <4>1, <4>2 DEF Records, OneRowEach
    <3>2. CASE Refuse(w)
      BY <3>2 DEF Refuse, Records, OneRowEach
    <3> QED BY <1>8, <3>1, <3>2
  <2>13. AnsweredBeforeRecorded'
    BY <2>1, <2>2, <2>3, <2>4 DEF Records, AnsweredBeforeRecorded
  <2> QED BY <2>2, <2>7, <2>8, <2>9, <2>10, <2>11, <2>12, <2>13 DEF Records
<1>9. ASSUME NEW w \in Workers, Return(w)
      PROVE  Records'
  <2>1. /\ event[w] \in Events /\ AtWork(w)
        /\ \A table \in TablesOf(kind[event[w]]) : Recorded(event[w], table)
    BY <1>9, <1>a DEF Return, Records, AtWork, LedgerTypeOK
  <2>2. UNCHANGED <<switches, kind, texts, rows, refused>> /\ finished' = finished \cup {event[w]}
    BY <1>9 DEF Return, accounts
  <2>3. \A k : Texts(k)' = Texts(k) /\ TablesOf(k)' = TablesOf(k)
    BY <2>2 DEF Texts, TablesOf
  <2>4. /\ event'[w] = 0
        /\ \A v \in Workers \ {w} : /\ event'[v] = event[v] /\ step'[v] = step[v]
                                    /\ event[v] # 0 => event[v] # event[w]
    BY <1>9, <2>1, <1>b DEF Return, LedgerTypeOK, Records
  <2>5. \A v \in Workers : event'[v] # 0 => AtWork(v)'
    BY <2>2, <2>3, <2>4, SameTables DEF Records, AtWork
  <2>6. \A d \in Events : kind'[d] = "none" => Untouched(d)'
    BY <2>1, <2>2, <2>4, <1>b, SameTables DEF Records, Untouched, AtWork
  <2>7. FinishedIsRecorded'
    BY <2>1, <2>2, <2>3, SameTables DEF Records, FinishedIsRecorded, Recorded
  <2>8. BlindBoxHasGift' /\ OneRowEach' /\ AnsweredBeforeRecorded'
    BY <2>2, <2>3, SameTables DEF Records, BlindBoxHasGift, OneRowEach, AnsweredBeforeRecorded
  <2>9. \A u, v \in Workers : event'[u] # 0 /\ event'[u] = event'[v] => u = v
    BY <2>4 DEF Records
  <2> QED BY <2>5, <2>6, <2>7, <2>8, <2>9 DEF Records
<1>10. CASE UNCHANGED allVars
  BY <1>1, <1>10 DEF allVars
<1>11. ASSUME NEW w \in Workers, EntryStep(w)
       PROVE  Records'
  BY <1>1, <1>11 DEF EntryStep
<1> QED BY <1>2, <1>4, <1>5, <1>6, <1>7, <1>8, <1>9, <1>10, <1>11, Steps DEF WorkerStep

-----------------------------------------------------------------------------
(* What the tables say                                                     *)

LEMMA AlwaysRecords == LedgerSpec => []Records
BY InitTypes, InitRecords, NextTypes, NextRecords, LedgerTypes, PTL DEF LedgerSpec

\* At whatever moment the process dies: a blind box in its table was recorded as
\* a gift, or that was refused (BlindBoxHasGift).
THEOREM BlindBoxesHaveGifts == LedgerSpec => []BlindBoxHasGift
<1>1. Records => BlindBoxHasGift
  BY DEF Records
<1> QED BY <1>1, AlwaysRecords, PTL

\* What Run returned for is in its tables or was refused there (FinishedIsRecorded).
THEOREM FinishedAreRecorded == LedgerSpec => []FinishedIsRecorded
<1>1. Records => FinishedIsRecorded
  BY DEF Records
<1> QED BY <1>1, AlwaysRecords, PTL

\* No message has two rows in a table (OneRowEach).
THEOREM RowsAreSingle == LedgerSpec => []OneRowEach
<1>1. Records => OneRowEach
  BY DEF Records
<1> QED BY <1>1, AlwaysRecords, PTL

\* Who is in the database was answered before (AnsweredBeforeRecorded).
THEOREM AnswersComeFirst == LedgerSpec => []AnsweredBeforeRecorded
<1>1. Records => AnsweredBeforeRecorded
  BY DEF Records
<1> QED BY <1>1, AlwaysRecords, PTL

-----------------------------------------------------------------------------
(* The profit                                                              *)

LEMMA Remainder ==
    ASSUME NEW n \in Int, NEW m \in Nat \ {0}
    PROVE  \E q \in Int, r \in 0..(m - 1) : r = n % m /\ n = m * q + r
<1>1. n \div m \in Int /\ n % m \in 0..(m - 1)
  OBVIOUS
<1>2. n % m = n - m * (n \div m)
  <2>1. m \in Int /\ m > 0
    OBVIOUS
  <2> QED BY <2>1, SMT
<1>3. PICK q \in Int, r \in 0..(m - 1) : q = n \div m /\ r = n % m
  BY <1>1
<1>4. PICK p \in Int : p = m * q
  OBVIOUS
<1>5. n = p + r
  BY <1>2, <1>3, <1>4
<1>6. n = m * q + r
  BY <1>4, <1>5
<1> QED BY <1>3, <1>6

\* A number of the range of int is the one of its remainder.
LEMMA Signed ==
    ASSUME NEW n \in (-Half)..(Half - 1), NEW r \in 0..(2 * Half - 1), NEW q \in Int,
           n = 2 * Half * q + r
    PROVE  ToSigned(r) = n
<1> USE LedgerAssumption
<1>1. CASE q = 0
  BY <1>1 DEF ToSigned
<1>2. CASE q = -1
  BY <1>2 DEF ToSigned
<1>3. CASE q > 0
  <2>1. 2 * Half * q >= 2 * Half
    BY <1>3
  <2> QED BY <2>1
<1>4. CASE q < -1
  <2>1. 2 * Half * q <= 2 * Half * (-2)
    BY <1>4
  <2> QED BY <2>1
<1> QED BY <1>1, <1>2, <1>3, <1>4

LEMMA ProfitAndLossIsWon ==
    ASSUME NEW v \in GiftValues
    PROVE  ProfitAndLoss(v) = Won(v) /\ Won(v) \in Int
<1>0. PICK M \in Nat \ {0} : M = 2 * Half
  BY LedgerAssumption
<1>1. PICK a \in Int, b \in Int : a = v.price * v.count /\ b = v.originalPrice * v.count
  BY LedgerAssumption
<1>2. PICK i \in Int, x \in 0..(M - 1) : x = a % M /\ a = M * i + x
  BY Remainder
<1>3. PICK j \in Int, y \in 0..(M - 1) : y = b % M /\ b = M * j + y
  BY Remainder
<1>4. x - y \in Int
  OBVIOUS
<1>5. PICK l \in Int, r \in 0..(M - 1) : r = (x - y) % M /\ x - y = M * l + r
  BY <1>4, Remainder
<1>6. Won(v) = a - b /\ Won(v) \in (-Half)..(Half - 1)
  BY <1>1, ProfitAssumption DEF Won
<1>7. Won(v) = M * (i - j + l) + r
  <2>1. PICK mi \in Int, mj \in Int, ml \in Int : mi = M * i /\ mj = M * j /\ ml = M * l
    OBVIOUS
  <2>2. a = mi + x /\ b = mj + y /\ x - y = ml + r
    BY <1>2, <1>3, <1>5, <2>1
  <2>3. a - b = mi - mj + ml + r
    BY <2>2
  <2>4. M * (i - j + l) = mi - mj + ml
    BY <2>1
  <2> QED BY <1>6, <2>3, <2>4
<1>8. ProfitAndLoss(v) = ToSigned(r)
  BY <1>0, <1>1, <1>2, <1>3, <1>5 DEF ProfitAndLoss, Wrapped
<1>9. ToSigned(r) = Won(v)
  BY <1>0, <1>5, <1>6, <1>7, Signed
<1> QED BY <1>6, <1>8, <1>9, LedgerAssumption

\* What the room is told of the blind boxes is what they won, although unsigned
\* products and differences wrap around (ProfitIsExact).
THEOREM ProfitStaysExact == LedgerSpec => []ProfitIsExact
<1>1. LedgerInit => ProfitIsExact
  BY DEF LedgerInit, ProfitIsExact
<1>2. LedgerTypeOK /\ ProfitIsExact /\ [LedgerNext]_allVars => ProfitIsExact'
  <2> SUFFICES ASSUME LedgerTypeOK, ProfitIsExact, [LedgerNext]_allVars
               PROVE  ProfitIsExact'
    OBVIOUS
  <2>1. ASSUME NEW w \in Workers, Answer(w)
        PROVE  ProfitIsExact'
    <3>1. CASE UNCHANGED <<profit, gain>>
      BY <3>1 DEF ProfitIsExact
    <3>2. ASSUME NEW v \in GiftValues, profit' = profit + ProfitAndLoss(v), gain' = gain + Won(v)
          PROVE  ProfitIsExact'
      BY <3>2, ProfitAndLossIsWon DEF ProfitIsExact
    <3> QED BY <2>1, <3>1, <3>2 DEF Answer
  <2>2. ASSUME NEW w \in Workers, EntryStep(w) \/ (WorkerStep(w) /\ ~Answer(w))
        PROVE  ProfitIsExact'
    BY <2>2 DEF EntryStep, WorkerStep, ledgerVars, accounts, WelcomeAndRecord, Receive, ReadClock,
                Insert, Refuse, Return, ProfitIsExact
  <2>3. CASE Restart \/ UNCHANGED allVars
    BY <2>3 DEF Restart, allVars, ledgerVars, accounts, ProfitIsExact
  <2> QED BY <2>1, <2>2, <2>3, Steps
<1> QED BY <1>1, <1>2, LedgerTypes, PTL DEF LedgerSpec
=============================================================================
