------------------------- MODULE CommandPool_proofs -------------------------
(***************************************************************************)
(* Proofs about CommandPool, for any finite set of workers, any commands   *)
(* and any number of messages.                                             *)
(***************************************************************************)
EXTENDS CommandPool, FiniteSetTheorems, SequenceTheorems, TLAPS

\* Messages are numbered in the order they came; those that wait are the last
\* ones, and the others are being worked on, each by one worker, or done.
Numbering ==
    /\ Len(taskQueue) <= added
    /\ ArrivalOrder
    /\ \A w \in Workers : Busy(w) => message[w].number \in 1 .. added - Len(taskQueue)
    /\ finished \subseteq 1 .. added - Len(taskQueue)
IInv == TypeOK /\ Numbering /\ NoTaskLeftWaiting

BusyLabels == {"parse", "getCommand", "load", "run", "pool"}

LEMMA BusyMeans ==
    ASSUME TypeOK, NEW w \in Workers
    PROVE  Busy(w) <=> pc[w] \in BusyLabels
BY DEF TypeOK, Busy, BusyLabels

-----------------------------------------------------------------------------
(* The steps, as far as the messages are concerned *)

\* Nothing happens to any message.
Quiet ==
    /\ UNCHANGED <<taskQueue, message, added, finished>>
    /\ \A w \in Workers :
          /\ Busy(w)' <=> Busy(w)
          /\ pc'[w] = "asleep" => pc[w] = "asleep"
          /\ pc[w] = "take" => pc'[w] = "take"

\* A worker is done with its message.
Done(w) == Busy(w) /\ Finish(w) /\ UNCHANGED <<taskQueue, added>>

LEMMA WorkerStep ==
    ASSUME TypeOK, NEW w \in Workers,
           Parse(w) \/ GetCommand(w) \/ Load(w) \/ Run(w) \/ PushCommandPool(w)
    PROVE  Quiet \/ Done(w)
<1> USE DEF TypeOK, Goto
<1>1. CASE Parse(w)
  BY <1>1 DEF Parse, Quiet, Done, Busy
<1>2. CASE GetCommand(w)
  BY <1>2 DEF GetCommand, Quiet, Done, Busy
<1>3. CASE Load(w)
  BY <1>3 DEF Load, Quiet, Done, Busy
<1>4. CASE Run(w)
  BY <1>4 DEF Run, Quiet, Done, Busy
<1>5. CASE PushCommandPool(w)
  BY <1>5 DEF PushCommandPool, Quiet, Done, Busy
<1> QED BY <1>1, <1>2, <1>3, <1>4, <1>5

LEMMA IdleStep ==
    ASSUME TypeOK, UNCHANGED vars \/ \E w \in Workers : SpuriousWakeup(w) \/ Throw(w)
    PROVE  Quiet
<1>1. CASE UNCHANGED vars
  BY <1>1 DEF vars, Quiet, Busy
<1>2. CASE \E w \in Workers : SpuriousWakeup(w)
  BY <1>2 DEF TypeOK, SpuriousWakeup, Goto, Quiet, Busy
<1>3. CASE \E w \in Workers : Throw(w)
  BY <1>3 DEF Throw, Quiet, Busy
<1> QED BY <1>1, <1>2, <1>3

-----------------------------------------------------------------------------
(* The invariant *)

LEMMA InitIInv == Init => IInv
<1> SUFFICES ASSUME Init
             PROVE  IInv
  OBVIOUS
<1>1. TypeOK
  <2>1. taskQueue \in Seq(Tasks) /\ commandPool \in [Types -> Seq(Commands)]
    BY DEF Init
  <2>2. added \in 0 .. MaxTasks /\ finished \in SUBSET (1 .. MaxTasks)
    BY MaxTasksAssumption DEF Init
  <2> QED BY <2>1, <2>2 DEF Init, TypeOK, Busy
<1>2. Numbering
  BY DEF Init, Numbering, ArrivalOrder, Busy
<1>3. NoTaskLeftWaiting
  BY DEF Init, NoTaskLeftWaiting
<1> QED BY <1>1, <1>2, <1>3 DEF IInv

LEMMA AwakeIsFinite ==
    ASSUME NEW S \in SUBSET Workers
    PROVE  IsFiniteSet(S) /\ Cardinality(S) \in Nat
BY WorkersAssumption, FS_Subset, FS_CardinalityType

LEMMA AwakeGrows ==
    ASSUME NoTaskLeftWaiting, UNCHANGED taskQueue, taskQueue \in Seq(Tasks),
           \A w \in Workers : /\ pc'[w] = "asleep" => pc[w] = "asleep"
                              /\ pc[w] = "take" => pc'[w] = "take"
    PROVE  NoTaskLeftWaiting'
<1>1. Awake \in SUBSET Awake' /\ Awake' \in SUBSET Workers
  BY DEF Awake
<1>2. IsFiniteSet(Awake') /\ Cardinality(Awake') \in Nat /\ Cardinality(Awake) \in Nat
  BY <1>1, AwakeIsFinite
<1>3. Cardinality(Awake) <= Cardinality(Awake')
  BY <1>1, <1>2, FS_Subset
<1> QED BY <1>2, <1>3 DEF NoTaskLeftWaiting

LEMMA QuietKeepsNumbers ==
    ASSUME IInv, Quiet
    PROVE  Numbering' /\ NoTaskLeftWaiting'
<1>1. NoTaskLeftWaiting'
  BY AwakeGrows DEF IInv, TypeOK, Quiet
<1>2. Numbering'
  BY DEF IInv, Numbering, ArrivalOrder, Quiet
<1> QED BY <1>1, <1>2

LEMMA DoneKeepsNumbers ==
    ASSUME IInv, NEW w \in Workers, Done(w)
    PROVE  Numbering' /\ NoTaskLeftWaiting' /\ finished' \in SUBSET (1 .. MaxTasks)
<1>1. UNCHANGED <<taskQueue, added>> /\ finished' = finished \cup {message[w].number}
      /\ message[w].number \in 1 .. added - Len(taskQueue)
  BY DEF IInv, Numbering, Done, Finish
<1>2. /\ pc'[w] = "take" /\ ~Busy(w)'
      /\ \A v \in Workers \ {w} : pc'[v] = pc[v] /\ message'[v] = message[v]
                                  /\ (Busy(v)' <=> Busy(v))
  BY DEF IInv, TypeOK, Done, Finish, Goto, Busy
<1>3. NoTaskLeftWaiting'
  BY <1>1, <1>2, AwakeGrows DEF IInv, TypeOK
<1>4. Numbering'
  BY <1>1, <1>2 DEF IInv, Numbering, ArrivalOrder
<1>5. 1 .. added - Len(taskQueue) \subseteq 1 .. MaxTasks
  BY MaxTasksAssumption, LenProperties DEF IInv, TypeOK
<1> QED BY <1>1, <1>3, <1>4, <1>5 DEF IInv, TypeOK

LEMMA AddKeepsIInv ==
    ASSUME IInv, NEW command \in Commands, AddTask(command)
    PROVE  IInv'
<1> USE DEF IInv
<1>1. /\ Task(added + 1, command) \in Tasks /\ taskQueue \in Seq(Tasks) /\ added \in Nat
      /\ Len(taskQueue) \in Nat
  BY LenProperties DEF TypeOK, Task, Tasks
<1>2. /\ taskQueue' = Append(taskQueue, Task(added + 1, command)) /\ added' = added + 1
      /\ added + 1 <= MaxTasks /\ UNCHANGED <<message, commandPool, terminated, finished>>
  BY <1>1, MaxTasksAssumption DEF AddTask, TypeOK
<1>3. /\ taskQueue' \in Seq(Tasks) /\ Len(taskQueue') = Len(taskQueue) + 1
      /\ \A i \in 1 .. Len(taskQueue) : taskQueue'[i] = taskQueue[i]
      /\ taskQueue'[Len(taskQueue) + 1] = Task(added + 1, command)
  BY <1>1, <1>2, AppendProperties
<1>4. \/ \E w \in Workers : pc[w] = "asleep" /\ pc' = [pc EXCEPT ![w] = "take"]
      \/ (\A w \in Workers : pc[w] # "asleep") /\ pc' = pc
  BY DEF AddTask, Goto
<1>5. \A w \in Workers : Busy(w)' <=> Busy(w)
  BY <1>4 DEF TypeOK, Busy
<1>7. TypeOK'
  <2>1. pc' \in [Workers -> {"take", "asleep"} \cup BusyLabels]
    BY <1>4 DEF TypeOK, BusyLabels
  <2>2. \A w \in Workers : pc'[w] \in {"load", "run", "pool"} => pc[w] = pc'[w]
    BY <1>4 DEF TypeOK
  <2> QED BY <1>1, <1>2, <1>3, <1>5, <2>1, <2>2, MaxTasksAssumption DEF TypeOK, BusyLabels
<1>8. Numbering'
  <2>1. \A i \in DOMAIN taskQueue' : taskQueue'[i].number = added' - Len(taskQueue') + i
    <3>1. /\ DOMAIN taskQueue = 1 .. Len(taskQueue)
          /\ DOMAIN taskQueue' = 1 .. Len(taskQueue) + 1
      BY <1>1, <1>3, LenProperties
    <3>2. \A i \in 1 .. Len(taskQueue) : taskQueue[i].number = added - Len(taskQueue) + i
      BY <3>1 DEF Numbering, ArrivalOrder
    <3>3. Task(added + 1, command).number = added + 1
      BY DEF Task
    <3>4. added' - Len(taskQueue') = added - Len(taskQueue)
      BY <1>1, <1>2, <1>3
    <3>5. \A i \in 1 .. Len(taskQueue) : taskQueue'[i].number = added - Len(taskQueue) + i
      BY <1>3, <3>2
    <3>6. taskQueue'[Len(taskQueue) + 1].number = added - Len(taskQueue) + (Len(taskQueue) + 1)
      BY <1>1, <1>3, <3>3
    <3>7. \A i \in 1 .. Len(taskQueue) + 1 : i \in 1 .. Len(taskQueue) \/ i = Len(taskQueue) + 1
      BY <1>1
    <3> QED BY <3>1, <3>4, <3>5, <3>6, <3>7
  <2> QED BY <1>1, <1>2, <1>3, <1>5, <2>1 DEF Numbering, ArrivalOrder
<1>9. NoTaskLeftWaiting'
  <2>1. CASE \E w \in Workers : pc[w] = "asleep" /\ pc' = [pc EXCEPT ![w] = "take"]
    <3>1. PICK w \in Workers : pc[w] = "asleep" /\ pc' = [pc EXCEPT ![w] = "take"]
      BY <2>1
    <3>2. Awake' = Awake \cup {w} /\ w \notin Awake /\ Awake \in SUBSET Workers
      BY <3>1 DEF Awake, TypeOK
    <3>3. IsFiniteSet(Awake) /\ Cardinality(Awake) \in Nat
      BY <3>2, AwakeIsFinite
    <3>4. Cardinality(Awake') = Cardinality(Awake) + 1
      BY <3>2, <3>3, FS_AddElement
    <3>5. Len(taskQueue) <= Cardinality(Awake)
      BY <3>1 DEF NoTaskLeftWaiting
    <3> QED BY <1>1, <1>3, <3>3, <3>4, <3>5 DEF NoTaskLeftWaiting
  <2>2. CASE (\A w \in Workers : pc[w] # "asleep") /\ pc' = pc
    BY <2>2 DEF NoTaskLeftWaiting
  <2> QED BY <1>4, <2>1, <2>2
<1> QED BY <1>7, <1>8, <1>9

\* A worker that finds the queue empty falls asleep; nothing else changes.
LEMMA SleepKeepsIInv ==
    ASSUME IInv, NEW w \in Workers, TakeTask(w), taskQueue = <<>>
    PROVE  IInv'
<1> USE DEF IInv
<1>1. /\ pc[w] = "take" /\ pc' = [pc EXCEPT ![w] = "asleep"]
      /\ UNCHANGED <<taskQueue, message, commandPool, terminated, added, finished>>
  BY DEF TakeTask, Goto
<1>2. \A v \in Workers : Busy(v)' <=> Busy(v)
  BY <1>1 DEF TypeOK, Busy
<1>4. TypeOK'
  BY <1>1, <1>2 DEF TypeOK
<1>5. Numbering'
  BY <1>1, <1>2 DEF Numbering, ArrivalOrder
<1>6. NoTaskLeftWaiting'
  <2>1. Awake' \in SUBSET Workers
    BY DEF Awake
  <2>2. Cardinality(Awake') \in Nat
    BY <2>1, AwakeIsFinite
  <2>3. Len(taskQueue') = 0
    BY <1>1
  <2> QED BY <2>2, <2>3 DEF NoTaskLeftWaiting
<1> QED BY <1>4, <1>5, <1>6

\* A worker takes the first of the messages that wait.
LEMMA TakeKeepsIInv ==
    ASSUME IInv, NEW w \in Workers, TakeTask(w), taskQueue # <<>>
    PROVE  /\ IInv'
           /\ message' = [message EXCEPT ![w] = Head(taskQueue)]
           /\ Head(taskQueue).number = added - Len(taskQueue) + 1
           /\ Len(taskQueue') = Len(taskQueue) - 1 /\ Len(taskQueue) > 0
<1> USE DEF IInv
<1>1. /\ pc[w] = "take" /\ pc' = [pc EXCEPT ![w] = "parse"]
      /\ message' = [message EXCEPT ![w] = Head(taskQueue)]
      /\ taskQueue' = Tail(taskQueue)
      /\ UNCHANGED <<commandPool, terminated, added, finished>>
  BY DEF TakeTask, Goto
<1>2. /\ taskQueue \in Seq(Tasks) /\ Len(taskQueue) \in Nat /\ Len(taskQueue) > 0
      /\ added \in Nat
  BY LenProperties, EmptySeq DEF TypeOK
<1>3. /\ Head(taskQueue) \in Tasks /\ Tail(taskQueue) \in Seq(Tasks)
      /\ Len(Tail(taskQueue)) = Len(taskQueue) - 1
      /\ \A i \in 1 .. Len(taskQueue) - 1 : Tail(taskQueue)[i] = taskQueue[i + 1]
  BY <1>2, HeadTailProperties
<1>4. Head(taskQueue).number = added - Len(taskQueue) + 1
  BY <1>2 DEF Numbering, ArrivalOrder
<1>5. /\ ~Busy(w) /\ Busy(w)' /\ message'[w] = Head(taskQueue)
      /\ \A v \in Workers \ {w} : message'[v] = message[v] /\ pc'[v] = pc[v]
                                  /\ (Busy(v)' <=> Busy(v))
  BY <1>1 DEF TypeOK, Busy
<1>7. TypeOK'
  <2>1. Head(taskQueue).number >= 1
    BY <1>2, <1>4 DEF Numbering
  <2>2. Head(taskQueue) # NoTask
    BY <2>1 DEF NoTask
  <2>3. pc' \in [Workers -> {"take", "asleep"} \cup BusyLabels]
        /\ message' \in [Workers -> Tasks \cup {NoTask}]
    BY <1>1, <1>3 DEF TypeOK, BusyLabels
  <2>4. \A v \in Workers : /\ Busy(v)' <=> message'[v] # NoTask
                           /\ pc'[v] \in {"load", "run", "pool"}
                              => message'[v].command \in Registered
    BY <1>1, <1>5, <2>2 DEF TypeOK
  <2> QED BY <1>1, <1>3, <2>3, <2>4 DEF TypeOK, BusyLabels
<1>8. Numbering'
  <2>1. \A i \in DOMAIN taskQueue' : taskQueue'[i].number = added' - Len(taskQueue') + i
    <3>1. /\ DOMAIN taskQueue = 1 .. Len(taskQueue)
          /\ DOMAIN taskQueue' = 1 .. Len(taskQueue) - 1
      BY <1>1, <1>2, <1>3, LenProperties
    <3>2. \A i \in 1 .. Len(taskQueue) : taskQueue[i].number = added - Len(taskQueue) + i
      BY <3>1 DEF Numbering, ArrivalOrder
    <3>3. \A i \in 1 .. Len(taskQueue) - 1 :
             i + 1 \in 1 .. Len(taskQueue) /\ taskQueue'[i] = taskQueue[i + 1]
      BY <1>1, <1>2, <1>3
    <3>4. added' - Len(taskQueue') = added - Len(taskQueue) + 1
      BY <1>1, <1>2, <1>3
    <3>5. \A i \in 1 .. Len(taskQueue) - 1 :
             taskQueue'[i].number = added - Len(taskQueue) + (i + 1)
      BY <3>2, <3>3
    <3>6. \A i \in 1 .. Len(taskQueue) - 1 :
             added - Len(taskQueue) + (i + 1) = added - Len(taskQueue) + 1 + i
      BY <1>2
    <3> QED BY <3>1, <3>4, <3>5, <3>6
  <2>2. \A v \in Workers \ {w} : Busy(v) => message[v].number < added - Len(taskQueue) + 1
    BY <1>2 DEF Numbering
  <2>3. \A u, v \in Workers : u # v /\ Busy(u)' /\ Busy(v)'
                              => message'[u].number # message'[v].number
    BY <1>4, <1>5, <2>2 DEF Numbering, ArrivalOrder
  <2>4. \A v \in Workers : Busy(v)' => message'[v].number \in 1 .. added' - Len(taskQueue')
    BY <1>1, <1>2, <1>3, <1>4, <1>5 DEF Numbering
  <2>5. finished' \subseteq 1 .. added' - Len(taskQueue')
    BY <1>1, <1>2, <1>3 DEF Numbering
  <2> QED BY <1>1, <1>2, <1>3, <2>1, <2>3, <2>4, <2>5 DEF Numbering, ArrivalOrder
<1>9. NoTaskLeftWaiting'
  <2>1. Awake' = Awake \ {w} /\ w \in Awake /\ Awake \in SUBSET Workers
    BY <1>1 DEF Awake, TypeOK
  <2>2. IsFiniteSet(Awake) /\ Cardinality(Awake) \in Nat
    BY <2>1, AwakeIsFinite
  <2>3. Cardinality(Awake') = Cardinality(Awake) - 1
    BY <2>1, <2>2, FS_RemoveElement
  <2>4. \A v \in Workers : pc'[v] = "asleep" => pc[v] = "asleep"
    BY <1>1 DEF TypeOK
  <2> QED BY <1>1, <1>2, <1>3, <2>2, <2>3, <2>4 DEF NoTaskLeftWaiting
<1> QED BY <1>1, <1>2, <1>3, <1>4, <1>7, <1>8, <1>9

-----------------------------------------------------------------------------
(* Types of the steps that concern one worker's message *)

LEMMA StepKeepsTypes ==
    ASSUME IInv, NEW w \in Workers,
           Parse(w) \/ GetCommand(w) \/ Load(w) \/ Run(w) \/ PushCommandPool(w)
    PROVE  TypeOK'
<1> USE DEF IInv
<1>1. Done(w) => finished' \in SUBSET (1 .. MaxTasks)
  BY DoneKeepsNumbers
<1>2. Finish(w) /\ Busy(w) /\ UNCHANGED <<taskQueue, added>> => Done(w)
  BY DEF Done
<1>3. /\ pc[w] \in BusyLabels => Busy(w)
      /\ message[w] \in Tasks \cup {NoTask}
  BY DEF TypeOK, Busy, BusyLabels
<1>4. ASSUME Finish(w), Busy(w), UNCHANGED <<taskQueue, added, terminated>>,
             commandPool' \in [Types -> Seq(Commands)]
      PROVE  TypeOK'
  <2>1. finished' \in SUBSET (1 .. MaxTasks)
    BY <1>1, <1>2, <1>4
  <2>2. pc' = [pc EXCEPT ![w] = "take"] /\ message' = [message EXCEPT ![w] = NoTask]
    BY <1>4 DEF Finish, Goto
  <2> QED BY <1>4, <2>1, <2>2 DEF TypeOK, Busy
<1>5. ASSUME NEW label \in BusyLabels, pc' = [pc EXCEPT ![w] = label], Busy(w),
             label \in {"load", "run", "pool"} => message[w].command \in Registered,
             UNCHANGED <<taskQueue, message, added, terminated, finished>>,
             commandPool' \in [Types -> Seq(Commands)]
      PROVE  TypeOK'
  <2>1. pc' \in [Workers -> {"take", "asleep"} \cup BusyLabels]
    BY <1>5 DEF TypeOK, BusyLabels
  <2>2. Busy(w)' /\ \A v \in Workers \ {w} : pc'[v] = pc[v] /\ (Busy(v)' <=> Busy(v))
    BY <1>5 DEF TypeOK, Busy, BusyLabels
  <2> QED BY <1>5, <2>1, <2>2 DEF TypeOK, BusyLabels
<1>6. CASE Parse(w)
  <2>1. pc[w] \in BusyLabels /\ "getCommand" \in BusyLabels
        /\ commandPool' \in [Types -> Seq(Commands)]
    BY <1>6 DEF Parse, TypeOK, BusyLabels
  <2> QED BY <1>3, <1>4, <1>5, <1>6, <2>1 DEF Parse, Goto
<1>7. CASE GetCommand(w)
  <2> DEFINE type == message[w].command
             pooled == commandPool[type]
  <2>1. pc[w] \in BusyLabels /\ "load" \in BusyLabels
    BY <1>7 DEF GetCommand, BusyLabels
  <2>2. type \in Types /\ pooled \in Seq(Commands)
    BY <1>3, <2>1 DEF TypeOK, Tasks, Types
  <2>3. \A k \in 0 .. Len(pooled) : SubSeq(pooled, k + 2, Len(pooled)) \in Seq(Commands)
    BY <2>2, LenProperties, SubSeqProperties
  <2>4. commandPool' \in [Types -> Seq(Commands)]
    BY <1>7, <2>2, <2>3 DEF GetCommand, TypeOK
  <2> QED BY <1>3, <1>4, <1>5, <1>7, <2>1, <2>4 DEF GetCommand, Goto
<1>8. CASE Load(w)
  <2>1. pc[w] \in BusyLabels /\ "run" \in BusyLabels /\ message[w].command \in Registered
        /\ commandPool' \in [Types -> Seq(Commands)]
    BY <1>8 DEF Load, TypeOK, BusyLabels
  <2> QED BY <1>3, <1>4, <1>5, <1>8, <2>1 DEF Load, Goto
<1>9. CASE Run(w)
  <2>1. pc[w] \in BusyLabels /\ "pool" \in BusyLabels /\ message[w].command \in Registered
        /\ commandPool' \in [Types -> Seq(Commands)]
    BY <1>9 DEF Run, TypeOK, BusyLabels
  <2> QED BY <1>3, <1>5, <1>9, <2>1 DEF Run, Goto
<1>10. CASE PushCommandPool(w)
  <2>1. pc[w] \in BusyLabels /\ message[w].command \in Commands
    BY <1>10 DEF PushCommandPool, TypeOK, BusyLabels, Commands
  <2>2. commandPool' \in [Types -> Seq(Commands)]
    BY <1>10, <2>1, AppendProperties DEF PushCommandPool, TypeOK, CommandType, Types
  <2> QED BY <1>3, <1>4, <1>10, <2>1, <2>2 DEF PushCommandPool
<1> QED BY <1>6, <1>7, <1>8, <1>9, <1>10

LEMMA IdleKeepsTypes ==
    ASSUME TypeOK, UNCHANGED vars \/ \E w \in Workers : SpuriousWakeup(w) \/ Throw(w)
    PROVE  TypeOK'
<1>1. CASE UNCHANGED vars
  BY <1>1 DEF vars, TypeOK, Busy
<1>2. ASSUME NEW w \in Workers, SpuriousWakeup(w)
      PROVE  TypeOK'
  BY <1>2 DEF SpuriousWakeup, Goto, TypeOK, Busy
<1>3. ASSUME NEW w \in Workers, Throw(w)
      PROVE  TypeOK'
  BY <1>3 DEF Throw, TypeOK, Busy
<1> QED BY <1>1, <1>2, <1>3

LEMMA NextKeepsIInv == IInv /\ [Next]_vars => IInv'
<1> SUFFICES ASSUME IInv, [Next]_vars
             PROVE  IInv'
  OBVIOUS
<1>1. ASSUME NEW command \in Commands, AddTask(command)
      PROVE  IInv'
  BY <1>1, AddKeepsIInv
<1>2. ASSUME NEW w \in Workers, TakeTask(w)
      PROVE  IInv'
  BY <1>2, SleepKeepsIInv, TakeKeepsIInv
<1>3. ASSUME NEW w \in Workers,
             Parse(w) \/ GetCommand(w) \/ Load(w) \/ Run(w) \/ PushCommandPool(w)
      PROVE  IInv'
  <2>1. TypeOK'
    BY <1>3, StepKeepsTypes
  <2>2. Quiet \/ Done(w)
    BY <1>3, WorkerStep DEF IInv
  <2> QED BY <2>1, <2>2, QuietKeepsNumbers, DoneKeepsNumbers DEF IInv
<1>4. CASE UNCHANGED vars \/ \E w \in Workers : SpuriousWakeup(w) \/ Throw(w)
  BY <1>4, IdleStep, IdleKeepsTypes, QuietKeepsNumbers DEF IInv
<1> QED BY <1>1, <1>2, <1>3, <1>4 DEF Next, WorkerSteps

-----------------------------------------------------------------------------
\* CommandPool keeps its types.
THEOREM Types_OK == Spec => []TypeOK
<1>1. IInv => TypeOK
  BY DEF IInv
<1> QED BY <1>1, InitIInv, NextKeepsIInv, PTL DEF Spec

\* No wakeup is lost, for any number of workers: AddTask notifies one worker per
\* message, and a worker that sleeps leaves no message without a worker.
THEOREM NoTaskIsLeftWaiting == Spec => []NoTaskLeftWaiting
<1>1. IInv => NoTaskLeftWaiting
  BY DEF IInv
<1> QED BY <1>1, InitIInv, NextKeepsIInv, PTL DEF Spec

\* Messages are taken in the order they came, and by one worker each.
THEOREM TasksAreTakenInOrder == Spec => []ArrivalOrder
<1>1. IInv => ArrivalOrder
  BY DEF IInv, Numbering
<1> QED BY <1>1, InitIInv, NextKeepsIInv, PTL DEF Spec

-----------------------------------------------------------------------------
(* No message is lost, none is done with twice *)

\* What was taken is with a worker or done with, and not both.
TakenIsAccounted ==
    /\ \A n \in 1 .. added - Len(taskQueue) : n \in Running \cup finished
    /\ \A w \in Workers : Busy(w) => message[w].number \notin finished

LEMMA NextKeepsAccounts == IInv /\ TakenIsAccounted /\ [Next]_vars => TakenIsAccounted'
<1> SUFFICES ASSUME IInv, TakenIsAccounted, [Next]_vars
             PROVE  TakenIsAccounted'
  OBVIOUS
<1>0. added \in Nat /\ Len(taskQueue) \in Nat
  BY LenProperties DEF IInv, TypeOK
<1>1. ASSUME NEW command \in Commands, AddTask(command)
      PROVE  TakenIsAccounted'
  <2>1. UNCHANGED <<message, finished>> /\ \A w \in Workers : Busy(w)' <=> Busy(w)
    BY <1>1 DEF AddTask, Goto, Busy, IInv, TypeOK
  <2>2. added' - Len(taskQueue') = added - Len(taskQueue)
    <3>1. taskQueue \in Seq(Tasks) /\ Task(added + 1, command) \in Tasks
      BY <1>0 DEF IInv, TypeOK, Task, Tasks
    <3>2. added' = added + 1 /\ Len(taskQueue') = Len(taskQueue) + 1
      BY <1>1, <3>1, AppendProperties DEF AddTask
    <3> QED BY <1>0, <3>2
  <2>3. Running' = Running
    BY <2>1 DEF Running
  <2> QED BY <2>1, <2>2, <2>3 DEF TakenIsAccounted
<1>2. ASSUME Quiet
      PROVE  TakenIsAccounted'
  <2>1. Running' = Running
    BY <1>2 DEF Quiet, Running
  <2> QED BY <1>2, <2>1 DEF Quiet, TakenIsAccounted
<1>3. ASSUME NEW w \in Workers, TakeTask(w), taskQueue = <<>>
      PROVE  TakenIsAccounted'
  <2>1. UNCHANGED <<taskQueue, message, added, finished>> /\ \A v \in Workers : Busy(v)' <=> Busy(v)
    BY <1>3 DEF TakeTask, Goto, Busy, IInv, TypeOK
  <2>2. Running' = Running
    BY <2>1 DEF Running
  <2> QED BY <2>1, <2>2 DEF TakenIsAccounted
<1>4. ASSUME NEW w \in Workers, TakeTask(w), taskQueue # <<>>
      PROVE  TakenIsAccounted'
  <2> DEFINE first == added - Len(taskQueue) + 1
  <2>1. /\ message' = [message EXCEPT ![w] = Head(taskQueue)]
        /\ Head(taskQueue).number = first
        /\ Len(taskQueue') = Len(taskQueue) - 1
        /\ UNCHANGED <<added, finished>>
    BY <1>4, TakeKeepsIInv DEF TakeTask
  <2>2. /\ ~Busy(w) /\ Busy(w)' /\ message'[w].number = first
        /\ \A v \in Workers \ {w} : message'[v] = message[v] /\ (Busy(v)' <=> Busy(v))
    BY <1>4, <2>1 DEF TakeTask, Goto, Busy, IInv, TypeOK
  <2>3. Running' = Running \cup {first}
    BY <2>2 DEF Running
  <2>4. first \notin finished
    BY <1>0 DEF IInv, Numbering
  <2>5. added' - Len(taskQueue') = first
    BY <1>0, <2>1
  <2>6. \A n \in 1 .. first : n \in Running' \cup finished'
    BY <1>0, <2>1, <2>3 DEF TakenIsAccounted
  <2>7. \A v \in Workers : Busy(v)' => message'[v].number \notin finished'
    BY <2>1, <2>2, <2>4 DEF TakenIsAccounted
  <2> QED BY <2>5, <2>6, <2>7 DEF TakenIsAccounted
<1>5. ASSUME NEW w \in Workers, Done(w)
      PROVE  TakenIsAccounted'
  <2> DEFINE done == message[w].number
  <2>1. UNCHANGED <<taskQueue, added>> /\ finished' = finished \cup {done}
    BY <1>5 DEF Done, Finish
  <2>2. /\ Busy(w) /\ ~Busy(w)'
        /\ \A v \in Workers \ {w} : message'[v] = message[v] /\ (Busy(v)' <=> Busy(v))
    BY <1>5 DEF Done, Finish, Goto, Busy, IInv, TypeOK
  <2>3. Running \subseteq Running' \cup {done}
    BY <2>2 DEF Running
  <2>4. \A v \in Workers \ {w} : Busy(v) => message[v].number # done
    BY <2>2 DEF IInv, Numbering, ArrivalOrder
  <2>5. \A v \in Workers : Busy(v)' => message'[v].number \notin finished'
    BY <2>1, <2>2, <2>4 DEF TakenIsAccounted
  <2> QED BY <2>1, <2>3, <2>5 DEF TakenIsAccounted
<1>6. ASSUME NEW w \in Workers,
             Parse(w) \/ GetCommand(w) \/ Load(w) \/ Run(w) \/ PushCommandPool(w)
      PROVE  TakenIsAccounted'
  BY <1>2, <1>5, <1>6, WorkerStep DEF IInv
<1>7. CASE UNCHANGED vars \/ \E w \in Workers : SpuriousWakeup(w) \/ Throw(w)
  BY <1>2, <1>7, IdleStep DEF IInv
<1> QED BY <1>1, <1>3, <1>4, <1>6, <1>7 DEF Next, WorkerSteps

\* Every message AddTask was called for waits, is with a worker or is done with,
\* and is in one of these states only.
TasksAreAccounted ==
    /\ 1 .. added = Waiting \cup Running \cup finished
    /\ Waiting \cap Running = {} /\ Waiting \cap finished = {} /\ Running \cap finished = {}

LEMMA AccountsOfTasks == IInv /\ TakenIsAccounted => TasksAreAccounted
<1> SUFFICES ASSUME IInv, TakenIsAccounted
             PROVE  TasksAreAccounted
  OBVIOUS
<1> DEFINE taken == added - Len(taskQueue)
<1>1. added \in Nat /\ Len(taskQueue) \in Nat /\ taken \in Nat /\ DOMAIN taskQueue = 1 .. Len(taskQueue)
  BY LenProperties DEF IInv, TypeOK, Numbering
<1>2. Waiting = (taken + 1) .. added
  <2>1. \A i \in 1 .. Len(taskQueue) : taskQueue[i].number = taken + i
    BY <1>1 DEF IInv, Numbering, ArrivalOrder
  <2>2. \A n \in (taken + 1) .. added : n - taken \in 1 .. Len(taskQueue) /\ taken + (n - taken) = n
    BY <1>1
  <2>3. \A i \in 1 .. Len(taskQueue) : taken + i \in (taken + 1) .. added
    BY <1>1
  <2>4. Waiting \subseteq (taken + 1) .. added
    BY <1>1, <2>1, <2>3 DEF Waiting
  <2>5. (taken + 1) .. added \subseteq Waiting
    BY <1>1, <2>1, <2>2 DEF Waiting
  <2> QED BY <2>4, <2>5
<1>3. Running \cup finished = 1 .. taken
  BY <1>1 DEF TakenIsAccounted, IInv, Numbering, Running
<1>4. Running \cap finished = {}
  BY DEF TakenIsAccounted, Running
<1> HIDE DEF taken
<1>5. 1 .. added = 1 .. taken \cup (taken + 1) .. added /\ 1 .. taken \cap (taken + 1) .. added = {}
  BY <1>1 DEF taken
<1> QED BY <1>2, <1>3, <1>4, <1>5 DEF TasksAreAccounted

\* Until the process ends no message is lost between AddTask and the end of its
\* turn, and none is worked on again once it is done with.
THEOREM TasksStayAccounted == Spec => []TasksAreAccounted
<1>1. Init => TakenIsAccounted
  BY DEF Init, TakenIsAccounted, Busy
<1> QED BY <1>1, InitIInv, NextKeepsIInv, NextKeepsAccounts, AccountsOfTasks, PTL DEF Spec

-----------------------------------------------------------------------------
(* Refinement *)

Numbers == [w \in Workers |-> message[w].number]
PromiseVars == <<added - Len(taskQueue) + 1, added, Numbers, finished>>

LEMMA StepImplements ==
    ASSUME IInv, [Next]_vars
    PROVE  Promise!Next \/ UNCHANGED PromiseVars
<1>0. added \in Nat /\ Len(taskQueue) \in Nat
  BY LenProperties DEF IInv, TypeOK
<1>1. ASSUME NEW command \in Commands, AddTask(command)
      PROVE  Promise!HandOver
  <2>1. message' = message /\ finished' = finished /\ added' = added + 1
    BY <1>1 DEF AddTask
  <2>2. Len(taskQueue') = Len(taskQueue) + 1
    <3>1. taskQueue \in Seq(Tasks) /\ Task(added + 1, command) \in Tasks
      BY <1>0 DEF IInv, TypeOK, Task, Tasks
    <3> QED BY <1>1, <3>1, AppendProperties DEF AddTask
  <2> QED BY <1>0, <2>1, <2>2 DEF Promise!HandOver
<1>2. ASSUME NEW w \in Workers, TakeTask(w), taskQueue = <<>>
      PROVE  UNCHANGED PromiseVars
  BY <1>2 DEF TakeTask, PromiseVars, Numbers
<1>3. ASSUME NEW w \in Workers, TakeTask(w), taskQueue # <<>>
      PROVE  Promise!Start(w)
  <2>1. message[w].number = 0
    BY <1>3 DEF TakeTask, Busy, IInv, TypeOK, NoTask
  <2>2. /\ message' = [message EXCEPT ![w] = Head(taskQueue)]
        /\ Head(taskQueue).number = added - Len(taskQueue) + 1
        /\ Len(taskQueue') = Len(taskQueue) - 1 /\ Len(taskQueue) > 0
        /\ UNCHANGED <<added, finished>>
    BY <1>3, TakeKeepsIInv DEF TakeTask
  <2>3. Numbers' = [Numbers EXCEPT ![w] = added - Len(taskQueue) + 1]
    BY <2>2 DEF IInv, TypeOK, Numbers
  <2> QED BY <1>0, <2>1, <2>2, <2>3 DEF Promise!Start, Numbers
<1>4. ASSUME Quiet
      PROVE  UNCHANGED PromiseVars
  BY <1>4 DEF Quiet, PromiseVars, Numbers
<1>5. ASSUME NEW w \in Workers, Done(w)
      PROVE  Promise!Finish(w)
  <2>1. message[w].number \in 1 .. added
    BY <1>0, <1>5 DEF IInv, Numbering, Done
  <2>2. message' = [message EXCEPT ![w] = NoTask] /\ UNCHANGED <<taskQueue, added>>
        /\ finished' = finished \cup {message[w].number}
    BY <1>5 DEF Done, Finish
  <2>3. Numbers' = [Numbers EXCEPT ![w] = 0]
    BY <2>2 DEF IInv, TypeOK, Numbers, NoTask
  <2> QED BY <2>1, <2>2, <2>3 DEF Promise!Finish, Numbers
<1>6. ASSUME NEW w \in Workers,
             Parse(w) \/ GetCommand(w) \/ Load(w) \/ Run(w) \/ PushCommandPool(w)
      PROVE  Promise!Next \/ UNCHANGED PromiseVars
  BY <1>4, <1>5, <1>6, WorkerStep DEF IInv, Promise!Next
<1>7. CASE UNCHANGED vars \/ \E w \in Workers : SpuriousWakeup(w) \/ Throw(w)
  BY <1>4, <1>7, IdleStep DEF IInv
<1> QED BY <1>1, <1>2, <1>3, <1>6, <1>7 DEF Next, WorkerSteps, Promise!Next

\* The pool implements the WorkQueue: every message is started once, in the
\* order the messages came, and finished by the worker that started it.
THEOREM CommandPoolImplementsWorkQueue == Spec => ImplementsWorkQueue
<1>1. Init => Promise!Init
  BY DEF Init, Promise!Init, NoTask
<1>2. IInv /\ [Next]_vars => [Promise!Next]_PromiseVars
  BY StepImplements
<1> QED BY <1>1, <1>2, InitIInv, NextKeepsIInv, PTL
        DEF Spec, ImplementsWorkQueue, Promise!Spec, Promise!vars, PromiseVars, Numbers
=============================================================================
