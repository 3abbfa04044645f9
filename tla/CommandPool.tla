---------------------------- MODULE CommandPool ----------------------------
(***************************************************************************)
(* Entity/ThreadPool, Entity/BiliEntity/BiliCommandFactory and             *)
(* Entity/EntityPool: the session hands the messages of a packet to the    *)
(* worker threads.  A worker parses a message, gets a command object for   *)
(* it from the factory, runs the object and leaves it in the entity pool.  *)
(* What a command does when it runs is the subject of Commands.            *)
(***************************************************************************)
EXTENDS Integers, Sequences, FiniteSets

CONSTANTS
    Workers,        \* the threads of the pool
    Registered,     \* the commands the factory has a constructor for
    Unregistered,   \* other values of LiveCommand: AddTask takes them, although
                    \* Unpack lets none of them through
    CommandThrows,  \* may LoadMessage or Run throw what nobody catches?
    MaxTasks        \* bound: messages handed over in a behaviour

ASSUME WorkersAssumption  == IsFiniteSet(Workers)
ASSUME CommandsAssumption == Registered \cap Unregistered = {} /\ "NONE" \notin Registered \cup Unregistered
ASSUME ThrowsAssumption   == CommandThrows \in BOOLEAN
ASSUME MaxTasksAssumption == MaxTasks \in Nat

Commands == Registered \cup Unregistered
Types    == Commands \cup {"NONE"}

\* A message: how many were handed over before it, and which command it names.
Task(number, command) == [number |-> number, command |-> command]
Tasks  == [number : Nat, command : Commands]
NoTask == [number |-> 0, command |-> "NONE"]

VARIABLES
    taskQueue,
    pc,             \* where each worker is
    message,        \* the message each worker has taken
    commandPool,    \* for each type, the classes of the objects in its queue
    terminated,     \* did an exception leave a worker thread?
    \* History
    added,          \* how many messages were handed over
    finished        \* the numbers of the messages done with

vars == <<taskQueue, pc, message, commandPool, terminated, added, finished>>

Init ==
    /\ taskQueue = <<>>
    /\ pc = [w \in Workers |-> "take"]
    /\ message = [w \in Workers |-> NoTask]
    /\ commandPool = [type \in Types |-> <<>>]
    /\ terminated = FALSE
    /\ added = 0
    /\ finished = {}

Goto(w, label) == pc' = [pc EXCEPT ![w] = label]

\* A worker is done with its message and goes round its loop.
Finish(w) ==
    /\ message' = [message EXCEPT ![w] = NoTask]
    /\ finished' = finished \cup {message[w].number}
    /\ Goto(w, "take")

-----------------------------------------------------------------------------
(* AddTask, called by on_read for each message Unpack returns              *)

\* Faulty variant: nobody is notified.
AddTaskSilently(command) ==
    /\ added < MaxTasks
    /\ added' = added + 1
    /\ taskQueue' = Append(taskQueue, Task(added + 1, command))
    /\ UNCHANGED <<pc, message, commandPool, terminated, finished>>

\* notify_one wakes one of the workers that sleep, if there is one.
AddTask(command) ==
    /\ added < MaxTasks
    /\ added' = added + 1
    /\ taskQueue' = Append(taskQueue, Task(added + 1, command))
    /\ \/ \E w \in Workers : pc[w] = "asleep" /\ Goto(w, "take")
       \/ (\A w \in Workers : pc[w] # "asleep") /\ UNCHANGED pc
    /\ UNCHANGED <<message, commandPool, terminated, finished>>

-----------------------------------------------------------------------------
(* ThreadRun *)

\* Faulty variant: the front is copied and stays in the queue.
TakeTaskWithoutPop(w) ==
    /\ pc[w] = "take"
    /\ IF taskQueue = <<>>
       THEN Goto(w, "asleep") /\ UNCHANGED message
       ELSE message' = [message EXCEPT ![w] = Head(taskQueue)] /\ Goto(w, "parse")
    /\ UNCHANGED <<taskQueue, commandPool, terminated, added, finished>>

\* Faulty variant: the last message is taken, not the first.
TakeLastTask(w) ==
    /\ pc[w] = "take"
    /\ IF taskQueue = <<>>
       THEN Goto(w, "asleep") /\ UNCHANGED <<taskQueue, message>>
       ELSE /\ message' = [message EXCEPT ![w] = taskQueue[Len(taskQueue)]]
            /\ taskQueue' = SubSeq(taskQueue, 1, Len(taskQueue) - 1)
            /\ Goto(w, "parse")
    /\ UNCHANGED <<commandPool, terminated, added, finished>>

\* Under the mutex: the front is taken, or the worker sleeps on the condition
\* variable, which looks at the queue again when it wakes up.
TakeTask(w) ==
    /\ pc[w] = "take"
    /\ IF taskQueue = <<>>
       THEN Goto(w, "asleep") /\ UNCHANGED <<taskQueue, message>>
       ELSE /\ message' = [message EXCEPT ![w] = Head(taskQueue)]
            /\ taskQueue' = Tail(taskQueue)
            /\ Goto(w, "parse")
    /\ UNCHANGED <<commandPool, terminated, added, finished>>

SpuriousWakeup(w) ==
    /\ pc[w] = "asleep"
    /\ Goto(w, "take")
    /\ UNCHANGED <<taskQueue, message, commandPool, terminated, added, finished>>

\* The text may not be JSON: then the worker goes on to the next message.
Parse(w) ==
    /\ pc[w] = "parse"
    /\ \/ Goto(w, "getCommand") /\ UNCHANGED <<message, finished>>
       \/ Finish(w)
    /\ UNCHANGED <<taskQueue, commandPool, terminated, added>>

\* Faulty variant: the factory does not look whether it has a constructor.
GetCommandUnchecked(w) ==
    /\ pc[w] = "getCommand"
    /\ Goto(w, "load")
    /\ UNCHANGED <<taskQueue, message, commandPool, terminated, added, finished>>

\* Faulty variant: a message without a command ends the thread, not its turn.
GetCommandReturning(w) ==
    /\ pc[w] = "getCommand"
    /\ Goto(w, IF message[w].command \in Registered THEN "load" ELSE "ended")
    /\ UNCHANGED <<taskQueue, message, commandPool, terminated, added, finished>>

\* The factory asks the entity pool for an object of the type: those that were
\* left more than five minutes ago are dropped, the first that was not is
\* reused, and the factory makes a new one if there is none.
GetCommand(w) ==
    LET type   == message[w].command
        pooled == commandPool[type]
    IN  /\ pc[w] = "getCommand"
        /\ IF type \in Registered
           THEN /\ \E timedOut \in 0..Len(pooled) :
                      commandPool' = [commandPool EXCEPT
                                        ![type] = SubSeq(pooled, timedOut + 2, Len(pooled))]
                /\ Goto(w, "load")
                /\ UNCHANGED <<message, finished>>
           ELSE Finish(w) /\ UNCHANGED commandPool
        /\ UNCHANGED <<taskQueue, terminated, added>>

\* LoadMessage of the object; when a reused one returns false a new one tries
\* again.  The message is given up when that fails too.
Load(w) ==
    /\ pc[w] = "load"
    /\ \/ Goto(w, "run") /\ UNCHANGED <<message, finished>>
       \/ Finish(w)
    /\ UNCHANGED <<taskQueue, commandPool, terminated, added>>

Run(w) ==
    /\ pc[w] = "run"
    /\ Goto(w, "pool")
    /\ UNCHANGED <<taskQueue, message, commandPool, terminated, added, finished>>

\* What LoadMessage or Run throws leaves ThreadRun: std::terminate.
Throw(w) ==
    /\ pc[w] \in {"load", "run"} /\ CommandThrows
    /\ terminated' = TRUE
    /\ UNCHANGED <<taskQueue, pc, message, commandPool, added, finished>>

\* GetCommandType: no class overrides it, so every object answers NONE.
CommandType(class) == "NONE"

\* The time is set and the object goes to the entity pool.
PushCommandPool(w) ==
    LET class == message[w].command
    IN  /\ pc[w] = "pool"
        /\ commandPool' = [commandPool EXCEPT ![CommandType(class)] = Append(@, class)]
        /\ Finish(w)
        /\ UNCHANGED <<taskQueue, terminated, added>>

-----------------------------------------------------------------------------
WorkerSteps(w) ==
    \/ TakeTask(w) \/ Parse(w) \/ GetCommand(w) \/ Load(w) \/ Run(w) \/ PushCommandPool(w)

Next ==
    /\ ~terminated
    /\ \/ \E command \in Commands : AddTask(command)
       \/ \E w \in Workers : WorkerSteps(w) \/ SpuriousWakeup(w) \/ Throw(w)

Spec == Init /\ [][Next]_vars

\* The operating system runs every worker that can run; what a command waits
\* for when it runs ends (MessageDeque: CallsReturn).  A spurious wakeup and
\* the arrival of a message are not to be counted on.
Fairness == \A w \in Workers : WF_vars(~terminated /\ WorkerSteps(w))

FairSpec == Spec /\ Fairness

-----------------------------------------------------------------------------
(* Properties *)

Busy(w) == pc[w] \notin {"take", "asleep"}
Waiting == {taskQueue[i].number : i \in DOMAIN taskQueue}
Running == {message[w].number : w \in {v \in Workers : Busy(v)}}

\* The variables keep their types; a worker holds a message exactly when it
\* works on one, and works on registered commands only past the factory.
TypeOK ==
    /\ taskQueue \in Seq(Tasks)
    /\ pc \in [Workers -> {"take", "asleep", "parse", "getCommand", "load", "run", "pool"}]
    /\ message \in [Workers -> Tasks \cup {NoTask}]
    /\ commandPool \in [Types -> Seq(Commands)]
    /\ terminated \in BOOLEAN
    /\ added \in 0..MaxTasks
    /\ finished \in SUBSET (1..MaxTasks)
    /\ \A w \in Workers :
          /\ Busy(w) <=> message[w] # NoTask
          /\ pc[w] \in {"load", "run", "pool"} => message[w].command \in Registered

\* No worker sleeps while more messages wait than there are workers awake to
\* take them: every message that waits has a worker of its own on the way, or
\* all workers are busy.
Awake == {w \in Workers : pc[w] = "take"}
NoTaskLeftWaiting ==
    (\E w \in Workers : pc[w] = "asleep") => Len(taskQueue) <= Cardinality(Awake)

\* The messages that wait are the last ones, in the order they came, and two
\* workers never hold the same message.
ArrivalOrder ==
    /\ \A i \in DOMAIN taskQueue : taskQueue[i].number = added - Len(taskQueue) + i
    /\ \A v, w \in Workers : v # w /\ Busy(v) /\ Busy(w) => message[v].number # message[w].number

\* The pool implements the WorkQueue.
Promise == INSTANCE WorkQueue WITH
    next <- added - Len(taskQueue) + 1, last <- added,
    running <- [w \in Workers |-> message[w].number], finished <- finished
ImplementsWorkQueue == Promise!Spec

\* Every message is done with in the end, unless an exception ends the process.
EveryTaskFinishes ==
    \A n \in 1..MaxTasks : n \in Waiting \cup Running ~> n \in finished \/ terminated
=============================================================================
