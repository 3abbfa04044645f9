---------------------------- MODULE EntryNotice ----------------------------
(***************************************************************************)
(* The switch Config::canEntryNotice, which several commands share: the    *)
(* start of a lottery suspends the welcome of people who enter the room,   *)
(* its end brings the welcome back.  Anchor lotteries and red pockets may  *)
(* overlap.  Each command reads the switch and acts later on what it read, *)
(* and the pool runs commands in several workers at a time.                *)
(***************************************************************************)
EXTENDS Integers

CONSTANTS
    Workers,        \* the threads of the pool
    MaxCommands     \* bound: commands run in a behaviour

ASSUME CommandsAssumption == MaxCommands \in Nat

Commands == {"lotteryStart", "lotteryEnd", "interactWord"}

\* Faulty variant: the end of a lottery has no case.
BranchWithoutEnd == [command \in Commands |->
                       CASE command = "lotteryStart" -> "suspend"
                         [] command = "interactWord" -> "welcome"
                         [] OTHER -> "default"]

\* Where Run of each command goes when it finds the switch on.
Branch == [command \in Commands |->
             CASE command = "lotteryStart" -> "suspend"
               [] command = "lotteryEnd"   -> "resume"
               [] command = "interactWord" -> "welcome"]

VARIABLES
    canEntryNotice,
    pc,             \* where each worker is
    commands,       \* how many commands were run
    \* History
    announcement,   \* what the room was told last about the welcome
    lotteries,      \* lotteries that began and have not ended
    sinceOff,       \* welcomes a worker pushed since the switch went off
    broken          \* welcomes pushed after the room was told of the suspension

historyVars == <<announcement, lotteries, sinceOff, broken>>
vars == <<canEntryNotice, pc, commands, historyVars>>

\* The welcome is configured: when it is not, none of the commands does
\* anything.  The robot may enter a room where a lottery is under way.
Init ==
    /\ canEntryNotice = TRUE
    /\ pc = [w \in Workers |-> "idle"]
    /\ commands = 0
    /\ announcement = "none"
    /\ lotteries \in 0..1
    /\ sinceOff = [w \in Workers |-> 0]
    /\ broken = 0

Goto(w, label) == pc' = [pc EXCEPT ![w] = label]

\* A worker calls Run of the next command.  A lottery ends after it started.
Call(w, command) ==
    /\ pc[w] = "idle" /\ commands < MaxCommands
    /\ command = "lotteryEnd" => lotteries > 0
    /\ commands' = commands + 1
    /\ lotteries' = CASE command = "lotteryStart" -> lotteries + 1
                      [] command = "lotteryEnd"   -> lotteries - 1
                      [] OTHER                    -> lotteries
    /\ Goto(w, command)
    /\ UNCHANGED <<canEntryNotice, announcement, sinceOff, broken>>

\* Faulty variant: the switch is not looked at.
CanEntryNoticeIgnored(w) ==
    /\ pc[w] \in Commands
    /\ Goto(w, Branch[pc[w]])
    /\ UNCHANGED <<canEntryNotice, commands, historyVars>>

\* Config::CanEntryNotice under its shared lock: Run goes on if it is true and
\* does nothing otherwise.
CanEntryNotice(w) ==
    /\ pc[w] \in Commands
    /\ Goto(w, IF canEntryNotice THEN Branch[pc[w]] ELSE "idle")
    /\ UNCHANGED <<canEntryNotice, commands, historyVars>>

-----------------------------------------------------------------------------
(* AnchorLotStart::Run and RedPocketStart::Run *)

Suspend(w) ==
    /\ pc[w] = "suspend"
    /\ canEntryNotice' = FALSE
    /\ Goto(w, "announceSuspension")
    /\ UNCHANGED <<commands, historyVars>>

AnnounceSuspension(w) ==
    /\ pc[w] = "announceSuspension"
    /\ announcement' = "suspended"
    /\ Goto(w, "idle")
    /\ UNCHANGED <<canEntryNotice, commands, lotteries, sinceOff, broken>>

-----------------------------------------------------------------------------
(* AnchorLotEnd::Run and RedPocketEnd::Run *)

Resume(w) ==
    /\ pc[w] = "resume"
    /\ canEntryNotice' = TRUE
    /\ sinceOff' = [v \in Workers |-> 0]
    /\ Goto(w, "announceReturn")
    /\ UNCHANGED <<commands, announcement, lotteries, broken>>

AnnounceReturn(w) ==
    /\ pc[w] = "announceReturn"
    /\ announcement' = "back"
    /\ Goto(w, "idle")
    /\ UNCHANGED <<canEntryNotice, commands, lotteries, sinceOff, broken>>

-----------------------------------------------------------------------------
(* InteractWord::Run *)

\* A welcome is composed and pushed.
Welcome(w) ==
    /\ pc[w] = "welcome"
    /\ sinceOff' = IF canEntryNotice THEN sinceOff ELSE [sinceOff EXCEPT ![w] = @ + 1]
    /\ broken' = IF announcement = "suspended" THEN broken + 1 ELSE broken
    /\ Goto(w, "idle")
    /\ UNCHANGED <<canEntryNotice, commands, announcement, lotteries>>

\* What the formatting throws is caught, and nothing is pushed.
WelcomeThrows(w) ==
    /\ pc[w] = "welcome"
    /\ Goto(w, "idle")
    /\ UNCHANGED <<canEntryNotice, commands, historyVars>>

Next ==
    \E w \in Workers :
        \/ \E command \in Commands : Call(w, command)
        \/ CanEntryNotice(w)
        \/ Suspend(w) \/ AnnounceSuspension(w)
        \/ Resume(w) \/ AnnounceReturn(w)
        \/ Welcome(w) \/ WelcomeThrows(w)

Spec == Init /\ [][Next]_vars

-----------------------------------------------------------------------------
(* Properties *)

\* The variables keep their types.
TypeOK ==
    /\ canEntryNotice \in BOOLEAN
    /\ pc \in [Workers -> Commands \cup {"idle", "suspend", "announceSuspension",
                                         "resume", "announceReturn", "welcome"}]
    /\ commands \in 0..MaxCommands
    /\ announcement \in {"none", "suspended", "back"}
    /\ lotteries \in Nat
    /\ sinceOff \in [Workers -> Nat]
    /\ broken \in Nat

\* A worker that read the switch before it went off pushes the one welcome it
\* is about to push and no other.
OneLateWelcome == \A w \in Workers : sinceOff[w] <= 1

\* Nobody is welcomed after the room was told that the welcome is suspended
\* (BiliLiveCommandAnchorLotStart.cpp:31).
SuspensionIsKept == broken = 0

\* When the lotteries are over and no command runs, the welcome is on again
\* (BiliLiveCommandAnchorLotEnd.cpp:32).
WelcomeReturns ==
    lotteries = 0 /\ (\A w \in Workers : pc[w] = "idle") => canEntryNotice
=============================================================================
