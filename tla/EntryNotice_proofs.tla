------------------------- MODULE EntryNotice_proofs -------------------------
(***************************************************************************)
(* Proofs about EntryNotice, for any number of workers and commands.       *)
(***************************************************************************)
EXTENDS EntryNotice, TLAPS

-----------------------------------------------------------------------------
(* OneLateWelcome *)

\* While the switch is on nobody is late; while it is off, a worker that was
\* late once cannot get to another welcome.
Lateness ==
    /\ canEntryNotice => \A w \in Workers : sinceOff[w] = 0
    /\ \A w \in Workers : sinceOff[w] # 0 => sinceOff[w] = 1 /\ pc[w] # "welcome"
IInv == TypeOK /\ Lateness

LEMMA InitIInv == Init => IInv
BY CommandsAssumption DEF Init, IInv, TypeOK, Lateness

LEMMA BranchLabels ==
    ASSUME NEW command \in Commands
    PROVE  /\ Branch[command] \in {"suspend", "resume", "welcome"}
           /\ command # "idle" /\ command # "welcome"
BY DEF Branch, Commands

LEMMA NextKeepsIInv == IInv /\ [Next]_vars => IInv'
<1> SUFFICES ASSUME IInv, [Next]_vars
             PROVE  IInv'
  OBVIOUS
<1> USE CommandsAssumption DEF IInv, TypeOK, Lateness, Goto, historyVars
<1>1. ASSUME NEW w \in Workers, NEW command \in Commands, Call(w, command)
      PROVE  IInv'
  <2>1. lotteries' \in Nat
    <3>1. CASE command = "lotteryEnd"
      BY <1>1, <3>1 DEF Call
    <3>2. CASE command # "lotteryEnd"
      BY <1>1, <3>2 DEF Call
    <3> QED BY <3>1, <3>2
  <2> QED BY <1>1, <2>1, BranchLabels DEF Call
<1>2. ASSUME NEW w \in Workers, CanEntryNotice(w)
      PROVE  IInv'
  BY <1>2, BranchLabels DEF CanEntryNotice
<1>3. ASSUME NEW w \in Workers, Suspend(w)
      PROVE  IInv'
  BY <1>3 DEF Suspend
<1>4. ASSUME NEW w \in Workers, AnnounceSuspension(w)
      PROVE  IInv'
  BY <1>4 DEF AnnounceSuspension
<1>5. ASSUME NEW w \in Workers, Resume(w)
      PROVE  IInv'
  BY <1>5 DEF Resume
<1>6. ASSUME NEW w \in Workers, AnnounceReturn(w)
      PROVE  IInv'
  BY <1>6 DEF AnnounceReturn
<1>7. ASSUME NEW w \in Workers, Welcome(w) \/ WelcomeThrows(w)
      PROVE  IInv'
  BY <1>7 DEF Welcome, WelcomeThrows
<1>8. CASE UNCHANGED vars
  BY <1>8 DEF vars
<1> QED BY <1>1, <1>2, <1>3, <1>4, <1>5, <1>6, <1>7, <1>8 DEF Next

\* EntryNotice keeps its types.
THEOREM Types == Spec => []TypeOK
<1>1. IInv => TypeOK
  BY DEF IInv
<1> QED BY <1>1, InitIInv, NextKeepsIInv, PTL DEF Spec

\* However many workers run commands, each pushes at most one welcome after a
\* lottery turned the switch off (CanEntryNotice is read before the push).
THEOREM LateWelcomesAreFew == Spec => []OneLateWelcome
<1>1. IInv => OneLateWelcome
  <2> SUFFICES ASSUME IInv, NEW w \in Workers
               PROVE  sinceOff[w] <= 1
    BY DEF OneLateWelcome
  <2>1. sinceOff[w] = 0 \/ sinceOff[w] = 1
    BY DEF IInv, Lateness
  <2> QED BY <2>1
<1> QED BY <1>1, InitIInv, NextKeepsIInv, PTL DEF Spec

-----------------------------------------------------------------------------
(* SuspensionIsKept, with one worker *)

\* What a worker read in the switch is still true when it acts on it, so the
\* room is never told that the welcome is suspended while it is not.
Truthful ==
    /\ broken = 0
    /\ \A w \in Workers :
          /\ pc[w] \in {"resume", "welcome"} => canEntryNotice
          /\ pc[w] = "announceSuspension" => ~canEntryNotice
          /\ announcement = "suspended" /\ canEntryNotice => pc[w] = "announceReturn"

LEMMA NextKeepsTruthful ==
    ASSUME \A v, w \in Workers : v = w
    PROVE  IInv /\ Truthful /\ [Next]_vars => Truthful'
<1> SUFFICES ASSUME IInv, Truthful, [Next]_vars
             PROVE  Truthful'
  OBVIOUS
<1> USE DEF IInv, TypeOK, Truthful, Goto, historyVars
<1>1. ASSUME NEW w \in Workers, NEW command \in Commands, Call(w, command)
      PROVE  Truthful'
  BY <1>1 DEF Call, Commands
<1>2. ASSUME NEW w \in Workers, CanEntryNotice(w)
      PROVE  Truthful'
  BY <1>2 DEF CanEntryNotice, Branch, Commands
<1>3. ASSUME NEW w \in Workers, Suspend(w) \/ AnnounceSuspension(w)
      PROVE  Truthful'
  BY <1>3 DEF Suspend, AnnounceSuspension
<1>4. ASSUME NEW w \in Workers, Resume(w) \/ AnnounceReturn(w)
      PROVE  Truthful'
  BY <1>4 DEF Resume, AnnounceReturn
<1>5. ASSUME NEW w \in Workers, Welcome(w) \/ WelcomeThrows(w)
      PROVE  Truthful'
  BY <1>5 DEF Welcome, WelcomeThrows
<1>6. CASE UNCHANGED vars
  BY <1>6 DEF vars
<1> QED BY <1>1, <1>2, <1>3, <1>4, <1>5, <1>6 DEF Next

\* With one worker nobody is welcomed between the announcement that the welcome
\* is suspended and the one that it is back, however many commands run.
THEOREM OneWorkerKeepsSuspension ==
    ASSUME \A v, w \in Workers : v = w
    PROVE  Spec => []SuspensionIsKept
<1>1. Init => Truthful
  BY DEF Init, Truthful
<1>2. IInv /\ Truthful /\ [Next]_vars => Truthful'
  BY NextKeepsTruthful
<1>3. Truthful => SuspensionIsKept
  BY DEF Truthful, SuspensionIsKept
<1> QED BY <1>1, <1>2, <1>3, InitIInv, NextKeepsIInv, PTL DEF Spec
=============================================================================
