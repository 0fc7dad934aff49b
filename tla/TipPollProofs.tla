--------------------------- MODULE TipPollProofs ---------------------------
(***************************************************************************)
(* Proofs about TipPoll, for every value of its constants.  TypeOK and      *)
(* HolderReleases need no assumption on the program; the other invariants  *)
(* and the refinement are about a program that disconnects after each      *)
(* disable.                                                                *)
(***************************************************************************)
EXTENDS TipPoll, FiniteSetTheorems, TLAPS

\* Who holds the mutex, and who can have left with it: a cancellation is asked
\* only of the thread being joined, and nothing but the join follows it.
HolderExact ==
  /\ HolderReleases
  /\ \A t \in Threads : pc[t] = "reading" => mutex = t
  /\ \A t \in Threads : pc[t] = "canceled" => t = handle /\ ctl = "joining"
  /\ cancel # {} => cancel = {handle} /\ ctl = "joining"
  /\ ctl = "starting" => mutex = Ctl

\* No call is under way or completed that could have left a thread behind.
Quiet ==
  \/ ctl \in {"connecting", "enabling", "starting"}
  \/ ctl = "idle" /\ phase \in {"new", "connected", "disconnected"}

\* The calls come in the order of the program.
CallOrder ==
  /\ ctl = "connecting" => phase = "new"
  /\ ctl \in {"enabling", "starting", "settling"} => phase \in {"connected", "disconnected"}
  /\ ctl \in {"disabling", "filling", "stopping"} => phase = "running"
  /\ ctl = "joining" => phase = "stopped"
  /\ handle = None => Quiet
  /\ connected \/ phase = "new"

\* tippollthread names the only thread there is, and none is there to be named
\* while the program is quiet.
SoleThread ==
  \A t \in Threads : pc[t] # "unused" => t = handle /\ ~Quiet

\* A cancellation is requested only of the thread being joined.
CancelJoins ==
  cancel # {} => cancel = {handle} /\ ctl = "joining"

\* What the polling thread knows still holds: only it takes blocks.
Knowledge ==
  \A t \in Threads :
    /\ pc[t] = "test" => tidata[t] <= ready
    /\ pc[t] = "test" /\ tidata[t] = Error => gone
    /\ pc[t] = "count" => loaded[t] = intCount
    /\ pc[t] \in {"count", "routine", "reading"} => ready > 0

\* The counters, without Cardinality.
Balance ==
  intCount = ackCount + aborted
               + (IF \E t \in Threads : pc[t] \in InService THEN 1 ELSE 0)

\* A thread that was created leaves its loop only when the board is gone, or
\* cancelled.
Polled ==
  /\ ctl = "settling" \/ phase = "running" => running
  /\ created /\ (ctl = "settling" \/ phase = "running") => pc[handle] # "unused"
  /\ \A t \in Threads : pc[t] = "exited" => gone
  /\ \A t \in Threads : pc[t] = "canceled" => ctl = "joining"

Inv ==
  /\ CallOrder /\ SoleThread /\ CancelJoins /\ Knowledge /\ Balance /\ Polled

-----------------------------------------------------------------------------
\* Every variable keeps its type, whatever the order of the calls.
THEOREM TypeCorrect == Spec => []TypeOK
  <1>1. Init => TypeOK
    <2> SUFFICES ASSUME Init PROVE TypeOK
      OBVIOUS
    <2>1. 0 \in 0..BlockLevel - 1 /\ 0 \in 0..BufferLevel /\ 0 \in 0..MaxBlocks
          /\ 0 \in 0..MaxFails
      BY ConstantsAssumption DEF ConstantsAssumption
    <2>2. QED
      BY <2>1 DEF Init, TypeOK, Places, CtlPlaces
  <1>2. TypeOK /\ [Next]_vars => TypeOK'
    <2> SUFFICES ASSUME TypeOK, [Next]_vars PROVE TypeOK'
      OBVIOUS
    <2> USE ConstantsAssumption DEF ConstantsAssumption, TypeOK, Goto, CtlGoto, Begin, ResetCounts,
            libVars, threadVars, boardVars, Places, Live, InService, Ended,
            CtlPlaces, Error
    <2>1. ASSUME NEW t \in Threads, Poller(t) PROVE TypeOK'
      <3>1. CASE Wake(t)
        BY <3>1 DEF Wake
      <3>2. CASE BReady(t)
        BY <3>2 DEF BReady
      <3>3. CASE PollTest(t)
        BY <3>3 DEF PollTest
      <3>4. CASE Count(t)
        BY <3>4 DEF Count
      <3>5. CASE ReadStart(t)
        BY <3>5 DEF ReadStart
      <3>6. CASE ReadDone(t)
        BY <3>6 DEF ReadDone, Take
      <3>7. CASE Ack(t)
        BY <3>7 DEF Ack
      <3>8. CASE Canceled(t)
        BY <3>8 DEF Canceled, Take
      <3>9. QED
        BY <2>1, <3>1, <3>2, <3>3, <3>4, <3>5, <3>6, <3>7, <3>8 DEF Poller
    <2>2. ASSUME Control PROVE TypeOK'
      <3>1. CASE CallConnect
        BY <3>1 DEF CallConnect
      <3>2. CASE CallEnable
        BY <3>2 DEF CallEnable
      <3>3. CASE CallDisable
        BY <3>3 DEF CallDisable
      <3>4. CASE CallDisconnect
        BY <3>4 DEF CallDisconnect
      <3>5. CASE ConnectDone
        BY <3>5 DEF ConnectDone
      <3>6. CASE EnableLock
        BY <3>6 DEF EnableLock
      <3>7. CASE EnableSource
        BY <3>7 DEF EnableSource
      <3>8. CASE DisableSource
        BY <3>8 DEF DisableSource
      <3>9. CASE FillToEndBlock
        BY <3>9 DEF FillToEndBlock
      <3>10. CASE DisableStop
        BY <3>10 DEF DisableStop
      <3>11. CASE EnableStart
        BY <3>11 DEF EnableStart
      <3>12. CASE Join
        BY <3>12 DEF Join
      <3>13. QED
        BY <2>2, <3>1, <3>2, <3>3, <3>4, <3>5, <3>6, <3>7, <3>8, <3>9, <3>10, <3>11, <3>12
           DEF Control, Call, LockedStep
    <2>3. CASE Trigger
      <3>1. /\ inBlock' \in 0..BlockLevel - 1
            /\ ready' \in 0..BufferLevel
            /\ filled' \in 0..MaxBlocks
        BY <2>3 DEF Trigger
      <3>2. fill' \in BOOLEAN
        BY <2>3 DEF Trigger
      <3>3. QED
        BY <2>3, <3>1, <3>2 DEF Trigger
    <2>4. CASE BoardLost \/ UNCHANGED vars
      <3>1. CASE BoardLost
        BY <3>1 DEF BoardLost
      <3>2. CASE UNCHANGED vars
        BY <3>2 DEF vars
      <3>3. QED
        BY <2>4, <3>1, <3>2
    <2>5. QED
      BY <2>1, <2>2, <2>3, <2>4 DEF Next
  <1>3. QED
    BY <1>1, <1>2, PTL DEF Spec

-----------------------------------------------------------------------------
\* The argument for a program that disconnects after each disable: while it is
\* enabling there is no thread, so the one that tipIntEnable starts is the
\* only one until tipIntDisconnect has joined it; hence what it knows about
\* the board and the counters stays true from one of its steps to the next.
THEOREM InvCorrect ==
  ASSUME Disconnects
  PROVE  Spec => []Inv
  <1>1. Init => Inv
    BY DEF Init, Inv, CallOrder, SoleThread, CancelJoins, Knowledge, Balance,
           Polled, Quiet, InService
  <1>2. TypeOK /\ Inv /\ [Next]_vars => Inv'
    <2> SUFFICES ASSUME TypeOK, Inv, [Next]_vars PROVE Inv'
      OBVIOUS
    <2> USE ConstantsAssumption DEF ConstantsAssumption, TypeOK, Inv, Goto,
            CtlGoto, Begin, ResetCounts, libVars, threadVars, boardVars,
            CallOrder, SoleThread, CancelJoins, Knowledge, Polled, Quiet, Error
    <2>1. ASSUME NEW t \in Threads, Poller(t) PROVE Inv'
      <3>1. CASE Wake(t)
        <4>1. CallOrder' /\ SoleThread' /\ CancelJoins' /\ Polled'
          BY <3>1 DEF Wake, Places, Live, InService, Ended
        <4>2. Knowledge'
          BY <3>1 DEF Wake, Places, Live, InService, Ended
        <4>3. Balance'
          BY <3>1 DEF Wake, Balance, Places, Live, InService, Ended
        <4>4. QED
          BY <4>1, <4>2, <4>3
      <3>2. CASE BReady(t)
        <4>1. CallOrder' /\ SoleThread' /\ CancelJoins' /\ Polled'
          BY <3>2 DEF BReady, Places, Live, InService, Ended
        <4>2. Knowledge'
          BY <3>2 DEF BReady, Places, Live, InService, Ended
        <4>3. Balance'
          BY <3>2 DEF BReady, Balance, Places, Live, InService, Ended
        <4>4. QED
          BY <4>1, <4>2, <4>3
      <3>3. CASE PollTest(t)
        <4>1. CallOrder' /\ SoleThread' /\ CancelJoins' /\ Polled'
          BY <3>3 DEF PollTest, Failed, Announced, Places, Live, InService, Ended
        <4>2. Knowledge'
          BY <3>3 DEF PollTest, Failed, Announced, Places, Live, InService, Ended
        <4>3. Balance'
          BY <3>3 DEF PollTest, Failed, Announced, Balance, Places, Live, InService, Ended
        <4>4. QED
          BY <4>1, <4>2, <4>3
      <3>4. CASE Count(t)
        <4>1. CallOrder' /\ SoleThread' /\ CancelJoins' /\ Polled'
          BY <3>4 DEF Count, Places, Live, InService, Ended
        <4>2. Knowledge'
          BY <3>4 DEF Count, Places, Live, InService, Ended
        <4>3. Balance'
          BY <3>4 DEF Count, Balance, Places, Live, InService, Ended
        <4>4. QED
          BY <4>1, <4>2, <4>3
      <3>5. CASE ReadStart(t)
        <4>1. CallOrder' /\ SoleThread' /\ CancelJoins' /\ Polled'
          BY <3>5 DEF ReadStart, Places, Live, InService, Ended
        <4>2. Knowledge'
          BY <3>5 DEF ReadStart, Places, Live, InService, Ended
        <4>3. Balance'
          BY <3>5 DEF ReadStart, Balance, Places, Live, InService, Ended
        <4>4. QED
          BY <4>1, <4>2, <4>3
      <3>6. CASE ReadDone(t)
        <4>1. CallOrder' /\ SoleThread' /\ CancelJoins' /\ Polled'
          BY <3>6 DEF ReadDone, Take, Places, Live, InService, Ended
        <4>2. Knowledge'
          BY <3>6 DEF ReadDone, Take, Places, Live, InService, Ended
        <4>3. Balance'
          BY <3>6 DEF ReadDone, Take, Balance, Places, Live, InService, Ended
        <4>4. QED
          BY <4>1, <4>2, <4>3
      <3>7. CASE Ack(t)
        <4>1. CallOrder' /\ SoleThread' /\ CancelJoins' /\ Polled'
          BY <3>7 DEF Ack, Places, Live, InService, Ended
        <4>2. Knowledge'
          BY <3>7 DEF Ack, Places, Live, InService, Ended
        <4>3. Balance'
          BY <3>7 DEF Ack, Balance, Places, Live, InService, Ended
        <4>4. QED
          BY <4>1, <4>2, <4>3
      <3>8. CASE Canceled(t)
        <4>1. CallOrder' /\ SoleThread' /\ CancelJoins' /\ Polled'
          BY <3>8 DEF Canceled, Take, Cancelable, Places, Live, InService, Ended
        <4>2. Knowledge'
          BY <3>8 DEF Canceled, Take, Cancelable, Places, Live, InService, Ended
        <4>3. Balance'
          BY <3>8 DEF Canceled, Take, Cancelable, Balance, Places, Live, InService, Ended
        <4>4. QED
          BY <4>1, <4>2, <4>3
      <3>9. QED
        BY <2>1, <3>1, <3>2, <3>3, <3>4, <3>5, <3>6, <3>7, <3>8 DEF Poller
    <2>2. ASSUME Control PROVE Inv'
      <3>1. CASE CallConnect
        <4>1. CallOrder' /\ SoleThread' /\ CancelJoins' /\ Polled'
          BY <3>1 DEF CallConnect, Places, Live, InService, Ended
        <4>2. Knowledge'
          BY <3>1 DEF CallConnect, Places, Live, InService, Ended
        <4>3. Balance'
          BY <3>1 DEF CallConnect, Balance, Places, Live, InService, Ended
        <4>4. QED
          BY <4>1, <4>2, <4>3
      <3>2. CASE CallEnable
        <4>1. CallOrder' /\ SoleThread' /\ CancelJoins' /\ Polled'
          BY <3>2 DEF CallEnable, Places, Live, InService, Ended
        <4>2. Knowledge'
          BY <3>2 DEF CallEnable, Places, Live, InService, Ended
        <4>3. Balance'
          BY <3>2 DEF CallEnable, Balance, Places, Live, InService, Ended
        <4>4. QED
          BY <4>1, <4>2, <4>3
      <3>3. CASE CallDisable
        <4>1. CallOrder' /\ SoleThread' /\ CancelJoins' /\ Polled'
          BY <3>3 DEF CallDisable, Places, Live, InService, Ended
        <4>2. Knowledge'
          BY <3>3 DEF CallDisable, Places, Live, InService, Ended
        <4>3. Balance'
          BY <3>3 DEF CallDisable, Balance, Places, Live, InService, Ended
        <4>4. QED
          BY <4>1, <4>2, <4>3
      <3>4. CASE CallDisconnect
        <4>1. CallOrder' /\ SoleThread' /\ CancelJoins' /\ Polled'
          BY <3>4 DEF CallDisconnect, Places, Live, InService, Ended
        <4>2. Knowledge'
          BY <3>4 DEF CallDisconnect, Places, Live, InService, Ended
        <4>3. Balance'
          BY <3>4 DEF CallDisconnect, Balance, Places, Live, InService, Ended
        <4>4. QED
          BY <4>1, <4>2, <4>3
      <3>5. CASE ConnectDone
        <4>1. CallOrder' /\ SoleThread' /\ CancelJoins' /\ Polled'
          BY <3>5 DEF ConnectDone, Places, Live, InService, Ended
        <4>2. Knowledge'
          BY <3>5 DEF ConnectDone, Places, Live, InService, Ended
        <4>3. Balance'
          BY <3>5 DEF ConnectDone, Balance, Places, Live, InService, Ended
        <4>4. QED
          BY <4>1, <4>2, <4>3
      <3>6. CASE EnableLock
        <4>1. CallOrder' /\ SoleThread' /\ CancelJoins' /\ Polled'
          BY <3>6 DEF EnableLock, Places, Live, InService, Ended
        <4>2. Knowledge'
          BY <3>6 DEF EnableLock, Places, Live, InService, Ended
        <4>3. Balance'
          BY <3>6 DEF EnableLock, Balance, Places, Live, InService, Ended
        <4>4. QED
          BY <4>1, <4>2, <4>3
      <3>7. CASE EnableSource
        <4>1. CallOrder' /\ SoleThread' /\ CancelJoins' /\ Polled'
          BY <3>7 DEF EnableSource, Places, Live, InService, Ended
        <4>2. Knowledge'
          BY <3>7 DEF EnableSource, Places, Live, InService, Ended
        <4>3. Balance'
          BY <3>7 DEF EnableSource, Balance, Places, Live, InService, Ended
        <4>4. QED
          BY <4>1, <4>2, <4>3
      <3>8. CASE DisableSource
        <4>1. CallOrder' /\ SoleThread' /\ CancelJoins' /\ Polled'
          BY <3>8 DEF DisableSource, Places, Live, InService, Ended
        <4>2. Knowledge'
          BY <3>8 DEF DisableSource, Places, Live, InService, Ended
        <4>3. Balance'
          BY <3>8 DEF DisableSource, Balance, Places, Live, InService, Ended
        <4>4. QED
          BY <4>1, <4>2, <4>3
      <3>9. CASE FillToEndBlock
        <4>1. CallOrder' /\ SoleThread' /\ CancelJoins' /\ Polled'
          BY <3>9 DEF FillToEndBlock, Places, Live, InService, Ended
        <4>2. Knowledge'
          BY <3>9 DEF FillToEndBlock, Places, Live, InService, Ended
        <4>3. Balance'
          BY <3>9 DEF FillToEndBlock, Balance, Places, Live, InService, Ended
        <4>4. QED
          BY <4>1, <4>2, <4>3
      <3>10. CASE DisableStop
        <4>1. CallOrder' /\ SoleThread' /\ CancelJoins' /\ Polled'
          BY <3>10 DEF DisableStop, Places, Live, InService, Ended
        <4>2. Knowledge'
          BY <3>10 DEF DisableStop, Places, Live, InService, Ended
        <4>3. Balance'
          BY <3>10 DEF DisableStop, Balance, Places, Live, InService, Ended
        <4>4. QED
          BY <4>1, <4>2, <4>3
      <3>11. CASE EnableStart
        <4>1. CallOrder' /\ SoleThread' /\ CancelJoins' /\ Polled'
          BY <3>11 DEF EnableStart, Places, Live, InService, Ended
        <4>2. Knowledge'
          BY <3>11 DEF EnableStart, Places, Live, InService, Ended
        <4>3. Balance'
          BY <3>11 DEF EnableStart, Balance, Places, Live, InService, Ended
        <4>4. QED
          BY <4>1, <4>2, <4>3
      <3>12. CASE Join
        <4>1. CallOrder' /\ SoleThread' /\ CancelJoins' /\ Polled'
          BY <3>12 DEF Join, Places, Live, InService, Ended
        <4>2. Knowledge'
          BY <3>12 DEF Join, Places, Live, InService, Ended
        <4>3. Balance'
          BY <3>12 DEF Join, Balance, Places, Live, InService, Ended
        <4>4. QED
          BY <4>1, <4>2, <4>3
      <3>13. QED
        BY <2>2, <3>1, <3>2, <3>3, <3>4, <3>5, <3>6, <3>7, <3>8, <3>9, <3>10, <3>11, <3>12
           DEF Control, Call, LockedStep
    <2>3. CASE Trigger
      <3>1. CallOrder' /\ SoleThread' /\ CancelJoins' /\ Polled'
        BY <2>3 DEF Trigger, Places, Live, InService, Ended
      <3>2. Knowledge'
        BY <2>3 DEF Trigger, Places, Live, InService, Ended
      <3>3. Balance'
        BY <2>3 DEF Trigger, Balance, Places, Live, InService, Ended
      <3>4. QED
        BY <3>1, <3>2, <3>3
    <2>4. CASE BoardLost
      <3>1. CallOrder' /\ SoleThread' /\ CancelJoins' /\ Polled'
        BY <2>4 DEF BoardLost, Places, Live, InService, Ended
      <3>2. Knowledge'
        BY <2>4 DEF BoardLost, Places, Live, InService, Ended
      <3>3. Balance'
        BY <2>4 DEF BoardLost, Balance, Places, Live, InService, Ended
      <3>4. QED
        BY <3>1, <3>2, <3>3
    <2>5. CASE UNCHANGED vars
      BY <2>5 DEF vars, Balance
    <2>6. QED
      BY <2>1, <2>2, <2>3, <2>4, <2>5 DEF Next
  <1>3. QED
    BY <1>1, <1>2, TypeCorrect, PTL DEF Spec

-----------------------------------------------------------------------------
\* Once tipIntDisconnect has returned, no polling thread is left.
THEOREM DisconnectKills ==
  ASSUME Disconnects
  PROVE  Spec => []DisconnectKillsPoller
  <1>1. Inv => DisconnectKillsPoller
    BY DEF Inv, SoleThread, Quiet, DisconnectKillsPoller, Live, InService
  <1>2. QED
    BY <1>1, InvCorrect, PTL

\* The block that tipBReady announced is there when the user routine reads it.
THEOREM ReadFinds ==
  ASSUME Disconnects
  PROVE  Spec => []ReadFindsBlock
  <1>1. Inv => ReadFindsBlock
    BY DEF Inv, Knowledge, ReadFindsBlock
  <1>2. QED
    BY <1>1, InvCorrect, PTL

\* tipIntCount and tipAckCount differ by the services in progress or cut short.
THEOREM CountsAgree ==
  ASSUME Disconnects
  PROVE  Spec => []CountsBalance
  <1>1. TypeOK /\ Inv => CountsBalance
    <2> SUFFICES ASSUME TypeOK, Inv PROVE CountsBalance
      OBVIOUS
    <2> DEFINE Serving == {t \in Threads : pc[t] \in InService}
    <2>1. CASE \E t \in Threads : pc[t] \in InService
      <3>1. Serving = {handle}
        BY <2>1 DEF Inv, SoleThread, InService
      <3>2. Cardinality(Serving) = 1
        BY <3>1, FS_Singleton
      <3>3. QED
        BY <2>1, <3>2 DEF Inv, Balance, CountsBalance
    <2>2. CASE ~ \E t \in Threads : pc[t] \in InService
      <3>1. Serving = {}
        BY <2>2
      <3>2. Cardinality(Serving) = 0
        BY <3>1, FS_EmptySet
      <3>3. QED
        BY <2>2, <3>2 DEF Inv, Balance, CountsBalance, TypeOK
    <2>3. QED
      BY <2>1, <2>2
  <1>2. QED
    BY <1>1, InvCorrect, TypeCorrect, PTL

\* While the service is enabled its thread polls, unless the board is gone.
THEOREM EnabledPolls ==
  ASSUME Disconnects
  PROVE  Spec => []EnabledMeansPolled
  <1>1. TypeOK /\ Inv => EnabledMeansPolled
    BY DEF Inv, CallOrder, Polled, SoleThread, Quiet, EnabledMeansPolled, TypeOK,
           Places, Live, Ended, InService
  <1>2. QED
    BY <1>1, InvCorrect, TypeCorrect, PTL

-----------------------------------------------------------------------------
\* A run never loses the mutex: the thread in its read or tipIntEnable holds it,
\* or a thread that tipIntDisconnect has cancelled in its read.
THEOREM MutexReleased == Spec => []HolderReleases
  <1>1. Init => HolderExact
    BY ConstantsAssumption
    DEF ConstantsAssumption, Init, HolderExact, HolderReleases
  <1>2. TypeOK /\ HolderExact /\ [Next]_vars => HolderExact'
    <2> SUFFICES ASSUME TypeOK, HolderExact, [Next]_vars PROVE HolderExact'
      OBVIOUS
    <2> USE ConstantsAssumption DEF ConstantsAssumption, TypeOK, HolderExact,
            HolderReleases, Abandoned, Goto, CtlGoto, Begin, libVars, threadVars, boardVars
    <2>1. ASSUME NEW t \in Threads, Poller(t) PROVE HolderExact'
      <3>1. CASE Wake(t)
        BY <3>1 DEF Wake
      <3>2. CASE BReady(t)
        BY <3>2 DEF BReady
      <3>3. CASE PollTest(t)
        BY <3>3 DEF PollTest
      <3>4. CASE Count(t)
        BY <3>4 DEF Count
      <3>5. CASE ReadStart(t)
        BY <3>5 DEF ReadStart
      <3>6. CASE ReadDone(t)
        BY <3>6 DEF ReadDone, Take
      <3>7. CASE Ack(t)
        BY <3>7 DEF Ack
      <3>8. CASE Canceled(t)
        BY <3>8 DEF Canceled, Take, Cancelable
      <3>9. QED
        BY <2>1, <3>1, <3>2, <3>3, <3>4, <3>5, <3>6, <3>7, <3>8 DEF Poller
    <2>2. ASSUME Control PROVE HolderExact'
      <3>1. CASE CallConnect
        BY <3>1 DEF CallConnect
      <3>2. CASE CallEnable
        BY <3>2 DEF CallEnable
      <3>3. CASE CallDisable
        BY <3>3 DEF CallDisable
      <3>4. CASE CallDisconnect
        BY <3>4 DEF CallDisconnect
      <3>5. CASE ConnectDone
        BY <3>5 DEF ConnectDone
      <3>6. CASE EnableLock
        BY <3>6 DEF EnableLock
      <3>7. CASE EnableSource
        BY <3>7 DEF EnableSource
      <3>8. CASE DisableSource
        BY <3>8 DEF DisableSource
      <3>9. CASE FillToEndBlock
        BY <3>9 DEF FillToEndBlock
      <3>10. CASE DisableStop
        BY <3>10 DEF DisableStop
      <3>11. CASE EnableStart
        BY <3>11 DEF EnableStart
      <3>12. CASE Join
        BY <3>12 DEF Join, Ended
      <3>13. QED
        BY <2>2, <3>1, <3>2, <3>3, <3>4, <3>5, <3>6, <3>7, <3>8, <3>9, <3>10, <3>11, <3>12
           DEF Control, Call, LockedStep
    <2>3. CASE Trigger \/ BoardLost \/ UNCHANGED vars
      BY <2>3 DEF Trigger, BoardLost, vars
    <2>4. QED
      BY <2>1, <2>2, <2>3 DEF Next
  <1>3. HolderExact => HolderReleases
    BY DEF HolderExact
  <1>4. QED
    BY <1>1, <1>2, <1>3, TypeCorrect, PTL DEF Spec

-----------------------------------------------------------------------------
\* The service with its threads, its mutex and its control thread implements
\* the abstract one: every step is a step of BlockService or changes nothing
\* of it.
THEOREM Refinement ==
  ASSUME Disconnects
  PROVE  Spec => ServiceSpec
  <1>1. Init => Service!Init
    BY DEF Init, Service!Init, Stage
  <1>2. TypeOK /\ Inv /\ [Next]_vars => [Service!Next]_Service!vars
    <2> SUFFICES ASSUME TypeOK, Inv, [Next]_vars
                 PROVE  [Service!Next]_Service!vars
      OBVIOUS
    <2> USE ConstantsAssumption DEF ConstantsAssumption, TypeOK, Inv, CallOrder,
            SoleThread, CancelJoins, Quiet, Goto, CtlGoto, Begin, libVars,
            threadVars, boardVars, Stage, Service!vars
    <2>1. ASSUME NEW t \in Threads, Poller(t)
          PROVE  [Service!Next]_Service!vars
      <3>1. CASE Wake(t)
        BY <3>1 DEF Wake
      <3>2. CASE BReady(t)
        BY <3>2 DEF BReady
      <3>3. CASE PollTest(t)
        BY <3>3 DEF PollTest, Failed, Announced
      <3>4. CASE Count(t)
        <4>1. connected
          BY <3>4 DEF Count, CtlPlaces
        <4>2. Stage = "none" /\ Stage' = "called"
          BY <3>4, <4>1 DEF Count, Places, Live, InService
        <4>3. ready > 0 /\ intCount' = intCount + 1
          BY <3>4 DEF Count, Knowledge
        <4>4. Service!Serve
          BY <3>4, <4>2, <4>3 DEF Count, Service!Serve
        <4>5. QED
          BY <4>4 DEF Service!Next
      <3>5. CASE ReadStart(t)
        BY <3>5 DEF ReadStart
      <3>6. CASE ReadDone(t)
        <4>1. Stage = "called" /\ Stage' = "read"
          BY <3>6 DEF ReadDone
        <4>2. Service!Read
          BY <3>6, <4>1 DEF ReadDone, Take, Service!Read, Service!TakeBlock
        <4>3. QED
          BY <4>2 DEF Service!Next
      <3>7. CASE Ack(t)
        <4>1. Service!Acknowledge
          BY <3>7 DEF Ack, Service!Acknowledge, Knowledge
        <4>2. QED
          BY <4>1 DEF Service!Next
      <3>8. CASE Canceled(t)
        <4>1. CASE pc[t] \in InService
          <5>1. Stage # "none" /\ Stage' = "none"
            BY <3>8, <4>1 DEF Canceled, InService
          <5>2. pc[t] = "reading" => Stage = "called"
            OBVIOUS
          <5>3. Service!CutShort
            BY <3>8, <4>1, <5>1, <5>2
            DEF Canceled, Take, Service!CutShort, Service!TakeBlock, InService
          <5>4. QED
            BY <5>3 DEF Service!Next
        <4>2. CASE pc[t] \notin InService
          BY <3>8, <4>2 DEF Canceled, Cancelable, InService, Take
        <4>3. QED
          BY <4>1, <4>2
      <3>9. QED
        BY <2>1, <3>1, <3>2, <3>3, <3>4, <3>5, <3>6, <3>7, <3>8 DEF Poller
    <2>2. ASSUME Control PROVE [Service!Next]_Service!vars
      <3>1. CASE CallConnect
        BY <3>1 DEF CallConnect, ResetCounts, Service!Next, Service!Restart
      <3>2. CASE CallEnable
        BY <3>2 DEF CallEnable
      <3>3. CASE CallDisable
        BY <3>3 DEF CallDisable
      <3>4. CASE CallDisconnect
        BY <3>4 DEF CallDisconnect
      <3>5. CASE ConnectDone
        BY <3>5 DEF ConnectDone
      <3>6. CASE EnableLock
        BY <3>6 DEF EnableLock, ResetCounts, Service!Next, Service!Restart
      <3>7. CASE EnableSource
        BY <3>7 DEF EnableSource
      <3>8. CASE DisableSource
        BY <3>8 DEF DisableSource
      <3>9. CASE FillToEndBlock
        BY <3>9 DEF FillToEndBlock
      <3>10. CASE DisableStop
        BY <3>10 DEF DisableStop
      <3>11. CASE EnableStart
        BY <3>11 DEF EnableStart
      <3>12. CASE Join
        BY <3>12 DEF Join, Ended
      <3>13. QED
        BY <2>2, <3>1, <3>2, <3>3, <3>4, <3>5, <3>6, <3>7, <3>8, <3>9, <3>10, <3>11, <3>12
           DEF Control, Call, LockedStep
    <2>3. CASE Trigger
      BY <2>3 DEF Trigger, Service!Next, Service!Fill
    <2>4. CASE BoardLost \/ UNCHANGED vars
      BY <2>4 DEF BoardLost, vars, Service!Next, Service!Lose
    <2>5. QED
      BY <2>1, <2>2, <2>3, <2>4 DEF Next
  <1>3. QED
    BY <1>1, <1>2, InvCorrect, TypeCorrect, PTL DEF Spec, ServiceSpec, Service!Spec

=============================================================================
