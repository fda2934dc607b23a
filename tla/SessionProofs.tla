---------------------------- MODULE SessionProofs -----------------------------
(***************************************************************************)
(* Every session emits finished() at most once, and keeps the contract     *)
(* that the pane relies on, for any number of sessions.                    *)
(***************************************************************************)
EXTENDS SessionLifecycle, TLAPS

(* A session is untouched before it is created.                            *)
Untouched(s) ==
    view[s] = "none" => /\ s \notin running /\ s \notin finishTimer /\ s \notin userRequest
                        /\ s \in connected /\ finished[s] = 0

(* A shell is watched by a session that has not finished; if the tab is    *)
(* gone, the user asked for its end.                                       *)
Watched(s) ==
    s \in running => finished[s] = 0 /\ (view[s] = "gone" => s \in userRequest)

(* The timer runs for a session without tab and shell only                 *)
TimerJustified(s) ==
    s \in finishTimer => view[s] = "gone" /\ s \notin running /\ finished[s] = 0

(* A closed session with no shell and no timer has finished, or nobody is  *)
(* connected to it.                                                        *)
NoThirdWay(s) ==
    (view[s] = "gone" /\ s \notin running /\ s \notin finishTimer /\ finished[s] = 0)
        => s \notin connected

IInv ==
    /\ TypeOK
    /\ FinishedOnce
    /\ \A s \in Sessions : Untouched(s) /\ Watched(s) /\ TimerJustified(s) /\ NoThirdWay(s)
    /\ waiting # Idle => view[waiting.session] = "gone"

LEMMA InitHolds == Init => IInv
BY SessionsAssumption DEF Init, IInv, TypeOK, FinishedOnce, Untouched, Watched, TimerJustified,
   NoThirdWay, Idle, Stages

-----------------------------------------------------------------------------
(* The steps, one by one: each keeps the invariant and the contract        *)

KeepsContract == \A s \in Sessions : Contract(s)!Next \/ StateOf(s)' = StateOf(s)

LEMMA CreateStep ==
    ASSUME IInv, NEW s \in Sessions, CreateSession(s)
    PROVE  IInv' /\ KeepsContract
<1>1. TypeOK'
  BY DEF IInv, TypeOK, CreateSession, Run
<1>2. FinishedOnce'
  BY DEF IInv, TypeOK, CreateSession, FinishedOnce, Untouched
<1>3. \A t \in Sessions : (Untouched(t) /\ Watched(t) /\ TimerJustified(t) /\ NoThirdWay(t))'
  BY DEF IInv, TypeOK, CreateSession, Run, Untouched, Watched, TimerJustified, NoThirdWay
<1>4. (waiting # Idle => view[waiting.session] = "gone")'
  BY DEF CreateSession, EventLoop, Idle
<1>5. KeepsContract
  <2> SUFFICES ASSUME NEW t \in Sessions
               PROVE  Contract(t)!Next \/ StateOf(t)' = StateOf(t)
    BY DEF KeepsContract
  <2>1. CASE t = s
    BY <2>1 DEF IInv, TypeOK, CreateSession, Run, Untouched, StateOf, Contract!Next,
       Contract!Open
  <2>2. CASE t # s
    BY <2>2 DEF IInv, TypeOK, CreateSession, Run, StateOf
  <2> QED BY <2>1, <2>2
<1> QED BY <1>1, <1>2, <1>3, <1>4, <1>5 DEF IInv
LEMMA SizeStep ==
    ASSUME IInv, NEW s \in Sessions, ImageSizeInitialized(s)
    PROVE  IInv' /\ KeepsContract
<1>1. TypeOK'
  BY DEF IInv, TypeOK, ImageSizeInitialized, Run, EventLoop
<1>2. FinishedOnce'
  BY DEF IInv, TypeOK, ImageSizeInitialized, Run, EventLoop, FinishedOnce, Untouched, Watched, TimerJustified, NoThirdWay
<1>3. \A t \in Sessions : (Untouched(t) /\ Watched(t) /\ TimerJustified(t) /\ NoThirdWay(t))'
  BY DEF IInv, TypeOK, FinishedOnce, ImageSizeInitialized, Run, EventLoop, Untouched, Watched, TimerJustified, NoThirdWay
<1>4. (waiting # Idle => view[waiting.session] = "gone")'
  BY DEF IInv, TypeOK, ImageSizeInitialized, Run, EventLoop
<1>5. KeepsContract
  <2> SUFFICES ASSUME NEW t \in Sessions
               PROVE  Contract(t)!Next \/ StateOf(t)' = StateOf(t)
    BY DEF KeepsContract
  <2>1. CASE t = s
    BY <2>1 DEF IInv, TypeOK, FinishedOnce, ImageSizeInitialized, Run, EventLoop, Untouched, Watched, TimerJustified, NoThirdWay,
       StateOf, Contract!Next, Contract!Restart
  <2>2. CASE t # s
    BY <2>2 DEF IInv, TypeOK, ImageSizeInitialized, Run, EventLoop, StateOf
  <2> QED BY <2>1, <2>2
<1> QED BY <1>1, <1>2, <1>3, <1>4, <1>5 DEF IInv

LEMMA DoneStep ==
    ASSUME IInv, NEW s \in Sessions, Done(s)
    PROVE  IInv' /\ KeepsContract
<1>1. TypeOK'
  BY DEF IInv, TypeOK, Done, EventLoop, Notice, Disconnected, Quiet, EmitFinished
<1>2. FinishedOnce'
  BY DEF IInv, TypeOK, Done, EventLoop, Notice, Disconnected, Quiet, EmitFinished, FinishedOnce, Untouched, Watched, TimerJustified, NoThirdWay
<1>3. \A t \in Sessions : (Untouched(t) /\ Watched(t) /\ TimerJustified(t) /\ NoThirdWay(t))'
  BY DEF IInv, TypeOK, FinishedOnce, Done, EventLoop, Notice, Disconnected, Quiet, EmitFinished, Untouched, Watched, TimerJustified, NoThirdWay
<1>4. (waiting # Idle => view[waiting.session] = "gone")'
  BY DEF IInv, TypeOK, Done, EventLoop, Notice, Disconnected, Quiet, EmitFinished
<1>5. KeepsContract
  <2> SUFFICES ASSUME NEW t \in Sessions
               PROVE  Contract(t)!Next \/ StateOf(t)' = StateOf(t)
    BY DEF KeepsContract
  <2>1. CASE t = s
    BY <2>1 DEF IInv, TypeOK, FinishedOnce, Done, EventLoop, Notice, Disconnected, Quiet, EmitFinished, Untouched, Watched, TimerJustified, NoThirdWay,
       StateOf, Contract!Next, Contract!Exit, Contract!Finish
  <2>2. CASE t # s
    BY <2>2 DEF IInv, TypeOK, Done, EventLoop, Notice, Disconnected, Quiet, EmitFinished, StateOf
  <2> QED BY <2>1, <2>2
<1> QED BY <1>1, <1>2, <1>3, <1>4, <1>5 DEF IInv

LEMMA CloseStep ==
    ASSUME IInv, NEW s \in Sessions, Close(s)
    PROVE  IInv' /\ KeepsContract
<1>1. TypeOK'
  BY SessionsAssumption DEF IInv, TypeOK, Close, TimerFor, EventLoop, Idle, Stages
<1>2. FinishedOnce'
  BY SessionsAssumption DEF IInv, TypeOK, Close, TimerFor, EventLoop, Idle, Stages, FinishedOnce, Untouched, Watched, TimerJustified, NoThirdWay
<1>3. \A t \in Sessions : (Untouched(t) /\ Watched(t) /\ TimerJustified(t) /\ NoThirdWay(t))'
  BY SessionsAssumption DEF IInv, TypeOK, FinishedOnce, Close, TimerFor, EventLoop, Idle, Stages, Untouched, Watched, TimerJustified, NoThirdWay
<1>4. (waiting # Idle => view[waiting.session] = "gone")'
  BY SessionsAssumption DEF IInv, TypeOK, Close, TimerFor, EventLoop, Idle, Stages
<1>5. KeepsContract
  <2> SUFFICES ASSUME NEW t \in Sessions
               PROVE  Contract(t)!Next \/ StateOf(t)' = StateOf(t)
    BY DEF KeepsContract
  <2>1. CASE t = s
    BY SessionsAssumption, <2>1 DEF IInv, TypeOK, FinishedOnce, Close, TimerFor, EventLoop, Idle, Stages, Untouched, Watched, TimerJustified, NoThirdWay,
       StateOf, Contract!Next, Contract!Close
  <2>2. CASE t # s
    BY SessionsAssumption, <2>2 DEF IInv, TypeOK, Close, TimerFor, EventLoop, Idle, Stages, StateOf
  <2> QED BY <2>1, <2>2
<1> QED BY <1>1, <1>2, <1>3, <1>4, <1>5 DEF IInv

LEMMA TimerStep ==
    ASSUME IInv, NEW s \in Sessions, FinishTimer(s)
    PROVE  IInv' /\ KeepsContract
<1>1. TypeOK'
  BY DEF IInv, TypeOK, FinishTimer, EmitFinished, EventLoop
<1>2. FinishedOnce'
  BY DEF IInv, TypeOK, FinishTimer, EmitFinished, EventLoop, FinishedOnce, Untouched, Watched, TimerJustified, NoThirdWay
<1>3. \A t \in Sessions : (Untouched(t) /\ Watched(t) /\ TimerJustified(t) /\ NoThirdWay(t))'
  BY DEF IInv, TypeOK, FinishedOnce, FinishTimer, EmitFinished, EventLoop, Untouched, Watched, TimerJustified, NoThirdWay
<1>4. (waiting # Idle => view[waiting.session] = "gone")'
  BY DEF IInv, TypeOK, FinishTimer, EmitFinished, EventLoop
<1>5. KeepsContract
  <2> SUFFICES ASSUME NEW t \in Sessions
               PROVE  Contract(t)!Next \/ StateOf(t)' = StateOf(t)
    BY DEF KeepsContract
  <2>1. CASE t = s
    BY <2>1 DEF IInv, TypeOK, FinishedOnce, FinishTimer, EmitFinished, EventLoop, Untouched, Watched, TimerJustified, NoThirdWay,
       StateOf, Contract!Next, Contract!Finish
  <2>2. CASE t # s
    BY <2>2 DEF IInv, TypeOK, FinishTimer, EmitFinished, EventLoop, StateOf
  <2> QED BY <2>1, <2>2
<1> QED BY <1>1, <1>2, <1>3, <1>4, <1>5 DEF IInv

LEMMA WaitEndsStep ==
    ASSUME IInv, NEW s \in Sessions, s = waiting.session, WaitEnds
    PROVE  IInv' /\ KeepsContract
<1>1. TypeOK'
  BY SessionsAssumption DEF IInv, TypeOK, WaitEnds, Idle, Notice, Disconnected, Quiet, EmitFinished
<1>2. FinishedOnce'
  BY SessionsAssumption DEF IInv, TypeOK, WaitEnds, Idle, Notice, Disconnected, Quiet, EmitFinished, FinishedOnce, Untouched, Watched, TimerJustified, NoThirdWay
<1>3. \A t \in Sessions : (Untouched(t) /\ Watched(t) /\ TimerJustified(t) /\ NoThirdWay(t))'
  BY SessionsAssumption DEF IInv, TypeOK, FinishedOnce, WaitEnds, Idle, Notice, Disconnected, Quiet, EmitFinished, Untouched, Watched, TimerJustified, NoThirdWay
<1>4. (waiting # Idle => view[waiting.session] = "gone")'
  BY SessionsAssumption DEF IInv, TypeOK, WaitEnds, Idle, Notice, Disconnected, Quiet, EmitFinished
<1>5. KeepsContract
  <2> SUFFICES ASSUME NEW t \in Sessions
               PROVE  Contract(t)!Next \/ StateOf(t)' = StateOf(t)
    BY DEF KeepsContract
  <2>1. CASE t = s
    BY SessionsAssumption, <2>1 DEF IInv, TypeOK, FinishedOnce, WaitEnds, Idle, Notice, Disconnected, Quiet, EmitFinished, Untouched, Watched, TimerJustified, NoThirdWay,
       StateOf, Contract!Next, Contract!Finish
  <2>2. CASE t # s
    BY SessionsAssumption, <2>2 DEF IInv, TypeOK, WaitEnds, Idle, Notice, Disconnected, Quiet, EmitFinished, StateOf
  <2> QED BY <2>1, <2>2
<1> QED BY <1>1, <1>2, <1>3, <1>4, <1>5 DEF IInv

(* The steps of the environment and of the clock change no session's state *)
LEMMA QuietStep ==
    ASSUME IInv, (\E s \in Sessions : ShellExits(s)) \/ WaitTimesOut
    PROVE  IInv' /\ KeepsContract
<1>1. UNCHANGED <<known, view, running, connected, userRequest, finishTimer, finished>>
  BY DEF ShellExits, WaitTimesOut
<1>2. TypeOK' /\ (waiting # Idle => view[waiting.session] = "gone")'
  <2>1. CASE \E s \in Sessions : ShellExits(s)
    BY <2>1 DEF IInv, TypeOK, ShellExits
  <2>2. CASE WaitTimesOut
    BY <2>2, SessionsAssumption DEF IInv, TypeOK, WaitTimesOut, NextStage, Idle, Stages
  <2> QED BY <2>1, <2>2
<1>3. FinishedOnce' /\ \A t \in Sessions :
        (Untouched(t) /\ Watched(t) /\ TimerJustified(t) /\ NoThirdWay(t))'
  BY <1>1 DEF IInv, FinishedOnce, Untouched, Watched, TimerJustified, NoThirdWay
<1>4. KeepsContract
  BY <1>1 DEF KeepsContract, StateOf
<1> QED BY <1>2, <1>3, <1>4 DEF IInv

LEMMA StutterStep ==
    ASSUME IInv, UNCHANGED vars
    PROVE  IInv'
BY DEF IInv, TypeOK, FinishedOnce, Untouched, Watched, TimerJustified, NoThirdWay, vars,
   Idle, Stages

LEMMA NextStep ==
    ASSUME IInv, Next
    PROVE  IInv' /\ KeepsContract
<1>1. CASE \E s \in Sessions : CreateSession(s)
  BY <1>1, CreateStep
<1>2. CASE \E s \in Sessions : ImageSizeInitialized(s)
  BY <1>2, SizeStep
<1>3. CASE \E s \in Sessions : Done(s)
  BY <1>3, DoneStep
<1>4. CASE \E s \in Sessions : Close(s)
  BY <1>4, CloseStep
<1>5. CASE \E s \in Sessions : FinishTimer(s)
  BY <1>5, TimerStep
<1>6. CASE WaitEnds
  <2>1. waiting.session \in Sessions
    BY <1>6 DEF IInv, TypeOK, WaitEnds
  <2> QED BY <1>6, <2>1, WaitEndsStep
<1>7. CASE (\E s \in Sessions : ShellExits(s)) \/ WaitTimesOut
  BY <1>7, QuietStep
<1> QED BY <1>1, <1>2, <1>3, <1>4, <1>5, <1>6, <1>7 DEF Next

-----------------------------------------------------------------------------
LEMMA Invariance == Spec => []IInv
<1>1. IInv /\ [Next]_vars => IInv'
  BY NextStep, StutterStep
<1> QED BY InitHolds, <1>1, PTL DEF Spec

(* finished() is emitted at most once, and the manager knows exactly the   *)
(* sessions that were created and have not emitted it, whatever races      *)
(* between done(), the waits of close() and its timer.                     *)
THEOREM FinishesOnce == Spec => []FinishedOnce
<1>1. IInv => FinishedOnce
  BY DEF IInv
<1> QED BY Invariance, <1>1, PTL

(* Every variable of the sessions keeps its type.                          *)
THEOREM SessionTypes == Spec => []TypeOK
<1>1. IInv => TypeOK
  BY DEF IInv
<1> QED BY Invariance, <1>1, PTL

(* The detailed sessions implement the contract TerminalPane is built on:  *)
(* every step of the program is a step of the contract, or none, for every *)
(* session.                                                                *)
THEOREM ContractKept == Spec => ImplementsContract
<1>1. IInv /\ [Next]_vars => [KeepsContract]_vars
  BY NextStep
<1>2. Spec => [][KeepsContract]_vars
  BY Invariance, <1>1, PTL DEF Spec
<1> QED BY <1>2 DEF ImplementsContract, KeepsContract
=============================================================================
