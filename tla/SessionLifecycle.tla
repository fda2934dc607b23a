--------------------------- MODULE SessionLifecycle ---------------------------
(***************************************************************************)
(* The life of Session objects: the shell each one runs, the done() slot   *)
(* that hears of the shell's exit, the finished() signal that makes the    *)
(* session manager forget the session, and Session::close, which kills the *)
(* shell in up to four stages and blocks the event loop while it waits.    *)
(*                                                                         *)
(* The operating system moves on its own: a shell may exit, cleanly or by  *)
(* a signal, at any time.  The program notices only in the event loop or   *)
(* inside waitForFinished.                                                 *)
(***************************************************************************)
EXTENDS Naturals

CONSTANTS Sessions, Nobody

ASSUME SessionsAssumption == Nobody \notin Sessions

VARIABLES
    known,        \* SessionManager::_sessions
    view,         \* does the session have its view, and was there one
    shell,        \* the process as the system has it
    running,      \* QProcess::state() == Running, as the program believes
    connected,    \* is Pty::finished connected to Session::done
    userRequest,  \* _closePerUserRequest
    sized,        \* Emulation::_imageSizeInitialized
    finishTimer,  \* the 1 ms timer of close() is pending
    finished,     \* how often finished() was emitted
    waiting,      \* the session whose close() blocks the program, and where
    killed        \* the sessions whose shell was sent SIGKILL

vars == <<known, view, shell, running, connected, userRequest, sized, finishTimer,
          finished, waiting, killed>>

Idle == [session |-> Nobody, stage |-> "none"]
Stages == {"none", "eof", "hup", "pty", "kill"}

TypeOK ==
    /\ known \subseteq Sessions
    /\ view \in [Sessions -> {"none", "open", "gone"}]
    /\ shell \in [Sessions -> {"none", "alive", "exited", "crashed"}]
    /\ running \subseteq Sessions
    /\ connected \subseteq Sessions
    /\ userRequest \subseteq Sessions
    /\ sized \subseteq Sessions
    /\ finishTimer \subseteq Sessions
    /\ finished \in [Sessions -> Nat]
    /\ waiting \in [session : Sessions, stage : Stages \ {"none"}] \cup {Idle}
    /\ killed \subseteq Sessions

Init ==
    /\ known = {}
    /\ view = [s \in Sessions |-> "none"]
    /\ shell = [s \in Sessions |-> "none"]
    /\ running = {} /\ connected = Sessions
    /\ userRequest = {} /\ sized = {} /\ finishTimer = {} /\ killed = {}
    /\ finished = [s \in Sessions |-> 0]
    /\ waiting = Idle

EventLoop == waiting = Idle

-----------------------------------------------------------------------------
(* Session::run: the shell starts, or cannot be found or started *)
Run(s) ==
    \/ s \notin running /\ running' = running \cup {s} /\ shell' = [shell EXCEPT ![s] = "alive"]
    \/ UNCHANGED <<running, shell>>

(* SessionManager::createSession, addView, and the first run() *)
CreateSession(s) ==
    /\ EventLoop
    /\ view[s] = "none"
    /\ view' = [view EXCEPT ![s] = "open"]
    /\ known' = known \cup {s}
    /\ Run(s)
    /\ UNCHANGED <<connected, userRequest, sized, finishTimer, finished, waiting, killed>>

(* The screen gets its first size, from the view or from output: run()     *)
(* once more, whatever has happened in between                             *)
ImageSizeInitialized(s) ==
    /\ EventLoop
    /\ s \in known /\ view[s] = "open" /\ s \notin sized
    /\ sized' = sized \cup {s}
    /\ IF s \in running THEN UNCHANGED <<running, shell>> ELSE Run(s)
    /\ UNCHANGED <<known, view, connected, userRequest, finishTimer, finished, waiting, killed>>

-----------------------------------------------------------------------------
(* finished(): the manager forgets the session *)
EmitFinished(s) ==
    /\ finished' = [finished EXCEPT ![s] = @ + 1]
    /\ known' = known \ {s}

DisconnectedNever(s) == connected   \* mutant: done() stays connected
(* done() disconnects itself *)
Disconnected(s) == connected \ {s}

QuietOnlyCrash(s) == shell[s] = "crashed"   \* mutant: _closePerUserRequest ignored
(* A crash that nobody asked for is shown in the tab; finished() waits     *)
(* until the tab is closed.                                                *)
Quiet(s) == shell[s] = "crashed" /\ s \notin userRequest

(* QProcess notices the exit of the shell: Session::done, if connected *)
Notice(s) ==
    /\ s \in running /\ shell[s] # "alive"
    /\ running' = running \ {s}
    /\ connected' = Disconnected(s)
    /\ IF s \in connected /\ ~Quiet(s)
       THEN EmitFinished(s)
       ELSE UNCHANGED <<known, finished>>
    /\ UNCHANGED <<view, shell, userRequest, sized, finishTimer, killed>>

Done(s) == EventLoop /\ Notice(s) /\ UNCHANGED waiting

(* The shell exits *)
ShellExits(s) ==
    /\ shell[s] = "alive"
    /\ \E how \in {"exited", "crashed"} : shell' = [shell EXCEPT ![s] = how]
    /\ UNCHANGED <<known, view, running, connected, userRequest, sized, finishTimer,
                   finished, waiting, killed>>

-----------------------------------------------------------------------------
(* Session::close *)

TimerAlways(s) == finishTimer \cup {s}   \* mutant: without asking isRunning
TimerFor(s) == IF s \in running THEN finishTimer ELSE finishTimer \cup {s}

(* The last view goes: removeView, close.  A shell that may have a program *)
(* in the foreground is not sent an end of file.                           *)
Close(s) ==
    /\ EventLoop
    /\ view[s] = "open"
    /\ view' = [view EXCEPT ![s] = "gone"]
    /\ IF s \notin known
       THEN UNCHANGED <<finishTimer, userRequest, waiting>>    \* deleted before
       ELSE /\ finishTimer' = TimerFor(s)
            /\ IF s \in running
               THEN /\ userRequest' = userRequest \cup {s}
                    /\ \E first \in {"eof", "hup"} : waiting' = [session |-> s, stage |-> first]
               ELSE UNCHANGED <<userRequest, waiting>>
    /\ UNCHANGED <<known, shell, running, connected, sized, finished, killed>>

(* waitForFinished returns true *)
WaitEnds ==
    /\ waiting # Idle
    /\ Notice(waiting.session)
    /\ waiting' = Idle

NextStageNoKill(stage) ==   \* mutant: closeInForceWay is not called
    CASE stage = "eof" -> "hup" [] stage = "hup" -> "pty" [] OTHER -> "none"
NextStageAgain(stage) ==   \* mutant: the hangup is sent again and again
    CASE stage = "eof" -> "hup" [] stage = "hup" -> "hup" [] OTHER -> "kill"
(* ... or its 1000 ms pass: SIGHUP, the pty is closed, SIGKILL *)
NextStage(stage) ==
    CASE stage = "eof" -> "hup" [] stage = "hup" -> "pty" [] OTHER -> "kill"

WaitTimesOut ==
    /\ waiting # Idle
    /\ shell[waiting.session] = "alive"
    /\ IF waiting.stage = "kill"
       THEN waiting' = Idle
       ELSE waiting' = [waiting EXCEPT !.stage = NextStage(@)]
    /\ killed' = IF waiting'.stage = "kill" THEN killed \cup {waiting.session} ELSE killed
    /\ UNCHANGED <<known, view, shell, running, connected, userRequest, sized,
                   finishTimer, finished>>

(* The 1 ms timer *)
FinishTimer(s) ==
    /\ EventLoop
    /\ s \in finishTimer
    /\ finishTimer' = finishTimer \ {s}
    /\ EmitFinished(s)
    /\ UNCHANGED <<view, shell, running, connected, userRequest, sized, waiting, killed>>

-----------------------------------------------------------------------------
Next ==
    \/ \E s \in Sessions :
         \/ CreateSession(s) \/ ImageSizeInitialized(s) \/ Done(s)
         \/ ShellExits(s) \/ Close(s) \/ FinishTimer(s)
    \/ WaitEnds \/ WaitTimesOut

Spec == Init /\ [][Next]_vars

(* Timers fire, waits end, exits are noticed, and SIGKILL kills in the end *)
Fairness ==
    /\ WF_vars(WaitEnds) /\ WF_vars(WaitTimesOut)
    /\ \A s \in Sessions :
         /\ WF_vars(FinishTimer(s)) /\ WF_vars(Done(s))
         /\ WF_vars(s \in killed /\ ShellExits(s))

FairSpec == Spec /\ Fairness

-----------------------------------------------------------------------------
(* The state of session s as the contract names it *)
StateOf(s) ==
    IF view[s] = "none" THEN "none"
    ELSE IF finished[s] > 0 THEN "ended"
    ELSE IF s \in finishTimer THEN "finishing"
    ELSE IF view[s] = "gone" THEN (IF s \in connected THEN "closing" ELSE "leaked")
    ELSE IF s \in running THEN (IF s \in connected THEN "running" ELSE "revived")
    ELSE (IF s \in connected THEN "failed" ELSE "dead")

Contract(s) == INSTANCE SessionContract WITH state <- StateOf(s)

(* Every session keeps to its contract, step by step, however the closing  *)
(* of another one holds up the event loop.                                 *)
ImplementsContract ==
    [][\A s \in Sessions : Contract(s)!Next \/ StateOf(s)' = StateOf(s)]_vars

(* A session that is being closed ends: of the exit of its process, the    *)
(* timer and the four stages of killing, one gets finished() emitted.      *)
ClosedSessionsEnd == \A s \in Sessions : Contract(s)!Ends

(* finished() is emitted once: twice would start two close timers for one  *)
(* tab and delete the session twice.  The manager knows exactly the        *)
(* sessions that were created and have not emitted it.                     *)
FinishedOnce ==
    \A s \in Sessions :
        /\ finished[s] <= 1
        /\ s \in known <=> view[s] # "none" /\ finished[s] = 0

(* Closing one session holds the program up for a bounded time only *)
CloseReturns == waiting # Idle ~> waiting = Idle

(* Session.h on closeInNormalWay: "This sends a hangup signal (SIGHUP) to  *)
(* the terminal process and causes the finished() signal to be emitted".   *)
(* A session whose shell died before the screen had a size, and was then   *)
(* started again, has no done() to emit it.                                *)
CloseEmitsFinished ==
    \A s \in Sessions :
        (view[s] = "gone" /\ s \in userRequest) ~> finished[s] > 0
=============================================================================
