---------------------------- MODULE MCJackServer -----------------------------
(* The parts of jackd's engine, for TLC: the transport, the chain of FIFOs      *)
(* that wakes the clients, the threads that run the cycle, and the session     *)
(* manager's calls. They do not share state in the models, so one behaviour    *)
(* runs one of them, the one "part" names, and leaves the others where they    *)
(* began.                                                                      *)
EXTENDS JackTransport, JackCycle, JackEngine, JackSession

CONSTANTS
    Parts,              \* the parts that are run: "transport", "cycle", "engine", "session"
    p, q, e1, e2, in

VARIABLE part

vars == <<part, transportVars, cycleVars, engineVars, sessionVars>>

Init ==
    /\ part \in Parts
    /\ TransportInit /\ CycleInit /\ EngineInit /\ SessionInit
    /\ part = "cycle" \/ clients = SetToSeq(Processors)

TransportRuns(A) == part = "transport" /\ A /\ UNCHANGED <<part, cycleVars, engineVars, sessionVars>>
CycleRuns(A) == part = "cycle" /\ A /\ UNCHANGED <<part, transportVars, engineVars, sessionVars>>
EngineRuns(A) == part = "engine" /\ A /\ UNCHANGED <<part, transportVars, cycleVars, sessionVars>>
SessionRuns(A) == part = "session" /\ A /\ UNCHANGED <<part, transportVars, cycleVars, engineVars>>

Next ==
    \/ TransportRuns(TransportNext)
    \/ CycleRuns(CycleNext)
    \/ EngineRuns(EngineNext)
    \/ SessionRuns(SessionNext)

Spec == Init /\ [][Next]_vars

\* The fairness of each part, as its own module states it.
Fairness ==
    /\ WF_vars(TransportRuns(Cycle))
    /\ WF_vars(TransportRuns(RemovesFailed))
    /\ WF_vars(CycleRuns(ServerThread))
    /\ WF_vars(CycleRuns(DriverThread))
    /\ \A c \in External : WF_vars(CycleRuns(Worker(c)))
    /\ \A c \in External : WF_vars(CycleRuns(SeesBrokenSocket(c)))
    /\ WF_vars(EngineRuns(~undefined /\ main # "deleted" /\ Driver))
    /\ WF_vars(EngineRuns(~undefined /\ main # "deleted" /\ Freewheel))
    /\ WF_vars(EngineRuns(~undefined /\ main # "deleted" /\ Server))
    /\ WF_vars(EngineRuns(~undefined /\ main # "deleted" /\ Main))
    /\ \A s \in Savers : WF_vars(SessionRuns(SessionReplies(s)))
    /\ \A m \in Managers : WF_vars(SessionRuns(Returns(m)))

FairSpec == Spec /\ Fairness

\* The server goes on: Starting ends, failed clients are removed and cycles start
\* again, requests that stop threads return, and who notifies a session is answered.
ServerGoesOn == StartingEnds /\ ProblemsAreCleared /\ RequestsReturn /\ NotifierIsAnswered
==============================================================================
