---------------------------- MODULE MCCallServer ----------------------------
(***************************************************************************)
(* CallServer for TLC: sessions s1 and s2, in this order in the pool.      *)
(* MaxStarts bounds how many operations, connections and closings begin;   *)
(* every one that begins runs to its end, in every interleaving.  Stages   *)
(* is where a run may begin: with the server just started ("fresh"), with  *)
(* both sessions "loggedIn", "ringing", or "talking", which counts for     *)
(* SetUp of them.                                                          *)
(***************************************************************************)
EXTENDS CallServer, TLC

CONSTANTS s1, s2, h1, h2, t1, u1, MaxStarts, Stages

VARIABLE starts

SetUp == 2

MCSession == {s1, s2}
MCPoolOrder == <<s1, s2>>
MCUdpGroups == {<<u1>>}
MCNoUdpGroups == {<< >>}
MCHandler == {h1, h2}

\* The states reached when h1 runs s1, h2 runs s2, and s1 calls s2.
At1(stage) ==
  /\ state = [s \in Session |-> IF stage = "loggedIn" THEN "STARTED" ELSE "CALLING"]
  /\ callingSession = [s \in Session |-> IF stage = "loggedIn" THEN None
                                         ELSE IF s = s1 THEN s2 ELSE s1]
  /\ voiceTcpManagerQueue = [s \in Session |-> << >>]
  /\ voiceUdpManagerQueue = [s \in Session |-> IF stage = "talking" THEN <<u1>> ELSE << >>]
  /\ activeSessionMap = [m \in Manager |-> IF stage = "talking" /\ m = u1 THEN Session ELSE {}]
  /\ sessionQueue = << >>
  /\ semaphores = [s \in Session |-> 1]
  /\ sessionList = [s \in Session |-> 1]
  /\ invalidSessionQueue = << >>
  /\ handlersOf = [s \in Session |-> IF s = s1 THEN {h1} ELSE {h2}]
  /\ phase = "scan"
  /\ todo = [t \in Thread |-> << >>]

MCInit == \E stage \in Stages :
            IF stage = "fresh" THEN Init /\ starts = 0 ELSE At1(stage) /\ starts = SetUp

Begins(A) == starts < MaxStarts /\ A /\ starts' = starts + 1

MCNext ==
  \/ Begins(Accept)
  \/ Begins(\E h \in Handler, s \in Session : Operation(h, s))
  \/ Begins(\E s \in Session : ScanSession(s) \/ DeleteErroneous(s))
  \/ (\E t \in Thread : Step(t)) /\ UNCHANGED starts
  \/ (EndScan \/ DeleteInvalid \/ EndErrors) /\ UNCHANGED starts

MCSpec == MCInit /\ [][MCNext]_<<vars, starts>>

(***************************************************************************)
(* Fairness: every thread that can execute an instruction eventually does, *)
(* and the monitor, which only sleeps for a second a round, goes on        *)
(* looping.  Nothing says that a client ever sends anything.               *)
(***************************************************************************)
MCFairSpec ==
  /\ MCSpec
  /\ \A t \in Thread : WF_<<vars, starts>>(Step(t) /\ UNCHANGED starts)
  /\ WF_<<vars, starts>>((EndScan \/ DeleteInvalid \/ EndErrors) /\ UNCHANGED starts)

InQueue(s) == \E i \in DOMAIN invalidSessionQueue : invalidSessionQueue[i] = s

\* The comment of the monitor's loop, "delete invalid sessions": a session that
\* has been queued as invalid is taken from the queue and closed.
InvalidSessionsDeleted == \A s \in Session : InQueue(s) ~> ~InQueue(s)
=============================================================================
