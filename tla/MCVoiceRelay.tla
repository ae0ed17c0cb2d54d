----------------------------- MODULE MCVoiceRelay -----------------------------
(***************************************************************************)
(* VoiceRelay for TLC: two parties, two managers, at most one connection.  *)
(* A number in a Buffer that is in no list and in no manager's hand is     *)
(* written before it is read, so the view leaves it out.                   *)
(***************************************************************************)
EXTENDS VoiceRelay, TLC

CONSTANTS alice, bob, tcp, udp, udp2, c1, b1, b2, b3, b4

MCSession == {alice, bob}
MCThree == {b1, b2, b3}
MCFour == {b1, b2, b3, b4}
MCManagerOf == [c \in {c1} |-> tcp]
MCNoManagerOf == [c \in {} |-> tcp]

MCSymmetry == Permutations(Buffer) \cup Permutations(Session)
                \cup Permutations(UdpManager)

Listed == UNION {BuffersIn(voiceBufferQueue[s]) : s \in Session}
            \cup {buffer[m] : m \in Manager} \cup {getBuffer[m] : m \in Manager}
MCView == <<poolVars, [x \in Listed \ {None} |-> number[x]], voiceBufferQueue, offeredHashMap,
            polled, callVars, tcpVars, localVars, lost>>

\* Both parties are registered everywhere, and nothing has been received.
Quiet ==
  /\ number \in [Buffer -> SeqNumber]
  /\ voiceBufferQueue = [s \in Session |-> << >>]
  /\ offeredHashMap = [s \in Session |-> {}]
  /\ polled = [s \in Session |-> {}]
  /\ activeSessionMap = [m \in Manager |-> Session]
  /\ ownBufferQueue = [c \in Connection |-> << >>]
  /\ errorCountMap = [c \in Connection |-> 0]
  /\ buffer = [m \in Manager |-> None]
  /\ getBuffer = [m \in Manager |-> None]
  /\ session = [m \in Manager |-> None]
  /\ channel = [m \in Manager |-> None]
  /\ count1 = [m \in Manager |-> 0]
  /\ found = [m \in Manager |-> 0]
  /\ peer = [m \in Manager |-> None]
  /\ lost = {}

\* The run lists: the handlers do what they may, but no more than one registration
\* is missing, or one manager dead, at a time.
RegisteredInit ==
  /\ Quiet
  /\ PoolInit
  /\ callingSession = [s \in Session |-> None]
  /\ at = [m \in Manager |-> "idle"]

Missing == {ms \in Manager \X Session : ms[2] \notin activeSessionMap[ms[1]]}

DeadManager == {m \in Manager : at[m] \in Dead}

RegisteredNext == Next /\ Cardinality(Missing') + Cardinality(DeadManager') <= 1

RegisteredSpec == RegisteredInit /\ [][RegisteredNext]_vars

\* The run returns: each party calls the other.  Meanwhile the handlers reset the
\* lists, or a party hangs up.  Either the signalling side has two Buffers, and two
\* are left to a TCP and a UDP manager; or the UDP manager has found the pool empty
\* before and died.
TalkingInit ==
  /\ Quiet
  /\ callingSession = [s \in Session |-> IF s = alice THEN bob ELSE alice]
  /\ \/ /\ at = [m \in Manager |-> "idle"]
        /\ bufferQueue = [b \in Buffer |-> IF b \in {b3, b4} THEN 0 ELSE 1]
     \/ /\ at = [m \in Manager |-> IF m = udp THEN "exhausted" ELSE "idle"]
        /\ bufferQueue = [b \in Buffer |-> 1]
  /\ semaphores = [b \in Buffer |-> 1 - bufferQueue[b]]

\* The free Buffers are alike: it is enough to look at the runs that take the first
\* one.  Unlike symmetry, this is sound for liveness.
FirstFree ==
  LET order == <<b1, b2, b3, b4>> IN
    \A i, j \in DOMAIN order :
      i < j /\ {order[i], order[j]} \subseteq Buffer
            /\ bufferQueue'[order[j]] < bufferQueue[order[j]]
        => bufferQueue[order[i]] = 0

TalkingStep(m) == Step(m) /\ FirstFree

TalkingNext ==
  \/ \E s \in Session : reset(s) \/ SetCallingSession(s, None)
  \/ \E m \in Manager : TalkingStep(m)

\* A manager is a thread of its own, and the Java scheduler gives it time.
TalkingSpec == TalkingInit /\ [][TalkingNext]_vars /\ \A m \in Manager : WF_vars(TalkingStep(m))
=============================================================================
