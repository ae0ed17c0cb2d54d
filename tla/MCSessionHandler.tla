-------------------------- MODULE MCSessionHandler --------------------------
(***************************************************************************)
(* SessionHandler for TLC.  The number of channels bounds the connections, *)
(* MaxReads the buffers read, MaxMessages the messages registered and      *)
(* MaxCloses the closings begun by the monitor, or by a handler for BYE.   *)
(***************************************************************************)
EXTENDS SessionHandler, TLC

CONSTANTS MaxReads, MaxMessages, MaxCloses

VARIABLES reads, calls, closes

MCInit == Init /\ reads = 0 /\ calls = 0 /\ closes = 0

MCNext ==
  \/ /\ (\E c \in Channel : Accept(c)) \/ Reads
     /\ UNCHANGED <<reads, calls, closes>>
  \/ /\ reads < MaxReads
     /\ \E c \in Channel : ReadChannel(c)
     /\ reads' = reads + 1 /\ UNCHANGED <<calls, closes>>
  \/ /\ calls < MaxMessages
     /\ \E h \in Handler : Answer(h)
     /\ calls' = calls + 1 /\ UNCHANGED <<reads, closes>>
  \/ /\ \E r \in Registrar : closeSession(r)
     /\ calls' = calls + (IF \E r \in Registrar : at[r] = "OnClose" /\ at'[r] = "offer"
                            THEN 1 ELSE 0)
     /\ calls' <= MaxMessages
     /\ UNCHANGED <<reads, closes>>
  \/ /\ closes < MaxCloses
     /\ (\E s \in Session : DeleteInvalid(s)) \/ (\E h \in Handler : Bye(h))
     /\ closes' = closes + 1 /\ UNCHANGED <<reads, calls>>
  \/ /\ \/ \E s \in Session : QueueInvalid(s)
        \/ \E r \in Registrar : Registers(r)
        \/ \E h \in Handler : Takes(h)
     /\ UNCHANGED <<reads, calls, closes>>

mcVars == <<vars, reads, calls, closes>>

MCSpec == MCInit /\ [][MCNext]_mcVars

(***************************************************************************)
(* Fairness: every thread goes on with the method it is in, and a handler  *)
(* with entries in its queue polls them: it never waits longer than a      *)
(* second.  Nothing says that a client sends or leaves.                    *)
(***************************************************************************)
Goes(A) == A /\ UNCHANGED <<reads, calls, closes>>

MCFairSpec ==
  /\ MCSpec
  /\ \A h \in Handler : WF_mcVars(Goes(Takes(h)))
  /\ \A r \in Registrar : WF_mcVars(Goes(Registers(r)))
  /\ \A r \in Registrar : WF_mcVars(Goes(closeSession(r)))
  /\ WF_mcVars(Goes(Reads))

Symmetric == Permutations(Session) \cup Permutations(Handler) \cup Permutations(Channel)

\* Every message is taken to be written and every buffer to be read, unless a
\* handler has died: notify and the polling of the queue lose no session.
WorkServed ==
  \A s \in Session :
    /\ outputMessageQueue[s] # << >> ~>
         (outputMessageQueue[s] = << >> \/ \E h \in Handler : at[h] = "dead")
    /\ inputBufferQueue[s] # << >> ~>
         (inputBufferQueue[s] = << >> \/ \E h \in Handler : at[h] = "dead")
=============================================================================
