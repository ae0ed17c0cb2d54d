----------------------------- MODULE MCRegistry -----------------------------
(***************************************************************************)
(* Registry for TLC.  MaxAccepts bounds how often clients connect, MaxActs *)
(* what they ask for and the closings that begin, together.                *)
(***************************************************************************)
EXTENDS Registry, TLC

CONSTANTS MaxAccepts, MaxActs

VARIABLES accepts, acts

mcVars == <<vars, accepts, acts>>

MCInit == Init /\ accepts = 0 /\ acts = 0

MCNext ==
  \/ /\ accepts < MaxAccepts /\ accepts' = accepts + 1
     /\ \E c \in Client, s \in Session : Accept(c, s)
     /\ UNCHANGED acts
  \/ /\ acts < MaxActs /\ acts' = acts + 1
     /\ \/ \E s \in Session : Request(s)
        \/ \E t \in Thread, s \in Session : CloseSession(t, s)
     /\ UNCHANGED accepts
  \/ /\ \/ \E s \in Session : Step(s)
        \/ \E t \in Thread : Compare(t) \/ Remove(t)
     /\ UNCHANGED <<accepts, acts>>

MCSpec == MCInit /\ [][MCNext]_mcVars

Symmetric == Permutations(Session) \cup Permutations(Client) \cup Permutations(Key)
               \cup Permutations(Number)
=============================================================================
