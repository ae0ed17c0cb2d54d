------------------------------ MODULE PacketRelay ------------------------------
(***************************************************************************)
(* What the relay promises, without Buffers and without threads' steps:    *)
(* the packets of a party wait in a line of bounded length, each number    *)
(* enters the line at most once, and whoever takes a packet sends what was *)
(* put.  Lines are emptied when a call begins or ends, and a line that is  *)
(* too long loses its first packet.                                        *)
(***************************************************************************)
EXTENDS Naturals, Sequences

CONSTANTS Session,      \* the parties
          Manager,      \* who puts, takes and sends
          SeqNumber,    \* the numbers of packets
          LIST_SIZE,    \* the length of a line
          None          \* no packet

VARIABLES waiting,      \* the line of each party
          offered,      \* the numbers that have entered it
          inHand        \* the packet each manager has taken and not yet sent

vars == <<waiting, offered, inHand>>

Init ==
  /\ waiting = [s \in Session |-> << >>]
  /\ offered = [s \in Session |-> {}]
  /\ inHand = [m \in Manager |-> None]

Put(s, n) ==
  /\ n \notin offered[s]
  /\ offered' = [offered EXCEPT ![s] = @ \cup {n}]
  /\ LET line == Append(waiting[s], n) IN
       waiting' = [waiting EXCEPT ![s] = IF Len(line) > LIST_SIZE THEN Tail(line) ELSE line]
  /\ UNCHANGED inHand

Take(m, s) ==
  /\ inHand[m] = None /\ waiting[s] # << >>
  /\ inHand' = [inHand EXCEPT ![m] = Head(waiting[s])]
  /\ waiting' = [waiting EXCEPT ![s] = Tail(@)]
  /\ UNCHANGED offered

\* The packet is sent, or thrown away.
Finish(m) ==
  /\ inHand' = [inHand EXCEPT ![m] = None]
  /\ UNCHANGED <<waiting, offered>>

Empty(s) ==
  /\ waiting' = [waiting EXCEPT ![s] = << >>]
  /\ offered' = [offered EXCEPT ![s] = {}]
  /\ UNCHANGED inHand

Next ==
  \/ \E s \in Session, n \in SeqNumber : Put(s, n)
  \/ \E m \in Manager, s \in Session : Take(m, s)
  \/ \E m \in Manager : Finish(m)
  \/ \E s \in Session : Empty(s)

Spec == Init /\ [][Next]_vars
=============================================================================
