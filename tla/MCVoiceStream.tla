---------------------------- MODULE MCVoiceStream ----------------------------
(***************************************************************************)
(* VoiceStream for TLC.  A budget says how many calls there are at most,   *)
(* how many packets the encoder makes of them in all, and which managers   *)
(* find a connection.                                                      *)
(***************************************************************************)
EXTENDS VoiceStream

CONSTANT Budgets

VARIABLES budget, packets

mcVars == <<vars, budget, packets>>

Others == Manager \ {TCP_TO_SERVER_INDEX}

MCBudgets == {[calls |-> 1, packets |-> 3, managers |-> Others],
              [calls |-> 2, packets |-> 2, managers |-> Others],
              [calls |-> 1, packets |-> 2, managers |-> {TCP_TO_SERVER_INDEX}],
              [calls |-> 2, packets |-> 1, managers |-> {TCP_TO_SERVER_INDEX}],
              [calls |-> 1, packets |-> 1, managers |-> Manager]}

MCInit == Init /\ budget \in Budgets /\ packets = 0

\* Nothing is of interest once a process has ended.
MCNext ==
  /\ crashed = {} /\ Next
  /\ myAESVoiceCrypto' <= budget.calls
  /\ packets' = packets + IF encoder.step = "encrypt" /\ encoder'.step = "put" THEN 1 ELSE 0
  /\ packets' <= budget.packets
  /\ \A m \in Manager : connected'[m] # "no" => m \in budget.managers
  /\ UNCHANGED budget

MCSpec == MCInit /\ [][MCNext]_mcVars
=============================================================================
