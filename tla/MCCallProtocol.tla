--------------------------- MODULE MCCallProtocol ---------------------------
(* Instances of CallProtocol for TLC. *)
EXTENDS CallProtocol, TLC

(* What may happen, <<acts, losses>>, from rest and from a call of two clients. *)
CONSTANTS RestBudgets, CallBudgets

MCRestBudgets == {<<3, 0>>, <<0, 1>>}
MCCallBudgets == {<<2, 0>>, <<1, 1>>}

Left(budgets) ==
  \E b \in budgets : acts = MaxActs - b[1] /\ losses = MaxLosses - b[2]

(* Two clients talk, the first having called the second.                       *)
StartInCall ==
  \E c, d \in Client :
    /\ c # d
    /\ state = [x \in Client |-> IF x \in {c, d} THEN "CALLING" ELSE "STARTED"]
    /\ resumed = [x \in Client |-> TRUE]
    /\ thread = [x \in Client |-> "connected"]
    /\ received = [x \in Client |-> None]
    /\ connections = [x \in Client |-> 0]
    /\ keys = [x \in Client |-> "AES"]
    /\ outputMessageQueue = [x \in Client |-> <<>>]
    /\ handler = [x \in Client |-> <<>>]
    /\ screen = [x \in Client |-> IF x \in {c, d} THEN "call" ELSE "list"]
    /\ at = [x \in Client |-> "idle"]
    /\ otherRSACrypto = [x \in Client |-> CASE x = c -> <<d, 0>> [] x = d -> <<c, 0>>
                                            [] OTHER -> None]
    /\ otherAESCrypto = [x \in Client |-> CASE x = c -> <<d, 1>> [] x = d -> <<c, 1>>
                                            [] OTHER -> None]
    /\ myAESVoiceCrypto = [x \in Client |-> IF x \in {c, d} THEN <<x, 1>> ELSE None]
    /\ voiceKeys = [x \in Client |-> IF x \in {c, d} THEN 1 ELSE 0]
    /\ sState = [s \in Session |-> IF s[2] # 0 THEN "ENDED"
                                   ELSE IF s[1] \in {c, d} THEN "CALLING" ELSE "STARTED"]
    /\ callingSession = [s \in Session |-> CASE s = <<c, 0>> -> <<d, 0>>
                                             [] s = <<d, 0>> -> <<c, 0>>
                                             [] OTHER -> None]
    /\ sessionList = {s \in Session : s[2] = 0}
    /\ sessionMapByPhoneNumber = [x \in Client |-> <<x, 0>>]
    /\ up = [s \in Session |-> <<>>]
    /\ down = [s \in Session |-> <<>>]
    /\ call = [x \in Client |-> IF x \in {c, d} THEN 1 ELSE 0]
    /\ sCall = [s \in Session |-> IF s \in {<<c, 0>>, <<d, 0>>} THEN 1 ELSE 0]
    /\ overtaken = FALSE
    /\ renumbered = {}

MCInit == (Start /\ Left(RestBudgets)) \/ (StartInCall /\ Left(CallBudgets))

MCFairSpec == MCInit /\ [][Next]_vars /\ Fairness
=============================================================================
