------------------------ MODULE CallProtocolInvariant ------------------------
(***************************************************************************)
(* What the proofs of CallProtocol are about: the types of its variables   *)
(* with what every message carries, how often a client connects, and what  *)
(* is on its way while client and server do not agree yet.  The latter is  *)
(* said of records: a "view" v is what one client has to do with its       *)
(* session, a "world" W is all clients and sessions, with one queue up and *)
(* one down for each session; X and w are those after a step.              *)
(***************************************************************************)
EXTENDS CallProtocol

\* A message carries what its operation reads from it.
Sent ==
  {m \in Message :
     /\ m.op \in {"CALL_TO2", "CALLED_FROM", "CALL_ACCEPT"} => m.secret \in Secret
     /\ m.op \in {"CALL_RESPONSE", "CALLED_FROM"} => m.arg \in Session
     /\ m.op = "CALL_TO" => m.arg \in Client \cup {None}}

State == {"INITED", "STARTED", "WAITCALL", "CALLING", "RECEIVEDCALL", "ENDED"}
Thread == {"connected", "leaving", "closed", "ending", "stopped"}
SState == {"INITED", "STARTED", "CALLING", "ENDED"}
StateTypes ==
  state \in [Client -> State] /\ call \in [Client -> Nat]

UiTypes ==
  /\ resumed \in [Client -> BOOLEAN]
  /\ handler \in [Client -> Seq({"MSG_CALLEDFROM", "MSG_CALLRESPONSE", "MSG_CALLOFFED"})]
  /\ screen \in [Client -> {"list", "incoming", "call"}]
  /\ at \in [Client -> {"idle", "callTo", "callAccept", "onPause"}]

NetTypes ==
  /\ thread \in [Client -> Thread]
  /\ received \in [Client -> Sent \cup {None}]
  /\ keys \in [Client -> {"none", "RSA", "AES"}]
  /\ connections \in [Client -> 0..MaxConnections]

CryptoTypes ==
  /\ otherRSACrypto \in [Client -> Session \cup {None}]
  /\ otherAESCrypto \in [Client -> Key \cup {None}]
  /\ myAESVoiceCrypto \in [Client -> Key \cup {None}]
  /\ voiceKeys \in [Client -> Nat]

OutputTypes == outputMessageQueue \in [Client -> Seq(Sent)]
PartyTypes ==
  /\ sState \in [Session -> SState]
  /\ callingSession \in [Session -> Session \cup {None}]
  /\ sCall \in [Session -> Nat]

NumberTypes ==
  /\ sessionList \subseteq Session
  /\ sessionMapByPhoneNumber \in [Client -> sessionList \cup {None}]
  /\ renumbered \subseteq Client

UpTypes == up \in [Session -> Seq(Sent)]
DownTypes == down \in [Session -> Seq(Sent)]
HistoryTypes == overtaken \in BOOLEAN
CounterTypes == acts \in 0..MaxActs /\ losses \in 0..MaxLosses
TypeInv ==
  /\ StateTypes /\ UiTypes /\ NetTypes /\ CryptoTypes /\ OutputTypes
  /\ PartyTypes /\ NumberTypes /\ UpTypes /\ DownTypes /\ HistoryTypes /\ CounterTypes

-----------------------------------------------------------------------------
(***************************************************************************)
(* How often a client connects.                                            *)
(***************************************************************************)
\* The connection is going to end without a further loss: the network thread is
\* leaving it, or will when it finds that the application has been left or that the
\* server has closed the session, as it does when it has read a BYE.
ByeIn(q) == \E i \in DOMAIN q : q[i].op = "BYE"

Ends(c) ==
  \/ state[c] = "ENDED" \/ Now(c) \notin sessionList
  \/ ByeIn(outputMessageQueue[c]) \/ ByeIn(up[Now(c)])

Returns(c) == thread[c] \in {"closed", "leaving"} \/ (thread[c] = "connected" /\ Ends(c))
\* Then it connects again, and once more if doStop is still to come.
Again(c) == (IF Returns(c) THEN 1 ELSE 0) + (IF at[c] = "onPause" THEN 1 ELSE 0)

Limits ==
  \A c \in Client :
    /\ connections[c] + Again(c) <= MaxConnections
    /\ \A k \in 0..MaxConnections : k > connections[c] => up[<<c, k>>] = << >>

-----------------------------------------------------------------------------
(***************************************************************************)
(* What a client's threads do: first what read does with message m.        *)
(***************************************************************************)
ReadTypes ==
  /\ state' \in [Client -> State] /\ call' \in [Client -> Nat]
  /\ received' \in [Client -> Sent \cup {None}]
  /\ keys' \in [Client -> {"none", "RSA", "AES"}]
  /\ handler' \in [Client -> Seq({"MSG_CALLEDFROM", "MSG_CALLRESPONSE", "MSG_CALLOFFED"})]
  /\ otherRSACrypto' \in [Client -> Session \cup {None}]
  /\ otherAESCrypto' \in [Client -> Key \cup {None}]
  /\ OutputTypes' /\ HistoryTypes'

-----------------------------------------------------------------------------
(***************************************************************************)
(* What the server does: first the operation m of session s.               *)
(***************************************************************************)
ServerTypes == PartyTypes /\ NumberTypes /\ DownTypes /\ HistoryTypes

-----------------------------------------------------------------------------
(***************************************************************************)
(* How often a client connects: first what an action leaves as it was.     *)
(***************************************************************************)
InLimits(c) ==
  /\ connections[c] + Again(c) <= MaxConnections
  /\ \A k \in 0..MaxConnections : k > connections[c] => up[<<c, k>>] = << >>

\* The queues of connections that have not been made stay empty.
NoneSentAhead(c) ==
  \A k \in 0..MaxConnections : k > connections[c] /\ up[<<c, k>>] = << >> => up'[<<c, k>>] = << >>

\* The variables of InLimits, as far as they are about client d.
Untouched(d) ==
  /\ thread'[d] = thread[d] /\ state'[d] = state[d] /\ at'[d] = at[d]
  /\ connections'[d] = connections[d] /\ outputMessageQueue'[d] = outputMessageQueue[d]
  /\ \A k \in 0..MaxConnections : up'[<<d, k>>] = up[<<d, k>>]
  /\ \A k \in 0..MaxConnections : <<d, k>> \in sessionList => <<d, k>> \in sessionList'

\* The client talks, or is talked to, on the connection that it has.
Quiet(c) ==
  /\ thread'[c] = thread[c] /\ connections'[c] = connections[c]
  /\ state'[c] = "ENDED" => state[c] = "ENDED"
  /\ at'[c] = "onPause" => at[c] = "onPause"
  /\ ByeIn(outputMessageQueue'[c]) => ByeIn(outputMessageQueue[c])
  /\ up' = up /\ sessionList' = sessionList

-----------------------------------------------------------------------------
(***************************************************************************)
(* The limits when the server acts: it closes a session after a BYE, after *)
(* its client has gone, or as a loss.                                      *)
(***************************************************************************)
\* Closing the session s: for the other clients, and for its own.
Closes(s) == sessionList' = sessionList \/ sessionList' = sessionList \ {s}

-----------------------------------------------------------------------------
(***************************************************************************)
(* Together.                                                               *)
(***************************************************************************)
ProtocolInv == TypeInv /\ Limits

-----------------------------------------------------------------------------
(***************************************************************************)
(* Queues of messages: which kinds are in them, how often, and in which    *)
(* order.                                                                  *)
(***************************************************************************)
Has(q, M) == \E i \in 1..Len(q) : q[i] \in M
Once(q, M) == \A i, j \in 1..Len(q) : q[i] \in M /\ q[j] \in M => i = j
Then(q, M, N) ==
  \A i \in 1..Len(q) : q[i] \in M => \E j \in 1..Len(q) : i < j /\ q[j] \in N

\* Nothing has come to q that was not in p, and nothing twice.
Within(q, p) == \A M : (Has(q, M) => Has(p, M)) /\ (Once(p, M) => Once(q, M))

(***************************************************************************)
(* Kinds of messages.                                                      *)
(***************************************************************************)
Of(ops, k) == {m \in Sent : m.op \in ops /\ m.call = k}
All(ops) == {m \in Sent : m.op \in ops}
\* What asks for the call k, from the CALL_TO to the CALL_TO2 or the refusal.
TokenOps == {"CALL_TO", "CALL_TO2", "CALL_RESPONSE"} \cup Errors

Token(k) == Of(TokenOps, k)
Answered(k) == Of({"CALL_RESPONSE"}, k)
Asked(k) == Of({"CALL_TO2"}, k)
From(k) == Of({"CALLED_FROM"}, k)
Accepted(k) == Of({"CALL_ACCEPT"}, k)
Off(k) == Of({"CALL_OFF"}, k)
PublicKey == All({"PUT_PUBLIC_KEY"})
SecretKey == All({"PUT_SECRET_KEY"})
Login == All({"PUT_PUBLIC_KEY", "PUT_SECRET_KEY", "PUT_CURRENT_VERSION", "VERSION_OK"})
\* After one of these the server has the session in no call.
Freeing == All({"PUT_PRANKKEY", "GET_NEWPHONENUMBER", "BYE"})

\* Messages of calls that have not begun yet, when a calls have.
BeginOps == {"CALL_TO", "CALL_TO2", "CALL_RESPONSE", "CALLED_FROM"}

Unborn(a) ==
  {m \in Sent : m.call > a \/ (m.op \in BeginOps /\ m.call = 0)}

(***************************************************************************)
(* What one client has to do with its session, as a record v: up and down, *)
(* all that is on its way between the two; state, call and at, off (it is  *)
(* going to handle MSG_CALLOFFED) and keys of the client; srv, the call    *)
(* that the server has the session in; live, whether the session is served *)
(* over the connection.                                                    *)
(***************************************************************************)
LogsIn(v) == Has(v.up, Login) \/ Has(v.down, Login)
Participates(v, k) == v.state \in InCall /\ v.call = k
Consents(v) == v.state = "CALLING" \/ v.at = "callAccept"
\* These hold whatever has overtaken what.
FreeClient(v) == v.state = "STARTED" /\ v.at # "callTo" => v.call = 0

KeysComing(v) ==
  v.live =>
    /\ v.keys = "none" => Has(v.up, PublicKey) \/ Has(v.down, PublicKey)
    /\ v.keys = "RSA" => Has(v.up, SecretKey) \/ Has(v.down, SecretKey)

\* A client is called once in a call, by another client, and not while it is in it.
CalledOnce(v, c, f) ==
  \A k \in Nat \ {0} :
    /\ Once(v.down, From(k))
    /\ Has(v.down, From(k)) => f[k] # c /\ v.call # k

\* Who waits has called, who is rung has not.
Roles(v, c, f) ==
  /\ v.state \in InCall => v.call # 0
  /\ v.state = "WAITCALL" => f[v.call] = c
  /\ v.at = "callTo" /\ v.state = "STARTED" /\ v.call # 0 => f[v.call] = c
  /\ v.state = "RECEIVEDCALL" => f[v.call] # c

Accepts(v) == v.at = "callAccept" => v.state = "RECEIVEDCALL" \/ v.off
\* Who hangs up is not called again.
OffIsLast(v) ==
  \A k \in Nat \ {0} : Has(v.up, Off(k)) => v.call # k /\ ~ Has(v.down, From(k))

\* Who is called is in that call for the server, or will be told that it is over.
CalledByServer(v) == \A k \in Nat \ {0} : v.srv = k \/ Then(v.down, From(k), Off(k))

OffByServer(v) == \A k \in Nat \ {0} : Has(v.down, Off(k)) => v.srv # k
\* Who is in a call, or asks for one, ...
ClientInCall(v) ==
  ~ LogsIn(v) /\ (v.state \in InCall \/ (v.at = "callTo" /\ v.call # 0)) =>
    \/ v.srv = v.call
    \/ Has(v.up, Token(v.call)) \/ Has(v.down, Token(v.call))
    \/ Has(v.down, Off(v.call))

\* Who the server has in a call ...
ServerInCall(v) ==
  v.srv # 0 =>
    \/ Participates(v, v.srv)
    \/ Has(v.down, From(v.srv)) \/ Has(v.up, Off(v.srv))
    \/ LogsIn(v) \/ Has(v.up, Freeing)

\* Who has asked ...
AsksInCall(v) ==
  \A k \in Nat \ {0} :
    Participates(v, k) \/ LogsIn(v) \/ Then(v.up, Asked(k), Off(k) \cup Freeing)

Served(v) ==
  /\ OffIsLast(v) /\ CalledByServer(v) /\ OffByServer(v)
  /\ ClientInCall(v) /\ ServerInCall(v) /\ AsksInCall(v)

ClientAgrees(v, c, f) ==
  /\ CalledOnce(v, c, f) /\ Roles(v, c, f) /\ Accepts(v)
  /\ v.live => Served(v)

ViewType(v) ==
  /\ v.up \in Seq(Sent) /\ v.down \in Seq(Sent)
  /\ v.state \in State /\ v.call \in Nat /\ v.at \in {"idle", "callTo", "callAccept", "onPause"}
  /\ v.off \in BOOLEAN /\ v.keys \in {"none", "RSA", "AES"} /\ v.srv \in Nat
  /\ v.live \in BOOLEAN

\* q is p with m added.
Grows(p, q, m) ==
  /\ q \in Seq(Sent)
  /\ \A M : Has(q, M) <=> Has(p, M) \/ m \in M
  /\ \A M : Once(p, M) /\ (m \in M => ~ Has(p, M)) => Once(q, M)
  /\ \A M, N : m \notin M /\ (Then(p, M, N) \/ m \in N) => Then(q, M, N)

\* q is p without its first, h.
Shrinks(p, q, h) ==
  /\ q \in Seq(Sent) /\ h \in Sent
  /\ \A M : Has(p, M) <=> h \in M \/ Has(q, M)
  /\ \A M : Once(p, M) => Once(q, M) /\ (h \in M => ~ Has(q, M))
  /\ \A M, N : Then(p, M, N) => Then(q, M, N) /\ (h \in M => Has(q, N))

\* What the client says reaches a server that serves it.
UpGets(v, w, m) ==
  m \in Sent /\ (Grows(v.up, w.up, m) \/ (w.up = v.up /\ ~ v.live))

\* There is one question for a call, and the call has not begun.
TokenRules(v) ==
  \A k \in Nat \ {0} :
    /\ Once(v.up, Token(k)) /\ Once(v.down, Token(k))
    /\ ~ (Has(v.up, Token(k)) /\ Has(v.down, Token(k)))
    /\ Has(v.up, Token(k)) \/ Has(v.down, Token(k)) =>
         ~ Has(v.down, From(k)) /\ ~ Has(v.down, Off(k)) /\ v.srv # k

(***************************************************************************)
(* All clients and all sessions, as a record W: up and down, all that is   *)
(* on its way in either direction of a session; list, calling and ended,   *)
(* the sessions that the server serves, has in a call, has ended; partner  *)
(* and sCall of a session; now, the session of a client's last connection; *)
(* live, state, call, at, off and keys of a client, as in its view; acts.  *)
(***************************************************************************)
Calls == Nat \ {0}
Srv(W, s) == IF s \in W.calling THEN W.sCall[s] ELSE 0
View(W, c) ==
  [up |-> W.up[W.now[c]], down |-> W.down[W.now[c]], state |-> W.state[c],
   call |-> W.call[c], at |-> W.at[c], off |-> W.off[c], keys |-> W.keys[c],
   srv |-> Srv(W, W.now[c]), live |-> W.live[c]]

WorldType(W) ==
  /\ W.up \in [Session -> Seq(Sent)] /\ W.down \in [Session -> Seq(Sent)]
  /\ W.list \subseteq Session /\ W.calling \subseteq Session /\ W.ended \subseteq Session
  /\ W.partner \in [Session -> Session \cup {None}] /\ W.sCall \in [Session -> Nat]
  /\ W.now \in [Client -> Session] /\ \A c \in Client : W.now[c][1] = c
  /\ W.live \in [Client -> BOOLEAN] /\ \A c \in Client : W.live[c] => W.now[c] \in W.list
  /\ W.state \in [Client -> State] /\ W.call \in [Client -> Nat]
  /\ W.at \in [Client -> {"idle", "callTo", "callAccept", "onPause"}]
  /\ W.off \in [Client -> BOOLEAN] /\ W.keys \in [Client -> {"none", "RSA", "AES"}]
  /\ W.acts \in Nat

(***************************************************************************)
(* What holds whatever has overtaken what.                                 *)
(***************************************************************************)
\* A connection that has not been made has no part in anything.
Ahead(W, s) == s[2] > W.now[s[1]][2]

NoneAhead(W) ==
  \A s \in Session : Ahead(W, s) =>
    /\ s \notin W.list /\ s \notin W.calling /\ W.sCall[s] = 0
    /\ W.up[s] = << >> /\ W.down[s] = << >>
    /\ \A t \in Session : W.partner[t] # s

NotWithItself(W) == \A s \in Session : W.partner[s] # s
\* There is no word of calls that have not begun.
NoneUnborn(W) ==
  /\ \A s \in Session : /\ ~ Has(W.up[s], Unborn(W.acts)) /\ ~ Has(W.down[s], Unborn(W.acts))
                        /\ W.sCall[s] <= W.acts
  /\ \A c \in Client : W.call[c] <= W.acts

Free(W) == \A c \in Client : FreeClient(View(W, c)) /\ KeysComing(View(W, c))
Always(W) == NoneAhead(W) /\ NotWithItself(W) /\ NoneUnborn(W) /\ Free(W)

(***************************************************************************)
(* What holds until something is overtaken.  The functions f and h are     *)
(* history: the client that has dialled a call, and its session then.      *)
(***************************************************************************)
Asks(W, s, k) == Has(W.up[s], Token(k)) \/ Has(W.down[s], Token(k))
Pends(W, s, k) == Has(W.up[s], Asked(k)) \/ Has(W.down[s], Answered(k))
\* Who is in a call for the server is in it with somebody.
Mates(W) ==
  \A s \in W.list : s \in W.calling =>
    /\ W.partner[s] \in W.list /\ W.partner[s] \in W.calling
    /\ W.partner[W.partner[s]] = s
    /\ W.sCall[W.partner[s]] = W.sCall[s] /\ W.sCall[s] # 0

\* Who is going to be called is there, or has gone for good.
Found(W) ==
  \A s \in W.list : \A k \in Calls :
    Pends(W, s, k) /\ W.sCall[s] = k /\ W.partner[s] # None =>
      \/ W.partner[s] \in W.list
      \/ W.partner[s] \in W.ended /\ W.partner[W.partner[s]] = None

\* There is one question for a call, in the session in which it was dialled.
OneQuestion(W, s, k) ==
  /\ Once(W.up[s], Token(k)) /\ Once(W.down[s], Token(k))
  /\ ~ (Has(W.up[s], Token(k)) /\ Has(W.down[s], Token(k)))

Questions(W, f, h) ==
  \A s \in W.list : \A k \in Calls :
    OneQuestion(W, s, k) /\ (Asks(W, s, k) => f[k] = s[1] /\ h[k] = s)

Held(W) ==
  \A s, t \in W.list : \A k \in Calls : Asks(W, t, k) /\ W.sCall[s] = k => s = t

\* While it is there the call has not begun.
NotBegun(W, s, k) ==
  /\ \A t \in Session : ~ Has(W.down[t], From(k)) /\ ~ Has(W.down[t], Off(k))
  /\ \A t \in W.list : Srv(W, t) # k /\ ~ Has(W.up[t], Accepted(k))
  /\ \A d \in Client : /\ ~ Has(W.down[W.now[d]], Accepted(k))
                       /\ W.state[d] = "CALLING" => W.call[d] # k
                       /\ d # s[1] => W.call[d] # k /\ ~ Has(W.up[W.now[d]], Off(k))

Open(W) == \A s \in W.list : \A k \in Calls : Asks(W, s, k) => NotBegun(W, s, k)
\* Nobody is going to be called by itself.
NotItself(W) ==
  \A s \in W.list : \A k \in Calls :
    Has(W.up[s], Asked(k)) /\ W.sCall[s] = k => W.partner[s] # W.now[s[1]]

\* One client is called.
Called(W, f, k, d) == f[k] # d /\ (W.call[d] = k \/ Has(W.down[W.now[d]], From(k)))

OneCalled(W, f) ==
  \A k \in Calls : \A d, e \in Client : Called(W, f, k, d) /\ Called(W, f, k, e) => d = e

\* What has been accepted is accepted.
ConsentGoes(W, f, k) ==
  \/ \E t \in W.list : Has(W.up[t], Accepted(k))
  \/ \E c \in Client : Has(W.down[W.now[c]], Accepted(k))
  \/ W.state[f[k]] = "CALLING" /\ W.call[f[k]] = k

Agrees(W, d, k) ==
  /\ W.call[d] = k => Consents(View(W, d))
  /\ ~ Has(W.down[W.now[d]], From(k))

Consented(W, f) ==
  \A k \in Calls : ConsentGoes(W, f, k) => \A d \in Client : d # f[k] => Agrees(W, d, k)

\* Who has accepted is heard by the other.
Mutually(W, f, k, c, d) ==
  /\ W.live[c] /\ W.live[d] /\ W.call[c] = k /\ W.call[d] = k /\ f[k] # d
  /\ Srv(W, W.now[d]) = k /\ W.partner[W.now[d]] = W.now[c]

HearsConsent(W, k, c, d) ==
  \/ Has(W.up[W.now[d]], Accepted(k)) \/ Has(W.down[W.now[c]], Accepted(k))
  \/ W.state[c] = "CALLING" \/ W.off[d] \/ LogsIn(View(W, d))

Heard(W, f) ==
  \A k \in Calls : \A c, d \in Client :
    Mutually(W, f, k, c, d) /\ Consents(View(W, d)) => HearsConsent(W, k, c, d)

Together(W, f, h) ==
  /\ Mates(W) /\ Found(W) /\ Questions(W, f, h) /\ Held(W) /\ Open(W) /\ NotItself(W)
  /\ OneCalled(W, f) /\ Consented(W, f) /\ Heard(W, f)

Agreed(W, f, h) ==
  /\ \A c \in Client : ClientAgrees(View(W, c), c, f)
  /\ Together(W, f, h)

(***************************************************************************)
(* A step of one client leaves the rest as it is.                          *)
(***************************************************************************)
OthersSame(W, X, c) ==
  /\ X.list = W.list /\ X.calling = W.calling /\ X.ended = W.ended
  /\ X.partner = W.partner /\ X.sCall = W.sCall /\ X.now = W.now
  /\ \A s \in Session : s # W.now[c] => X.up[s] = W.up[s] /\ X.down[s] = W.down[s]
  /\ \A d \in Client : d # c =>
       /\ X.live[d] = W.live[d] /\ X.state[d] = W.state[d] /\ X.call[d] = W.call[d]
       /\ X.at[d] = W.at[d] /\ X.off[d] = W.off[d] /\ X.keys[d] = W.keys[d]
  /\ X.live[c] => W.live[c]

\* What the step has to do with the others: questions and what is heard of others do
\* not come from nothing, ...
KeepsQuestions(v, w) ==
  \A k \in Calls :
    /\ Has(w.up, Token(k)) \/ Has(w.down, Token(k)) =>
         Has(v.up, Token(k)) \/ Has(v.down, Token(k))
    /\ /\ Once(v.up, Token(k)) /\ Once(v.down, Token(k))
       /\ ~ (Has(v.up, Token(k)) /\ Has(v.down, Token(k)))
       => /\ Once(w.up, Token(k)) /\ Once(w.down, Token(k))
          /\ ~ (Has(w.up, Token(k)) /\ Has(w.down, Token(k)))
    /\ Has(w.up, Asked(k)) \/ Has(w.down, Answered(k)) =>
         Has(v.up, Asked(k)) \/ Has(v.down, Answered(k))

HearsNothingNew(v, w) ==
  \A k \in Calls :
    /\ Has(w.down, From(k)) => Has(v.down, From(k))
    /\ Has(w.down, Off(k)) => Has(v.down, Off(k))
    /\ Has(w.down, Accepted(k)) => Has(v.down, Accepted(k))

\* ... the client gets into no call but the one that it is called in, and tells of
\* the one that it was in, ...
MovesOn(v, w) ==
  /\ w.call \in {0, v.call} \/ Has(v.down, From(w.call))
  /\ \A k \in Calls :
       /\ Has(w.up, Off(k)) => Has(v.up, Off(k)) \/ v.call = k
       /\ Has(w.up, Accepted(k)) =>
            \/ Has(v.up, Accepted(k))
            \/ v.call = k /\ w.call = k /\ v.state = "RECEIVEDCALL" /\ w.at = "callAccept"

\* ... it does not take its consent back, ...
KeepsConsent(v, w) ==
  /\ w.call = v.call /\ w.call # 0 /\ Consents(v) => Consents(w)
  /\ w.state = "CALLING" /\ w.call # 0 =>
       /\ v.call = w.call
       /\ v.state \in {"CALLING", "RECEIVEDCALL"} \/ Has(v.down, Accepted(w.call))

\* ... and is heard when it consents, and hears.
ConsentIsHeard(v, w) ==
  w.live /\ w.call # 0 =>
    /\ Consents(w) =>
         \/ Has(w.up, Accepted(w.call)) \/ w.off \/ LogsIn(w)
         \/ /\ w.call = v.call
            /\ \/ v.state = "WAITCALL"
               \/ /\ Consents(v) /\ ~ v.off /\ ~ LogsIn(v)
                  /\ ~ Has(v.up, Accepted(w.call))
    /\ w.call = v.call =>
         /\ v.state = "CALLING" => w.state = "CALLING"
         /\ Has(v.down, Accepted(w.call)) =>
              Has(w.down, Accepted(w.call)) \/ w.state = "CALLING"

Moves(v, w) ==
  /\ KeepsQuestions(v, w) /\ HearsNothingNew(v, w) /\ MovesOn(v, w) /\ KeepsConsent(v, w)
  /\ ConsentIsHeard(v, w)

ClientMoves(W, X, c, f, h) ==
  /\ WorldType(W) /\ WorldType(X) /\ NotWithItself(W) /\ f \in [Nat -> Client]
  /\ Agreed(W, f, h) /\ OthersSame(W, X, c) /\ Moves(View(W, c), View(X, c))

(***************************************************************************)
(* A step of the server leaves the clients as they are.                    *)
(***************************************************************************)
ClientsSame(W, X) ==
  /\ X.now = W.now /\ X.state = W.state /\ X.call = W.call /\ X.at = W.at
  /\ X.off = W.off /\ X.keys = W.keys /\ X.acts = W.acts

\* The server takes a message of s, and answers it or does not: s gets into no call,
\* and leaves none.
Answers(W, X, s) ==
  /\ ClientsSame(W, X) /\ X.live = W.live /\ X.list = W.list /\ X.calling = W.calling
  /\ s \in W.list
  /\ \A t \in Session : t # s =>
       /\ X.up[t] = W.up[t] /\ X.down[t] = W.down[t]
       /\ X.partner[t] = W.partner[t] /\ X.sCall[t] = W.sCall[t]
       /\ t \in W.ended => t \in X.ended
  /\ s \in W.calling => X.partner[s] = W.partner[s] /\ X.sCall[s] = W.sCall[s]

AnswersKept(W, X, s) ==
  \A k \in Calls :
    /\ Asks(X, s, k) => Asks(W, s, k)
    /\ OneQuestion(W, s, k) => OneQuestion(X, s, k)
    /\ X.sCall[s] = k => W.sCall[s] = k \/ Asks(W, s, k)
    /\ Pends(X, s, k) /\ X.sCall[s] = k /\ X.partner[s] # None =>
         \/ X.partner[s] \in W.list
         \/ Pends(W, s, k) /\ W.sCall[s] = k /\ X.partner[s] = W.partner[s]
    /\ Has(X.up[s], Asked(k)) /\ X.sCall[s] = k =>
         \/ X.partner[s] = None
         \/ Has(W.up[s], Asked(k)) /\ W.sCall[s] = k /\ X.partner[s] = W.partner[s]

HearsAsBefore(W, X, s) ==
  /\ Has(W.up[s], Login) \/ Has(W.down[s], Login) => Has(X.up[s], Login) \/ Has(X.down[s], Login)
  /\ \A k \in Calls :
       /\ Has(X.down[s], From(k)) => Has(W.down[s], From(k))
       /\ Has(X.down[s], Off(k)) => Has(W.down[s], Off(k))
       /\ Has(X.down[s], Accepted(k)) <=> Has(W.down[s], Accepted(k))
       /\ Has(X.up[s], Off(k)) => Has(W.up[s], Off(k))
       /\ Has(X.up[s], Accepted(k)) => Has(W.up[s], Accepted(k))
       /\ Has(W.up[s], Accepted(k)) /\ s \in W.calling => Has(X.up[s], Accepted(k))

ServerAnswers(W, X, s, f, h) ==
  /\ WorldType(W) /\ WorldType(X) /\ Together(W, f, h) /\ f \in [Nat -> Client]
  /\ Answers(W, X, s) /\ AnswersKept(W, X, s) /\ HearsAsBefore(W, X, s)

(***************************************************************************)
(* The server forwards what the other party is to hear: t is the partner.  *)
(***************************************************************************)
OthersQueues(W, X, s, t) ==
  /\ \A u \in Session : u # s => X.up[u] = W.up[u]
  /\ \A u \in Session : u # t => X.down[u] = W.down[u]

Forwards(W, X, s, m, n) ==
  /\ ClientsSame(W, X) /\ X.live = W.live /\ X.list = W.list /\ X.calling = W.calling
  /\ X.ended = W.ended /\ X.partner = W.partner /\ X.sCall = W.sCall
  /\ s \in W.list /\ s \in W.calling /\ m.op = "CALL_ACCEPT" /\ m.call = W.sCall[s]
  /\ n \in Sent /\ n.op = "CALL_ACCEPT" /\ n.call = m.call
  /\ Shrinks(W.up[s], X.up[s], m) /\ Grows(W.down[W.partner[s]], X.down[W.partner[s]], n)
  /\ OthersQueues(W, X, s, W.partner[s])

ServerForwards(W, X, s, m, n, f, h) ==
  /\ WorldType(W) /\ WorldType(X) /\ Together(W, f, h) /\ f \in [Nat -> Client]
  /\ Forwards(W, X, s, m, n)

(***************************************************************************)
(* The server connects s with its partner.                                 *)
(***************************************************************************)
Connects(W, X, s, t, m, n) ==
  /\ ClientsSame(W, X) /\ X.live = W.live /\ X.list = W.list
  /\ s \in W.list /\ s \notin W.calling /\ t \in Session /\ t # s
  /\ W.partner[s] = t /\ t \notin W.calling /\ t \notin W.ended
  /\ X.calling = W.calling \cup {s, t} /\ W.ended \subseteq X.ended
  /\ \A u \in Session : u # t => X.partner[u] = W.partner[u] /\ X.sCall[u] = W.sCall[u]
  /\ X.partner[t] = s /\ X.sCall[t] = m.call /\ W.sCall[s] = m.call /\ m.call # 0
  /\ m.op = "CALL_TO2" /\ n \in Sent /\ n.op = "CALLED_FROM" /\ n.call = m.call
  /\ Shrinks(W.up[s], X.up[s], m) /\ Grows(W.down[t], X.down[t], n)
  /\ OthersQueues(W, X, s, t)

ServerConnects(W, X, s, t, m, n, f, h) ==
  /\ WorldType(W) /\ WorldType(X) /\ Together(W, f, h) /\ f \in [Nat -> Client]
  /\ Connects(W, X, s, t, m, n)

(***************************************************************************)
(* A session s leaves its call, or is closed, and its partner is told.     *)
(***************************************************************************)
Leaves(W, X, s, n) ==
  /\ ClientsSame(W, X) /\ s \in W.list
  /\ X.list \subseteq W.list /\ \A u \in W.list : u # s => u \in X.list
  /\ \A c \in Client : X.live[c] => W.live[c]
  /\ s \in X.list => s \in W.calling
  /\ s \notin X.list => s \in X.ended
  /\ \A u \in Session : u \notin {s, W.partner[s]} =>
       /\ u \in X.calling <=> u \in W.calling
       /\ u \in W.ended => u \in X.ended
       /\ X.partner[u] = W.partner[u] /\ X.sCall[u] = W.sCall[u]
       /\ X.up[u] = W.up[u] /\ X.down[u] = W.down[u]
  /\ s \notin X.calling /\ X.partner[s] = None /\ X.sCall[s] = 0
  /\ Within(X.up[s], W.up[s]) /\ Within(X.down[s], W.down[s])
  /\ W.partner[s] # None =>
       /\ W.partner[W.partner[s]] = s /\ W.partner[s] # s
       /\ W.partner[s] \notin X.calling /\ X.partner[W.partner[s]] = None
       /\ X.sCall[W.partner[s]] = 0
       /\ X.up[W.partner[s]] = W.up[W.partner[s]]
       /\ Grows(W.down[W.partner[s]], X.down[W.partner[s]], n)
       /\ n \in Sent /\ n.op = "CALL_OFF" /\ n.call = W.sCall[s]

ServerLeaves(W, X, s, n, f, h) ==
  /\ WorldType(W) /\ WorldType(X) /\ Together(W, f, h) /\ f \in [Nat -> Client]
  /\ Leaves(W, X, s, n)

(***************************************************************************)
(* A client connects anew.                                                 *)
(***************************************************************************)
Reconnects(W, X, c, s, m) ==
  /\ X.state = W.state /\ X.call = W.call /\ X.at = W.at /\ X.off = W.off /\ X.acts = W.acts
  /\ s \in Session /\ s[1] = c /\ Ahead(W, s) /\ X.now[c] = s
  /\ \A d \in Client : d # c =>
       X.now[d] = W.now[d] /\ X.live[d] = W.live[d] /\ X.keys[d] = W.keys[d]
  /\ X.list = W.list \cup {s}
  /\ X.calling = W.calling /\ \A u \in Session : u # s /\ u \in W.ended => u \in X.ended
  /\ X.partner = W.partner /\ X.sCall = W.sCall /\ X.down = W.down
  /\ \A u \in Session : u # s => X.up[u] = W.up[u]
  /\ m \in Sent /\ m.op = "PUT_PUBLIC_KEY" /\ Grows(<< >>, X.up[s], m)

ClientReconnects(W, X, c, s, m, f, h) ==
  /\ WorldType(W) /\ WorldType(X) /\ Agreed(W, f, h) /\ f \in [Nat -> Client]
  /\ NoneAhead(W) /\ Reconnects(W, X, c, s, m)

(***************************************************************************)
(* A client dials: k is the number of the new call.                        *)
(***************************************************************************)
DialsAt(W, X, c, m, k) ==
  /\ OthersSame(W, X, c) /\ k = W.acts + 1 /\ X.live = W.live
  /\ X.state = W.state /\ X.off = W.off /\ X.keys = W.keys /\ X.down = W.down
  /\ W.state[c] = "STARTED" /\ W.at[c] = "idle" /\ X.at[c] = "callTo" /\ X.call[c] = k
  /\ m.op = "CALL_TO" /\ m.call = k /\ UpGets(View(W, c), View(X, c), m)

ClientDials(W, X, c, m, k, f, h) ==
  /\ WorldType(W) /\ WorldType(X) /\ Agreed(W, f, h) /\ f \in [Nat -> Client]
  /\ h \in [Nat -> Session] /\ Always(W) /\ DialsAt(W, X, c, m, k)

\* Nobody knows of the call yet.
NotKnown(W, c, k) ==
  /\ \A u \in Session :
       /\ ~ Asks(W, u, k) /\ ~ Pends(W, u, k) /\ ~ Has(W.up[u], Asked(k))
       /\ ~ Has(W.up[u], Off(k)) /\ ~ Has(W.up[u], Accepted(k))
       /\ ~ Has(W.down[u], From(k)) /\ ~ Has(W.down[u], Off(k))
       /\ ~ Has(W.down[u], Accepted(k)) /\ W.sCall[u] # k
  /\ \A d \in Client : W.call[d] # k
  /\ W.call[c] = 0

(***************************************************************************)
(* Nothing is on its way: everybody is at rest, or is in calls that match. *)
(***************************************************************************)
Quiescent(W) ==
  /\ W.list = {W.now[c] : c \in Client}
  /\ \A c \in Client : /\ W.up[W.now[c]] = << >> /\ W.down[W.now[c]] = << >>
                       /\ W.at[c] = "idle" /\ ~ W.off[c] /\ W.live[c]

Resting(W) ==
  Quiescent(W) /\ \A c \in Client : W.state[c] = "STARTED" /\ W.now[c] \notin W.calling

\* What the server and the clients have to say of each call.
Matched(W, c) ==
  /\ W.state[c] \in InCall =>
       \E d \in Client :
         /\ W.now[c] \in W.calling /\ W.partner[W.now[c]] = W.now[d]
         /\ W.now[d] \in W.calling /\ W.partner[W.now[d]] = W.now[c]
         /\ W.state[d] = Counterpart[W.state[c]]
  /\ W.state[c] = "STARTED" => W.now[c] \notin W.calling

(***************************************************************************)
(* What the steps of a client are for its view, v before and w after.      *)
(***************************************************************************)
\* What holds of a view whatever has overtaken what, when a calls have begun.
Sane(v, a) ==
  /\ FreeClient(v) /\ KeysComing(v) /\ v.call <= a
  /\ ~ Has(v.up, Unborn(a)) /\ ~ Has(v.down, Unborn(a))

\* Nothing changes for the client.
Stays(v, w) ==
  /\ w.up = v.up /\ w.down = v.down /\ w.state = v.state /\ w.call = v.call
  /\ w.at = v.at /\ w.off = v.off /\ w.keys = v.keys /\ w.srv = v.srv
  /\ w.live = v.live

\* The client asks for another number.
Says(v, w, m) ==
  /\ UpGets(v, w, m) /\ m.op = "GET_NEWPHONENUMBER" /\ m.call = 0
  /\ w.down = v.down /\ w.state = v.state /\ w.call = v.call /\ w.at = v.at
  /\ w.off = v.off /\ w.keys = v.keys /\ w.srv = v.srv /\ w.live = v.live

\* The last statement of callTo.
AssignsWait(v, w) ==
  /\ v.at = "callTo" /\ w.state = "WAITCALL" /\ w.at = "idle"
  /\ w.up = v.up /\ w.down = v.down /\ w.call = v.call /\ w.off = v.off
  /\ w.keys = v.keys /\ w.srv = v.srv /\ w.live = v.live

\* The last statement of callAccept.
AssignsCalling(v, w) ==
  /\ v.at = "callAccept" /\ w.state = "CALLING" /\ w.at = "idle"
  /\ w.up = v.up /\ w.down = v.down /\ w.call = v.call /\ w.off = v.off
  /\ w.keys = v.keys /\ w.srv = v.srv /\ w.live = v.live

\* The client accepts the call.
AcceptsCall(v, w, m) ==
  /\ UpGets(v, w, m) /\ m.op = "CALL_ACCEPT" /\ m.call = v.call
  /\ v.at = "idle" /\ w.at = "callAccept"
  /\ w.down = v.down /\ w.state = v.state /\ w.call = v.call /\ w.off = v.off
  /\ w.keys = v.keys /\ w.srv = v.srv /\ w.live = v.live

\* The client leaves the call, and tells the server.
HangsUp(v, w, m) ==
  /\ UpGets(v, w, m) /\ m.op = "CALL_OFF" /\ m.call = v.call
  /\ v.at = "idle" /\ w.state = "STARTED" /\ w.call = 0
  /\ w.down = v.down /\ w.at = v.at /\ w.keys = v.keys /\ w.srv = v.srv
  /\ w.live = v.live

\* The user leaves the application, while the client is not talking.
Pauses(v, w, m) ==
  /\ UpGets(v, w, m) /\ m.op = "BYE" /\ m.call = 0
  /\ v.state # "CALLING" /\ w.state = "ENDED"
  /\ v.at = "idle" /\ w.at = "onPause"
  /\ w.down = v.down /\ w.call = v.call /\ w.off = v.off /\ w.keys = v.keys
  /\ w.srv = v.srv /\ w.live = v.live

\* The user returns.
Resumes(v, w) ==
  /\ v.at = "idle" /\ w.state = "INITED"
  /\ w.up = v.up /\ w.down = v.down /\ w.call = v.call /\ w.at = v.at
  /\ w.off = v.off /\ w.keys = v.keys /\ w.srv = v.srv /\ w.live = v.live

\* The network thread has no key for a message.
Drops(v, w) ==
  /\ w.up \in Seq(Sent) /\ Within(w.up, v.up) /\ v.keys # "AES"
  /\ Has(v.up, PublicKey) => Has(w.up, PublicKey)
  /\ v.keys # "none" /\ Has(v.up, SecretKey) => Has(w.up, SecretKey)
  /\ w.down = v.down /\ w.state = v.state /\ w.call = v.call /\ w.at = v.at
  /\ w.off = v.off /\ w.keys = v.keys /\ w.srv = v.srv /\ w.live = v.live

\* The client reads an answer to its login.
LogsInFurther(v, w, m, n) ==
  /\ Shrinks(v.down, w.down, m) /\ m.op \in {"PUT_PUBLIC_KEY", "PUT_SECRET_KEY"}
  /\ n \in Sent /\ Grows(v.up, w.up, n) /\ n.call = 0
  /\ IF m.op = "PUT_PUBLIC_KEY" THEN n.op = "PUT_SECRET_KEY" /\ w.keys = "RSA"
     ELSE n.op = "PUT_CURRENT_VERSION" /\ w.keys = "AES"
  /\ w.state = v.state /\ w.call = v.call /\ w.at = v.at /\ w.off = v.off
  /\ w.srv = v.srv /\ w.live = v.live

\* The client is logged in, and in no call.
IsLoggedIn(v, w, m, n) ==
  /\ Shrinks(v.down, w.down, m) /\ m.op = "VERSION_OK"
  /\ n \in Sent /\ Grows(v.up, w.up, n) /\ n.op = "PUT_PRANKKEY" /\ n.call = 0
  /\ w.state = "STARTED" /\ w.call = 0
  /\ w.at = v.at /\ w.off = v.off /\ w.keys = v.keys /\ w.srv = v.srv
  /\ w.live = v.live

\* The client reads that its call is over.
HearsOff(v, w, m) ==
  /\ Shrinks(v.down, w.down, m) /\ m.op = "CALL_OFF"
  /\ v.state \in InCall /\ w.state = "STARTED" /\ w.call = 0 /\ w.off
  /\ w.up = v.up /\ w.at = v.at /\ w.keys = v.keys /\ w.srv = v.srv
  /\ w.live = v.live

\* The client reads that it cannot have the call.
HearsError(v, w, m) ==
  /\ Shrinks(v.down, w.down, m) /\ m.op \in Errors
  /\ v.state = "WAITCALL" /\ w.state = "STARTED" /\ w.call = 0
  /\ w.up = v.up /\ w.at = v.at /\ w.off = v.off /\ w.keys = v.keys
  /\ w.srv = v.srv /\ w.live = v.live

\* The client reads what is not for it.
Ignores(v, w, m) ==
  /\ Shrinks(v.down, w.down, m) /\ m \notin Login
  /\ w.up = v.up /\ w.state = v.state /\ w.call = v.call /\ w.at = v.at
  /\ w.off = v.off /\ w.keys = v.keys /\ w.srv = v.srv /\ w.live = v.live

\* The client is called.
IsCalled(v, w, m) ==
  /\ Shrinks(v.down, w.down, m) /\ m.op = "CALLED_FROM"
  /\ w.state = "RECEIVEDCALL" /\ w.call = m.call
  /\ w.up = v.up /\ w.at = v.at /\ w.off = v.off /\ w.keys = v.keys
  /\ w.srv = v.srv /\ w.live = v.live

\* The client reads that its call is accepted.
HearsAccept(v, w, m) ==
  /\ Shrinks(v.down, w.down, m) /\ m.op = "CALL_ACCEPT" /\ w.state = "CALLING"
  /\ w.up = v.up /\ w.call = v.call /\ w.at = v.at /\ w.off = v.off
  /\ w.keys = v.keys /\ w.srv = v.srv /\ w.live = v.live

\* The client reads who it can call, and calls.
AsksFurther(v, w, m, n) ==
  /\ Shrinks(v.down, w.down, m) /\ m.op = "CALL_RESPONSE"
  /\ UpGets(v, w, n) /\ n.op = "CALL_TO2" /\ n.call = m.call
  /\ w.state = v.state /\ w.call = v.call /\ w.at = v.at /\ w.off = v.off
  /\ w.keys = v.keys /\ w.srv = v.srv /\ w.live = v.live

\* The network thread leaves the connection.
Stops(v, w) ==
  /\ ~ w.live /\ w.up \in Seq(Sent) /\ Within(w.up, v.up)
  /\ w.at = v.at \/ (v.at = "onPause" /\ w.at = "idle")
  /\ w.down = v.down /\ w.state = v.state /\ w.call = v.call /\ w.off = v.off
  /\ w.keys = v.keys /\ w.srv = v.srv

\* The application ends.
Crashes(v, w) ==
  /\ ~ w.live /\ w.up \in Seq(Sent) /\ Within(w.up, v.up)
  /\ w.down \in Seq(Sent) /\ Within(w.down, v.down)
  /\ w.state = "ENDED" /\ w.call = 0 /\ w.at = "idle" /\ ~ w.off

\* There are a history of the calls, and so on.
Agreement(W) == \E f \in [Nat -> Client], h \in [Nat -> Session] : Agreed(W, f, h)

(***************************************************************************)
(* The variables as such a record.                                         *)
(***************************************************************************)
\* What is on its way: the message that the client is in the middle of is, too.
Upward(s) == up[s] \o (IF Connected(s) THEN outputMessageQueue[s[1]] ELSE << >>)

Reading(s) == s = Now(s[1]) /\ received[s[1]] # None
Downward(s) == (IF Reading(s) THEN <<received[s[1]]>> ELSE << >>) \o down[s]
Live(c) == thread[c] = "connected" /\ Now(c) \in sessionList
Offed(c) == \E i \in DOMAIN handler[c] : handler[c][i] = "MSG_CALLOFFED"
World ==
  [up |-> [s \in Session |-> Upward(s)], down |-> [s \in Session |-> Downward(s)],
   list |-> sessionList, calling |-> {s \in Session : sState[s] = "CALLING"},
   ended |-> {s \in Session : sState[s] = "ENDED"}, partner |-> callingSession,
   sCall |-> sCall, now |-> [c \in Client |-> Now(c)], live |-> [c \in Client |-> Live(c)],
   state |-> state, call |-> call, at |-> at, off |-> [c \in Client |-> Offed(c)],
   keys |-> keys, acts |-> acts]

\* The view of a client.
UpOf(c) == up[Now(c)] \o (IF thread[c] = "connected" THEN outputMessageQueue[c] ELSE << >>)

DownOf(c) == (IF received[c] # None THEN <<received[c]>> ELSE << >>) \o down[Now(c)]
SrvOf(c) == IF sState[Now(c)] = "CALLING" THEN sCall[Now(c)] ELSE 0
Views ==
  \A c \in Client : \A v : v = View(World, c) =>
     /\ v.up = UpOf(c) /\ v.down = DownOf(c) /\ v.state = state[c] /\ v.call = call[c]
     /\ v.at = at[c] /\ v.off = Offed(c) /\ v.keys = keys[c] /\ v.live = Live(c)
     /\ v.srv = SrvOf(c) /\ ViewType(v)

(***************************************************************************)
(* What a client does leaves the others and the server as they are.        *)
(***************************************************************************)
ClientOnly(c) ==
  /\ UNCHANGED <<sState, callingSession, sessionList, sCall, connections>>
  /\ \A d \in Client \ {c} :
       /\ thread'[d] = thread[d] /\ received'[d] = received[d]
       /\ outputMessageQueue'[d] = outputMessageQueue[d] /\ state'[d] = state[d]
       /\ call'[d] = call[d] /\ at'[d] = at[d] /\ handler'[d] = handler[d]
       /\ keys'[d] = keys[d]
  /\ \A s \in Session : s # Now(c) => up'[s] = up[s] /\ down'[s] = down[s]
  /\ thread'[c] = "connected" => thread[c] = "connected"

(***************************************************************************)
(* What the queues of a client are for its view.                           *)
(***************************************************************************)
OnLine(c) == connections' = connections /\ thread'[c] = thread[c]

(***************************************************************************)
(* A step of a client, in terms of what it changes of its view.            *)
(***************************************************************************)
Kept(W, over) == Always(W) /\ (~ over => Agreement(W))
ProtocolAgreed == Kept(World, overtaken)
StepAgrees(v, w, c) ==
  \A f : ClientAgrees(v, c, f) /\ (v.live => TokenRules(v)) =>
           ClientAgrees(w, c, f) /\ Moves(v, w)

IsView(v, c) ==
  /\ v.up = UpOf(c) /\ v.down = DownOf(c) /\ v.state = state[c] /\ v.call = call[c]
  /\ v.at = at[c] /\ v.off = Offed(c) /\ v.keys = keys[c] /\ v.live = Live(c)
  /\ v.srv = SrvOf(c) /\ ViewType(v)

\* What a step of c's threads that leaves the queues of the network alone changes.
UiOnly(c) ==
  /\ UNCHANGED <<serverVars, channels, thread, received, connections, keys>>
  /\ \A d \in Client \ {c} :
       /\ outputMessageQueue'[d] = outputMessageQueue[d] /\ state'[d] = state[d]
       /\ call'[d] = call[d] /\ at'[d] = at[d] /\ handler'[d] = handler[d]

Contains(q, e) == \E i \in DOMAIN q : q[i] = e
\* What every step of read has in common.
Reads(c, m) ==
  /\ thread[c] = "connected" /\ received[c] = None /\ OnLine(c)
  /\ m \in Sent /\ down[Now(c)] # << >> /\ m = Head(down[Now(c)])
  /\ down'[Now(c)] = Tail(down[Now(c)]) /\ up'[Now(c)] = up[Now(c)]
  /\ at' = at /\ acts' = acts
  /\ LoggedIn(c, m) \/ Begin(c, m) \/ Ended(c, m) \/ Ignored(c, m)

(***************************************************************************)
(* A new connection.                                                       *)
(***************************************************************************)
\* A thread that is not connected is not in the middle of a message.
Running == \A c \in Client : received[c] # None => thread[c] \in {"connected", "leaving"}

(***************************************************************************)
(* A step of the server.                                                   *)
(***************************************************************************)
ServerOnly ==
  UNCHANGED <<state, outputMessageQueue, thread, received, connections, keys, at, handler,
              call, acts>>

(***************************************************************************)
(* What a step of the server has to keep, for the sessions s and t that it *)
(* is about, and for the clients of these.                                 *)
(***************************************************************************)
Touches(W, X, u) ==
  /\ u \in Session /\ ~ Ahead(W, u)
  /\ \A M : Has(X.up[u], M) => Has(W.up[u], M)
  /\ ~ Has(X.down[u], Unborn(W.acts)) /\ X.sCall[u] <= W.acts
  /\ X.partner[u] # None => X.partner[u] # u /\ ~ Ahead(W, X.partner[u])
  /\ u \in X.list =>
       /\ Has(W.up[u], PublicKey) \/ Has(W.down[u], PublicKey) =>
            Has(X.up[u], PublicKey) \/ Has(X.down[u], PublicKey)
       /\ Has(W.up[u], SecretKey) \/ Has(W.down[u], SecretKey) =>
            Has(X.up[u], SecretKey) \/ Has(X.down[u], SecretKey)

Serves(W, X, s, t) ==
  /\ ClientsSame(W, X) /\ X.list \subseteq W.list
  /\ \A d \in Client : /\ X.live[d] => W.live[d]
                       /\ W.now[d] \notin {s, t} => X.live[d] = W.live[d]
  /\ \A u \in Session \ {s, t} :
       /\ X.up[u] = W.up[u] /\ X.down[u] = W.down[u]
       /\ u \in X.calling <=> u \in W.calling
       /\ X.partner[u] = W.partner[u] /\ X.sCall[u] = W.sCall[u]
  /\ Touches(W, X, s) /\ Touches(W, X, t)

(***************************************************************************)
(* The server takes m of s and answers it, or does nothing.                *)
(***************************************************************************)
LoginOps == {"PUT_PUBLIC_KEY", "PUT_SECRET_KEY", "PUT_CURRENT_VERSION"}
Gives(m, n) ==
  \/ m.op \in LoginOps /\ n.op = Answer[m.op] /\ n.call = 0
  \/ m.op \in {"PUT_PRANKKEY", "GET_NEWPHONENUMBER"} /\ n.op = "PUT_PHONENUMBER" /\ n.call = 0
  \/ m.op \in {"CALL_TO", "CALL_TO2", "CALL_ACCEPT"} /\ n.op \in Errors /\ n.call = m.call
  \/ m.op = "CALL_TO" /\ n.op = "CALL_RESPONSE" /\ n.call = m.call

Party(W, X, s, m, op) ==
  \/ /\ op # "CALL_RESPONSE" /\ X.sCall[s] = W.sCall[s]
     /\ X.partner[s] \in {W.partner[s], None}
  \/ /\ m.op = "CALL_TO" /\ X.sCall[s] = m.call
     /\ X.partner[s] \in W.list /\ X.partner[s] # s

Replied(W, X, s, m) ==
  \/ /\ m.op \in {"CALL_ACCEPT", "CALL_OFF"} /\ X.down[s] = W.down[s]
     /\ Party(W, X, s, m, m.op)
  \/ \E n \in Sent : Gives(m, n) /\ Grows(W.down[s], X.down[s], n) /\ Party(W, X, s, m, n.op)

Takes(W, X, s, m) ==
  /\ ClientsSame(W, X) /\ X.live = W.live /\ X.list = W.list /\ s \in W.list
  /\ Shrinks(W.up[s], X.up[s], m) /\ Replied(W, X, s, m)
  /\ \A u \in Session : u # s =>
       /\ X.up[u] = W.up[u] /\ X.down[u] = W.down[u]
       /\ u \in X.calling <=> u \in W.calling
       /\ u \in W.ended => u \in X.ended
       /\ X.partner[u] = W.partner[u] /\ X.sCall[u] = W.sCall[u]

(***************************************************************************)
(* Unless it has been overtaken: then what takes s out of a call, or into  *)
(* one, is not answered like that.                                         *)
(***************************************************************************)
TakesWell(W, X, s, m) ==
  /\ Takes(W, X, s, m) /\ X.calling = W.calling
  /\ s \in W.calling =>
       m.op \in LoginOps /\ X.partner[s] = W.partner[s] /\ X.sCall[s] = W.sCall[s]
  /\ m.op = "CALL_ACCEPT" => X.down[s] = W.down[s]

(***************************************************************************)
(* The server takes m of s and tells its partner t, which it connects with *)
(* it or is in a call with.                                                *)
(***************************************************************************)
Passes(W, X, s, t, m, n) ==
  /\ ClientsSame(W, X) /\ X.live = W.live /\ X.list = W.list
  /\ s \in W.list /\ W.partner[s] = t /\ t \in Session
  /\ Shrinks(W.up[s], X.up[s], m) /\ Grows(W.down[t], X.down[t], n) /\ OthersQueues(W, X, s, t)
  /\ n \in Sent /\ n.call = m.call
  /\ \/ m.op = "CALL_TO2" /\ n.op = "CALLED_FROM"
     \/ m.op = "CALL_ACCEPT" /\ n.op = "CALL_ACCEPT"
  /\ \A u \in Session : u \notin {s, t} =>
       /\ u \in X.calling <=> u \in W.calling
       /\ X.partner[u] = W.partner[u] /\ X.sCall[u] = W.sCall[u]
  /\ X.partner[s] = t /\ X.partner[t] \in {W.partner[t], s}
  /\ X.sCall[s] \in {W.sCall[s], m.call} /\ X.sCall[t] \in {W.sCall[t], m.call}

(***************************************************************************)
(* The session s leaves its call, because of m or because it is closed.    *)
(***************************************************************************)
HangsOff(W, X, s, m) ==
  /\ m.op = "CALL_OFF" /\ Shrinks(W.up[s], X.up[s], m) /\ X.down[s] = W.down[s]
  /\ X.list = W.list /\ X.live = W.live

Shuts(W, X, s) ==
  /\ s \notin X.list /\ s \in X.ended
  /\ \A M : Has(X.up[s], M) => Has(W.up[s], M)
  /\ \A M : Once(W.up[s], M) => Once(X.up[s], M)
  /\ Within(X.down[s], W.down[s])

Departs(W, X, s, n) ==
  /\ ClientsSame(W, X) /\ s \in W.list
  /\ X.list \subseteq W.list /\ \A u \in W.list : u # s => u \in X.list
  /\ \A d \in Client : /\ X.live[d] => W.live[d]
                       /\ W.now[d] # s => X.live[d] = W.live[d]
  /\ \A u \in Session : u \notin {s, W.partner[s]} =>
       /\ u \in X.calling <=> u \in W.calling
       /\ u \in W.ended => u \in X.ended
       /\ X.partner[u] = W.partner[u] /\ X.sCall[u] = W.sCall[u]
       /\ X.up[u] = W.up[u] /\ X.down[u] = W.down[u]
  /\ s \notin X.calling /\ X.partner[s] = None /\ X.sCall[s] = 0
  /\ W.partner[s] # None =>
       /\ W.partner[s] \notin X.calling /\ X.partner[W.partner[s]] = None
       /\ X.sCall[W.partner[s]] = 0
       /\ X.up[W.partner[s]] = W.up[W.partner[s]]
       /\ Grows(W.down[W.partner[s]], X.down[W.partner[s]], n)
       /\ n \in Sent /\ n.op = "CALL_OFF" /\ n.call = W.sCall[s]
  /\ Shuts(W, X, s) \/ \E m \in Sent : HangsOff(W, X, s, m)

\* Unless it has been overtaken.
EndsWell(W, X, s, n) ==
  /\ Departs(W, X, s, n)
  /\ W.partner[s] # None => W.partner[W.partner[s]] = s
  /\ Shuts(W, X, s) \/ \E m \in Sent : /\ HangsOff(W, X, s, m)
                                        /\ s \in W.calling /\ m.call = W.sCall[s]

(***************************************************************************)
(* An operation of the session s that changes no other session.            *)
(***************************************************************************)
Operates(s, m) ==
  /\ ServerOnly /\ s \in sessionList /\ up[s] # << >> /\ m = Head(up[s])
  /\ up' = [up EXCEPT ![s] = Tail(@)]

Alone(s) ==
  /\ sessionList' = sessionList
  /\ \A u \in Session : u # s =>
       /\ sState'[u] = sState[u] /\ callingSession'[u] = callingSession[u]
       /\ sCall'[u] = sCall[u]

Tells(t, n) ==
  /\ down'[t] = Append(down[t], n)
  /\ \A u \in Session : u # t => down'[u] = down[u]

PartyOf(s, m, op) ==
  \/ /\ op # "CALL_RESPONSE" /\ sCall'[s] = sCall[s]
     /\ callingSession'[s] \in {callingSession[s], None}
  \/ /\ m.op = "CALL_TO" /\ sCall'[s] = m.call
     /\ callingSession'[s] \in sessionList /\ callingSession'[s] # s

Speaks(s, m) ==
  \/ m.op \in {"CALL_ACCEPT", "CALL_OFF"} /\ down' = down /\ PartyOf(s, m, m.op)
  \/ \E n \in Sent : Gives(m, n) /\ Tells(s, n) /\ PartyOf(s, m, n.op)

(***************************************************************************)
(* A session s leaves its call, or is closed.                              *)
(***************************************************************************)
Left(s, after, queues) ==
  /\ sState'[s] = after /\ callingSession'[s] = None /\ sCall'[s] = 0
  /\ down'[s] = queues[s]
  /\ \A u \in Session : u \notin {s, callingSession[s]} =>
       /\ sState'[u] = sState[u] /\ callingSession'[u] = callingSession[u]
       /\ sCall'[u] = sCall[u] /\ down'[u] = queues[u]
  /\ callingSession[s] # None =>
       /\ callingSession[s] \in Session
       /\ sState'[callingSession[s]] = "STARTED"
       /\ callingSession'[callingSession[s]] = None
       /\ sCall'[callingSession[s]] = 0
       /\ down'[callingSession[s]] =
            Append(queues[callingSession[s]], Plain("CALL_OFF", sCall[s]))

\* The sessions that the server serves have not ended.
Serving == \A s \in sessionList : sState[s] # "ENDED"

(***************************************************************************)
(* Every step.                                                             *)
(***************************************************************************)
\* Without a client nothing happens, and there is nobody to have dialled a call.
AgreedInv ==
  /\ ProtocolInv /\ Running /\ Serving
  /\ Client # {} => ProtocolAgreed

(***************************************************************************)
(* The voice keys on their way.                                            *)
(***************************************************************************)
\* What carries a key, up and down.
Said == {"CALL_TO2", "CALL_ACCEPT"}
Told == {"CALLED_FROM", "CALL_ACCEPT"}
Keyed == All(Said \cup Told)
Foreign(ops, k, key) == {m \in Of(ops, k) : m.secret.key # key}

\* Nothing with a key has come to q that was not in p.
Fewer(q, p) == \A M : M \subseteq Keyed /\ Has(q, M) => Has(p, M)

Talking == {"RECEIVEDCALL", "CALLING"}

\* What a client says of its call carries the key that it decodes with.
SendsItsKey(c) ==
  Now(c) \in sessionList /\ call[c] # 0 =>
    ~ Has(UpOf(c), Foreign(Said, call[c], myAESVoiceCrypto[c]))

\* The server has c and d in a call with each other that d is in.
Joined(c, d) ==
  /\ Now(c) \in sessionList /\ Now(d) \in sessionList /\ Mutual(c, d)
  /\ call[d] # 0 /\ sCall[Now(c)] = call[d] /\ sCall[Now(d)] = call[d]

\* Then what c is told carries the key of d, and if c talks it has that key.
HearsKeyOf(c, d) ==
  Joined(c, d) =>
    /\ ~ Has(DownOf(c), Foreign(Told, call[d], myAESVoiceCrypto[d]))
    /\ call[c] = call[d] /\ state[c] \in Talking =>
         otherAESCrypto[c] = myAESVoiceCrypto[d] /\ otherAESCrypto[c] # None

KeysKept == \A c \in Client : SendsItsKey(c) /\ \A d \in Client : HearsKeyOf(c, d)
KeyInv == ~ overtaken => KeysKept

DialsAtRest == Rest /\ \E c \in Client : \E number \in Client \cup {None} : Dial(c, number)

\* A step of c changes the keys of no other client.
OwnKeys(c) ==
  \A d \in Client : d # c => /\ myAESVoiceCrypto'[d] = myAESVoiceCrypto[d]
                             /\ otherAESCrypto'[d] = otherAESCrypto[d]

\* The calls that the server has sessions in are those of before.
SameCalls ==
  /\ sessionList' \subseteq sessionList
  /\ \A u \in Session : sState'[u] = "CALLING" =>
       sState[u] = "CALLING" /\ callingSession'[u] = callingSession[u] /\ sCall'[u] = sCall[u]
=============================================================================
