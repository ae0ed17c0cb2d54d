------------------------------ MODULE Registry ------------------------------
(***************************************************************************)
(* How the server finds a user: the table of keys and telephone numbers in *)
(* its database, and the maps from keys and numbers to the sessions that   *)
(* have logged in with them.  Several handlers log in users, give them     *)
(* other numbers and, with the monitor, close their sessions, without a    *)
(* lock; the Session objects keep the key and the number of their last     *)
(* user.  A step is one statement of the database or one access to a map.  *)
(***************************************************************************)
EXTENDS Naturals

CONSTANTS Session,      \* the Session objects of the pool
          Client, Key, Number,
          Monitor,      \* the ConnectionMonitor thread
          None          \* Java's null

Thread == Session \cup {Monitor}    \* a session stands for its handler

ASSUME NoneAssumption ==
  /\ None \notin Session \cup Client \cup Key \cup Number \cup {"absent", "none", "null"}
  /\ Monitor \notin Session /\ Number \cap {"absent", "none", "null"} = {}

VARIABLES
  db,                       \* phoneNumber of each key's row of phoneNumberAlloc
  sessionMapByPrankKey, sessionMapByPhoneNumber,
  prankKey, phoneNumber,    \* Session.sessionInfo
  inUse,                    \* sessions out of the pool
  invalidSessionQueue,      \* the sessions in ConnectionMonitor's queue
  at,                       \* where the operation of each session is
  newPhoneNumber,           \* what it has drawn
  closing,                  \* which session each thread closes, and where it is
  owner,                    \* the client each session was accepted for
  myKey,                    \* the key each client has stored
  latest,                   \* the session of each client's last connection
  told,                     \* history: sessions that have got a number since accepted
  crossed,                  \* history: sessions closed in the middle of an operation
  disturbed,                \* history: keys to which happened what the code assumes does not
  forgotten                 \* history: keys whose session the map has lost

maps == <<sessionMapByPrankKey, sessionMapByPhoneNumber>>
info == <<prankKey, phoneNumber>>
clients == <<owner, myKey, latest>>
history == <<told, crossed, disturbed, forgotten>>
vars == <<db, maps, info, inUse, invalidSessionQueue, at, newPhoneNumber, closing, clients,
          history>>

\* A key has no row, or a row without a number; "null" is what the UPDATE of a
\* number that was not drawn stores.
Absent == "absent"
NoNumber == "none"
Idle == [s |-> None, step |-> "idle", number |-> None]

\* The server starts; clients may have keys and numbers of an earlier run, or a key
\* that the database has lost.
Init ==
  /\ db \in [Key -> {Absent, "null"} \cup Number]
  /\ \A j, k \in Key : db[j] = db[k] => j = k \/ db[j] = Absent
  /\ sessionMapByPrankKey = [k \in Key |-> None]
  /\ sessionMapByPhoneNumber = [n \in Number |-> None]
  /\ prankKey = [s \in Session |-> None]
  /\ phoneNumber = [s \in Session |-> None]
  /\ inUse = {}
  /\ invalidSessionQueue = {}
  /\ at = [s \in Session |-> "closed"]
  /\ newPhoneNumber = [s \in Session |-> None]
  /\ closing = [t \in Thread |-> Idle]
  /\ owner = [s \in Session |-> None]
  /\ myKey \in [Client -> Key \cup {None}]
  /\ \A c, d \in Client : myKey[c] = myKey[d] => c = d \/ myKey[c] = None
  /\ \A k \in Key : db[k] # Absent => \E c \in Client : myKey[c] = k
  /\ latest = [c \in Client |-> None]
  /\ told = {} /\ crossed = {} /\ disturbed = {} /\ forgotten = {}

Goto(s, l) == at' = [at EXCEPT ![s] = l]
Return(s) == Goto(s, IF s \in inUse THEN "idle" ELSE "closed")
Busy(s) == at[s] \notin {"closed", "login", "invalidKey", "idle"}
BeingClosed(s) == \E t \in Thread : closing[t].s = s

\* What the operations of one key, and the closings of its sessions, assume: that
\* they come one after the other.
Alone(s, k) ==
  \A x \in Session \ {s} : prankKey[x] = k => ~ Busy(x) /\ ~ BeingClosed(x)

\* And in the order in which the client sent them: none of a former connection after
\* one of the last.
InOrder(s) == LET now == latest[owner[s]] IN now = s \/ at[now] = "login"

-----------------------------------------------------------------------------
\* SessionManager.accept: a client connects, perhaps again; init keeps prankKey and
\* phoneNumber.  What the client has sent over its former connection may be waiting.
Accept(c, s) ==
  /\ s \notin inUse /\ at[s] = "closed"
  /\ inUse' = inUse \cup {s}
  /\ owner' = [owner EXCEPT ![s] = c]
  /\ latest' = [latest EXCEPT ![c] = s]
  /\ told' = told \ {s}
  /\ Goto(s, "login")
  /\ UNCHANGED <<db, maps, info, invalidSessionQueue, newPhoneNumber, closing, myKey,
                 crossed, disturbed, forgotten>>

\* An operation of session s begins, with key k.
Begins(s, k) ==
  /\ s \in inUse /\ closing[s] = Idle
  /\ crossed' = IF BeingClosed(s) THEN crossed \cup {s} ELSE crossed
  /\ disturbed' = IF BeingClosed(s) \/ ~ Alone(s, k) \/ ~ InOrder(s)
                  THEN disturbed \cup {k} ELSE disturbed

\* GET_NEWPRANKKEY: the client has no key, or one that the server does not know.
\* makeNewPrankKey draws a key that has no row and inserts it.
GET_NEWPRANKKEY(s) ==
  /\ \/ at[s] = "login" /\ myKey[owner[s]] = None
     \/ at[s] = "invalidKey" /\ latest[owner[s]] = s
  /\ \E k \in Key :
       /\ db[k] = Absent /\ \A c \in Client : myKey[c] # k
       /\ Begins(s, k)
       /\ db' = [db EXCEPT ![k] = NoNumber]
       /\ prankKey' = [prankKey EXCEPT ![s] = k]
  /\ Goto(s, "putNewKey")
  /\ UNCHANGED <<maps, phoneNumber, inUse, invalidSessionQueue, newPhoneNumber, closing,
                 clients, told, forgotten>>

PutNewKey(s) ==
  /\ at[s] = "putNewKey"
  /\ sessionMapByPrankKey' = [sessionMapByPrankKey EXCEPT ![prankKey[s]] = s]
  /\ Goto(s, "drawOther")
  /\ UNCHANGED <<db, sessionMapByPhoneNumber, info, inUse, invalidSessionQueue,
                 newPhoneNumber, closing, clients, history>>

\* PUT_PRANKKEY: the client logs in with the key it has.  It does so once in a connection,
\* from OnVersionOK, which answers the one VERSION_OK of the handshake; the server itself
\* would take another.
PUT_PRANKKEY(s) ==
  /\ at[s] = "login" /\ myKey[owner[s]] # None
  /\ LET k == myKey[owner[s]] IN
       /\ Begins(s, k)
       /\ prankKey' = [prankKey EXCEPT ![s] = k]
       /\ IF db[k] \in Number
          THEN /\ phoneNumber' = [phoneNumber EXCEPT ![s] = db[k]]
               /\ Goto(s, "putNumber")
          ELSE /\ Goto(s, IF db[k] = "null" THEN "drawFirst" ELSE "invalidKey")
               /\ UNCHANGED phoneNumber
  /\ UNCHANGED <<db, maps, inUse, invalidSessionQueue, newPhoneNumber, closing, clients,
                 told, forgotten>>

\* GET_NEWPHONENUMBER
GET_NEWPHONENUMBER(s) ==
  /\ at[s] = "idle"
  /\ Begins(s, prankKey[s])
  /\ Goto(s, "drawOther")
  /\ UNCHANGED <<db, maps, info, inUse, invalidSessionQueue, newPhoneNumber, closing,
                 clients, told, forgotten>>

Drawing == [drawOther |-> "storeOther", drawFirst |-> "storeFirst"]

\* (without looking whether somebody has it: for the mutation of Draw)
DrawAny(s) ==
  /\ at[s] \in DOMAIN Drawing
  /\ \E n \in Number : newPhoneNumber' = [newPhoneNumber EXCEPT ![s] = n]
  /\ Goto(s, Drawing[at[s]])
  /\ UNCHANGED <<db, maps, info, inUse, invalidSessionQueue, closing, clients, history>>

\* allocNewPhoneNumber draws until nobody has what was drawn.  When the first draw
\* is negative, continue goes to that test with null, which it takes for a number.
Draw(s) ==
  /\ at[s] \in DOMAIN Drawing
  /\ \E n \in Number \cup {"null"} :
       /\ \A k \in Key : db[k] # n
       /\ newPhoneNumber' = [newPhoneNumber EXCEPT ![s] = n]
  /\ Goto(s, Drawing[at[s]])
  /\ UNCHANGED <<db, maps, info, inUse, invalidSessionQueue, closing, clients, history>>

\* The client stores a new key when the message arrives, unless it has gone.
Learn(s) ==
  myKey' \in {myKey, IF latest[owner[s]] = s
                     THEN [myKey EXCEPT ![owner[s]] = prankKey[s]] ELSE myKey}

\* Another key has the number too, a session of another key still has it or has drawn
\* it, or a thread is about to remove its entry.
Carried(n, k) ==
  \/ \E j \in Key \ {k} : db[j] = n
  \/ \E x \in Session : prankKey[x] # k /\ n \in {phoneNumber[x], newPhoneNumber[x]}
  \/ \E t \in Thread : closing[t].number = n

\* (without the test for null: for the mutation of Store)
StoreUntested(s) ==
  /\ at[s] \in {"storeOther", "storeFirst"}
  /\ db' = [db EXCEPT ![prankKey[s]] = newPhoneNumber[s]]
  /\ IF at[s] = "storeOther"
     THEN Goto(s, "removeNumber") /\ UNCHANGED phoneNumber
     ELSE Goto(s, "putFirst") /\ phoneNumber' = [phoneNumber EXCEPT ![s] = newPhoneNumber[s]]
  /\ UNCHANGED <<maps, prankKey, inUse, invalidSessionQueue, newPhoneNumber, closing,
                 clients, history>>

\* allocPhoneNumber updates the row of the key, and the operation returns when no
\* number was drawn.  Disturbed: that replaces a number by none, or somebody else is
\* not done with the number, which a former row gave to him or which both have drawn.
Store(s) ==
  /\ at[s] \in {"storeOther", "storeFirst"}
  /\ LET n == newPhoneNumber[s]
         k == prankKey[s] IN
       /\ db' = [db EXCEPT ![k] = n]
       /\ disturbed' = IF n = "null" \/ Carried(n, k) THEN disturbed \cup {k} ELSE disturbed
       /\ IF n = "null"
          THEN Learn(s) /\ Return(s) /\ UNCHANGED phoneNumber
          ELSE /\ UNCHANGED myKey
               /\ IF at[s] = "storeOther"
                  THEN Goto(s, "removeNumber") /\ UNCHANGED phoneNumber
                  ELSE /\ Goto(s, "putFirst")
                       /\ phoneNumber' = [phoneNumber EXCEPT ![s] = n]
  /\ UNCHANGED <<maps, prankKey, inUse, invalidSessionQueue, newPhoneNumber, closing, owner,
                 latest, told, crossed, forgotten>>

Without(n) == [m \in Number |-> IF m = n THEN None ELSE sessionMapByPhoneNumber[m]]

\* (the entry stays: for the mutation of RemoveNumber)
KeepNumber(s) ==
  /\ at[s] = "removeNumber"
  /\ phoneNumber' = [phoneNumber EXCEPT ![s] = newPhoneNumber[s]]
  /\ Goto(s, "putOther")
  /\ UNCHANGED <<db, maps, prankKey, inUse, invalidSessionQueue, newPhoneNumber, closing,
                 clients, history>>

\* The entry of the number that the session has had is removed.  Disturbed: it is
\* the number of the session's former user, which init has left there.
RemoveNumber(s) ==
  /\ at[s] = "removeNumber"
  /\ sessionMapByPhoneNumber' = Without(phoneNumber[s])
  /\ disturbed' = IF s \in told THEN disturbed
                  ELSE disturbed \cup {k \in Key \ {prankKey[s]} : db[k] = phoneNumber[s]}
  /\ phoneNumber' = [phoneNumber EXCEPT ![s] = newPhoneNumber[s]]
  /\ Goto(s, "putOther")
  /\ UNCHANGED <<db, sessionMapByPrankKey, prankKey, inUse, invalidSessionQueue,
                 newPhoneNumber, closing, clients, told, crossed, forgotten>>

\* The session is found under its number, and the client gets PUT_PHONENUMBER.  A
\* login without a number does not enter its key.
PutNumber(s) ==
  /\ at[s] \in {"putNumber", "putFirst", "putOther"}
  /\ sessionMapByPhoneNumber' = [sessionMapByPhoneNumber EXCEPT ![phoneNumber[s]] = s]
  /\ told' = told \cup {s}
  /\ IF at[s] = "putNumber" THEN Goto(s, "getKey") /\ UNCHANGED myKey
                            ELSE Return(s) /\ Learn(s)
  /\ forgotten' = IF at[s] = "putFirst" THEN forgotten \cup {prankKey[s]} ELSE forgotten
  /\ UNCHANGED <<db, sessionMapByPrankKey, info, inUse, invalidSessionQueue, newPhoneNumber,
                 closing, owner, latest, crossed, disturbed>>

\* (nobody is to be closed: for the mutation of GetKey)
SkipKey(s) ==
  /\ at[s] = "getKey"
  /\ Goto(s, "putKey")
  /\ UNCHANGED <<db, maps, info, inUse, invalidSessionQueue, newPhoneNumber, closing,
                 clients, history>>

\* PUT_PRANKKEY: whoever has logged in with the key before is to be closed.
GetKey(s) ==
  /\ at[s] = "getKey"
  /\ invalidSessionQueue' = invalidSessionQueue
       \cup ({sessionMapByPrankKey[prankKey[s]]} \ {None})
  /\ Goto(s, "putKey")
  /\ UNCHANGED <<db, maps, info, inUse, newPhoneNumber, closing, clients, history>>

PutKey(s) ==
  /\ at[s] = "putKey"
  /\ sessionMapByPrankKey' = [sessionMapByPrankKey EXCEPT ![prankKey[s]] = s]
  /\ Return(s)
  /\ UNCHANGED <<db, sessionMapByPhoneNumber, info, inUse, invalidSessionQueue,
                 newPhoneNumber, closing, clients, history>>

-----------------------------------------------------------------------------
\* closeSession, for BYE on the session's handler, or on the monitor for a session
\* that is queued or has been silent too long.  OnClose removes the key's entry.
CloseSession(t, s) ==
  /\ closing[t] = Idle
  /\ \/ t = s /\ s \in inUse /\ at[s] = "idle"
     \/ t = Monitor /\ s \in inUse \cup invalidSessionQueue
  /\ closing' = [closing EXCEPT ![t] = [s |-> s, step |-> "compare", number |-> None]]
  /\ invalidSessionQueue' = IF t = Monitor THEN invalidSessionQueue \ {s}
                                           ELSE invalidSessionQueue
  /\ LET k == prankKey[s] IN
       /\ sessionMapByPrankKey' = [j \in Key |-> IF j = k THEN None ELSE sessionMapByPrankKey[j]]
       /\ forgotten' = IF k # None /\ sessionMapByPrankKey[k] \notin {s, None}
                       THEN forgotten \cup {k} ELSE forgotten
       /\ disturbed' = IF k # None /\ (Busy(s) \/ BeingClosed(s) \/ ~ Alone(s, k))
                       THEN disturbed \cup {k} ELSE disturbed
  /\ crossed' = IF Busy(s) THEN crossed \cup {s} ELSE crossed
  /\ UNCHANGED <<db, sessionMapByPhoneNumber, info, inUse, at, newPhoneNumber, clients, told>>

\* The session goes back to the pool, and is not taken from it again before the
\* operation that is going on has returned.
deallocate(t, s) ==
  /\ inUse' = inUse \ {s}
  /\ at' = IF Busy(s) THEN at ELSE [at EXCEPT ![s] = "closed"]
  /\ closing' = [closing EXCEPT ![t] = Idle]

\* (removes the entry without comparing: for the mutation of Compare)
CompareNot(t) ==
  /\ closing[t].step = "compare"
  /\ closing' = [closing EXCEPT ![t].step = "remove",
                                ![t].number = phoneNumber[closing[t].s]]
  /\ UNCHANGED <<inUse, at>>
  /\ UNCHANGED <<db, maps, info, invalidSessionQueue, newPhoneNumber, clients, history>>

\* Is the session found under its number?
Compare(t) ==
  /\ closing[t].step = "compare"
  /\ LET s == closing[t].s
         n == phoneNumber[s] IN
       IF n # None /\ sessionMapByPhoneNumber[n] = s
       THEN /\ closing' = [closing EXCEPT ![t].step = "remove", ![t].number = n]
            /\ UNCHANGED <<inUse, at>>
       ELSE deallocate(t, s)
  /\ UNCHANGED <<db, maps, info, invalidSessionQueue, newPhoneNumber, clients, history>>

\* Then nobody is any more.
Remove(t) ==
  /\ closing[t].step = "remove"
  /\ sessionMapByPhoneNumber' = Without(closing[t].number)
  /\ deallocate(t, closing[t].s)
  /\ UNCHANGED <<db, sessionMapByPrankKey, info, invalidSessionQueue, newPhoneNumber,
                 clients, history>>

-----------------------------------------------------------------------------
Request(s) == GET_NEWPRANKKEY(s) \/ PUT_PRANKKEY(s) \/ GET_NEWPHONENUMBER(s)

Step(s) ==
  \/ PutNewKey(s) \/ Draw(s) \/ Store(s) \/ RemoveNumber(s)
  \/ PutNumber(s) \/ GetKey(s) \/ PutKey(s)

Next ==
  \/ \E c \in Client, s \in Session : Accept(c, s)
  \/ \E s \in Session : Request(s) \/ Step(s)
  \/ \E t \in Thread, s \in Session : CloseSession(t, s)
  \/ \E t \in Thread : Compare(t) \/ Remove(t)

Spec == Init /\ [][Next]_vars

-----------------------------------------------------------------------------
Labels == {"closed", "login", "invalidKey", "idle", "putNewKey", "drawOther", "drawFirst",
           "storeOther", "storeFirst", "removeNumber", "putNumber", "putFirst", "putOther",
           "getKey", "putKey"}

\* Every variable has the type of the field it stands for.
TypeOK ==
  /\ db \in [Key -> {Absent, NoNumber, "null"} \cup Number]
  /\ sessionMapByPrankKey \in [Key -> Session \cup {None}]
  /\ sessionMapByPhoneNumber \in [Number -> Session \cup {None}]
  /\ prankKey \in [Session -> Key \cup {None}]
  /\ phoneNumber \in [Session -> Number \cup {None}]
  /\ inUse \subseteq Session
  /\ invalidSessionQueue \subseteq Session
  /\ at \in [Session -> Labels]
  /\ newPhoneNumber \in [Session -> Number \cup {"null", None}]
  /\ closing \in [Thread -> [s : Session \cup {None}, step : {"idle", "compare", "remove"},
                             number : Number \cup {None}]]
  /\ owner \in [Session -> Client \cup {None}]
  /\ myKey \in [Client -> Key \cup {None}]
  /\ latest \in [Client -> Session \cup {None}]
  /\ told \subseteq Session /\ crossed \subseteq Session
  /\ disturbed \subseteq Key /\ forgotten \subseteq Key

\* Who dials a number never reaches a session that has another number, or none: the
\* session found under a number is in use and has this number.  Except a session
\* that was closed in the middle of an operation, which enters it afterwards.
FoundUnderOwnNumber ==
  \A n \in Number :
    LET s == sessionMapByPhoneNumber[n] IN
      s \notin crossed \cup {None} => s \in inUse /\ phoneNumber[s] = n

\* The session s of a client's last connection has logged in, and nothing happens
\* to it or to another session with its key.
Settled(s) ==
  /\ s \in inUse \cap told /\ at[s] = "idle" /\ latest[owner[s]] = s
  /\ ~ BeingClosed(s) /\ Alone(s, prankKey[s])

\* A client that has logged in is found under the number that the database has for
\* its key, and its session under the key, whatever becomes of its former sessions
\* and of those of others.  Except after two operations or closings for its key at
\* once, or what Store and RemoveNumber name; and a former session that is closed
\* takes the entry of the key away from it.
LoggedInIsFound ==
  \A c \in Client :
    LET s == latest[c] IN
      s # None =>
        LET k == prankKey[s] IN
          Settled(s) /\ k \notin disturbed =>
            /\ db[k] = phoneNumber[s] /\ sessionMapByPhoneNumber[phoneNumber[s]] = s
            /\ k \in forgotten \/ sessionMapByPrankKey[k] = s

\* A client's former session does not stay behind unnoticed: while the client is
\* logged in again, it waits to be closed.  Except when the entry of the key was
\* lost with yet another session, or never made: then only its silence ends it.
FormerIsInvalid ==
  \A c \in Client :
    \A s \in (inUse \cap told) \ {latest[c]} :
      LET now == latest[c] IN
        (/\ now # None /\ prankKey[now] = prankKey[s] /\ Settled(now)
         /\ prankKey[s] \notin disturbed \cup forgotten)
          => s \in invalidSessionQueue \/ BeingClosed(s)
=============================================================================
