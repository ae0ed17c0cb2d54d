---------------------------- MODULE RegistryProofs ----------------------------
(***************************************************************************)
(* Proofs about Registry, for any number of sessions, clients, keys and    *)
(* numbers.                                                                *)
(*                                                                         *)
(* A session that was never closed in the middle of an operation is        *)
(* entered under its own number only: while an operation goes on nobody    *)
(* closes it, so its number changes only after the entry of the former one *)
(* was removed, or before there was one; and who closes it compares and    *)
(* removes the number that it still has (IInv).                            *)
(*                                                                         *)
(* As long as what happens to a key comes one after the other, the client  *)
(* that has it is found, and its former sessions wait to be closed (KInv,  *)
(* in the second half).                                                    *)
(***************************************************************************)
EXTENDS Registry, TLAPS

USE NoneAssumption DEF Thread, Goto, Idle, Absent, NoNumber, Labels, Busy

TypeInv ==
  /\ TypeOK
  /\ \A s \in Session :
       /\ at[s] # "closed" => owner[s] \in Client
       /\ at[s] \notin {"closed", "login", "invalidKey"} => prankKey[s] \in Key
       /\ at[s] \in {"storeOther", "storeFirst"} => newPhoneNumber[s] # None
       /\ at[s] = "removeNumber" => newPhoneNumber[s] \in Number
       /\ at[s] \in {"putNumber", "putFirst", "putOther"} => phoneNumber[s] \in Number
  /\ \A t \in Thread :
       /\ closing[t].step # "idle" => closing[t].s \in Session
       /\ closing[t].step = "remove" => closing[t].number \in Number

NoEntry(s) == \A n \in Number : sessionMapByPhoneNumber[n] # s

\* It is entered under its number, if at all.
Entered(s) ==
  \A n \in Number : sessionMapByPhoneNumber[n] = s => s \in inUse /\ phoneNumber[s] = n

\* Nobody closes it in the middle of an operation.
Undisturbed(s) == Busy(s) => s \in inUse /\ ~ BeingClosed(s)

\* Where it is given a number without looking for a former one, it is not entered.
First(s) == at[s] \in {"login", "drawFirst", "storeFirst"} => NoEntry(s)

\* Who closes it removes the number it has.
Removing(s) ==
  \A t \in Thread :
    closing[t].s = s /\ closing[t].step = "remove" => closing[t].number = phoneNumber[s]

Life(s) == Entered(s) /\ Undisturbed(s) /\ First(s) /\ Removing(s)

\* The inductive invariant.
IInv == TypeInv /\ \A s \in Session \ crossed : Life(s)

-----------------------------------------------------------------------------
\* Every step keeps the types.
LEMMA AcceptTyped ==
  ASSUME TypeInv, NEW c \in Client, NEW s \in Session, Accept(c, s)
  PROVE  TypeInv'
<1>1. TypeOK'
  BY DEF TypeInv, TypeOK, Accept, maps, info
<1>2. QED
  BY <1>1 DEF TypeInv, TypeOK, Accept, info

LEMMA GET_NEWPRANKKEYTyped ==
  ASSUME TypeInv, NEW s \in Session, GET_NEWPRANKKEY(s)
  PROVE  TypeInv'
<1>1. TypeOK'
  BY DEF TypeInv, TypeOK, GET_NEWPRANKKEY, Begins, maps, clients
<1>2. QED
  BY <1>1 DEF TypeInv, TypeOK, GET_NEWPRANKKEY, clients

LEMMA PutNewKeyTyped ==
  ASSUME TypeInv, NEW s \in Session, PutNewKey(s)
  PROVE  TypeInv'
<1>1. TypeOK'
  BY DEF TypeInv, TypeOK, PutNewKey, info, clients, history
<1>2. QED
  BY <1>1 DEF TypeInv, PutNewKey, info, clients

LEMMA PUT_PRANKKEYTyped ==
  ASSUME TypeInv, NEW s \in Session, PUT_PRANKKEY(s)
  PROVE  TypeInv'
<1>0. at' \in [Session -> Labels] /\ phoneNumber' \in [Session -> Number \cup {None}]
  BY DEF TypeInv, TypeOK, PUT_PRANKKEY
<1>1. TypeOK'
  BY <1>0 DEF TypeInv, TypeOK, PUT_PRANKKEY, Begins, maps, clients
<1>2. QED
  BY <1>1 DEF TypeInv, TypeOK, PUT_PRANKKEY, clients

LEMMA GET_NEWPHONENUMBERTyped ==
  ASSUME TypeInv, NEW s \in Session, GET_NEWPHONENUMBER(s)
  PROVE  TypeInv'
<1>1. TypeOK'
  BY DEF TypeInv, TypeOK, GET_NEWPHONENUMBER, Begins, maps, info, clients
<1>2. QED
  BY <1>1 DEF TypeInv, GET_NEWPHONENUMBER, info, clients

LEMMA DrawTyped ==
  ASSUME TypeInv, NEW s \in Session, Draw(s)
  PROVE  TypeInv'
<1>1. TypeOK'
  BY DEF TypeInv, TypeOK, Draw, Drawing, maps, info, clients, history
<1>2. QED
  BY <1>1 DEF TypeInv, TypeOK, Draw, Drawing, info, clients

LEMMA StoreTyped ==
  ASSUME TypeInv, NEW s \in Session, Store(s)
  PROVE  TypeInv'
<1>1. TypeOK'
  BY DEF TypeInv, TypeOK, Store, Return, Learn, maps
<1>2. QED
  BY <1>1 DEF TypeInv, TypeOK, Store, Return

LEMMA RemoveNumberTyped ==
  ASSUME TypeInv, NEW s \in Session, RemoveNumber(s)
  PROVE  TypeInv'
<1>1. TypeOK'
  BY DEF TypeInv, TypeOK, RemoveNumber, Without, clients
<1>2. QED
  BY <1>1 DEF TypeInv, TypeOK, RemoveNumber, clients

LEMMA PutNumberTyped ==
  ASSUME TypeInv, NEW s \in Session, PutNumber(s)
  PROVE  TypeInv'
<1>1. TypeOK'
  BY DEF TypeInv, TypeOK, PutNumber, Return, Learn, info
<1>2. QED
  BY <1>1 DEF TypeInv, TypeOK, PutNumber, Return, info

LEMMA GetKeyTyped ==
  ASSUME TypeInv, NEW s \in Session, GetKey(s)
  PROVE  TypeInv'
<1>1. TypeOK'
  BY DEF TypeInv, TypeOK, GetKey, maps, info, clients, history
<1>2. QED
  BY <1>1 DEF TypeInv, GetKey, info, clients

LEMMA PutKeyTyped ==
  ASSUME TypeInv, NEW s \in Session, PutKey(s)
  PROVE  TypeInv'
<1>1. TypeOK'
  BY DEF TypeInv, TypeOK, PutKey, Return, info, clients, history
<1>2. QED
  BY <1>1 DEF TypeInv, PutKey, Return, info, clients

LEMMA CloseSessionTyped ==
  ASSUME TypeInv, NEW t \in Thread, NEW s \in Session, CloseSession(t, s)
  PROVE  TypeInv'
<1>1. TypeOK'
  BY DEF TypeInv, TypeOK, CloseSession, info, clients
<1>2. QED
  BY <1>1 DEF TypeInv, CloseSession, info, clients

LEMMA CompareTyped ==
  ASSUME TypeInv, NEW t \in Thread, Compare(t)
  PROVE  TypeInv'
<1>1. TypeOK'
  BY DEF TypeInv, TypeOK, Compare, deallocate, maps, info, clients, history
<1>2. QED
  BY <1>1 DEF TypeInv, TypeOK, Compare, deallocate, info, clients

LEMMA RemoveTyped ==
  ASSUME TypeInv, NEW t \in Thread, Remove(t)
  PROVE  TypeInv'
<1>1. TypeOK'
  BY DEF TypeInv, TypeOK, Remove, deallocate, Without, info, clients, history
<1>2. QED
  BY <1>1 DEF TypeInv, Remove, deallocate, info, clients

-----------------------------------------------------------------------------
\* And what is said of each session that is not crossed.
LEMMA AcceptLives ==
  ASSUME TypeInv, NEW c \in Client, NEW s \in Session, Accept(c, s),
         NEW x \in Session, x \notin crossed', Life(x)
  PROVE  Life(x)'
<1>1. Entered(x)'
  BY DEF Accept, maps, info, Life, Entered
<1>2. Undisturbed(x)'
  BY DEF Accept, Life, Undisturbed, BeingClosed
<1>3. First(x)'
  BY DEF Accept, maps, Life, Entered, First, NoEntry
<1>4. Removing(x)'
  BY DEF Accept, info, Life, Removing
<1>5. QED
  BY <1>1, <1>2, <1>3, <1>4 DEF Life

LEMMA GET_NEWPRANKKEYLives ==
  ASSUME TypeInv, NEW s \in Session, GET_NEWPRANKKEY(s),
         NEW x \in Session, x \notin crossed', Life(x)
  PROVE  Life(x)'
<1>1. Entered(x)'
  BY DEF GET_NEWPRANKKEY, maps, Life, Entered
<1>2. Undisturbed(x)'
  BY DEF GET_NEWPRANKKEY, Begins, Life, Undisturbed, BeingClosed
<1>3. First(x)'
  BY DEF GET_NEWPRANKKEY, maps, Life, First, NoEntry
<1>4. Removing(x)'
  BY DEF GET_NEWPRANKKEY, Life, Removing
<1>5. QED
  BY <1>1, <1>2, <1>3, <1>4 DEF Life

LEMMA PutNewKeyLives ==
  ASSUME TypeInv, NEW s \in Session, PutNewKey(s),
         NEW x \in Session, x \notin crossed', Life(x)
  PROVE  Life(x)'
<1>1. Entered(x)'
  BY DEF PutNewKey, info, Life, Entered
<1>2. Undisturbed(x)'
  BY DEF PutNewKey, Life, Undisturbed, BeingClosed
<1>3. First(x)'
  BY DEF PutNewKey, Life, First, NoEntry
<1>4. Removing(x)'
  BY DEF PutNewKey, info, Life, Removing
<1>5. QED
  BY <1>1, <1>2, <1>3, <1>4 DEF Life

LEMMA PUT_PRANKKEYLives ==
  ASSUME TypeInv, NEW s \in Session, PUT_PRANKKEY(s),
         NEW x \in Session, x \notin crossed', Life(x)
  PROVE  Life(x)'
<1>1. Entered(x)'
  BY DEF TypeInv, TypeOK, PUT_PRANKKEY, maps, Life, Entered, First, NoEntry
<1>2. Undisturbed(x)'
  BY DEF TypeInv, TypeOK, PUT_PRANKKEY, Begins, Life, Undisturbed, BeingClosed
<1>3. First(x)'
  BY DEF TypeInv, TypeOK, PUT_PRANKKEY, maps, Life, First, NoEntry
<1>4. Removing(x)'
  BY DEF TypeInv, TypeOK, PUT_PRANKKEY, Begins, Life, Removing, BeingClosed
<1>5. QED
  BY <1>1, <1>2, <1>3, <1>4 DEF Life

LEMMA GET_NEWPHONENUMBERLives ==
  ASSUME TypeInv, NEW s \in Session, GET_NEWPHONENUMBER(s),
         NEW x \in Session, x \notin crossed', Life(x)
  PROVE  Life(x)'
<1>1. Entered(x)'
  BY DEF GET_NEWPHONENUMBER, maps, info, Life, Entered
<1>2. Undisturbed(x)'
  BY DEF GET_NEWPHONENUMBER, Begins, Life, Undisturbed, BeingClosed
<1>3. First(x)'
  BY DEF GET_NEWPHONENUMBER, maps, Life, First, NoEntry
<1>4. Removing(x)'
  BY DEF GET_NEWPHONENUMBER, info, Life, Removing
<1>5. QED
  BY <1>1, <1>2, <1>3, <1>4 DEF Life

LEMMA DrawLives ==
  ASSUME TypeInv, NEW s \in Session, Draw(s),
         NEW x \in Session, x \notin crossed', Life(x)
  PROVE  Life(x)'
<1>1. Entered(x)'
  BY DEF Draw, maps, info, Life, Entered
<1>2. Undisturbed(x)'
  BY DEF Draw, Drawing, Life, Undisturbed, BeingClosed
<1>3. First(x)'
  BY DEF Draw, Drawing, maps, Life, First, NoEntry
<1>4. Removing(x)'
  BY DEF Draw, info, Life, Removing
<1>5. QED
  BY <1>1, <1>2, <1>3, <1>4 DEF Life

LEMMA StoreLives ==
  ASSUME TypeInv, NEW s \in Session, Store(s),
         NEW x \in Session, x \notin crossed', Life(x)
  PROVE  Life(x)'
<1>1. Entered(x)'
  BY DEF TypeInv, TypeOK, Store, maps, Life, Entered, First, NoEntry
<1>2. Undisturbed(x)'
  BY DEF TypeInv, TypeOK, Store, Return, Life, Undisturbed, BeingClosed
<1>3. First(x)'
  BY DEF TypeInv, TypeOK, Store, Return, maps, Life, First, NoEntry
<1>4. Removing(x)'
  BY DEF TypeInv, TypeOK, Store, Life, Undisturbed, Removing, BeingClosed
<1>5. QED
  BY <1>1, <1>2, <1>3, <1>4 DEF Life

LEMMA RemoveNumberLives ==
  ASSUME TypeInv, NEW s \in Session, RemoveNumber(s),
         NEW x \in Session, x \notin crossed', Life(x)
  PROVE  Life(x)'
<1>1. Entered(x)'
  BY DEF RemoveNumber, Without, Life, Entered
<1>2. Undisturbed(x)'
  BY DEF RemoveNumber, Life, Undisturbed, BeingClosed
<1>3. First(x)'
  BY DEF RemoveNumber, Without, Life, First, NoEntry
<1>4. Removing(x)'
  BY DEF RemoveNumber, Life, Undisturbed, Removing, BeingClosed
<1>5. QED
  BY <1>1, <1>2, <1>3, <1>4 DEF Life

LEMMA PutNumberLives ==
  ASSUME TypeInv, NEW s \in Session, PutNumber(s),
         NEW x \in Session, x \notin crossed', Life(x)
  PROVE  Life(x)'
<1>1. Entered(x)'
  BY DEF PutNumber, info, Life, Entered, Undisturbed
<1>2. Undisturbed(x)'
  BY DEF TypeInv, TypeOK, PutNumber, Return, Life, Undisturbed, BeingClosed
<1>3. First(x)'
  BY DEF TypeInv, TypeOK, PutNumber, Return, Life, First, NoEntry
<1>4. Removing(x)'
  BY DEF PutNumber, info, Life, Removing
<1>5. QED
  BY <1>1, <1>2, <1>3, <1>4 DEF Life

LEMMA GetKeyLives ==
  ASSUME TypeInv, NEW s \in Session, GetKey(s),
         NEW x \in Session, x \notin crossed', Life(x)
  PROVE  Life(x)'
<1>1. Entered(x)'
  BY DEF GetKey, maps, info, Life, Entered
<1>2. Undisturbed(x)'
  BY DEF GetKey, Life, Undisturbed, BeingClosed
<1>3. First(x)'
  BY DEF GetKey, maps, Life, First, NoEntry
<1>4. Removing(x)'
  BY DEF GetKey, info, Life, Removing
<1>5. QED
  BY <1>1, <1>2, <1>3, <1>4 DEF Life

LEMMA PutKeyLives ==
  ASSUME TypeInv, NEW s \in Session, PutKey(s),
         NEW x \in Session, x \notin crossed', Life(x)
  PROVE  Life(x)'
<1>1. Entered(x)'
  BY DEF PutKey, info, Life, Entered
<1>2. Undisturbed(x)'
  BY DEF PutKey, Return, Life, Undisturbed, BeingClosed
<1>3. First(x)'
  BY DEF PutKey, Return, Life, First, NoEntry
<1>4. Removing(x)'
  BY DEF PutKey, info, Life, Removing
<1>5. QED
  BY <1>1, <1>2, <1>3, <1>4 DEF Life

LEMMA CloseSessionLives ==
  ASSUME TypeInv, NEW t \in Thread, NEW s \in Session, CloseSession(t, s),
         NEW x \in Session, x \notin crossed', Life(x)
  PROVE  Life(x)'
<1>1. Entered(x)'
  BY DEF CloseSession, info, Life, Entered
<1>2. Undisturbed(x)'
  BY DEF CloseSession, Life, Undisturbed, BeingClosed
<1>3. First(x)'
  BY DEF CloseSession, Life, First, NoEntry
<1>4. Removing(x)'
  BY DEF CloseSession, info, Life, Removing
<1>5. QED
  BY <1>1, <1>2, <1>3, <1>4 DEF Life

LEMMA CompareLives ==
  ASSUME TypeInv, NEW t \in Thread, Compare(t),
         NEW x \in Session, x \notin crossed', Life(x)
  PROVE  Life(x)'
<1>1. Entered(x)'
  BY DEF Compare, deallocate, maps, info, Life, Entered
<1>2. Undisturbed(x)'
  BY DEF TypeInv, TypeOK, Compare, deallocate, info, Life, Undisturbed, Removing, NoEntry,
      BeingClosed
<1>3. First(x)'
  BY DEF TypeInv, TypeOK, Compare, deallocate, maps, Life, First, NoEntry
<1>4. Removing(x)'
  BY DEF TypeInv, TypeOK, Compare, deallocate, info, Life, Removing
<1>5. QED
  BY <1>1, <1>2, <1>3, <1>4 DEF Life

LEMMA RemoveLives ==
  ASSUME TypeInv, NEW t \in Thread, Remove(t),
         NEW x \in Session, x \notin crossed', Life(x)
  PROVE  Life(x)'
<1>1. Entered(x)'
  BY DEF Remove, deallocate, Without, info, Life, Entered, Removing
<1>2. Undisturbed(x)'
  BY DEF Remove, deallocate, Life, Undisturbed, BeingClosed
<1>3. First(x)'
  BY DEF Remove, deallocate, Without, Life, First, NoEntry
<1>4. Removing(x)'
  BY DEF Remove, deallocate, info, Life, Removing
<1>5. QED
  BY <1>1, <1>2, <1>3, <1>4 DEF Life

-----------------------------------------------------------------------------
LEMMA InitialInv ==
  Init => IInv
<1> SUFFICES ASSUME Init  PROVE IInv
  OBVIOUS
<1>1. TypeInv
  BY DEF Init, TypeInv, TypeOK
<1>2. ASSUME NEW x \in Session  PROVE Life(x)
  BY DEF Init, Life, Entered, Undisturbed, First, Removing
<1>3. QED
  BY <1>1, <1>2 DEF IInv

\* A session that was closed in the middle of an operation remains one.
LEMMA CrossedGrows ==
  ASSUME [Next]_vars
  PROVE  crossed \subseteq crossed'
<1>1. ASSUME NEW s \in Session, Request(s)  PROVE crossed \subseteq crossed'
  BY <1>1 DEF Request, GET_NEWPRANKKEY, PUT_PRANKKEY, GET_NEWPHONENUMBER, Begins
<1>2. ASSUME NEW s \in Session, Step(s)  PROVE UNCHANGED crossed
  BY <1>2 DEF Step, PutNewKey, Draw, Store, RemoveNumber, PutNumber, GetKey, PutKey, history
<1>3. ASSUME NEW t \in Thread, NEW s \in Session, CloseSession(t, s)
      PROVE  crossed \subseteq crossed'
  BY <1>3 DEF CloseSession
<1>4. ASSUME NEW t \in Thread, Compare(t) \/ Remove(t)  PROVE UNCHANGED crossed
  BY <1>4 DEF Compare, Remove, history
<1>5. ASSUME NEW c \in Client, NEW s \in Session, Accept(c, s)  PROVE UNCHANGED crossed
  BY <1>5 DEF Accept
<1>6. ASSUME UNCHANGED vars  PROVE UNCHANGED crossed
  BY <1>6 DEF vars, history
<1>7. QED
  BY <1>1, <1>2, <1>3, <1>4, <1>5, <1>6 DEF Next

LEMMA StepTyped ==
  ASSUME TypeInv, Next
  PROVE  TypeInv'
  BY AcceptTyped, GET_NEWPRANKKEYTyped, PUT_PRANKKEYTyped, GET_NEWPHONENUMBERTyped,
     PutNewKeyTyped, DrawTyped, StoreTyped, RemoveNumberTyped, PutNumberTyped, GetKeyTyped,
     PutKeyTyped, CloseSessionTyped, CompareTyped, RemoveTyped DEF Next, Request, Step

LEMMA StepLives ==
  ASSUME TypeInv, Next, NEW x \in Session, x \notin crossed', Life(x)
  PROVE  Life(x)'
  BY AcceptLives, GET_NEWPRANKKEYLives, PUT_PRANKKEYLives, GET_NEWPHONENUMBERLives,
     PutNewKeyLives, DrawLives, StoreLives, RemoveNumberLives, PutNumberLives, GetKeyLives,
     PutKeyLives, CloseSessionLives, CompareLives, RemoveLives DEF Next, Request, Step

LEMMA Inductive ==
  ASSUME IInv, [Next]_vars
  PROVE  IInv'
<1>1. CASE Next
  <2>1. TypeInv'
    BY <1>1, StepTyped DEF IInv
  <2>2. ASSUME NEW x \in Session, x \notin crossed'  PROVE Life(x)'
    BY <1>1, <2>2, CrossedGrows, StepLives DEF IInv
  <2>3. QED
    BY <2>1, <2>2 DEF IInv
<1>2. CASE UNCHANGED vars
  <2>1. TypeInv'
    BY <1>2 DEF IInv, TypeInv, TypeOK, vars, maps, info, clients, history
  <2>2. ASSUME NEW x \in Session \ crossed'  PROVE Life(x)'
    BY <1>2 DEF IInv, Life, Entered, Undisturbed, First, Removing, NoEntry, BeingClosed,
        vars, maps, info, history
  <2>3. QED
    BY <2>1, <2>2 DEF IInv
<1>3. QED
  BY <1>1, <1>2

LEMMA Invariance == Spec => []IInv
<1>1. QED
  BY InitialInv, Inductive, PTL DEF Spec

\* Every field of the server, and the clients' keys, have their types.
THEOREM TypeCorrect == Spec => []TypeOK
<1>1. IInv => TypeOK
  BY DEF IInv, TypeInv
<1>2. QED
  BY <1>1, Invariance, PTL

\* Who dials a number reaches nobody who has another number, or none: what
\* sessionMapByPhoneNumber finds under a number is in use and has this number, or it
\* was closed in the middle of an operation.
THEOREM OwnNumber == Spec => []FoundUnderOwnNumber
<1>1. IInv => FoundUnderOwnNumber
  BY DEF IInv, TypeInv, TypeOK, Life, Entered, FoundUnderOwnNumber
<1>2. QED
  BY <1>1, Invariance, PTL
-----------------------------------------------------------------------------
(***************************************************************************)
(* Why a client that has logged in is found, and its former sessions are   *)
(* marked.  A key belongs to one client (Owners).  As long as what happens *)
(* to it comes one after the other, one session at a time is operating or  *)
(* being closed, and none behind the back of the client's last one         *)
(* (Turns).  Then the number of its row is nobody else's: whoever has      *)
(* another key neither has the number nor is about to get it or to remove  *)
(* its entry (Rows).  So the last session, wherever it is in its           *)
(* operation, has entered what it should have, and no other session takes  *)
(* that away (Places).                                                     *)
(***************************************************************************)
HIDE NoneAssumption

\* The server knows the key of the session's user.
Known(s) == at[s] \notin {"closed", "login", "invalidKey"}

\* The key then has a row, and a number once one was stored.
Rowed(s) ==
  /\ Known(s) => db[prankKey[s]] # Absent
  /\ at[s] \in {"removeNumber", "putOther", "putFirst"} => db[prankKey[s]] # NoNumber

\* The sessions with one key are one client's, and the key is his if anybody's.
OneOwner(s) ==
  Known(s) =>
    /\ \A c \in Client : myKey[c] = prankKey[s] => c = owner[s]
    /\ \A x \in Session : Known(x) /\ prankKey[x] = prankKey[s] => owner[x] = owner[s]

\* Who is told that the server does not know the key still has it.
Unknown(s) ==
  at[s] = "invalidKey" /\ latest[owner[s]] = s =>
    myKey[owner[s]] = prankKey[s] /\ db[prankKey[s]] = Absent

\* A new key is known to nobody else.
Fresh(s) ==
  at[s] = "putNewKey" =>
    /\ \A c \in Client : myKey[c] # prankKey[s]
    /\ \A x \in Session \ {s} : Known(x) => prankKey[x] # prankKey[s]

\* Where a session has not got a number since it was accepted, and where it has.
Before == {"login", "invalidKey", "putNewKey", "drawFirst", "storeFirst", "putFirst", "putNumber"}

Progress(s) ==
  /\ s \in inUse => at[s] # "closed"
  /\ at[s] \in Before => s \notin told
  /\ at[s] \in {"getKey", "putKey"} => s \in told

\* A client's key is nobody else's, and got its number before the client got it.
Kept(c) ==
  myKey[c] # None =>
    db[myKey[c]] # NoNumber /\ \A d \in Client : myKey[d] = myKey[c] => d = c

Owners ==
  /\ \A s \in Session : Rowed(s) /\ OneOwner(s) /\ Unknown(s) /\ Fresh(s) /\ Progress(s)
  /\ \A c \in Client : Kept(c)

\* Nothing has happened to the key of the session that the code assumes does not.
Sure(s) == prankKey[s] \in Key \ disturbed
Active(s) == Busy(s) \/ BeingClosed(s)

Single(s) ==
  Sure(s) /\ Active(s) => \A x \in Session : prankKey[x] = prankKey[s] /\ Active(x) => x = s

Uncrossed(s) == Sure(s) /\ Busy(s) => s \in inUse /\ ~ BeingClosed(s)

OneCloser(s) ==
  Sure(s) => \A t, u \in Thread : closing[t].s = s /\ closing[u].s = s => t = u

\* After the last session of a client has logged in, no former one is operating.
Last(s) ==
  Sure(s) /\ Known(s) /\ latest[owner[s]] = s =>
    \A x \in Session \ {s} : prankKey[x] = prankKey[s] => ~ Busy(x)

IdleTold(s) == Sure(s) /\ at[s] = "idle" => s \in told

Turns ==
  \A s \in Session : Single(s) /\ Uncrossed(s) /\ OneCloser(s) /\ Last(s) /\ IdleTold(s)

Numbered(k) == k \in Key \ disturbed /\ db[k] \in Number

OneRow(k) == Numbered(k) => \A j \in Key : db[j] = db[k] => j = k

\* The number is not where the session of another key would enter it or remove it from.
NotElsewhere(k) ==
  Numbered(k) =>
    \A x \in Session :
      prankKey[x] # k =>
        /\ x \in told \/ at[x] \in {"putNumber", "putFirst", "putOther"}
             => phoneNumber[x] # db[k]
        /\ at[x] \in {"storeOther", "storeFirst", "removeNumber"} => newPhoneNumber[x] # db[k]

\* Nor does a session that had it for a former user still have its entry,
EntryOf(k) ==
  Numbered(k) =>
    \A x \in Session :
      sessionMapByPhoneNumber[db[k]] = x /\ phoneNumber[x] = db[k] => prankKey[x] = k

\* and who is about to remove the entry closes the session that is entered.
RemovedOf(k) ==
  Numbered(k) =>
    \A t \in Thread, x \in Session :
      closing[t].s = x /\ closing[t].step = "remove" /\ closing[t].number = db[k] =>
        /\ prankKey[x] = k /\ sessionMapByPhoneNumber[db[k]] = x
        /\ at[x] \notin {"closed", "login"}

\* A session that was closed has left no entry of its number.
NoEntryLeft(s) ==
  Sure(s) /\ at[s] \in {"closed", "login"} /\ phoneNumber[s] \in Number =>
    sessionMapByPhoneNumber[phoneNumber[s]] # s

RemovesOwn(s) ==
  Sure(s) =>
    \A t \in Thread :
      closing[t].s = s /\ closing[t].step = "remove" => closing[t].number = phoneNumber[s]

Rows ==
  /\ \A k \in Key : OneRow(k) /\ NotElsewhere(k) /\ EntryOf(k) /\ RemovedOf(k)
  /\ \A s \in Session : NoEntryLeft(s) /\ RemovesOwn(s)

\* Where a session has entered its key.
Keyed == {"idle", "drawOther", "storeOther", "removeNumber", "putOther"}

\* What the last session of a client has stored and entered.
Found(s) ==
  Sure(s) /\ latest[owner[s]] = s /\ ~ BeingClosed(s) =>
    /\ at[s] = "removeNumber" => db[prankKey[s]] = newPhoneNumber[s]
    /\ at[s] \in {"putNumber", "putFirst", "putOther", "getKey", "putKey", "idle"} =>
         db[prankKey[s]] = phoneNumber[s]
    /\ at[s] \in {"getKey", "putKey", "idle"} => sessionMapByPhoneNumber[phoneNumber[s]] = s
    /\ at[s] \in Keyed =>
         prankKey[s] \in forgotten \/ sessionMapByPrankKey[prankKey[s]] = s

\* Who is to be closed, or is.
Marked(s) == s \in invalidSessionQueue \/ BeingClosed(s)

\* Any session with the key is marked but the one that is entered,
InMap(s) ==
  Sure(s) /\ prankKey[s] \notin forgotten /\ s \in inUse /\ at[s] \in Keyed /\ ~ Marked(s) =>
    sessionMapByPrankKey[prankKey[s]] = s

\* and this one too when another is about to take its place.
FormerMarked(s) ==
  Sure(s) /\ prankKey[s] \notin forgotten /\ at[s] = "putKey" =>
    \A x \in Session \ {s} :
      /\ sessionMapByPrankKey[prankKey[s]] = x /\ prankKey[x] = prankKey[s]
      /\ x \in inUse /\ at[x] \in Keyed
      => Marked(x)

Places == \A s \in Session : Found(s) /\ InMap(s) /\ FormerMarked(s)

\* The inductive invariant.
KInv == TypeInv /\ Owners /\ Turns /\ Rows /\ Places

\* What is a session's number is none of the words that stand for none in a row.
LEMMA IsNumber ==
  ASSUME TypeInv, NEW s \in Session, NEW k \in Key, db[k] = phoneNumber[s]
  PROVE  db[k] \in Number
<1>1. db[k] \in {Absent, NoNumber, "null"} \cup Number /\ phoneNumber[s] \in Number \cup {None}
  BY DEF TypeInv, TypeOK
<1>2. QED
  BY NoneAssumption, <1>1

-----------------------------------------------------------------------------
\* Every step keeps who owns the keys,
LEMMA AcceptOwners ==
  ASSUME TypeInv, Owners, NEW c \in Client, NEW s \in Session, Accept(c, s)
  PROVE  Owners'
<1>1. ASSUME NEW x \in Session  PROVE Rowed(x)'
  BY <1>1 DEF Accept, info, Owners, Known, Rowed
<1>2. ASSUME NEW x \in Session  PROVE OneOwner(x)'
  BY <1>2 DEF Accept, info, Owners, Known, OneOwner
<1>3. ASSUME NEW x \in Session  PROVE Unknown(x)'
  BY <1>3 DEF Accept, info, Owners, Unknown
<1>4. ASSUME NEW x \in Session  PROVE Fresh(x)'
  BY <1>4 DEF Accept, info, Owners, Known, Fresh
<1>5. ASSUME NEW x \in Session  PROVE Progress(x)'
  BY <1>5 DEF TypeInv, TypeOK, Accept, Owners, Progress
<1>6. ASSUME NEW e \in Client  PROVE Kept(e)'
  BY <1>6 DEF Accept, Owners, Kept
<1>7. QED
  BY <1>1, <1>2, <1>3, <1>4, <1>5, <1>6 DEF Owners

LEMMA GET_NEWPRANKKEYOwners ==
  ASSUME TypeInv, Owners, NEW s \in Session, GET_NEWPRANKKEY(s)
  PROVE  Owners'
<1>1. ASSUME NEW x \in Session  PROVE Rowed(x)'
  BY <1>1 DEF TypeInv, TypeOK, GET_NEWPRANKKEY, Owners, Known, Rowed
<1>2. ASSUME NEW x \in Session  PROVE OneOwner(x)'
  BY <1>2 DEF TypeInv, TypeOK, GET_NEWPRANKKEY, clients, Owners, Known, OneOwner, Rowed
<1>3. ASSUME NEW x \in Session  PROVE Unknown(x)'
  BY <1>3 DEF TypeInv, TypeOK, GET_NEWPRANKKEY, clients, Owners, Unknown
<1>4. ASSUME NEW x \in Session  PROVE Fresh(x)'
  BY <1>4 DEF TypeInv, TypeOK, GET_NEWPRANKKEY, clients, Owners, Known, Fresh, Rowed
<1>5. ASSUME NEW x \in Session  PROVE Progress(x)'
  BY <1>5 DEF GET_NEWPRANKKEY, Owners, Progress, Before
<1>6. ASSUME NEW e \in Client  PROVE Kept(e)'
  BY <1>6 DEF GET_NEWPRANKKEY, clients, Owners, Kept
<1>7. QED
  BY <1>1, <1>2, <1>3, <1>4, <1>5, <1>6 DEF Owners

LEMMA PutNewKeyOwners ==
  ASSUME TypeInv, Owners, NEW s \in Session, PutNewKey(s)
  PROVE  Owners'
<1>1. ASSUME NEW x \in Session  PROVE Rowed(x)'
  BY <1>1 DEF PutNewKey, info, Owners, Known, Rowed
<1>2. ASSUME NEW x \in Session  PROVE OneOwner(x)'
  BY <1>2 DEF PutNewKey, info, clients, Owners, Known, OneOwner
<1>3. ASSUME NEW x \in Session  PROVE Unknown(x)'
  BY <1>3 DEF PutNewKey, info, clients, Owners, Unknown
<1>4. ASSUME NEW x \in Session  PROVE Fresh(x)'
  BY <1>4 DEF PutNewKey, info, clients, Owners, Known, Fresh
<1>5. ASSUME NEW x \in Session  PROVE Progress(x)'
  BY <1>5 DEF PutNewKey, history, Owners, Progress, Before
<1>6. ASSUME NEW e \in Client  PROVE Kept(e)'
  BY <1>6 DEF PutNewKey, clients, Owners, Kept
<1>7. QED
  BY <1>1, <1>2, <1>3, <1>4, <1>5, <1>6 DEF Owners

LEMMA PUT_PRANKKEYOwners ==
  ASSUME TypeInv, Owners, NEW s \in Session, PUT_PRANKKEY(s)
  PROVE  Owners'
<1>1. ASSUME NEW x \in Session  PROVE Rowed(x)'
  BY NoneAssumption, <1>1 DEF TypeInv, TypeOK, PUT_PRANKKEY, Owners, Known, Rowed
<1>2. ASSUME NEW x \in Session  PROVE OneOwner(x)'
  BY <1>2 DEF TypeInv, TypeOK, PUT_PRANKKEY, clients, Owners, Known, OneOwner, Kept
<1>3. ASSUME NEW x \in Session  PROVE Unknown(x)'
  BY <1>3 DEF TypeInv, TypeOK, PUT_PRANKKEY, clients, Owners, Unknown, Kept
<1>4. ASSUME NEW x \in Session  PROVE Fresh(x)'
  BY <1>4 DEF TypeInv, TypeOK, PUT_PRANKKEY, clients, Owners, Known, Fresh
<1>5. ASSUME NEW x \in Session  PROVE Progress(x)'
  BY <1>5 DEF TypeInv, TypeOK, PUT_PRANKKEY, Owners, Progress, Before
<1>6. ASSUME NEW e \in Client  PROVE Kept(e)'
  BY <1>6 DEF PUT_PRANKKEY, clients, Owners, Kept
<1>7. QED
  BY <1>1, <1>2, <1>3, <1>4, <1>5, <1>6 DEF Owners

LEMMA GET_NEWPHONENUMBEROwners ==
  ASSUME TypeInv, Owners, NEW s \in Session, GET_NEWPHONENUMBER(s)
  PROVE  Owners'
<1>1. ASSUME NEW x \in Session  PROVE Rowed(x)'
  BY <1>1 DEF GET_NEWPHONENUMBER, info, Owners, Known, Rowed
<1>2. ASSUME NEW x \in Session  PROVE OneOwner(x)'
  BY <1>2 DEF GET_NEWPHONENUMBER, info, clients, Owners, Known, OneOwner
<1>3. ASSUME NEW x \in Session  PROVE Unknown(x)'
  BY <1>3 DEF GET_NEWPHONENUMBER, info, clients, Owners, Unknown
<1>4. ASSUME NEW x \in Session  PROVE Fresh(x)'
  BY <1>4 DEF GET_NEWPHONENUMBER, info, clients, Owners, Known, Fresh
<1>5. ASSUME NEW x \in Session  PROVE Progress(x)'
  BY <1>5 DEF GET_NEWPHONENUMBER, Owners, Progress, Before
<1>6. ASSUME NEW e \in Client  PROVE Kept(e)'
  BY <1>6 DEF GET_NEWPHONENUMBER, clients, Owners, Kept
<1>7. QED
  BY <1>1, <1>2, <1>3, <1>4, <1>5, <1>6 DEF Owners

LEMMA DrawOwners ==
  ASSUME TypeInv, Owners, NEW s \in Session, Draw(s)
  PROVE  Owners'
<1>1. ASSUME NEW x \in Session  PROVE Rowed(x)'
  BY <1>1 DEF Draw, Drawing, info, Owners, Known, Rowed
<1>2. ASSUME NEW x \in Session  PROVE OneOwner(x)'
  BY <1>2 DEF Draw, Drawing, info, clients, Owners, Known, OneOwner
<1>3. ASSUME NEW x \in Session  PROVE Unknown(x)'
  BY <1>3 DEF Draw, Drawing, info, clients, Owners, Unknown
<1>4. ASSUME NEW x \in Session  PROVE Fresh(x)'
  BY <1>4 DEF Draw, Drawing, info, clients, Owners, Known, Fresh
<1>5. ASSUME NEW x \in Session  PROVE Progress(x)'
  BY <1>5 DEF Draw, Drawing, history, Owners, Progress, Before
<1>6. ASSUME NEW e \in Client  PROVE Kept(e)'
  BY <1>6 DEF Draw, clients, Owners, Kept
<1>7. QED
  BY <1>1, <1>2, <1>3, <1>4, <1>5, <1>6 DEF Owners

LEMMA StoreOwners ==
  ASSUME TypeInv, Owners, NEW s \in Session, Store(s)
  PROVE  Owners'
<1>1. ASSUME NEW x \in Session  PROVE Rowed(x)'
  BY NoneAssumption, <1>1 DEF TypeInv, TypeOK, Store, Return, Owners, Known, Rowed
<1>2. ASSUME NEW x \in Session  PROVE OneOwner(x)'
  BY <1>2 DEF TypeInv, TypeOK, Store, Return, Learn, Owners, Known, OneOwner
<1>3. ASSUME NEW x \in Session  PROVE Unknown(x)'
  BY <1>3 DEF TypeInv, TypeOK, Store, Return, Learn, Owners, Known, Unknown, Rowed
<1>4. ASSUME NEW x \in Session  PROVE Fresh(x)'
  BY <1>4 DEF TypeInv, TypeOK, Store, Return, Learn, Owners, Known, Fresh
<1>5. ASSUME NEW x \in Session  PROVE Progress(x)'
  BY <1>5 DEF TypeInv, TypeOK, Store, Return, Owners, Progress, Before
<1>6. ASSUME NEW e \in Client  PROVE Kept(e)'
  BY NoneAssumption, <1>6 DEF TypeInv, TypeOK, Store, Learn, Owners, Known, OneOwner, Kept
<1>7. QED
  BY <1>1, <1>2, <1>3, <1>4, <1>5, <1>6 DEF Owners

LEMMA RemoveNumberOwners ==
  ASSUME TypeInv, Owners, NEW s \in Session, RemoveNumber(s)
  PROVE  Owners'
<1>1. ASSUME NEW x \in Session  PROVE Rowed(x)'
  BY <1>1 DEF RemoveNumber, Owners, Known, Rowed
<1>2. ASSUME NEW x \in Session  PROVE OneOwner(x)'
  BY <1>2 DEF RemoveNumber, clients, Owners, Known, OneOwner
<1>3. ASSUME NEW x \in Session  PROVE Unknown(x)'
  BY <1>3 DEF RemoveNumber, clients, Owners, Unknown
<1>4. ASSUME NEW x \in Session  PROVE Fresh(x)'
  BY <1>4 DEF RemoveNumber, clients, Owners, Known, Fresh
<1>5. ASSUME NEW x \in Session  PROVE Progress(x)'
  BY <1>5 DEF RemoveNumber, Owners, Progress, Before
<1>6. ASSUME NEW e \in Client  PROVE Kept(e)'
  BY <1>6 DEF RemoveNumber, clients, Owners, Kept
<1>7. QED
  BY <1>1, <1>2, <1>3, <1>4, <1>5, <1>6 DEF Owners

LEMMA PutNumberOwners ==
  ASSUME TypeInv, Owners, NEW s \in Session, PutNumber(s)
  PROVE  Owners'
<1>1. ASSUME NEW x \in Session  PROVE Rowed(x)'
  BY <1>1 DEF TypeInv, TypeOK, PutNumber, Return, info, Owners, Known, Rowed
<1>2. ASSUME NEW x \in Session  PROVE OneOwner(x)'
  BY <1>2 DEF TypeInv, TypeOK, PutNumber, Return, Learn, info, Owners, Known, OneOwner
<1>3. ASSUME NEW x \in Session  PROVE Unknown(x)'
  BY <1>3 DEF TypeInv, TypeOK, PutNumber, Return, Learn, info, Owners, Unknown
<1>4. ASSUME NEW x \in Session  PROVE Fresh(x)'
  BY <1>4 DEF TypeInv, TypeOK, PutNumber, Return, Learn, info, Owners, Known, Fresh
<1>5. ASSUME NEW x \in Session  PROVE Progress(x)'
  BY <1>5 DEF TypeInv, TypeOK, PutNumber, Return, Owners, Progress, Before
<1>6. ASSUME NEW e \in Client  PROVE Kept(e)'
  BY <1>6 DEF TypeInv, TypeOK, PutNumber, Learn, Owners, Known, Rowed, OneOwner, Kept
<1>7. QED
  BY <1>1, <1>2, <1>3, <1>4, <1>5, <1>6 DEF Owners

LEMMA GetKeyOwners ==
  ASSUME TypeInv, Owners, NEW s \in Session, GetKey(s)
  PROVE  Owners'
<1>1. ASSUME NEW x \in Session  PROVE Rowed(x)'
  BY <1>1 DEF GetKey, info, Owners, Known, Rowed
<1>2. ASSUME NEW x \in Session  PROVE OneOwner(x)'
  BY <1>2 DEF GetKey, info, clients, Owners, Known, OneOwner
<1>3. ASSUME NEW x \in Session  PROVE Unknown(x)'
  BY <1>3 DEF GetKey, info, clients, Owners, Unknown
<1>4. ASSUME NEW x \in Session  PROVE Fresh(x)'
  BY <1>4 DEF GetKey, info, clients, Owners, Known, Fresh
<1>5. ASSUME NEW x \in Session  PROVE Progress(x)'
  BY <1>5 DEF GetKey, history, Owners, Progress, Before
<1>6. ASSUME NEW e \in Client  PROVE Kept(e)'
  BY <1>6 DEF GetKey, clients, Owners, Kept
<1>7. QED
  BY <1>1, <1>2, <1>3, <1>4, <1>5, <1>6 DEF Owners

LEMMA PutKeyOwners ==
  ASSUME TypeInv, Owners, NEW s \in Session, PutKey(s)
  PROVE  Owners'
<1>1. ASSUME NEW x \in Session  PROVE Rowed(x)'
  BY <1>1 DEF PutKey, Return, info, Owners, Known, Rowed
<1>2. ASSUME NEW x \in Session  PROVE OneOwner(x)'
  BY <1>2 DEF PutKey, Return, info, clients, Owners, Known, OneOwner
<1>3. ASSUME NEW x \in Session  PROVE Unknown(x)'
  BY <1>3 DEF PutKey, Return, info, clients, Owners, Unknown
<1>4. ASSUME NEW x \in Session  PROVE Fresh(x)'
  BY <1>4 DEF PutKey, Return, info, clients, Owners, Known, Fresh
<1>5. ASSUME NEW x \in Session  PROVE Progress(x)'
  BY <1>5 DEF PutKey, Return, history, Owners, Progress, Before
<1>6. ASSUME NEW e \in Client  PROVE Kept(e)'
  BY <1>6 DEF PutKey, clients, Owners, Kept
<1>7. QED
  BY <1>1, <1>2, <1>3, <1>4, <1>5, <1>6 DEF Owners

LEMMA CloseSessionOwners ==
  ASSUME TypeInv, Owners, NEW t \in Thread, NEW s \in Session, CloseSession(t, s)
  PROVE  Owners'
<1>1. ASSUME NEW x \in Session  PROVE Rowed(x)'
  BY <1>1 DEF CloseSession, info, Owners, Known, Rowed
<1>2. ASSUME NEW x \in Session  PROVE OneOwner(x)'
  BY <1>2 DEF CloseSession, info, clients, Owners, Known, OneOwner
<1>3. ASSUME NEW x \in Session  PROVE Unknown(x)'
  BY <1>3 DEF CloseSession, info, clients, Owners, Unknown
<1>4. ASSUME NEW x \in Session  PROVE Fresh(x)'
  BY <1>4 DEF CloseSession, info, clients, Owners, Known, Fresh
<1>5. ASSUME NEW x \in Session  PROVE Progress(x)'
  BY <1>5 DEF CloseSession, Owners, Progress
<1>6. ASSUME NEW e \in Client  PROVE Kept(e)'
  BY <1>6 DEF CloseSession, clients, Owners, Kept
<1>7. QED
  BY <1>1, <1>2, <1>3, <1>4, <1>5, <1>6 DEF Owners

LEMMA CompareOwners ==
  ASSUME TypeInv, Owners, NEW t \in Thread, Compare(t)
  PROVE  Owners'
<1>1. ASSUME NEW x \in Session  PROVE Rowed(x)'
  BY <1>1 DEF TypeInv, TypeOK, Compare, deallocate, info, Owners, Known, Rowed
<1>2. ASSUME NEW x \in Session  PROVE OneOwner(x)'
  BY <1>2 DEF TypeInv, TypeOK, Compare, deallocate, info, clients, Owners, Known,
      OneOwner, Kept
<1>3. ASSUME NEW x \in Session  PROVE Unknown(x)'
  BY <1>3 DEF TypeInv, TypeOK, Compare, deallocate, info, clients, Owners, Unknown
<1>4. ASSUME NEW x \in Session  PROVE Fresh(x)'
  BY <1>4 DEF TypeInv, TypeOK, Compare, deallocate, info, clients, Owners, Known, Fresh
<1>5. ASSUME NEW x \in Session  PROVE Progress(x)'
  BY <1>5 DEF TypeInv, TypeOK, Compare, deallocate, history, Owners, Progress, Before
<1>6. ASSUME NEW e \in Client  PROVE Kept(e)'
  BY <1>6 DEF Compare, clients, Owners, Kept
<1>7. QED
  BY <1>1, <1>2, <1>3, <1>4, <1>5, <1>6 DEF Owners

LEMMA RemoveOwners ==
  ASSUME TypeInv, Owners, NEW t \in Thread, Remove(t)
  PROVE  Owners'
<1>1. ASSUME NEW x \in Session  PROVE Rowed(x)'
  BY <1>1 DEF Remove, deallocate, info, Owners, Known, Rowed
<1>2. ASSUME NEW x \in Session  PROVE OneOwner(x)'
  BY <1>2 DEF Remove, deallocate, info, clients, Owners, Known, OneOwner
<1>3. ASSUME NEW x \in Session  PROVE Unknown(x)'
  BY <1>3 DEF Remove, deallocate, info, clients, Owners, Unknown
<1>4. ASSUME NEW x \in Session  PROVE Fresh(x)'
  BY <1>4 DEF Remove, deallocate, info, clients, Owners, Known, Fresh
<1>5. ASSUME NEW x \in Session  PROVE Progress(x)'
  BY <1>5 DEF Remove, deallocate, history, Owners, Progress, Before
<1>6. ASSUME NEW e \in Client  PROVE Kept(e)'
  BY <1>6 DEF Remove, clients, Owners, Kept
<1>7. QED
  BY <1>1, <1>2, <1>3, <1>4, <1>5, <1>6 DEF Owners

-----------------------------------------------------------------------------
\* that the operations of a key come one after the other,
LEMMA AcceptTurns ==
  ASSUME TypeInv, Owners, Turns, NEW c \in Client, NEW s \in Session, Accept(c, s)
  PROVE  Turns'
<1>1. ASSUME NEW x \in Session  PROVE Single(x)'
  BY <1>1 DEF Accept, info, Turns, BeingClosed, Active, Sure, Single
<1>2. ASSUME NEW x \in Session  PROVE Uncrossed(x)'
  BY <1>2 DEF Accept, info, Turns, BeingClosed, Sure, Uncrossed
<1>3. ASSUME NEW x \in Session  PROVE OneCloser(x)'
  BY <1>3 DEF Accept, info, Turns, Sure, OneCloser
<1>4. ASSUME NEW x \in Session  PROVE Last(x)'
  BY <1>4 DEF Accept, info, Turns, Sure, Known, Last
<1>5. ASSUME NEW x \in Session  PROVE IdleTold(x)'
  BY <1>5 DEF Accept, info, Turns, Sure, IdleTold
<1>6. QED
  BY <1>1, <1>2, <1>3, <1>4, <1>5 DEF Turns

LEMMA GET_NEWPRANKKEYTurns ==
  ASSUME TypeInv, Owners, Turns, NEW s \in Session, GET_NEWPRANKKEY(s)
  PROVE  Turns'
<1>1. ASSUME NEW x \in Session  PROVE Single(x)'
  BY <1>1 DEF TypeInv, TypeOK, GET_NEWPRANKKEY, Turns, Begins, Alone, BeingClosed, Active,
      Sure, Single
<1>2. ASSUME NEW x \in Session  PROVE Uncrossed(x)'
  BY <1>2 DEF TypeInv, TypeOK, GET_NEWPRANKKEY, Turns, Begins, BeingClosed, Sure,
      Uncrossed
<1>3. ASSUME NEW x \in Session  PROVE OneCloser(x)'
  BY <1>3 DEF GET_NEWPRANKKEY, Turns, Begins, BeingClosed, Sure, OneCloser
<1>4. ASSUME NEW x \in Session  PROVE Last(x)'
  BY <1>4 DEF TypeInv, TypeOK, GET_NEWPRANKKEY, clients, Turns, Owners, Begins, Sure,
      Known, Last, Rowed
<1>5. ASSUME NEW x \in Session  PROVE IdleTold(x)'
  BY <1>5 DEF GET_NEWPRANKKEY, Turns, Begins, Sure, IdleTold
<1>6. QED
  BY <1>1, <1>2, <1>3, <1>4, <1>5 DEF Turns

LEMMA PutNewKeyTurns ==
  ASSUME TypeInv, Owners, Turns, NEW s \in Session, PutNewKey(s)
  PROVE  Turns'
<1>1. ASSUME NEW x \in Session  PROVE Single(x)'
  BY <1>1 DEF PutNewKey, info, history, Turns, BeingClosed, Active, Sure, Single
<1>2. ASSUME NEW x \in Session  PROVE Uncrossed(x)'
  BY <1>2 DEF PutNewKey, info, history, Turns, BeingClosed, Sure, Uncrossed
<1>3. ASSUME NEW x \in Session  PROVE OneCloser(x)'
  BY <1>3 DEF PutNewKey, info, history, Turns, Sure, OneCloser
<1>4. ASSUME NEW x \in Session  PROVE Last(x)'
  BY <1>4 DEF PutNewKey, info, clients, history, Turns, Sure, Known, Last
<1>5. ASSUME NEW x \in Session  PROVE IdleTold(x)'
  BY <1>5 DEF PutNewKey, info, history, Turns, Sure, IdleTold
<1>6. QED
  BY <1>1, <1>2, <1>3, <1>4, <1>5 DEF Turns

LEMMA PUT_PRANKKEYTurns ==
  ASSUME TypeInv, Owners, Turns, NEW s \in Session, PUT_PRANKKEY(s)
  PROVE  Turns'
<1>1. ASSUME NEW x \in Session  PROVE Single(x)'
  BY <1>1 DEF TypeInv, TypeOK, PUT_PRANKKEY, Turns, Begins, Alone, BeingClosed, Active,
      Sure, Single
<1>2. ASSUME NEW x \in Session  PROVE Uncrossed(x)'
  BY <1>2 DEF TypeInv, TypeOK, PUT_PRANKKEY, Turns, Begins, BeingClosed, Sure, Uncrossed
<1>3. ASSUME NEW x \in Session  PROVE OneCloser(x)'
  BY <1>3 DEF PUT_PRANKKEY, Turns, Begins, BeingClosed, Sure, OneCloser
<1>4. ASSUME NEW x \in Session  PROVE Last(x)'
  BY <1>4 DEF TypeInv, TypeOK, PUT_PRANKKEY, clients, Turns, Owners, Begins, Alone,
      InOrder, Sure, Known, Last, OneOwner
<1>5. ASSUME NEW x \in Session  PROVE IdleTold(x)'
  BY <1>5 DEF TypeInv, TypeOK, PUT_PRANKKEY, Turns, Begins, Sure, IdleTold
<1>6. QED
  BY <1>1, <1>2, <1>3, <1>4, <1>5 DEF Turns

LEMMA GET_NEWPHONENUMBERTurns ==
  ASSUME TypeInv, Owners, Turns, NEW s \in Session, GET_NEWPHONENUMBER(s)
  PROVE  Turns'
<1>1. ASSUME NEW x \in Session  PROVE Single(x)'
  BY <1>1 DEF GET_NEWPHONENUMBER, info, Turns, Begins, Alone, BeingClosed, Active, Sure,
      Single
<1>2. ASSUME NEW x \in Session  PROVE Uncrossed(x)'
  BY <1>2 DEF GET_NEWPHONENUMBER, info, Turns, Begins, BeingClosed, Sure, Uncrossed
<1>3. ASSUME NEW x \in Session  PROVE OneCloser(x)'
  BY <1>3 DEF GET_NEWPHONENUMBER, info, Turns, Begins, Sure, OneCloser
<1>4. ASSUME NEW x \in Session  PROVE Last(x)'
  BY <1>4 DEF GET_NEWPHONENUMBER, info, clients, Turns, Owners, Begins, InOrder, Sure,
      Known, Last, OneOwner
<1>5. ASSUME NEW x \in Session  PROVE IdleTold(x)'
  BY <1>5 DEF GET_NEWPHONENUMBER, info, Turns, Begins, Sure, IdleTold
<1>6. QED
  BY <1>1, <1>2, <1>3, <1>4, <1>5 DEF Turns

LEMMA DrawTurns ==
  ASSUME TypeInv, Owners, Turns, NEW s \in Session, Draw(s)
  PROVE  Turns'
<1>1. ASSUME NEW x \in Session  PROVE Single(x)'
  BY <1>1 DEF Draw, Drawing, info, history, Turns, BeingClosed, Active, Sure, Single
<1>2. ASSUME NEW x \in Session  PROVE Uncrossed(x)'
  BY <1>2 DEF Draw, Drawing, info, history, Turns, BeingClosed, Sure, Uncrossed
<1>3. ASSUME NEW x \in Session  PROVE OneCloser(x)'
  BY <1>3 DEF Draw, info, history, Turns, Sure, OneCloser
<1>4. ASSUME NEW x \in Session  PROVE Last(x)'
  BY <1>4 DEF Draw, Drawing, info, clients, history, Turns, Sure, Known, Last
<1>5. ASSUME NEW x \in Session  PROVE IdleTold(x)'
  BY <1>5 DEF Draw, Drawing, info, history, Turns, Sure, IdleTold
<1>6. QED
  BY <1>1, <1>2, <1>3, <1>4, <1>5 DEF Turns

LEMMA StoreTurns ==
  ASSUME TypeInv, Owners, Turns, NEW s \in Session, Store(s)
  PROVE  Turns'
<1>1. ASSUME NEW x \in Session  PROVE Single(x)'
  BY <1>1 DEF TypeInv, TypeOK, Store, Return, Turns, BeingClosed, Active, Sure, Single
<1>2. ASSUME NEW x \in Session  PROVE Uncrossed(x)'
  BY <1>2 DEF TypeInv, TypeOK, Store, Return, Turns, BeingClosed, Sure, Uncrossed
<1>3. ASSUME NEW x \in Session  PROVE OneCloser(x)'
  BY <1>3 DEF Store, Turns, Sure, OneCloser
<1>4. ASSUME NEW x \in Session  PROVE Last(x)'
  BY <1>4 DEF TypeInv, TypeOK, Store, Return, Turns, Sure, Known, Last
<1>5. ASSUME NEW x \in Session  PROVE IdleTold(x)'
  BY <1>5 DEF TypeInv, TypeOK, Store, Return, Turns, Sure, IdleTold
<1>6. QED
  BY <1>1, <1>2, <1>3, <1>4, <1>5 DEF Turns

LEMMA RemoveNumberTurns ==
  ASSUME TypeInv, Owners, Turns, NEW s \in Session, RemoveNumber(s)
  PROVE  Turns'
<1>1. ASSUME NEW x \in Session  PROVE Single(x)'
  BY <1>1 DEF RemoveNumber, Turns, BeingClosed, Active, Sure, Single
<1>2. ASSUME NEW x \in Session  PROVE Uncrossed(x)'
  BY <1>2 DEF RemoveNumber, Turns, BeingClosed, Sure, Uncrossed
<1>3. ASSUME NEW x \in Session  PROVE OneCloser(x)'
  BY <1>3 DEF RemoveNumber, Turns, Sure, OneCloser
<1>4. ASSUME NEW x \in Session  PROVE Last(x)'
  BY <1>4 DEF RemoveNumber, clients, Turns, Sure, Known, Last
<1>5. ASSUME NEW x \in Session  PROVE IdleTold(x)'
  BY <1>5 DEF RemoveNumber, Turns, Sure, IdleTold
<1>6. QED
  BY <1>1, <1>2, <1>3, <1>4, <1>5 DEF Turns

LEMMA PutNumberTurns ==
  ASSUME TypeInv, Owners, Turns, NEW s \in Session, PutNumber(s)
  PROVE  Turns'
<1>1. ASSUME NEW x \in Session  PROVE Single(x)'
  BY <1>1 DEF TypeInv, TypeOK, PutNumber, Return, info, Turns, BeingClosed, Active, Sure,
      Single
<1>2. ASSUME NEW x \in Session  PROVE Uncrossed(x)'
  BY <1>2 DEF TypeInv, TypeOK, PutNumber, Return, info, Turns, BeingClosed, Sure,
      Uncrossed
<1>3. ASSUME NEW x \in Session  PROVE OneCloser(x)'
  BY <1>3 DEF PutNumber, info, Turns, Sure, OneCloser
<1>4. ASSUME NEW x \in Session  PROVE Last(x)'
  BY <1>4 DEF TypeInv, TypeOK, PutNumber, Return, info, Turns, Sure, Known, Last
<1>5. ASSUME NEW x \in Session  PROVE IdleTold(x)'
  BY <1>5 DEF TypeInv, TypeOK, PutNumber, Return, info, Turns, Sure, IdleTold
<1>6. QED
  BY <1>1, <1>2, <1>3, <1>4, <1>5 DEF Turns

LEMMA GetKeyTurns ==
  ASSUME TypeInv, Owners, Turns, NEW s \in Session, GetKey(s)
  PROVE  Turns'
<1>1. ASSUME NEW x \in Session  PROVE Single(x)'
  BY <1>1 DEF GetKey, info, history, Turns, BeingClosed, Active, Sure, Single
<1>2. ASSUME NEW x \in Session  PROVE Uncrossed(x)'
  BY <1>2 DEF GetKey, info, history, Turns, BeingClosed, Sure, Uncrossed
<1>3. ASSUME NEW x \in Session  PROVE OneCloser(x)'
  BY <1>3 DEF GetKey, info, history, Turns, Sure, OneCloser
<1>4. ASSUME NEW x \in Session  PROVE Last(x)'
  BY <1>4 DEF GetKey, info, clients, history, Turns, Sure, Known, Last
<1>5. ASSUME NEW x \in Session  PROVE IdleTold(x)'
  BY <1>5 DEF GetKey, info, history, Turns, Sure, IdleTold
<1>6. QED
  BY <1>1, <1>2, <1>3, <1>4, <1>5 DEF Turns

LEMMA PutKeyTurns ==
  ASSUME TypeInv, Owners, Turns, NEW s \in Session, PutKey(s)
  PROVE  Turns'
<1>1. ASSUME NEW x \in Session  PROVE Single(x)'
  BY <1>1 DEF PutKey, Return, info, history, Turns, BeingClosed, Active, Sure, Single
<1>2. ASSUME NEW x \in Session  PROVE Uncrossed(x)'
  BY <1>2 DEF PutKey, Return, info, history, Turns, BeingClosed, Sure, Uncrossed
<1>3. ASSUME NEW x \in Session  PROVE OneCloser(x)'
  BY <1>3 DEF PutKey, info, history, Turns, Sure, OneCloser
<1>4. ASSUME NEW x \in Session  PROVE Last(x)'
  BY <1>4 DEF PutKey, Return, info, clients, history, Turns, Sure, Known, Last
<1>5. ASSUME NEW x \in Session  PROVE IdleTold(x)'
  BY <1>5 DEF PutKey, Return, info, history, Turns, Owners, Sure, IdleTold, Progress
<1>6. QED
  BY <1>1, <1>2, <1>3, <1>4, <1>5 DEF Turns

LEMMA CloseSessionTurns ==
  ASSUME TypeInv, Owners, Turns, NEW t \in Thread, NEW s \in Session, CloseSession(t, s)
  PROVE  Turns'
<1>1. ASSUME NEW x \in Session  PROVE Single(x)'
  BY NoneAssumption, <1>1 DEF CloseSession, info, Turns, Alone, BeingClosed, Active, Sure,
      Single
<1>2. ASSUME NEW x \in Session  PROVE Uncrossed(x)'
  BY NoneAssumption, <1>2 DEF CloseSession, info, Turns, BeingClosed, Sure, Uncrossed
<1>3. ASSUME NEW x \in Session  PROVE OneCloser(x)'
  BY NoneAssumption, <1>3 DEF CloseSession, info, Turns, BeingClosed, Sure, OneCloser
<1>4. ASSUME NEW x \in Session  PROVE Last(x)'
  BY <1>4 DEF CloseSession, info, clients, Turns, Sure, Known, Last
<1>5. ASSUME NEW x \in Session  PROVE IdleTold(x)'
  BY <1>5 DEF CloseSession, info, Turns, Sure, IdleTold
<1>6. QED
  BY <1>1, <1>2, <1>3, <1>4, <1>5 DEF Turns

LEMMA CompareTurns ==
  ASSUME TypeInv, Owners, Turns, NEW t \in Thread, Compare(t)
  PROVE  Turns'
<1>1. ASSUME NEW x \in Session  PROVE Single(x)'
  BY NoneAssumption, <1>1 DEF TypeInv, TypeOK, Compare, deallocate, maps, info, clients,
      history, Turns, BeingClosed, Active, Sure, Single
<1>2. ASSUME NEW x \in Session  PROVE Uncrossed(x)'
  BY NoneAssumption, <1>2 DEF TypeInv, TypeOK, Compare, deallocate, info, history, Turns,
      BeingClosed, Sure, Uncrossed
<1>3. ASSUME NEW x \in Session  PROVE OneCloser(x)'
  <2>1. Sure(x)' => Sure(x)
    BY <1>3 DEF TypeInv, TypeOK, Compare, deallocate, info, history, Sure
  <2>2. \A u \in Thread : closing'[u].s = x => closing[u].s = x
    BY NoneAssumption, <1>3 DEF TypeInv, TypeOK, Compare, deallocate
  <2>3. QED
    BY <1>3, <2>1, <2>2 DEF Turns, OneCloser
<1>4. ASSUME NEW x \in Session  PROVE Last(x)'
  BY <1>4 DEF TypeInv, TypeOK, Compare, deallocate, info, clients, history, Turns, Sure,
      Known, Last
<1>5. ASSUME NEW x \in Session  PROVE IdleTold(x)'
  BY <1>5 DEF TypeInv, TypeOK, Compare, deallocate, info, history, Turns, Sure, IdleTold
<1>6. QED
  BY <1>1, <1>2, <1>3, <1>4, <1>5 DEF Turns

LEMMA RemoveTurns ==
  ASSUME TypeInv, Owners, Turns, NEW t \in Thread, Remove(t)
  PROVE  Turns'
<1>1. ASSUME NEW x \in Session  PROVE Single(x)'
  BY NoneAssumption, <1>1 DEF Remove, deallocate, info, history, Turns, BeingClosed,
      Active, Sure, Single
<1>2. ASSUME NEW x \in Session  PROVE Uncrossed(x)'
  BY NoneAssumption, <1>2 DEF Remove, deallocate, info, history, Turns, BeingClosed, Sure,
      Uncrossed
<1>3. ASSUME NEW x \in Session  PROVE OneCloser(x)'
  BY NoneAssumption, <1>3 DEF Remove, deallocate, info, history, Turns, Sure, OneCloser
<1>4. ASSUME NEW x \in Session  PROVE Last(x)'
  BY <1>4 DEF Remove, deallocate, info, clients, history, Turns, Sure, Known, Last
<1>5. ASSUME NEW x \in Session  PROVE IdleTold(x)'
  BY <1>5 DEF Remove, deallocate, info, history, Turns, Sure, IdleTold
<1>6. QED
  BY <1>1, <1>2, <1>3, <1>4, <1>5 DEF Turns

-----------------------------------------------------------------------------
\* that nobody else has its number,
LEMMA AcceptRows ==
  ASSUME TypeInv, Owners, Turns, Rows, NEW c \in Client, NEW s \in Session, Accept(c, s)
  PROVE  Rows'
<1>1. ASSUME NEW k \in Key  PROVE OneRow(k)'
  BY <1>1 DEF Accept, Rows, Numbered, OneRow
<1>2. ASSUME NEW k \in Key  PROVE NotElsewhere(k)'
  BY <1>2 DEF Accept, info, Rows, Numbered, NotElsewhere
<1>3. ASSUME NEW k \in Key  PROVE EntryOf(k)'
  BY <1>3 DEF Accept, maps, info, Rows, Numbered, EntryOf
<1>4. ASSUME NEW k \in Key  PROVE RemovedOf(k)'
  BY <1>4 DEF Accept, maps, info, Rows, Numbered, RemovedOf
<1>5. ASSUME NEW x \in Session  PROVE NoEntryLeft(x)'
  BY <1>5 DEF Accept, maps, info, Rows, Sure, NoEntryLeft
<1>6. ASSUME NEW x \in Session  PROVE RemovesOwn(x)'
  BY <1>6 DEF Accept, info, Rows, Sure, RemovesOwn
<1>7. QED
  BY <1>1, <1>2, <1>3, <1>4, <1>5, <1>6 DEF Rows

LEMMA GET_NEWPRANKKEYRows ==
  ASSUME TypeInv, Owners, Turns, Rows, NEW s \in Session, GET_NEWPRANKKEY(s)
  PROVE  Rows'
<1>1. ASSUME NEW k \in Key  PROVE OneRow(k)'
  BY NoneAssumption, <1>1 DEF GET_NEWPRANKKEY, Rows, Numbered, Begins, OneRow
<1>2. ASSUME NEW k \in Key  PROVE NotElsewhere(k)'
  BY NoneAssumption, <1>2 DEF GET_NEWPRANKKEY, Rows, Owners, Numbered, Begins,
      NotElsewhere, Progress, Before
<1>3. ASSUME NEW k \in Key  PROVE EntryOf(k)'
  BY NoneAssumption, <1>3 DEF GET_NEWPRANKKEY, maps, Rows, Owners, Numbered, Begins, Sure,
      EntryOf, NoEntryLeft, Unknown
<1>4. ASSUME NEW k \in Key  PROVE RemovedOf(k)'
  BY NoneAssumption, <1>4 DEF GET_NEWPRANKKEY, maps, Rows, Owners, Numbered, Begins,
      RemovedOf, Unknown
<1>5. ASSUME NEW x \in Session  PROVE NoEntryLeft(x)'
  BY <1>5 DEF TypeInv, TypeOK, GET_NEWPRANKKEY, maps, Rows, Begins, Sure, NoEntryLeft
<1>6. ASSUME NEW x \in Session  PROVE RemovesOwn(x)'
  BY <1>6 DEF GET_NEWPRANKKEY, Rows, Begins, BeingClosed, Sure, RemovesOwn
<1>7. QED
  BY <1>1, <1>2, <1>3, <1>4, <1>5, <1>6 DEF Rows

LEMMA PutNewKeyRows ==
  ASSUME TypeInv, Owners, Turns, Rows, NEW s \in Session, PutNewKey(s)
  PROVE  Rows'
<1>1. ASSUME NEW k \in Key  PROVE OneRow(k)'
  BY <1>1 DEF PutNewKey, history, Rows, Numbered, OneRow
<1>2. ASSUME NEW k \in Key  PROVE NotElsewhere(k)'
  BY <1>2 DEF PutNewKey, info, history, Rows, Numbered, NotElsewhere
<1>3. ASSUME NEW k \in Key  PROVE EntryOf(k)'
  BY <1>3 DEF PutNewKey, info, history, Rows, Numbered, EntryOf
<1>4. ASSUME NEW k \in Key  PROVE RemovedOf(k)'
  BY <1>4 DEF PutNewKey, info, history, Rows, Numbered, RemovedOf
<1>5. ASSUME NEW x \in Session  PROVE NoEntryLeft(x)'
  BY <1>5 DEF PutNewKey, info, history, Rows, Sure, NoEntryLeft
<1>6. ASSUME NEW x \in Session  PROVE RemovesOwn(x)'
  BY <1>6 DEF PutNewKey, info, history, Rows, Sure, RemovesOwn
<1>7. QED
  BY <1>1, <1>2, <1>3, <1>4, <1>5, <1>6 DEF Rows

LEMMA PUT_PRANKKEYRows ==
  ASSUME TypeInv, Owners, Turns, Rows, NEW s \in Session, PUT_PRANKKEY(s)
  PROVE  Rows'
<1>1. ASSUME NEW k \in Key  PROVE OneRow(k)'
  BY <1>1 DEF PUT_PRANKKEY, Rows, Numbered, Begins, OneRow
<1>2. ASSUME NEW k \in Key  PROVE NotElsewhere(k)'
  BY <1>2 DEF TypeInv, TypeOK, PUT_PRANKKEY, Rows, Owners, Numbered, Begins, OneRow,
      NotElsewhere, Progress, Before
<1>3. ASSUME NEW k \in Key  PROVE EntryOf(k)'
  BY <1>3 DEF TypeInv, TypeOK, PUT_PRANKKEY, maps, Rows, Numbered, Begins, Sure, OneRow,
      EntryOf, NoEntryLeft
<1>4. ASSUME NEW k \in Key  PROVE RemovedOf(k)'
  BY NoneAssumption, <1>4 DEF TypeInv, TypeOK, PUT_PRANKKEY, maps, Rows, Numbered, Begins,
      Sure, Known, RemovedOf
<1>5. ASSUME NEW x \in Session  PROVE NoEntryLeft(x)'
  BY <1>5 DEF TypeInv, TypeOK, PUT_PRANKKEY, maps, Rows, Begins, Sure, NoEntryLeft
<1>6. ASSUME NEW x \in Session  PROVE RemovesOwn(x)'
  BY <1>6 DEF TypeInv, TypeOK, PUT_PRANKKEY, Rows, Begins, BeingClosed, Sure, RemovesOwn
<1>7. QED
  BY <1>1, <1>2, <1>3, <1>4, <1>5, <1>6 DEF Rows

LEMMA GET_NEWPHONENUMBERRows ==
  ASSUME TypeInv, Owners, Turns, Rows, NEW s \in Session, GET_NEWPHONENUMBER(s)
  PROVE  Rows'
<1>1. ASSUME NEW k \in Key  PROVE OneRow(k)'
  BY <1>1 DEF GET_NEWPHONENUMBER, Rows, Numbered, Begins, OneRow
<1>2. ASSUME NEW k \in Key  PROVE NotElsewhere(k)'
  BY <1>2 DEF GET_NEWPHONENUMBER, info, Rows, Numbered, Begins, NotElsewhere
<1>3. ASSUME NEW k \in Key  PROVE EntryOf(k)'
  BY <1>3 DEF GET_NEWPHONENUMBER, maps, info, Rows, Numbered, Begins, EntryOf
<1>4. ASSUME NEW k \in Key  PROVE RemovedOf(k)'
  BY <1>4 DEF GET_NEWPHONENUMBER, maps, info, Rows, Numbered, Begins, RemovedOf
<1>5. ASSUME NEW x \in Session  PROVE NoEntryLeft(x)'
  BY <1>5 DEF GET_NEWPHONENUMBER, maps, info, Rows, Begins, Sure, NoEntryLeft
<1>6. ASSUME NEW x \in Session  PROVE RemovesOwn(x)'
  BY <1>6 DEF GET_NEWPHONENUMBER, info, Rows, Begins, Sure, RemovesOwn
<1>7. QED
  BY <1>1, <1>2, <1>3, <1>4, <1>5, <1>6 DEF Rows

LEMMA DrawRows ==
  ASSUME TypeInv, Owners, Turns, Rows, NEW s \in Session, Draw(s)
  PROVE  Rows'
<1>1. ASSUME NEW k \in Key  PROVE OneRow(k)'
  BY <1>1 DEF Draw, history, Rows, Numbered, OneRow
<1>2. ASSUME NEW k \in Key  PROVE NotElsewhere(k)'
  BY <1>2 DEF TypeInv, TypeOK, Draw, Drawing, info, history, Rows, Numbered, NotElsewhere
<1>3. ASSUME NEW k \in Key  PROVE EntryOf(k)'
  BY <1>3 DEF Draw, maps, info, history, Rows, Numbered, EntryOf
<1>4. ASSUME NEW k \in Key  PROVE RemovedOf(k)'
  BY <1>4 DEF Draw, Drawing, maps, info, history, Rows, Numbered, RemovedOf
<1>5. ASSUME NEW x \in Session  PROVE NoEntryLeft(x)'
  BY <1>5 DEF Draw, Drawing, maps, info, history, Rows, Sure, NoEntryLeft
<1>6. ASSUME NEW x \in Session  PROVE RemovesOwn(x)'
  BY <1>6 DEF Draw, info, history, Rows, Sure, RemovesOwn
<1>7. QED
  BY <1>1, <1>2, <1>3, <1>4, <1>5, <1>6 DEF Rows

LEMMA StoreRows ==
  ASSUME TypeInv, Owners, Turns, Rows, NEW s \in Session, Store(s)
  PROVE  Rows'
<1>1. ASSUME NEW k \in Key  PROVE OneRow(k)'
  BY <1>1 DEF Store, Rows, Numbered, Carried, OneRow, NotElsewhere
<1>2. ASSUME NEW k \in Key  PROVE NotElsewhere(k)'
  BY <1>2 DEF TypeInv, TypeOK, Store, Return, Rows, Numbered, Carried, NotElsewhere
<1>3. ASSUME NEW k \in Key  PROVE EntryOf(k)'
  BY <1>3 DEF TypeInv, TypeOK, Store, maps, Rows, Numbered, Carried, NotElsewhere, EntryOf
<1>4. ASSUME NEW k \in Key  PROVE RemovedOf(k)'
  BY NoneAssumption, <1>4 DEF TypeInv, TypeOK, Store, Return, maps, Rows, Numbered,
      Carried, Sure, RemovedOf
<1>5. ASSUME NEW x \in Session  PROVE NoEntryLeft(x)'
  BY <1>5 DEF TypeInv, TypeOK, Store, Return, maps, Rows, Sure, NoEntryLeft
<1>6. ASSUME NEW x \in Session  PROVE RemovesOwn(x)'
  BY <1>6 DEF TypeInv, TypeOK, Store, Rows, Turns, BeingClosed, Sure, RemovesOwn,
      Uncrossed
<1>7. QED
  BY <1>1, <1>2, <1>3, <1>4, <1>5, <1>6 DEF Rows

LEMMA RemoveNumberRows ==
  ASSUME TypeInv, Owners, Turns, Rows, NEW s \in Session, RemoveNumber(s)
  PROVE  Rows'
<1>1. ASSUME NEW k \in Key  PROVE OneRow(k)'
  BY <1>1 DEF RemoveNumber, Rows, Numbered, OneRow
<1>2. ASSUME NEW k \in Key  PROVE NotElsewhere(k)'
  BY <1>2 DEF RemoveNumber, Rows, Numbered, NotElsewhere
<1>3. ASSUME NEW k \in Key  PROVE EntryOf(k)'
  BY NoneAssumption, <1>3 DEF RemoveNumber, Rows, Numbered, Without, NotElsewhere, EntryOf
<1>4. ASSUME NEW k \in Key  PROVE RemovedOf(k)'
  BY <1>4 DEF RemoveNumber, Rows, Turns, Numbered, Without, BeingClosed, Active, Sure,
      NotElsewhere, RemovedOf, Single, Uncrossed
<1>5. ASSUME NEW x \in Session  PROVE NoEntryLeft(x)'
  BY NoneAssumption, <1>5 DEF RemoveNumber, Rows, Without, Sure, NoEntryLeft
<1>6. ASSUME NEW x \in Session  PROVE RemovesOwn(x)'
  BY <1>6 DEF RemoveNumber, Rows, Turns, BeingClosed, Sure, RemovesOwn, Uncrossed
<1>7. QED
  BY <1>1, <1>2, <1>3, <1>4, <1>5, <1>6 DEF Rows

LEMMA PutNumberRows ==
  ASSUME TypeInv, Owners, Turns, Rows, NEW s \in Session, PutNumber(s)
  PROVE  Rows'
<1>1. ASSUME NEW k \in Key  PROVE OneRow(k)'
  BY <1>1 DEF PutNumber, Rows, Numbered, OneRow
<1>2. ASSUME NEW k \in Key  PROVE NotElsewhere(k)'
  BY <1>2 DEF TypeInv, TypeOK, PutNumber, Return, info, Rows, Numbered, NotElsewhere
<1>3. ASSUME NEW k \in Key  PROVE EntryOf(k)'
  BY <1>3 DEF PutNumber, info, Rows, Numbered, NotElsewhere, EntryOf
<1>4. ASSUME NEW k \in Key  PROVE RemovedOf(k)'
  BY NoneAssumption, <1>4 DEF TypeInv, TypeOK, PutNumber, Return, Learn, info, Rows,
      Turns, Owners, Numbered, Carried, Without, Begins, Alone, InOrder, BeingClosed,
      Active, Sure, Known, NotElsewhere, RemovedOf, NoEntryLeft, Unknown, Single,
      Uncrossed, OneCloser
<1>5. ASSUME NEW x \in Session  PROVE NoEntryLeft(x)'
  BY <1>5 DEF TypeInv, TypeOK, PutNumber, Return, info, Rows, Turns, Sure, NoEntryLeft,
      Uncrossed
<1>6. ASSUME NEW x \in Session  PROVE RemovesOwn(x)'
  BY <1>6 DEF PutNumber, info, Rows, Sure, RemovesOwn
<1>7. QED
  BY <1>1, <1>2, <1>3, <1>4, <1>5, <1>6 DEF Rows

LEMMA GetKeyRows ==
  ASSUME TypeInv, Owners, Turns, Rows, NEW s \in Session, GetKey(s)
  PROVE  Rows'
<1>1. ASSUME NEW k \in Key  PROVE OneRow(k)'
  BY <1>1 DEF GetKey, history, Rows, Numbered, OneRow
<1>2. ASSUME NEW k \in Key  PROVE NotElsewhere(k)'
  BY <1>2 DEF GetKey, info, history, Rows, Numbered, NotElsewhere
<1>3. ASSUME NEW k \in Key  PROVE EntryOf(k)'
  BY <1>3 DEF GetKey, maps, info, history, Rows, Numbered, EntryOf
<1>4. ASSUME NEW k \in Key  PROVE RemovedOf(k)'
  BY <1>4 DEF GetKey, maps, info, history, Rows, Numbered, RemovedOf
<1>5. ASSUME NEW x \in Session  PROVE NoEntryLeft(x)'
  BY <1>5 DEF GetKey, maps, info, history, Rows, Sure, NoEntryLeft
<1>6. ASSUME NEW x \in Session  PROVE RemovesOwn(x)'
  BY <1>6 DEF GetKey, info, history, Rows, Sure, RemovesOwn
<1>7. QED
  BY <1>1, <1>2, <1>3, <1>4, <1>5, <1>6 DEF Rows

LEMMA PutKeyRows ==
  ASSUME TypeInv, Owners, Turns, Rows, NEW s \in Session, PutKey(s)
  PROVE  Rows'
<1>1. ASSUME NEW k \in Key  PROVE OneRow(k)'
  BY <1>1 DEF PutKey, history, Rows, Numbered, OneRow
<1>2. ASSUME NEW k \in Key  PROVE NotElsewhere(k)'
  BY <1>2 DEF PutKey, Return, info, history, Rows, Numbered, NotElsewhere
<1>3. ASSUME NEW k \in Key  PROVE EntryOf(k)'
  BY <1>3 DEF PutKey, info, history, Rows, Numbered, EntryOf
<1>4. ASSUME NEW k \in Key  PROVE RemovedOf(k)'
  BY <1>4 DEF PutKey, Return, info, history, Rows, Turns, Numbered, Sure, RemovedOf,
      Uncrossed
<1>5. ASSUME NEW x \in Session  PROVE NoEntryLeft(x)'
  BY <1>5 DEF PutKey, Return, info, history, Rows, Turns, Sure, NoEntryLeft, Uncrossed
<1>6. ASSUME NEW x \in Session  PROVE RemovesOwn(x)'
  BY <1>6 DEF PutKey, info, history, Rows, Sure, RemovesOwn
<1>7. QED
  BY <1>1, <1>2, <1>3, <1>4, <1>5, <1>6 DEF Rows

LEMMA CloseSessionRows ==
  ASSUME TypeInv, Owners, Turns, Rows,
         NEW t \in Thread, NEW s \in Session, CloseSession(t, s)
  PROVE  Rows'
<1>1. ASSUME NEW k \in Key  PROVE OneRow(k)'
  BY <1>1 DEF CloseSession, Rows, Numbered, OneRow
<1>2. ASSUME NEW k \in Key  PROVE NotElsewhere(k)'
  BY <1>2 DEF CloseSession, info, Rows, Numbered, NotElsewhere
<1>3. ASSUME NEW k \in Key  PROVE EntryOf(k)'
  BY <1>3 DEF CloseSession, info, Rows, Numbered, EntryOf
<1>4. ASSUME NEW k \in Key  PROVE RemovedOf(k)'
  BY <1>4 DEF CloseSession, info, Rows, Numbered, RemovedOf
<1>5. ASSUME NEW x \in Session  PROVE NoEntryLeft(x)'
  BY <1>5 DEF CloseSession, info, Rows, Sure, NoEntryLeft
<1>6. ASSUME NEW x \in Session  PROVE RemovesOwn(x)'
  BY <1>6 DEF CloseSession, info, Rows, Sure, RemovesOwn
<1>7. QED
  BY <1>1, <1>2, <1>3, <1>4, <1>5, <1>6 DEF Rows

LEMMA CompareRows ==
  ASSUME TypeInv, Owners, Turns, Rows, NEW t \in Thread, Compare(t)
  PROVE  Rows'
<1>1. ASSUME NEW k \in Key  PROVE OneRow(k)'
  BY <1>1 DEF Compare, history, Rows, Numbered, OneRow
<1>2. ASSUME NEW k \in Key  PROVE NotElsewhere(k)'
  BY <1>2 DEF TypeInv, TypeOK, Compare, deallocate, info, history, Rows, Numbered,
      NotElsewhere
<1>3. ASSUME NEW k \in Key  PROVE EntryOf(k)'
  BY <1>3 DEF Compare, maps, info, history, Rows, Numbered, EntryOf
<1>4. ASSUME NEW k \in Key  PROVE RemovedOf(k)'
  BY <1>4 DEF TypeInv, TypeOK, Compare, deallocate, maps, info, history, Rows, Numbered,
      RemovedOf, EntryOf, NoEntryLeft, Turns, Sure, OneCloser
<1>5. ASSUME NEW x \in Session  PROVE NoEntryLeft(x)'
  BY NoneAssumption, <1>5 DEF TypeInv, TypeOK, Compare, deallocate, maps, info, history,
      Rows, Sure, NoEntryLeft
<1>6. ASSUME NEW x \in Session  PROVE RemovesOwn(x)'
  BY NoneAssumption, <1>6 DEF TypeInv, TypeOK, Compare, deallocate, info, history, Rows,
      Sure, RemovesOwn
<1>7. QED
  BY <1>1, <1>2, <1>3, <1>4, <1>5, <1>6 DEF Rows

LEMMA RemoveRows ==
  ASSUME TypeInv, Owners, Turns, Rows, NEW t \in Thread, Remove(t)
  PROVE  Rows'
<1>1. ASSUME NEW k \in Key  PROVE OneRow(k)'
  BY <1>1 DEF Remove, history, Rows, Numbered, OneRow
<1>2. ASSUME NEW k \in Key  PROVE NotElsewhere(k)'
  BY <1>2 DEF Remove, deallocate, info, history, Rows, Numbered, NotElsewhere
<1>3. ASSUME NEW k \in Key  PROVE EntryOf(k)'
  BY NoneAssumption, <1>3 DEF Remove, info, history, Rows, Numbered, Without, EntryOf
<1>4. ASSUME NEW k \in Key  PROVE RemovedOf(k)'
  BY NoneAssumption, <1>4 DEF TypeInv, TypeOK, Remove, deallocate, info, history, Rows,
      Numbered, RemovedOf, Turns, Sure, OneCloser, Without
<1>5. ASSUME NEW x \in Session  PROVE NoEntryLeft(x)'
  BY NoneAssumption, <1>5 DEF Remove, deallocate, info, history, Rows, Without, Sure,
      NoEntryLeft, RemovesOwn
<1>6. ASSUME NEW x \in Session  PROVE RemovesOwn(x)'
  BY <1>6 DEF Remove, deallocate, info, history, Rows, Sure, RemovesOwn
<1>7. QED
  BY <1>1, <1>2, <1>3, <1>4, <1>5, <1>6 DEF Rows

-----------------------------------------------------------------------------
\* and where its sessions are found.
LEMMA AcceptPlaces ==
  ASSUME TypeInv, Owners, Turns, Rows, Places,
         NEW c \in Client, NEW s \in Session, Accept(c, s)
  PROVE  Places'
<1>1. ASSUME NEW x \in Session  PROVE Found(x)'
  BY <1>1 DEF Accept, maps, info, Places, Keyed, BeingClosed, Sure, Found
<1>2. ASSUME NEW x \in Session  PROVE InMap(x)'
  BY <1>2 DEF Accept, maps, info, Places, Keyed, Marked, BeingClosed, Sure, InMap
<1>3. ASSUME NEW x \in Session  PROVE FormerMarked(x)'
  BY <1>3 DEF Accept, maps, info, Places, Keyed, BeingClosed, Sure, Marked, FormerMarked
<1>4. QED
  BY <1>1, <1>2, <1>3 DEF Places

LEMMA GET_NEWPRANKKEYPlaces ==
  ASSUME TypeInv, Owners, Turns, Rows, Places, NEW s \in Session, GET_NEWPRANKKEY(s)
  PROVE  Places'
<1>1. ASSUME NEW x \in Session  PROVE Found(x)'
  BY <1>1 DEF GET_NEWPRANKKEY, maps, clients, Places, Owners, Keyed, Begins, BeingClosed,
      Sure, Known, Found, Rowed
<1>2. ASSUME NEW x \in Session  PROVE InMap(x)'
  BY <1>2 DEF GET_NEWPRANKKEY, maps, Places, Keyed, Marked, Begins, BeingClosed, Sure,
      InMap
<1>3. ASSUME NEW x \in Session  PROVE FormerMarked(x)'
  BY <1>3 DEF GET_NEWPRANKKEY, maps, Places, Keyed, Sure, Begins, Marked, BeingClosed,
      FormerMarked
<1>4. QED
  BY <1>1, <1>2, <1>3 DEF Places

LEMMA PutNewKeyPlaces ==
  ASSUME TypeInv, Owners, Turns, Rows, Places, NEW s \in Session, PutNewKey(s)
  PROVE  Places'
<1>1. ASSUME NEW x \in Session  PROVE Found(x)'
  BY <1>1 DEF TypeInv, TypeOK, PutNewKey, info, clients, history, Places, Turns, Keyed,
      BeingClosed, Sure, Found, Known, Last
<1>2. ASSUME NEW x \in Session  PROVE InMap(x)'
  BY <1>2 DEF TypeInv, TypeOK, PutNewKey, info, clients, history, Places, Owners, Keyed,
      Marked, BeingClosed, Sure, Known, InMap, Fresh
<1>3. ASSUME NEW x \in Session  PROVE FormerMarked(x)'
  <2>1. CASE s = x
    BY <1>3, <2>1 DEF PutNewKey, FormerMarked
  <2>2. CASE s # x
    <3>1. Sure(x) /\ at[x] = "putKey" => prankKey[s] # prankKey[x]
      BY <1>3, <2>2 DEF PutNewKey, Turns, Single, Active
    <3>2. QED
      BY <1>3, <2>2, <3>1 DEF PutNewKey, info, history, Places, BeingClosed, Sure, Marked,
          FormerMarked
  <2>3. QED
    BY <2>1, <2>2
<1>4. QED
  BY <1>1, <1>2, <1>3 DEF Places

LEMMA PUT_PRANKKEYPlaces ==
  ASSUME TypeInv, Owners, Turns, Rows, Places, NEW s \in Session, PUT_PRANKKEY(s)
  PROVE  Places'
<1>1. ASSUME NEW x \in Session  PROVE Found(x)'
  BY <1>1 DEF TypeInv, TypeOK, PUT_PRANKKEY, maps, clients, Places, Keyed, Begins,
      BeingClosed, Sure, Found
<1>2. ASSUME NEW x \in Session  PROVE InMap(x)'
  BY <1>2 DEF TypeInv, TypeOK, PUT_PRANKKEY, maps, Places, Keyed, Marked, Begins,
      BeingClosed, Sure, InMap
<1>3. ASSUME NEW x \in Session  PROVE FormerMarked(x)'
  BY <1>3 DEF TypeInv, TypeOK, PUT_PRANKKEY, maps, clients, Places, Keyed, Begins,
      BeingClosed, Sure, Marked, FormerMarked
<1>4. QED
  BY <1>1, <1>2, <1>3 DEF Places

LEMMA GET_NEWPHONENUMBERPlaces ==
  ASSUME TypeInv, Owners, Turns, Rows, Places, NEW s \in Session, GET_NEWPHONENUMBER(s)
  PROVE  Places'
<1>1. ASSUME NEW x \in Session  PROVE Found(x)'
  BY <1>1 DEF GET_NEWPHONENUMBER, maps, info, clients, Places, Keyed, Begins, BeingClosed,
      Sure, Found
<1>2. ASSUME NEW x \in Session  PROVE InMap(x)'
  BY <1>2 DEF GET_NEWPHONENUMBER, maps, info, Places, Keyed, Marked, Begins, BeingClosed,
      Sure, InMap
<1>3. ASSUME NEW x \in Session  PROVE FormerMarked(x)'
  BY <1>3 DEF GET_NEWPHONENUMBER, maps, info, Places, Keyed, BeingClosed, Sure, Marked,
      Begins, FormerMarked
<1>4. QED
  BY <1>1, <1>2, <1>3 DEF Places

LEMMA DrawPlaces ==
  ASSUME TypeInv, Owners, Turns, Rows, Places, NEW s \in Session, Draw(s)
  PROVE  Places'
<1>1. ASSUME NEW x \in Session  PROVE Found(x)'
  BY <1>1 DEF Draw, Drawing, maps, info, clients, history, Places, Keyed, BeingClosed,
      Sure, Found
<1>2. ASSUME NEW x \in Session  PROVE InMap(x)'
  BY <1>2 DEF Draw, Drawing, maps, info, history, Places, Keyed, Marked, BeingClosed,
      Sure, InMap
<1>3. ASSUME NEW x \in Session  PROVE FormerMarked(x)'
  BY <1>3 DEF Draw, Drawing, info, history, Places, Keyed, Marked, BeingClosed, Sure,
      FormerMarked, InMap
<1>4. QED
  BY <1>1, <1>2, <1>3 DEF Places

LEMMA StorePlaces ==
  ASSUME TypeInv, Owners, Turns, Rows, Places, NEW s \in Session, Store(s)
  PROVE  Places'
<1>1. ASSUME NEW x \in Session  PROVE Found(x)'
  BY <1>1 DEF TypeInv, TypeOK, Store, Return, Learn, maps, Places, Turns, Owners, Keyed,
      BeingClosed, Sure, Known, Found, Last, OneOwner, Rowed, Progress, Before
<1>2. ASSUME NEW x \in Session  PROVE InMap(x)'
  BY <1>2 DEF TypeInv, TypeOK, Store, Return, maps, Places, Owners, Keyed, Marked,
      BeingClosed, Sure, InMap
<1>3. ASSUME NEW x \in Session  PROVE FormerMarked(x)'
  BY <1>3 DEF TypeInv, TypeOK, Store, Return, Learn, maps, Places, Keyed, Sure, Marked,
      BeingClosed, FormerMarked
<1>4. QED
  BY <1>1, <1>2, <1>3 DEF Places

LEMMA RemoveNumberPlaces ==
  ASSUME TypeInv, Owners, Turns, Rows, Places, NEW s \in Session, RemoveNumber(s)
  PROVE  Places'
<1>1. ASSUME NEW x \in Session  PROVE Found(x)'
  <2>1. CASE s = x
    BY <1>1, <2>1 DEF TypeInv, TypeOK, RemoveNumber, clients, Sure, Places, Found,
        BeingClosed, Keyed
  <2>2. CASE s # x
    <3>1. ASSUME Sure(x)', Known(x), latest[owner[x]] = x,
                 db[prankKey[x]] = phoneNumber[x],
                 sessionMapByPhoneNumber[phoneNumber[x]] = x
          PROVE  sessionMapByPhoneNumber'[phoneNumber[x]] = x
      <4>1. Sure(x)
        BY <3>1 DEF Sure, RemoveNumber
      <4>2. Numbered(prankKey[x])
        BY <1>1, <3>1, <4>1, IsNumber DEF Numbered, Sure
      <4>3. prankKey[s] # prankKey[x]
        BY <1>1, <2>2, <3>1, <4>1 DEF RemoveNumber, Turns, Last
      <4>4. phoneNumber[s] # phoneNumber[x]
        BY <1>1, <3>1, <4>2, <4>3 DEF RemoveNumber, Rows, NotElsewhere, Sure
      <4>5. QED
        BY <3>1, <4>2, <4>4 DEF RemoveNumber, Without, Numbered
    <3>2. QED
      BY <1>1, <2>2, <3>1 DEF RemoveNumber, clients, Places, Found, Sure, BeingClosed,
          Known
  <2>3. QED
    BY <2>1, <2>2
<1>2. ASSUME NEW x \in Session  PROVE InMap(x)'
  BY <1>2 DEF RemoveNumber, Places, Keyed, Marked, BeingClosed, Sure, InMap
<1>3. ASSUME NEW x \in Session  PROVE FormerMarked(x)'
  BY <1>3 DEF RemoveNumber, Places, Keyed, Marked, BeingClosed, Sure, FormerMarked
<1>4. QED
  BY <1>1, <1>2, <1>3 DEF Places

LEMMA PutNumberPlaces ==
  ASSUME TypeInv, Owners, Turns, Rows, Places, NEW s \in Session, PutNumber(s)
  PROVE  Places'
<1>1. ASSUME NEW x \in Session  PROVE Found(x)'
  BY <1>1 DEF TypeInv, TypeOK, PutNumber, Return, Learn, info, Places, Rows, Turns,
      Owners, Numbered, Keyed, BeingClosed, Sure, Known, Found, NotElsewhere, Last,
      OneOwner, Rowed, Progress, Before
<1>2. ASSUME NEW x \in Session  PROVE InMap(x)'
  BY <1>2 DEF TypeInv, TypeOK, PutNumber, Return, info, Places, Keyed, Marked,
      BeingClosed, Sure, Known, InMap
<1>3. ASSUME NEW x \in Session  PROVE FormerMarked(x)'
  BY <1>3 DEF TypeInv, TypeOK, PutNumber, Return, Learn, info, Places, Keyed, Marked,
      BeingClosed, Sure, Known, FormerMarked
<1>4. QED
  BY <1>1, <1>2, <1>3 DEF Places

LEMMA GetKeyPlaces ==
  ASSUME TypeInv, Owners, Turns, Rows, Places, NEW s \in Session, GetKey(s)
  PROVE  Places'
<1>1. ASSUME NEW x \in Session  PROVE Found(x)'
  BY <1>1 DEF GetKey, maps, info, clients, history, Places, Keyed, BeingClosed, Sure,
      Found
<1>2. ASSUME NEW x \in Session  PROVE InMap(x)'
  BY <1>2 DEF GetKey, maps, info, history, Places, Keyed, Marked, BeingClosed, Sure, InMap
<1>3. ASSUME NEW x \in Session  PROVE FormerMarked(x)'
  BY NoneAssumption, <1>3 DEF GetKey, info, history, Places, Keyed, Marked, BeingClosed,
      Sure, FormerMarked, InMap
<1>4. QED
  BY <1>1, <1>2, <1>3 DEF Places

LEMMA PutKeyPlaces ==
  ASSUME TypeInv, Owners, Turns, Rows, Places, NEW s \in Session, PutKey(s)
  PROVE  Places'
<1>1. ASSUME NEW x \in Session  PROVE Found(x)'
  BY <1>1 DEF TypeInv, TypeOK, PutKey, Return, info, clients, history, Places, Turns,
      Owners, Keyed, BeingClosed, Sure, Known, Found, Last, Progress
<1>2. ASSUME NEW x \in Session  PROVE InMap(x)'
  BY <1>2 DEF TypeInv, TypeOK, PutKey, Return, info, history, Places, BeingClosed, Sure,
      Marked, InMap, FormerMarked
<1>3. ASSUME NEW x \in Session  PROVE FormerMarked(x)'
  BY <1>3 DEF PutKey, Return, info, history, Places, Turns, Marked, Active, Sure,
      FormerMarked, Single
<1>4. QED
  BY <1>1, <1>2, <1>3 DEF Places

LEMMA CloseSessionPlaces ==
  ASSUME TypeInv, Owners, Turns, Rows, Places,
         NEW t \in Thread, NEW s \in Session, CloseSession(t, s)
  PROVE  Places'
<1>1. ASSUME NEW x \in Session  PROVE Found(x)'
  BY NoneAssumption, <1>1 DEF TypeInv, TypeOK, CloseSession, info, clients, Places,
      BeingClosed, Sure, Found
<1>2. ASSUME NEW x \in Session  PROVE InMap(x)'
  BY NoneAssumption, <1>2 DEF TypeInv, TypeOK, CloseSession, info, Places, Marked,
      BeingClosed, Sure, InMap
<1>3. ASSUME NEW x \in Session  PROVE FormerMarked(x)'
  <2>1. ASSUME NEW y \in Session, Marked(y)  PROVE Marked(y)'
    BY NoneAssumption, <2>1 DEF TypeInv, TypeOK, CloseSession, Marked, BeingClosed
  <2>2. QED
    BY NoneAssumption, <1>3, <2>1 DEF CloseSession, info, Places, FormerMarked, Sure
<1>4. QED
  BY <1>1, <1>2, <1>3 DEF Places

LEMMA ComparePlaces ==
  ASSUME TypeInv, Owners, Turns, Rows, Places, NEW t \in Thread, Compare(t)
  PROVE  Places'
<1>1. ASSUME NEW x \in Session  PROVE Found(x)'
  BY NoneAssumption, <1>1 DEF TypeInv, TypeOK, Compare, deallocate, maps, info, clients,
      history, Places, Keyed, BeingClosed, Sure, Found, Turns, Uncrossed
<1>2. ASSUME NEW x \in Session  PROVE InMap(x)'
  BY <1>2 DEF TypeInv, TypeOK, Compare, deallocate, maps, info, clients, history, Places,
      Turns, Marked, BeingClosed, Sure, Known, InMap, FormerMarked, Single, OneCloser
<1>3. ASSUME NEW x \in Session  PROVE FormerMarked(x)'
  <2>1. ASSUME NEW y \in Session, y \in inUse', Marked(y)  PROVE Marked(y)'
    BY <2>1 DEF TypeInv, TypeOK, Compare, deallocate, Marked, BeingClosed
  <2>2. QED
    BY <1>3, <2>1 DEF TypeInv, TypeOK, Compare, deallocate, maps, info, history, Places,
        FormerMarked, Sure
<1>4. QED
  BY <1>1, <1>2, <1>3 DEF Places

LEMMA RemovePlaces ==
  ASSUME TypeInv, Owners, Turns, Rows, Places, NEW t \in Thread, Remove(t)
  PROVE  Places'
<1>1. ASSUME NEW x \in Session  PROVE Found(x)'
  <2>1. CASE closing[t].s = x
    BY <2>1 DEF TypeInv, TypeOK, Remove, deallocate, info, history, Turns, Uncrossed,
        Sure, Found, BeingClosed, Keyed
  <2>2. CASE closing[t].s # x
    <3>1. BeingClosed(x)' <=> BeingClosed(x)
      BY NoneAssumption, <1>1, <2>2 DEF Remove, deallocate, BeingClosed
    <3>2. ASSUME Sure(x), db[prankKey[x]] = phoneNumber[x],
                 sessionMapByPhoneNumber[phoneNumber[x]] = x
          PROVE  sessionMapByPhoneNumber'[phoneNumber[x]] = x
      <4>1. Numbered(prankKey[x])
        BY <1>1, <3>2, IsNumber DEF Numbered, Sure
      <4>2. closing[t].number # phoneNumber[x]
        BY <1>1, <2>2, <3>2, <4>1 DEF TypeInv, Remove, Rows, RemovedOf, Numbered
      <4>3. QED
        BY <3>2, <4>1, <4>2 DEF Remove, Without, Numbered
    <3>3. QED
      BY <1>1, <2>2, <3>1, <3>2 DEF Remove, deallocate, info, clients, history, Places,
          Found, Sure
  <2>3. QED
    BY <2>1, <2>2
<1>2. ASSUME NEW x \in Session  PROVE InMap(x)'
  BY <1>2 DEF Remove, deallocate, info, history, Places, Marked, BeingClosed, Sure, InMap
<1>3. ASSUME NEW x \in Session  PROVE FormerMarked(x)'
  BY <1>3 DEF Remove, deallocate, info, history, Places, Marked, BeingClosed, Sure,
      FormerMarked
<1>4. QED
  BY <1>1, <1>2, <1>3 DEF Places

-----------------------------------------------------------------------------
LEMMA InitialKInv ==
  Init => KInv
<1> SUFFICES ASSUME Init  PROVE KInv
  OBVIOUS
<1>1. TypeInv
  BY InitialInv DEF IInv
<1>2. Owners
  <2>1. ASSUME NEW s \in Session
        PROVE  Rowed(s) /\ OneOwner(s) /\ Unknown(s) /\ Fresh(s) /\ Progress(s)
    BY <2>1 DEF Init, Rowed, OneOwner, Unknown, Fresh, Progress, Known
  <2>2. ASSUME NEW c \in Client  PROVE Kept(c)
    BY NoneAssumption, <2>2 DEF Init, Kept
  <2>3. QED
    BY <2>1, <2>2 DEF Owners
<1>3. Turns
  BY NoneAssumption DEF Init, Turns, Single, Uncrossed, OneCloser, Last, IdleTold, Active,
      BeingClosed
<1>4. Rows
  <2>1. ASSUME NEW k \in Key  PROVE OneRow(k)
    BY NoneAssumption, <2>1 DEF Init, OneRow, Numbered
  <2>2. ASSUME NEW k \in Key  PROVE NotElsewhere(k) /\ EntryOf(k) /\ RemovedOf(k)
    BY NoneAssumption, <2>2 DEF Init, NotElsewhere, EntryOf, RemovedOf
  <2>3. ASSUME NEW s \in Session  PROVE NoEntryLeft(s) /\ RemovesOwn(s)
    BY NoneAssumption, <2>3 DEF Init, NoEntryLeft, RemovesOwn
  <2>4. QED
    BY <2>1, <2>2, <2>3 DEF Rows
<1>5. Places
  BY DEF Init, Places, Found, InMap, FormerMarked, Keyed
<1>6. QED
  BY <1>1, <1>2, <1>3, <1>4, <1>5 DEF KInv

LEMMA StepOwners ==
  ASSUME TypeInv, Owners, Next
  PROVE  Owners'
  BY AcceptOwners, GET_NEWPRANKKEYOwners, PUT_PRANKKEYOwners, GET_NEWPHONENUMBEROwners,
     PutNewKeyOwners, DrawOwners, StoreOwners, RemoveNumberOwners, PutNumberOwners,
     GetKeyOwners, PutKeyOwners, CloseSessionOwners, CompareOwners, RemoveOwners
     DEF Next, Request, Step

LEMMA StepTurns ==
  ASSUME TypeInv, Owners, Turns, Next
  PROVE  Turns'
  BY AcceptTurns, GET_NEWPRANKKEYTurns, PUT_PRANKKEYTurns, GET_NEWPHONENUMBERTurns,
     PutNewKeyTurns, DrawTurns, StoreTurns, RemoveNumberTurns, PutNumberTurns,
     GetKeyTurns, PutKeyTurns, CloseSessionTurns, CompareTurns, RemoveTurns
     DEF Next, Request, Step

LEMMA StepRows ==
  ASSUME TypeInv, Owners, Turns, Rows, Next
  PROVE  Rows'
  BY AcceptRows, GET_NEWPRANKKEYRows, PUT_PRANKKEYRows, GET_NEWPHONENUMBERRows,
     PutNewKeyRows, DrawRows, StoreRows, RemoveNumberRows, PutNumberRows,
     GetKeyRows, PutKeyRows, CloseSessionRows, CompareRows, RemoveRows
     DEF Next, Request, Step

LEMMA StepPlaces ==
  ASSUME TypeInv, Owners, Turns, Rows, Places, Next
  PROVE  Places'
  BY AcceptPlaces, GET_NEWPRANKKEYPlaces, PUT_PRANKKEYPlaces, GET_NEWPHONENUMBERPlaces,
     PutNewKeyPlaces, DrawPlaces, StorePlaces, RemoveNumberPlaces, PutNumberPlaces,
     GetKeyPlaces, PutKeyPlaces, CloseSessionPlaces, ComparePlaces, RemovePlaces
     DEF Next, Request, Step

LEMMA KInductive ==
  ASSUME KInv, [Next]_vars
  PROVE  KInv'
<1>1. CASE Next
  BY <1>1, StepTyped, StepOwners, StepTurns, StepRows, StepPlaces DEF KInv
<1>2. CASE UNCHANGED vars
  <2>1. TypeInv'
    BY <1>2 DEF KInv, TypeInv, TypeOK, vars, maps, info, clients, history
  <2>2. Owners'
    BY <1>2 DEF KInv, Owners, Rowed, OneOwner, Unknown, Fresh, Progress, Kept, Known,
        vars, info, clients, history
  <2>3. Turns'
    BY <1>2 DEF KInv, Turns, Single, Uncrossed, OneCloser, Last, IdleTold, Sure, Active,
        BeingClosed, Known, vars, info, clients, history
  <2>4. Rows'
    BY <1>2 DEF KInv, Rows, OneRow, NotElsewhere, EntryOf, RemovedOf, NoEntryLeft,
        RemovesOwn, Numbered, Sure, vars, maps, info, history
  <2>5. Places'
    BY <1>2 DEF KInv, Places, Found, InMap, FormerMarked, Marked, Sure, BeingClosed, vars,
        maps, info, clients, history
  <2>6. QED
    BY <2>1, <2>2, <2>3, <2>4, <2>5 DEF KInv
<1>3. QED
  BY <1>1, <1>2

LEMMA KInvariance == Spec => []KInv
<1>1. QED
  BY InitialKInv, KInductive, PTL DEF Spec

\* A client that has logged in is found under the number that the database has for
\* its key, and its session under the key, as long as the operations for the key came
\* one after the other: none of its former sessions and nobody else takes that away.
THEOREM LoggedInStaysFound == Spec => []LoggedInIsFound
<1>1. ASSUME KInv, NEW c \in Client, latest[c] # None, Settled(latest[c]),
             prankKey[latest[c]] \notin disturbed
      PROVE  /\ db[prankKey[latest[c]]] = phoneNumber[latest[c]]
             /\ sessionMapByPhoneNumber[phoneNumber[latest[c]]] = latest[c]
             /\ \/ prankKey[latest[c]] \in forgotten
                \/ sessionMapByPrankKey[prankKey[latest[c]]] = latest[c]
  <2>1. latest[c] \in Session /\ Sure(latest[c])
    BY <1>1 DEF KInv, TypeInv, TypeOK, Settled, Sure
  <2>2. QED
    BY <1>1, <2>1 DEF KInv, Places, Found, Keyed, Settled
<1>2. KInv => LoggedInIsFound
  BY <1>1 DEF LoggedInIsFound
<1>3. QED
  BY <1>2, KInvariance, PTL

\* While a client is logged in with its last session, every former one that has got a
\* number waits to be closed, unless the map had lost the key's entry.
THEOREM FormerWaitsToBeClosed == Spec => []FormerIsInvalid
<1>1. ASSUME KInv, NEW c \in Client, NEW s \in (inUse \cap told) \ {latest[c]},
             latest[c] # None, prankKey[latest[c]] = prankKey[s], Settled(latest[c]),
             prankKey[s] \notin disturbed \cup forgotten
      PROVE  Marked(s)
  <2>1. latest[c] \in Session /\ s \in Session
    BY <1>1 DEF KInv, TypeInv, TypeOK
  <2>2. Sure(latest[c]) /\ Sure(s)
    BY <1>1, <2>1 DEF KInv, TypeInv, Settled, Sure
  <2>3. sessionMapByPrankKey[prankKey[s]] = latest[c]
    BY <1>1, <2>1, <2>2 DEF KInv, Places, Found, Keyed, Settled
  <2>4. at[s] \in Keyed
    BY <1>1, <2>1 DEF KInv, Owners, Progress, Before, Keyed, Settled, Alone
  <2>5. QED
    BY <1>1, <2>1, <2>2, <2>3, <2>4 DEF KInv, Places, InMap
<1>2. KInv => FormerIsInvalid
  BY <1>1 DEF FormerIsInvalid, Marked
<1>3. QED
  BY <1>2, KInvariance, PTL
=============================================================================
