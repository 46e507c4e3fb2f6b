-------------------------- MODULE AnytlsPoolProofs --------------------------
(***************************************************************************)
(* AnytlsPool implements UserPool, and admits on stale data only clients   *)
(* that a change of their user has overtaken.                              *)
(***************************************************************************)
EXTENDS AnytlsPool, UserPoolProofs

\* A step of AnytlsPool is a step of UserPool or leaves its variables alone.
LEMMA AStepRefines == [ANext]_allvars => [Next]_vars
<1> SUFFICES ASSUME [ANext]_allvars PROVE [Next]_vars
  OBVIOUS
<1>1. CASE AQuiet
  BY <1>1 DEF AQuiet, Next, Sync, Bookkeeping
<1>2. CASE ARemoveUser
  BY <1>2 DEF ARemoveUser, Next, Sync
<1>3. ASSUME NEW i \in Ids, AUpdateUser(i) PROVE [Next]_vars
  BY <1>3 DEF AUpdateUser, Next, Sync, Bookkeeping
<1>4. CASE ATick \/ AExit \/ AStop \/ (RemoteChange /\ UNCHANGED avars)
  BY <1>4 DEF ATick, AExit, AStop, Next
<1>5. CASE AcceptFails \/ CloseListener
  BY <1>5 DEF AcceptFails, CloseListener
<1>6. ASSUME NEW c \in Clients, Accept(c) \/ Lookup(c) \/ Admit(c) \/ Leave(c)
      PROVE  [Next]_vars
  BY <1>6 DEF Accept, Lookup, Admit, Leave
<1>7. CASE UNCHANGED allvars
  BY <1>7 DEF allvars
<1> QED
  BY <1>1, <1>2, <1>3, <1>4, <1>5, <1>6, <1>7 DEF ANext, ASync

\* Whatever the accept loop and the handlers do, the pool behaves as UserPool
\* says.
THEOREM AnytlsPoolRefinesUserPool == ASafety => PoolRefined
<1>1. AInit => Init
  BY DEF AInit
<1>2. [ANext]_allvars => [Next]_vars
  BY AStepRefines
<1> QED
  BY <1>1, <1>2, PTL DEF ASafety, Safety, PoolRefined

-----------------------------------------------------------------------------
ConnType == conn \in [Clients -> Conn]

\* An object that a handler holds as the pooled one is in the pool.
HeldIsPooled ==
  \A c \in Clients : conn[c].own => conn[c].id \in Ids /\ users[conn[c].id] # NoUser

\* A handler that no change of its user has overtaken holds the pooled
\* object, and its client has sent the present password of that user.
FreshIsCurrent ==
  \A c \in Clients : conn[c].state = "found" /\ c \notin raced =>
    conn[c].own /\ PasswordKey[users[conn[c].id].password] = conn[c].key

HandlerInv == ConnType /\ HeldIsPooled /\ FreshIsCurrent

\* Every step keeps the handlers in agreement with the pool, or notes them
\* as raced.
LEMMA HandlerStep ==
  TypeOK /\ LoopInv /\ IndexSound /\ HandlerInv /\ [ANext]_allvars => HandlerInv'
<1> SUFFICES ASSUME TypeOK, LoopInv, IndexSound, HandlerInv, [ANext]_allvars
             PROVE  HandlerInv'
  OBVIOUS
<1> USE DEF HandlerInv
<1>t. users \in [Ids -> Slot] /\ userpass \in [Keys -> Ids \cup {NoId}]
  BY DEF TypeOK, Config
<1>u. ASSUME UNCHANGED <<users, conn, raced>> PROVE HandlerInv'
  BY <1>u DEF ConnType, HeldIsPooled, FreshIsCurrent
<1>1. ASSUME NEW i \in Ids, CreateUser(i), UNCHANGED avars PROVE HandlerInv'
  <2>1. users[i] = NoUser /\ UNCHANGED <<conn, raced>>
    BY <1>1 DEF CreateUser, avars
  <2>2. \A j \in Ids \ {i} : users'[j] = users[j]
    BY <1>1, <1>t DEF CreateUser
  <2>3. ASSUME NEW c \in Clients, conn[c].own
        PROVE  users'[conn[c].id] = users[conn[c].id]
    BY <2>1, <2>2, <2>3 DEF HeldIsPooled
  <2> QED
    BY <2>1, <2>3 DEF ConnType, HeldIsPooled, FreshIsCurrent
<1>2. CASE AQuiet /\ UNCHANGED avars
  <2>1. ASSUME ~\E i \in Ids : CreateUser(i) PROVE UNCHANGED users
    BY <1>2, <2>1 DEF AQuiet, Fetch, FetchFails, Abort, Reindex, BeginSweep, EndSweep,
       OnUserUpdate, TrafficSynced, TrafficFails, KeepUser, SweepUser, pool
  <2> QED
    BY <1>1, <1>2, <1>u, <2>1 DEF avars
<1>3. ASSUME NEW i \in Ids, AUpdateUser(i) PROVE HandlerInv'
  <2>1. /\ users' = [users EXCEPT ![i] = resp[i]]
        /\ raced' = raced \cup Waiting(i)
        /\ conn' = conn
        /\ i \in todo /\ pc = "users"
    BY <1>3 DEF AUpdateUser, UpdateUser
  <2>2. resp[i] # NoUser
    BY <2>1 DEF LoopInv, UpdateLoop, Updating, Listed
  <2>3. HeldIsPooled'
    BY <1>t, <2>1, <2>2 DEF HeldIsPooled
  <2>4. ASSUME NEW c \in Clients, conn[c].state = "found", c \notin raced'
        PROVE  conn[c].own /\ users'[conn[c].id] = users[conn[c].id]
               /\ PasswordKey[users[conn[c].id].password] = conn[c].key
    <3>1. conn[c].own /\ PasswordKey[users[conn[c].id].password] = conn[c].key
      BY <2>1, <2>4 DEF FreshIsCurrent
    <3>2. conn[c].id \in Ids \ {i}
      BY <2>1, <2>4, <3>1 DEF HeldIsPooled, Waiting
    <3> QED
      BY <1>t, <2>1, <3>1, <3>2
  <2> QED
    BY <2>1, <2>3, <2>4 DEF ConnType, FreshIsCurrent
<1>4. CASE ARemoveUser
  <2>1. /\ users' = [users EXCEPT ![cur] = NoUser]
        /\ raced' = raced \cup Waiting(cur)
        /\ conn' = [c \in Clients |->
                      IF conn[c].own /\ conn[c].id = cur
                        THEN [conn[c] EXCEPT !.own = FALSE, !.enable = users[cur].enable]
                        ELSE conn[c]]
    BY <1>4 DEF ARemoveUser, RemoveUser
  <2>2. ASSUME NEW c \in Clients, conn'[c].own
        PROVE  /\ conn'[c] = conn[c] /\ conn[c].id \in Ids /\ conn[c].id # cur
               /\ users'[conn[c].id] = users[conn[c].id]
    BY <1>t, <2>1, <2>2 DEF ConnType, Conn, HeldIsPooled
  <2>3. ASSUME NEW c \in Clients, conn'[c].state = "found", c \notin raced'
        PROVE  conn'[c].own /\ conn'[c].key = conn[c].key /\ conn'[c].id = conn[c].id
               /\ PasswordKey[users[conn[c].id].password] = conn[c].key
    BY <2>1, <2>3 DEF ConnType, Conn, FreshIsCurrent, Waiting
  <2>4. ASSUME NEW c \in Clients, conn[c].own, conn[c].id = cur
        PROVE  users[cur].enable \in BOOLEAN
    BY <1>t, <2>4, AnytlsAssumption DEF HeldIsPooled, Slot, User
  <2>5. ConnType'
    BY <2>1, <2>4 DEF ConnType, Conn
  <2> QED
    BY <2>2, <2>3, <2>5 DEF HeldIsPooled, FreshIsCurrent
<1>5. CASE ATick \/ AExit \/ AStop \/ (RemoteChange /\ UNCHANGED avars)
  BY <1>5, <1>u DEF ATick, AExit, AStop, Tick, Exit, Stop, RemoteChange, avars, pool
<1>6. CASE AcceptFails \/ CloseListener
  BY <1>6, <1>u DEF AcceptFails, CloseListener, vars, pool
<1>7. ASSUME NEW c \in Clients, Accept(c) PROVE HandlerInv'
  BY <1>7 DEF Accept, Open, Off, ConnType, Conn, HeldIsPooled, FreshIsCurrent, vars, pool
<1>8. ASSUME NEW c \in Clients, Lookup(c) PROVE HandlerInv'
  <2>1. PICK k \in Keys :
          /\ userpass[k] # NoId /\ users[userpass[k]] # NoUser
          /\ conn' = [conn EXCEPT ![c] =
                       [state |-> "found", id |-> userpass[k], own |-> TRUE,
                        enable |-> FALSE, key |-> k]]
          /\ raced' = IF Moving(userpass[k]) THEN raced \cup {c} ELSE raced
    BY <1>8 DEF Lookup
  <2>2. userpass[k] \in Ids /\ UNCHANGED users
    BY <1>8, <1>t, <2>1 DEF Lookup, vars, pool
  <2>3. c \notin raced' => PasswordKey[users[userpass[k]].password] = k
    BY <2>1, <2>2 DEF IndexSound, KeyOf
  <2> QED
    BY <2>1, <2>2, <2>3 DEF ConnType, Conn, HeldIsPooled, FreshIsCurrent
<1>9. ASSUME NEW c \in Clients, Admit(c) PROVE HandlerInv'
  BY <1>9 DEF Admit, ConnType, Conn, HeldIsPooled, FreshIsCurrent, vars, pool
<1>10. ASSUME NEW c \in Clients, Leave(c) PROVE HandlerInv'
  BY <1>10 DEF Leave, Off, ConnType, Conn, HeldIsPooled, FreshIsCurrent, vars, pool
<1>11. CASE UNCHANGED allvars
  BY <1>11, <1>u DEF allvars, vars, avars, pool
<1> QED
  BY <1>2, <1>3, <1>4, <1>5, <1>6, <1>7, <1>8, <1>9, <1>10, <1>11 DEF ANext, ASync

\* A handler admits with the present password of an enabled, pooled user,
\* unless a change of that user has overtaken it.
THEOREM OnlyCurrentAreAdmitted == ASafety => AdmissionIsCurrent
<1> DEFINE CurrentIfAdmitted ==
      \A c \in Clients : Admit(c) /\ c \notin raced =>
        LET i == conn[c].id IN
        /\ Pooled(i) /\ users[i].enable
        /\ KeyOf(i) = conn[c].key
<1>1. AInit => HandlerInv
  BY DEF AInit, HandlerInv, ConnType, Conn, Off, HeldIsPooled, FreshIsCurrent
<1>2. TypeOK /\ LoopInv /\ IndexSound /\ HandlerInv /\ [ANext]_allvars => HandlerInv'
  BY HandlerStep
<1>3. HandlerInv => CurrentIfAdmitted
  BY DEF HandlerInv, HeldIsPooled, FreshIsCurrent, Admit, Enabled, Pooled, KeyOf
<1>4. HandlerInv => [CurrentIfAdmitted]_allvars
  BY <1>3
<1>5. Init => LoopInv
  BY DEF Init, LoopInv, UpdateLoop, SweepLoop, InHand, PoolMatchesResponse,
         Updating, Sweeping
<1>6. TypeOK /\ LoopInv /\ [Next]_vars => LoopInv'
  BY LoopStep
<1> QED
  BY <1>1, <1>2, <1>4, <1>5, <1>6, AnytlsPoolRefinesUserPool, TypeCorrect, IndexIsSound, PTL
  DEF ASafety, Safety, PoolRefined, AdmissionIsCurrent

-----------------------------------------------------------------------------
\* What the type invariant says besides the pool and the held objects.
LoopType ==
  /\ closed \in BOOLEAN /\ gone \in BOOLEAN /\ raced \subseteq Clients
  /\ \A c \in Clients : conn[c].state \in {"off", "open"} => conn[c] \in {Off, Open}

\* Only Accept and Leave put a connection into one of its first two states.
LEMMA LoopTypeStep == ConnType /\ LoopType /\ [ANext]_allvars => LoopType'
<1> SUFFICES ASSUME ConnType, LoopType, [ANext]_allvars PROVE LoopType'
  OBVIOUS
<1> USE DEF LoopType
<1>1. CASE AQuiet /\ UNCHANGED avars
  BY <1>1 DEF avars
<1>2. ASSUME NEW i \in Ids, AUpdateUser(i) PROVE LoopType'
  BY <1>2 DEF AUpdateUser, Waiting
<1>3. CASE ARemoveUser
  <2>1. /\ raced' = raced \cup Waiting(cur) /\ UNCHANGED <<closed, gone>>
        /\ conn' = [c \in Clients |->
                      IF conn[c].own /\ conn[c].id = cur
                        THEN [conn[c] EXCEPT !.own = FALSE, !.enable = users[cur].enable]
                        ELSE conn[c]]
    BY <1>3 DEF ARemoveUser
  <2>2. ASSUME NEW c \in Clients, conn[c].own
        PROVE  conn[c].state \notin {"off", "open"}
    BY <2>2 DEF Off, Open
  <2>3. ASSUME NEW c \in Clients, conn'[c].state \in {"off", "open"}
        PROVE  conn'[c] = conn[c]
    <3>1. conn'[c] = IF conn[c].own /\ conn[c].id = cur
                       THEN [conn[c] EXCEPT !.own = FALSE, !.enable = users[cur].enable]
                       ELSE conn[c]
      BY <2>1
    <3>2. CASE conn[c].own /\ conn[c].id = cur
      <4>1. conn'[c].state = conn[c].state
        BY <3>1, <3>2 DEF ConnType, Conn
      <4> QED
        BY <2>2, <2>3, <3>2, <4>1
    <3> QED
      BY <3>1, <3>2
  <2> QED
    BY <2>1, <2>3 DEF Waiting
<1>4. CASE ATick \/ AExit \/ AStop \/ (RemoteChange /\ UNCHANGED avars)
  BY <1>4 DEF ATick, AExit, AStop, avars
<1>5. CASE AcceptFails \/ CloseListener
  BY <1>5 DEF AcceptFails, CloseListener
<1>6. ASSUME NEW c \in Clients, Accept(c) PROVE LoopType'
  BY <1>6 DEF Accept, Open, Off, ConnType, Conn
<1>7. ASSUME NEW c \in Clients, Lookup(c) PROVE LoopType'
  BY <1>7 DEF Lookup, ConnType, Conn
<1>8. ASSUME NEW c \in Clients, Admit(c) PROVE LoopType'
  BY <1>8 DEF Admit, ConnType, Conn
<1>9. ASSUME NEW c \in Clients, Leave(c) PROVE LoopType'
  BY <1>9 DEF Leave, Open, Off, ConnType, Conn
<1>10. CASE UNCHANGED allvars
  BY <1>10 DEF allvars, avars
<1> QED
  BY <1>1, <1>2, <1>3, <1>4, <1>5, <1>6, <1>7, <1>8, <1>9, <1>10 DEF ANext, ASync

\* Handlers and accept loop have their types, and a handler that holds an
\* object as the pooled one holds a user of the pool.
THEOREM ATypeCorrect == ASafety => []ATypeOK
<1>1. AInit => HandlerInv /\ LoopType /\ LoopInv
  <2> SUFFICES ASSUME AInit PROVE HandlerInv /\ LoopType /\ LoopInv
    OBVIOUS
  <2>1. HandlerInv
    BY DEF AInit, HandlerInv, ConnType, Conn, Off, HeldIsPooled, FreshIsCurrent
  <2>2. LoopType
    BY DEF AInit, LoopType
  <2>3. LoopInv
    BY DEF AInit, Init, LoopInv, UpdateLoop, SweepLoop, InHand, PoolMatchesResponse,
           Updating, Sweeping
  <2> QED
    BY <2>1, <2>2, <2>3
<1>2. TypeOK /\ LoopInv /\ IndexSound /\ HandlerInv /\ [ANext]_allvars => HandlerInv'
  BY HandlerStep
<1>3. HandlerInv /\ LoopType /\ [ANext]_allvars => LoopType'
  BY LoopTypeStep DEF HandlerInv
<1>4. TypeOK /\ LoopInv /\ [Next]_vars => LoopInv'
  BY LoopStep
<1>5. TypeOK /\ HandlerInv /\ LoopType => ATypeOK
  BY DEF HandlerInv, LoopType, ConnType, HeldIsPooled, ATypeOK
<1> QED
  BY <1>1, <1>2, <1>3, <1>4, <1>5, AnytlsPoolRefinesUserPool, TypeCorrect, IndexIsSound, PTL
  DEF ASafety, Safety, PoolRefined
=============================================================================
