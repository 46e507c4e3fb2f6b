--------------------------- MODULE UserPoolProofs ---------------------------
(***************************************************************************)
(* The invariants of UserPool, for every set of users and passwords, every *)
(* PasswordKey and every choice of hooks.                                  *)
(***************************************************************************)
EXTENDS UserPool, FiniteSetTheorems, TLAPS

\* Every step keeps the variables in their types.
LEMMA TypeOKStep == TypeOK /\ [Next]_vars => TypeOK'
<1> SUFFICES ASSUME TypeOK, [Next]_vars PROVE TypeOK'
  OBVIOUS
<1> USE PoolAssumption DEF TypeOK, Config, Slot, Phases, pool, lifecycle, locals
<1>1. CASE RemoteChange
  BY <1>1 DEF RemoteChange
<1>2. CASE Tick \/ Stop \/ Exit
  BY <1>2 DEF Tick, Stop, Exit
<1>13. CASE Fetch
  BY <1>13 DEF Fetch, Listed
<1>14. CASE FetchFails \/ TrafficFails
  BY <1>14 DEF FetchFails, TrafficFails, Abort, ForgetLocals, Nobody
<1>3. CASE TrafficSynced
  <2>1. CASE round < NumTags
    BY <1>3, <2>1 DEF TrafficSynced, Nobody
  <2>2. CASE ~(round < NumTags)
    BY <1>3, <2>2 DEF TrafficSynced, ForgetLocals, Nobody
  <2> QED
    BY <2>1, <2>2
<1>4. ASSUME NEW i \in Ids, CreateUser(i) PROVE TypeOK'
  BY <1>4 DEF CreateUser
<1>5. ASSUME NEW i \in Ids, UpdateUser(i) PROVE TypeOK'
  BY <1>5 DEF UpdateUser
<1>6. ASSUME NEW i \in Ids, KeepUser(i) \/ SweepUser(i) PROVE TypeOK'
  BY <1>6 DEF KeepUser, SweepUser
<1>7. CASE Reindex
  BY <1>7 DEF Reindex
<1>8. CASE BeginSweep \/ EndSweep
  BY <1>8 DEF BeginSweep, EndSweep, Listed
<1>9. CASE OnUserAdd \/ OnUserAddFails \/ OnUserUpdate
  BY <1>9 DEF OnUserAdd, OnUserAddFails, OnUserUpdate, Abort, ForgetLocals, Nobody
<1>10. CASE OnUserRemove \/ OnUserRemoveFails
  BY <1>10 DEF OnUserRemove, OnUserRemoveFails, Abort, ForgetLocals, Nobody
<1>11. CASE RemoveUser
  BY <1>11 DEF RemoveUser
<1>12. CASE UNCHANGED vars
  BY <1>12 DEF vars
<1> QED
  BY <1>1, <1>2, <1>3, <1>4, <1>5, <1>6, <1>7, <1>8, <1>9, <1>10, <1>11, <1>12,
     <1>13, <1>14
  DEF Next, Sync, Bookkeeping

\* The variables of the pool keep their types in every behaviour.
THEOREM TypeCorrect == Safety => []TypeOK
<1>1. Init => TypeOK
  <2> SUFFICES ASSUME Init PROVE TypeOK
    OBVIOUS
  <2>1. Nobody \in Config
    BY DEF Nobody, Config, Slot
  <2>2. 1 \in 1..NumTags
    BY PoolAssumption
  <2> QED
    BY <2>1, <2>2 DEF Init, TypeOK, Slot, Phases
<1>2. TypeOK /\ [Next]_vars => TypeOK'
  BY TypeOKStep
<1> QED
  BY <1>1, <1>2, PTL DEF Safety

-----------------------------------------------------------------------------
(***************************************************************************)
(* The two loops of syncUserConfigsFromServer.                             *)
(***************************************************************************)

Updating == {"users", "reindex", "onAdd", "onUpdate"}
Sweeping == {"sweep", "onRemove", "remove"}

\* The first loop has still to visit only listed users; those visited are in
\* the pool as listed.
UpdateLoop ==
  pc \in Updating =>
    /\ todo \subseteq Listed(resp)
    /\ \A i \in Listed(resp) \ todo : users[i] = resp[i]

\* The second loop has still to visit all pooled users that are not listed,
\* and no others.
SweepLoop ==
  pc \in Sweeping =>
    /\ todo = Listed(users) \ Listed(resp)
    /\ \A i \in Listed(resp) : users[i] = resp[i]

\* The user in hand of the second loop is one of them.
InHand == pc \in {"onRemove", "remove"} => cur \in todo

LoopInv == UpdateLoop /\ SweepLoop /\ InHand /\ PoolMatchesResponse

\* Every step keeps the loop invariants.
LEMMA LoopStep == TypeOK /\ LoopInv /\ [Next]_vars => LoopInv'
<1> SUFFICES ASSUME TypeOK, LoopInv, [Next]_vars PROVE LoopInv'
  OBVIOUS
<1> USE DEF TypeOK, LoopInv, UpdateLoop, SweepLoop, InHand, PoolMatchesResponse,
            Updating, Sweeping, Listed, Config, Slot, pool, lifecycle, locals
<1>1. CASE RemoteChange
  BY <1>1 DEF RemoteChange
<1>15. CASE Tick \/ Stop \/ Exit
  BY <1>15 DEF Tick, Stop, Exit
<1>2. CASE Fetch
  BY <1>2 DEF Fetch
<1>3. CASE FetchFails \/ TrafficFails \/ OnUserAddFails \/ OnUserRemoveFails
  BY <1>3 DEF FetchFails, TrafficFails, OnUserAddFails, OnUserRemoveFails, Abort
<1>4. CASE TrafficSynced
  BY <1>4 DEF TrafficSynced
<1>5. ASSUME NEW i \in Ids, CreateUser(i) PROVE LoopInv'
  BY <1>5 DEF CreateUser
<1>6. ASSUME NEW i \in Ids, UpdateUser(i) PROVE LoopInv'
  BY <1>6 DEF UpdateUser
<1>7. ASSUME NEW i \in Ids, KeepUser(i) PROVE LoopInv'
  BY <1>7 DEF KeepUser
<1>8. ASSUME NEW i \in Ids, SweepUser(i) PROVE LoopInv'
  BY <1>8 DEF SweepUser
<1>9. CASE Reindex \/ OnUserAdd \/ OnUserUpdate
  BY <1>9 DEF Reindex, OnUserAdd, OnUserUpdate
<1>10. CASE BeginSweep
  BY <1>10 DEF BeginSweep
<1>11. CASE EndSweep
  <2>1. pc = "sweep" /\ todo = {} /\ pc' = "traffic" /\ users' = users /\ resp' = resp
    BY <1>11 DEF EndSweep
  <2>2. \A i \in Ids : users[i] = resp[i]
    BY <2>1
  <2>3. users = resp
    BY <2>2
  <2> QED
    BY <2>1, <2>3
<1>12. CASE OnUserRemove
  BY <1>12 DEF OnUserRemove
<1>13. CASE RemoveUser
  BY <1>13 DEF RemoveUser
<1>14. CASE UNCHANGED vars
  BY <1>14 DEF vars
<1> QED
  BY <1>1, <1>2, <1>3, <1>4, <1>5, <1>6, <1>7, <1>8, <1>9, <1>10, <1>11, <1>12,
     <1>13, <1>14, <1>15
  DEF Next, Sync, Bookkeeping

\* They hold in every behaviour.
LEMMA LoopInvariance == Safety => []LoopInv
<1>1. Init => LoopInv
  BY DEF Init, LoopInv, UpdateLoop, SweepLoop, InHand, PoolMatchesResponse,
         Updating, Sweeping
<1>2. TypeOK /\ LoopInv /\ [Next]_vars => LoopInv'
  BY LoopStep
<1> QED
  BY <1>1, <1>2, TypeCorrect, PTL DEF Safety

\* When a cycle reaches its traffic report the pool is the response, however
\* many cycles before it were aborted between two of their critical sections.
THEOREM ResponseApplied == Safety => []PoolMatchesResponse
<1>1. LoopInv => PoolMatchesResponse
  BY DEF LoopInv
<1> QED
  BY <1>1, LoopInvariance, PTL

-----------------------------------------------------------------------------
(***************************************************************************)
(* The password map is sound.                                              *)
(***************************************************************************)

IndexInv == NoIndexWithoutKey /\ MovingIsPooled /\ IndexSound

\* Every step keeps the password map sound.
LEMMA IndexStep == TypeOK /\ LoopInv /\ IndexInv /\ [Next]_vars => IndexInv'
<1> SUFFICES ASSUME TypeOK, LoopInv, IndexInv, [Next]_vars PROVE IndexInv'
  OBVIOUS
<1> USE PoolAssumption
    DEF TypeOK, IndexInv, NoIndexWithoutKey, MovingIsPooled, IndexSound, Pooled,
        KeyOf, Moving, Config, Slot, pool, lifecycle, locals
<1>0. /\ pc \in {"users", "onAdd"} => todo \subseteq Listed(resp)
      /\ pc \in {"onRemove", "remove"} => cur \in Ids /\ users[cur] # NoUser
  BY DEF LoopInv, UpdateLoop, SweepLoop, InHand, Updating, Sweeping, Listed
<1>1. CASE RemoteChange
  BY <1>1 DEF RemoteChange
<1>2. CASE Tick \/ Stop \/ Exit
  BY <1>2 DEF Tick, Stop, Exit
<1>3. CASE Fetch
  BY <1>3 DEF Fetch
<1>4. CASE FetchFails \/ TrafficFails \/ OnUserAddFails \/ OnUserRemoveFails
  BY <1>4 DEF FetchFails, TrafficFails, OnUserAddFails, OnUserRemoveFails, Abort
<1>5. CASE TrafficSynced
  BY <1>5 DEF TrafficSynced
<1>6. ASSUME NEW i \in Ids, CreateUser(i) PROVE IndexInv'
  <2>1. resp[i] \in User /\ resp[i] # NoUser
    BY <1>0, <1>6 DEF CreateUser, Listed
  <2>2. pc = "users" /\ pc' # "reindex"
    BY <1>6 DEF CreateUser
  <2>3. \A j \in Ids : j # i => users'[j] = users[j]
    BY <1>6 DEF CreateUser
  <2>4. users'[i] = resp[i] /\ users[i] = NoUser
    BY <1>6 DEF CreateUser
  <2>5. \A k \in Keys : userpass'[k] # userpass[k] =>
            HasPasswordMap /\ userpass'[k] = i /\ k = PasswordKey[resp[i].password]
    BY <1>6 DEF CreateUser
  <2> QED
    BY <2>1, <2>2, <2>3, <2>4, <2>5
<1>7. ASSUME NEW i \in Ids, UpdateUser(i) PROVE IndexInv'
  <2>1. resp[i] \in User /\ users[i] \in User /\ resp[i] # NoUser
    BY <1>0, <1>7 DEF UpdateUser, Listed
  <2>2. pc = "users" /\ cur' = i /\ old' = users[i] /\ userpass' = userpass
    BY <1>7 DEF UpdateUser
  <2>3. users'[i] = resp[i] /\ \A j \in Ids : j # i => users'[j] = users[j]
    BY <1>7 DEF UpdateUser
  <2>4. pc' = IF HasPasswordMap /\ users[i].password # resp[i].password
                THEN "reindex" ELSE "onUpdate"
    BY <1>7 DEF UpdateUser
  <2>5. MovingIsPooled'
    BY <2>1, <2>2, <2>3, <2>4
  <2>6. ASSUME NEW k \in Keys, userpass[k] # NoId
        PROVE  /\ users'[userpass[k]] # NoUser
               /\ \/ PasswordKey[users'[userpass[k]].password] = k
                  \/ /\ pc' = "reindex" /\ i = userpass[k]
                     /\ PasswordKey[users[i].password] = k
    BY <2>1, <2>2, <2>3, <2>4, <2>6
  <2> QED
    BY <2>2, <2>5, <2>6
<1>8. ASSUME NEW i \in Ids, KeepUser(i) \/ SweepUser(i) PROVE IndexInv'
  BY <1>8 DEF KeepUser, SweepUser
<1>9. CASE Reindex
  <2>1. users[cur] \in User /\ old \in User /\ cur \in Ids /\ HasPasswordMap
    BY <1>9 DEF Reindex
  <2>2. \A k \in Keys :
          userpass'[k] = IF k = PasswordKey[users[cur].password] THEN cur
                         ELSE IF k = PasswordKey[old.password] THEN NoId
                         ELSE userpass[k]
    BY <1>9, <2>1 DEF Reindex, User
  <2>3. users' = users /\ pc = "reindex" /\ pc' = "onUpdate"
    BY <1>9 DEF Reindex
  <2> QED
    BY <2>1, <2>2, <2>3
<1>10. CASE OnUserAdd \/ OnUserUpdate \/ OnUserRemove
  BY <1>10 DEF OnUserAdd, OnUserUpdate, OnUserRemove
<1>11. CASE BeginSweep \/ EndSweep
  BY <1>11 DEF BeginSweep, EndSweep
<1>12. CASE RemoveUser
  <2>1. users[cur] \in User /\ cur \in Ids /\ pc = "remove" /\ pc' = "sweep"
    BY <1>0, <1>12 DEF RemoveUser
  <2>2. \A j \in Ids : j # cur => users'[j] = users[j]
    BY <1>12 DEF RemoveUser
  <2>3. \A k \in Keys :
          userpass'[k] = IF HasPasswordMap /\ k = PasswordKey[users[cur].password]
                           THEN NoId ELSE userpass[k]
    BY <1>12 DEF RemoveUser
  <2> QED
    BY <2>1, <2>2, <2>3
<1>13. CASE UNCHANGED vars
  BY <1>13 DEF vars
<1> QED
  BY <1>1, <1>2, <1>3, <1>4, <1>5, <1>6, <1>7, <1>8, <1>9, <1>10, <1>11, <1>12,
     <1>13
  DEF Next, Sync, Bookkeeping

\* A key never finds a user whose password it is not, but for the one user
\* that is between UpdateFromServer and its re-keying.
THEOREM IndexIsSound == Safety => []IndexSound
<1>1. Init => IndexInv
  BY DEF Init, IndexInv, NoIndexWithoutKey, MovingIsPooled, IndexSound
<1>2. TypeOK /\ LoopInv /\ IndexInv /\ [Next]_vars => IndexInv'
  BY IndexStep
<1>3. IndexInv => IndexSound
  BY DEF IndexInv
<1> QED
  BY <1>1, <1>2, <1>3, LoopInvariance, TypeCorrect, PTL DEF Safety

-----------------------------------------------------------------------------
(***************************************************************************)
(* The password map is complete, when no password ever changes hands.      *)
(***************************************************************************)

\* No key of a user in c is the key of another user in d.
OwnKeys(c, d) ==
  \A i, j \in Ids :
    i # j /\ c[i] # NoUser /\ d[j] # NoUser =>
      PasswordKey[c[i].password] # PasswordKey[d[j].password]

\* Neither what the endpoint lists, nor the response under way, nor the pool
\* gives a user a key that another user has in one of them.
KeysNeverMove ==
  /\ OwnKeys(remote, remote) /\ OwnKeys(remote, resp) /\ OwnKeys(remote, users)
  /\ OwnKeys(resp, resp) /\ OwnKeys(resp, users)
  /\ OwnKeys(users, users)

\* The key about to be deleted is nobody else's.
OldKeyIsFree ==
  pc = "reindex" =>
    \A j \in Ids : j # cur /\ users[j] # NoUser =>
      PasswordKey[users[j].password] # PasswordKey[old.password]

KeyInv == KeysNeverMove /\ OldKeyIsFree

\* Every step keeps the keys apart when the endpoint hands none over.
LEMMA KeyStep ==
  ~AllowHandover /\ TypeOK /\ LoopInv /\ KeyInv /\ [Next]_vars => KeyInv'
<1> SUFFICES ASSUME ~AllowHandover, TypeOK, LoopInv, KeyInv, [Next]_vars
             PROVE  KeyInv'
  OBVIOUS
<1> USE PoolAssumption
    DEF TypeOK, KeyInv, KeysNeverMove, OldKeyIsFree, OwnKeys, Config, Slot,
        pool, lifecycle, locals
<1>1. CASE RemoteChange
  <2>1. PICK i \in Ids, s \in Slot :
          /\ remote' = [remote EXCEPT ![i] = s]
          /\ Distinct([remote EXCEPT ![i] = s], i)
          /\ NoHandover([remote EXCEPT ![i] = s], i)
    BY <1>1 DEF RemoteChange
  <2>2. UNCHANGED <<users, resp, pc, cur, old>>
    BY <1>1 DEF RemoteChange
  <2>3. \A j \in Ids : remote'[j] = IF j = i THEN s ELSE remote[j]
    BY <2>1
  <2>4. ASSUME NEW j \in Ids, j # i, s # NoUser
        PROVE  /\ remote[j] # NoUser =>
                    PasswordKey[s.password] # PasswordKey[remote[j].password]
               /\ users[j] # NoUser =>
                    PasswordKey[s.password] # PasswordKey[users[j].password]
               /\ resp[j] # NoUser =>
                    PasswordKey[s.password] # PasswordKey[resp[j].password]
    BY <2>1, <2>4 DEF Distinct, NoHandover, Claimed, KeysOf
  <2> QED
    BY <2>2, <2>3, <2>4
<1>2. CASE Tick \/ Stop \/ Exit
  BY <1>2 DEF Tick, Stop, Exit
<1>3. CASE Fetch
  BY <1>3 DEF Fetch
<1>4. CASE FetchFails \/ TrafficFails \/ OnUserAddFails \/ OnUserRemoveFails
  BY <1>4 DEF FetchFails, TrafficFails, OnUserAddFails, OnUserRemoveFails, Abort,
              ForgetLocals, Nobody
<1>5. CASE TrafficSynced
  BY <1>5 DEF TrafficSynced, ForgetLocals, Nobody
<1>6. ASSUME NEW i \in Ids, CreateUser(i) PROVE KeyInv'
  BY <1>6 DEF CreateUser
<1>7. ASSUME NEW i \in Ids, UpdateUser(i) PROVE KeyInv'
  <2>1. /\ UNCHANGED <<remote, resp>> /\ cur' = i /\ old' = users[i]
        /\ \A j \in Ids : users'[j] = IF j = i THEN resp[i] ELSE users[j]
        /\ users[i] # NoUser
    BY <1>7 DEF UpdateUser
  <2>2. KeysNeverMove'
    BY <2>1
  <2>3. OldKeyIsFree'
    BY <2>1
  <2> QED
    BY <2>2, <2>3
<1>8. ASSUME NEW i \in Ids, KeepUser(i) \/ SweepUser(i) PROVE KeyInv'
  BY <1>8 DEF KeepUser, SweepUser
<1>9. CASE Reindex
  BY <1>9 DEF Reindex
<1>10. CASE OnUserAdd \/ OnUserUpdate \/ OnUserRemove
  BY <1>10 DEF OnUserAdd, OnUserUpdate, OnUserRemove
<1>11. CASE BeginSweep \/ EndSweep
  BY <1>11 DEF BeginSweep, EndSweep
<1>12. CASE RemoveUser
  BY <1>12 DEF RemoveUser
<1>13. CASE UNCHANGED vars
  BY <1>13 DEF vars
<1> QED
  BY <1>1, <1>2, <1>3, <1>4, <1>5, <1>6, <1>7, <1>8, <1>9, <1>10, <1>11, <1>12,
     <1>13
  DEF Next, Sync, Bookkeeping

\* Every step keeps every user findable when no key changes hands.
LEMMA CompleteStep ==
  TypeOK /\ LoopInv /\ IndexInv /\ KeyInv /\ KeyInv' /\ IndexComplete /\ [Next]_vars
    => IndexComplete'
<1> SUFFICES ASSUME TypeOK, LoopInv, IndexInv, KeyInv, KeyInv', IndexComplete,
                    [Next]_vars, HasPasswordMap
             PROVE  \A i \in Ids : Pooled(i)' /\ ~Moving(i)' => userpass'[KeyOf(i)'] = i
  BY DEF IndexComplete
<1> USE PoolAssumption
    DEF TypeOK, KeyInv, KeysNeverMove, OldKeyIsFree, OwnKeys, IndexComplete,
        Pooled, KeyOf, Moving, Config, Slot, pool, lifecycle, locals
<1>0. /\ pc \in {"users", "onAdd"} => todo \subseteq Listed(resp)
      /\ pc = "remove" => cur \in Ids /\ users[cur] \in User
      /\ pc = "reindex" => cur \in Ids /\ users[cur] \in User
  BY DEF LoopInv, UpdateLoop, SweepLoop, InHand, Updating, Sweeping, Listed,
         IndexInv, MovingIsPooled
<1>1. CASE RemoteChange
  BY <1>1 DEF RemoteChange
<1>2. CASE Tick \/ Stop \/ Exit
  BY <1>2 DEF Tick, Stop, Exit
<1>3. CASE Fetch
  BY <1>3 DEF Fetch
<1>4. CASE FetchFails \/ TrafficFails \/ OnUserAddFails \/ OnUserRemoveFails
  BY <1>4 DEF FetchFails, TrafficFails, OnUserAddFails, OnUserRemoveFails, Abort
<1>5. CASE TrafficSynced
  BY <1>5 DEF TrafficSynced
<1>6. ASSUME NEW i \in Ids, CreateUser(i)
      PROVE  \A j \in Ids : Pooled(j)' /\ ~Moving(j)' => userpass'[KeyOf(j)'] = j
  <2>1. /\ pc = "users" /\ resp[i] # NoUser /\ resp[i] \in User
        /\ \A j \in Ids : users'[j] = IF j = i THEN resp[i] ELSE users[j]
    BY <1>0, <1>6 DEF CreateUser, Listed
  <2>2. \A k \in Keys :
          userpass'[k] = IF k = PasswordKey[resp[i].password] THEN i ELSE userpass[k]
    BY <1>6 DEF CreateUser
  <2>3. \A j \in Ids : users'[j] # NoUser => PasswordKey[users'[j].password] \in Keys
    BY <2>1 DEF User
  <2> QED
    BY <2>1, <2>2, <2>3
<1>7. ASSUME NEW i \in Ids, UpdateUser(i)
      PROVE  \A j \in Ids : Pooled(j)' /\ ~Moving(j)' => userpass'[KeyOf(j)'] = j
  <2>1. /\ pc = "users" /\ userpass' = userpass /\ cur' = i /\ users[i] # NoUser
        /\ \A j \in Ids : users'[j] = IF j = i THEN resp[i] ELSE users[j]
        /\ pc' = IF users[i].password # resp[i].password THEN "reindex" ELSE "onUpdate"
    BY <1>7 DEF UpdateUser
  <2> QED
    BY <2>1
<1>8. ASSUME NEW i \in Ids, KeepUser(i) \/ SweepUser(i)
      PROVE  \A j \in Ids : Pooled(j)' /\ ~Moving(j)' => userpass'[KeyOf(j)'] = j
  BY <1>8 DEF KeepUser, SweepUser
<1>9. CASE Reindex
  <2>1. /\ pc = "reindex" /\ users' = users /\ pc' = "onUpdate"
        /\ \A j \in Ids : users[j] # NoUser => PasswordKey[users[j].password] \in Keys
    BY <1>9 DEF Reindex, User
  <2>2. \A k \in Keys :
          userpass'[k] = IF k = PasswordKey[users[cur].password] THEN cur
                         ELSE IF k = PasswordKey[old.password] THEN NoId
                         ELSE userpass[k]
    BY <1>9 DEF Reindex
  <2> QED
    BY <1>0, <2>1, <2>2
<1>10. CASE OnUserAdd \/ OnUserUpdate \/ OnUserRemove
  BY <1>10 DEF OnUserAdd, OnUserUpdate, OnUserRemove
<1>11. CASE BeginSweep \/ EndSweep
  BY <1>11 DEF BeginSweep, EndSweep
<1>12. CASE RemoveUser
  <2>1. /\ pc = "remove" /\ pc' = "sweep"
        /\ \A j \in Ids : users'[j] = IF j = cur THEN NoUser ELSE users[j]
        /\ \A j \in Ids : users[j] # NoUser => PasswordKey[users[j].password] \in Keys
    BY <1>12 DEF RemoveUser, User
  <2>2. \A k \in Keys :
          userpass'[k] = IF k = PasswordKey[users[cur].password] THEN NoId
                         ELSE userpass[k]
    BY <1>12 DEF RemoveUser
  <2> QED
    BY <1>0, <2>1, <2>2
<1>13. CASE UNCHANGED vars
  BY <1>13 DEF vars
<1> QED
  BY <1>1, <1>2, <1>3, <1>4, <1>5, <1>6, <1>7, <1>8, <1>9, <1>10, <1>11, <1>12,
     <1>13
  DEF Next, Sync, Bookkeeping

\* When the endpoint never gives a user the password of another, every pooled
\* user is found by its own password, but for the one that is being re-keyed.
THEOREM IndexIsComplete == ~AllowHandover /\ Safety => []IndexComplete
<1> SUFFICES ASSUME ~AllowHandover PROVE Safety => []IndexComplete
  OBVIOUS
<1>1. Init => IndexInv /\ KeyInv /\ IndexComplete
  BY DEF Init, IndexInv, NoIndexWithoutKey, MovingIsPooled, IndexSound, KeyInv,
         KeysNeverMove, OldKeyIsFree, OwnKeys, IndexComplete, Pooled, Nobody
<1>2. TypeOK /\ LoopInv /\ IndexInv /\ [Next]_vars => IndexInv'
  BY IndexStep
<1>3. TypeOK /\ LoopInv /\ KeyInv /\ [Next]_vars => KeyInv'
  BY KeyStep
<1>4. TypeOK /\ LoopInv /\ IndexInv /\ KeyInv /\ KeyInv' /\ IndexComplete /\ [Next]_vars
        => IndexComplete'
  BY CompleteStep
<1> QED
  BY <1>1, <1>2, <1>3, <1>4, LoopInvariance, TypeCorrect, PTL DEF Safety

\* A complete pass leaves every user with an entry, except where the endpoint
\* hands a password over, as the run pool_handover shows.
THEOREM FoundUnlessHandedOver == ~AllowHandover /\ Safety => []FoundAfterSync
<1>1. IndexComplete => FoundAfterSync
  BY DEF IndexComplete, FoundAfterSync, Moving
<1> QED
  BY <1>1, IndexIsComplete, PTL

-----------------------------------------------------------------------------
(***************************************************************************)
(* A cycle is finite, and one that finds nothing new does nothing.         *)
(***************************************************************************)

\* How many visits a set of ids takes, and what one less means.
LEMMA VisitsCount ==
  ASSUME IsFiniteSet(Ids), NEW s \in SUBSET Ids
  PROVE  /\ Cardinality(Ids) \in Nat /\ Cardinality(s) \in Nat
         /\ Cardinality(s) <= Cardinality(Ids)
         /\ \A i \in s : Cardinality(s \ {i}) = Cardinality(s) - 1
<1>1. IsFiniteSet(s) /\ Cardinality(s) <= Cardinality(Ids)
  BY FS_Subset
<1>2. \A i \in s : Cardinality(s \ {i}) = Cardinality(s) - 1
  BY <1>1, FS_RemoveElement
<1> QED
  BY <1>1, <1>2, FS_CardinalityType

\* The measure of a place in the pass, for each phase.
Measured ==
  /\ Cardinality(todo) \in Nat
  /\ pc \notin {"idle", "done"} => LeftOfPass \in Nat
  /\ pc = "fetch" => LeftOfPass = 6 * Cardinality(Ids) + 4
  /\ pc = "users" => LeftOfPass = 3 * Cardinality(Ids) + 3 + 3 * Cardinality(todo)
  /\ pc \in {"onAdd", "onUpdate"} =>
       LeftOfPass = 3 * Cardinality(Ids) + 4 + 3 * Cardinality(todo)
  /\ pc = "reindex" => LeftOfPass = 3 * Cardinality(Ids) + 5 + 3 * Cardinality(todo)
  /\ pc = "sweep" => LeftOfPass = 3 * Cardinality(todo) + 2
  /\ pc = "onRemove" => LeftOfPass = 3 * Cardinality(todo) + 1
  /\ pc = "remove" => LeftOfPass = 3 * Cardinality(todo)
  /\ pc = "traffic" => LeftOfPass = 1

\* It is what LeftOfPass says, before a step and after it.
LEMMA LeftAt ==
  ASSUME IsFiniteSet(Ids)
  PROVE  (TypeOK => Measured) /\ (TypeOK' => Measured')
<1>1. ASSUME TypeOK PROVE Measured
  <2>1. Cardinality(Ids) \in Nat /\ Cardinality(todo) \in Nat /\ pc \in Phases
    BY <1>1, VisitsCount DEF TypeOK
  <2> QED
    BY <2>1 DEF Measured, LeftOfPass, PassLength, Phases
<1>2. TypeOK => Measured
  BY <1>1
<1> QED
  BY <1>2, PTL

\* A step of the goroutine within a pass brings its end nearer.
LEMMA PassShrinks ==
  ASSUME IsFiniteSet(Ids), TypeOK, TypeOK', LoopInv, Sync,
         pc # "traffic", pc' \notin {"idle", "done"}
  PROVE  pc \notin {"idle", "done"} /\ round' = round /\ LeftOfPass' < LeftOfPass
<1> USE DEF pool, lifecycle, locals, Measured
<1>0. /\ Cardinality(Ids) \in Nat
      /\ Cardinality(todo) \in Nat /\ Cardinality(todo') \in Nat
      /\ Cardinality(todo') <= Cardinality(Ids)
      /\ \A i \in todo : Cardinality(todo \ {i}) = Cardinality(todo) - 1
      /\ todo \subseteq Ids
  BY VisitsCount DEF TypeOK
<1>m. Measured /\ Measured'
  BY LeftAt
<1>1. CASE Fetch
  BY <1>0, <1>1, <1>m DEF Fetch
<1>2. CASE FetchFails \/ OnUserAddFails \/ OnUserRemoveFails \/ TrafficFails \/ TrafficSynced
  BY <1>2 DEF FetchFails, OnUserAddFails, OnUserRemoveFails, TrafficFails, TrafficSynced, Abort
<1>3. ASSUME NEW i \in Ids, CreateUser(i) \/ KeepUser(i) \/ UpdateUser(i)
      PROVE  pc \notin {"idle", "done"} /\ round' = round /\ LeftOfPass' < LeftOfPass
  <2>1. /\ pc = "users" /\ i \in todo /\ todo' = todo \ {i} /\ round' = round
        /\ pc' \in {"users", "onAdd", "onUpdate", "reindex"}
    BY <1>3 DEF CreateUser, KeepUser, UpdateUser
  <2> QED
    BY <1>0, <1>m, <2>1
<1>4. CASE Reindex \/ OnUserAdd \/ OnUserUpdate
  <2>1. /\ todo' = todo /\ round' = round
        /\ \/ pc = "reindex" /\ pc' = "onUpdate"
           \/ pc \in {"onAdd", "onUpdate"} /\ pc' = "users"
    BY <1>4 DEF Reindex, OnUserAdd, OnUserUpdate
  <2> QED
    BY <1>0, <1>m, <2>1
<1>5. CASE BeginSweep
  <2>1. pc = "users" /\ pc' = "sweep" /\ round' = round
    BY <1>5 DEF BeginSweep
  <2> QED
    BY <1>0, <1>m, <2>1
<1>6. ASSUME NEW i \in Ids, SweepUser(i)
      PROVE  pc \notin {"idle", "done"} /\ round' = round /\ LeftOfPass' < LeftOfPass
  BY <1>0, <1>m, <1>6 DEF SweepUser
<1>7. CASE OnUserRemove \/ EndSweep
  <2>1. /\ todo' = todo /\ round' = round
        /\ \/ pc = "onRemove" /\ pc' = "remove"
           \/ pc = "sweep" /\ pc' = "traffic"
    BY <1>7 DEF OnUserRemove, EndSweep
  <2> QED
    BY <1>0, <1>m, <2>1
<1>8. CASE RemoveUser
  <2>1. /\ pc = "remove" /\ pc' = "sweep" /\ todo' = todo \ {cur} /\ round' = round
        /\ cur \in todo
    BY <1>8 DEF RemoveUser, LoopInv, InHand
  <2> QED
    BY <1>0, <1>m, <2>1
<1> QED
  BY <1>1, <1>2, <1>3, <1>4, <1>5, <1>6, <1>7, <1>8 DEF Sync, Bookkeeping

\* The length of the passes still to come, when there is one less of them.
LEMMA PassesLeft ==
  ASSUME NEW L \in Nat, NEW k \in Nat, k > 0
  PROVE  k * L \in Nat /\ (k - 1) * L \in Nat /\ k * L = (k - 1) * L + L
OBVIOUS

\* Every step of the goroutine brings the end of the cycle nearer, and no other
\* step puts it off.
LEMMA CycleShrinks ==
  ASSUME IsFiniteSet(Ids), TypeOK, TypeOK', LoopInv, [Next]_vars
  PROVE  /\ Sync => LeftOfCycle' \in 0..(LeftOfCycle - 1)
         /\ ~Sync /\ ~Tick => LeftOfCycle' <= LeftOfCycle
<1> DEFINE L == PassLength + 1
           K == NumTags - round
<1>0. L \in Nat /\ K \in Nat /\ Cardinality(Ids) \in Nat
  <2>1. Cardinality(Ids) \in Nat
    BY FS_CardinalityType
  <2>2. round \in 1..NumTags /\ NumTags \in Nat
    BY PoolAssumption DEF TypeOK
  <2>3. K \in Nat
    BY <2>2
  <2> QED
    BY <2>1, <2>3 DEF PassLength
<1>m. Measured /\ Measured'
  BY LeftAt
<1>k. K * L \in Nat /\ (K > 0 => (K - 1) * L \in Nat /\ K * L = (K - 1) * L + L)
  <2>1. \A l, k \in Nat : k * l \in Nat
    OBVIOUS
  <2> HIDE DEF L, K
  <2> QED
    BY <1>0, <2>1, PassesLeft
<1>l. /\ pc \notin {"idle", "done"} => LeftOfCycle = K * L + LeftOfPass /\ LeftOfPass \in Nat
      /\ pc \in {"idle", "done"} => LeftOfCycle = 0
      /\ LeftOfCycle \in Nat
  <2>1. /\ pc \notin {"idle", "done"} => LeftOfCycle = K * L + LeftOfPass
        /\ pc \in {"idle", "done"} => LeftOfCycle = 0
    BY DEF LeftOfCycle
  <2>2. pc \notin {"idle", "done"} => LeftOfPass \in Nat
    BY <1>m DEF Measured
  <2> HIDE DEF L, K
  <2> QED
    BY <1>k, <2>1, <2>2
<1>r. /\ pc' \notin {"idle", "done"} =>
           LeftOfCycle' = (NumTags - round') * L + LeftOfPass' /\ LeftOfPass' \in Nat
      /\ pc' \in {"idle", "done"} => LeftOfCycle' = 0
  BY <1>m DEF LeftOfCycle, PassLength, Measured
<1>1. ASSUME Sync, pc # "traffic", pc' \notin {"idle", "done"}
      PROVE  LeftOfCycle' \in 0..(LeftOfCycle - 1)
  <2>1. pc \notin {"idle", "done"} /\ round' = round /\ LeftOfPass' < LeftOfPass
    BY <1>1, PassShrinks
  <2>2. LeftOfCycle' = K * L + LeftOfPass' /\ LeftOfPass' \in Nat
    BY <1>1, <1>r, <2>1
  <2> HIDE DEF L, K
  <2> QED
    BY <1>k, <1>l, <2>1, <2>2
<1>2. ASSUME Sync, pc' \in {"idle", "done"}
      PROVE  LeftOfCycle' \in 0..(LeftOfCycle - 1)
  <2>1. pc \in {"fetch", "onAdd", "onRemove", "traffic"}
    BY <1>2
    DEF Sync, Bookkeeping, Fetch, FetchFails, KeepUser, UpdateUser, Reindex, BeginSweep,
        SweepUser, EndSweep, CreateUser, RemoveUser, OnUserAdd, OnUserAddFails,
        OnUserUpdate, OnUserRemove, OnUserRemoveFails, TrafficSynced, TrafficFails
  <2>2. LeftOfPass \in Nat /\ LeftOfPass > 0
    BY <1>0, <1>m, <2>1 DEF Measured
  <2>3. LeftOfCycle' = 0 /\ LeftOfCycle = K * L + LeftOfPass
    BY <1>2, <1>l, <1>r, <2>1
  <2> HIDE DEF L, K
  <2> QED
    BY <1>k, <2>2, <2>3
<1>3. ASSUME Sync, pc = "traffic", pc' \notin {"idle", "done"}
      PROVE  LeftOfCycle' \in 0..(LeftOfCycle - 1)
  <2>1. TrafficSynced /\ round < NumTags
    BY <1>3
    DEF Sync, Bookkeeping, Fetch, FetchFails, KeepUser, UpdateUser, Reindex, BeginSweep,
        SweepUser, EndSweep, CreateUser, RemoveUser, OnUserAdd, OnUserAddFails,
        OnUserUpdate, OnUserRemove, OnUserRemoveFails, TrafficSynced, TrafficFails, Abort
  <2>2. pc' = "fetch" /\ round' = round + 1
    BY <2>1 DEF TrafficSynced
  <2>3. /\ NumTags - round' = K - 1 /\ K > 0
        /\ LeftOfPass = 1 /\ LeftOfPass' = L - 1
    BY <1>0, <1>3, <1>m, <2>1, <2>2, PoolAssumption DEF Measured, PassLength, TypeOK
  <2>4. LeftOfCycle' = (K - 1) * L + LeftOfPass' /\ LeftOfPass' \in Nat
    BY <1>r, <2>2, <2>3
  <2>5. LeftOfCycle = K * L + LeftOfPass
    BY <1>3, <1>l
  <2> HIDE DEF L, K
  <2> PICK rest \in Nat : rest = (K - 1) * L
    BY <1>k, <2>3
  <2>6. LeftOfCycle = rest + L + 1 /\ LeftOfCycle' = rest + (L - 1)
    BY <1>k, <2>3, <2>4, <2>5
  <2> QED
    BY <1>0, <2>3, <2>4, <2>6
<1>4. ASSUME ~Sync, ~Tick PROVE LeftOfCycle' <= LeftOfCycle
  <2>1. CASE UNCHANGED <<pc, round, todo>>
    <3>1. LeftOfCycle' = LeftOfCycle
      BY <2>1 DEF LeftOfCycle, LeftOfPass
    <3> QED
      BY <1>l, <3>1
  <2>2. CASE Exit
    BY <1>l, <1>r, <2>2 DEF Exit
  <2> QED
    BY <1>4, <2>1, <2>2 DEF Next, RemoteChange, Stop, vars, locals
<1> QED
  BY <1>1, <1>2, <1>3, <1>4

\* A cycle of a pool with finitely many users ends, in a number of steps that
\* only depends on how many users and tags there are.
THEOREM CyclesAreFinite == IsFiniteSet(Ids) /\ Safety => CycleIsFinite
<1> SUFFICES ASSUME IsFiniteSet(Ids) PROVE Safety => CycleIsFinite
  OBVIOUS
<1>1. TypeOK /\ TypeOK' /\ LoopInv /\ [Next]_vars =>
        [/\ Sync => LeftOfCycle' \in 0..(LeftOfCycle - 1)
         /\ ~Sync /\ ~Tick => LeftOfCycle' <= LeftOfCycle]_vars
  BY CycleShrinks
<1> QED
  BY <1>1, LoopInvariance, TypeCorrect, PTL DEF Safety, CycleIsFinite

\* A step from a settled pool, while the list stays as it is.
LEMMA SettledStep ==
  ASSUME TypeOK, LoopInv, [Next]_vars, Settled, UNCHANGED remote
  PROVE  Settled' /\ ~\E i \in Ids : CreateUser(i) \/ UpdateUser(i) \/ SweepUser(i)
<1> USE DEF Settled, pool, lifecycle, locals
<1>1. /\ pc = "users" => \A i \in todo : users[i] = resp[i] /\ users[i] # NoUser
      /\ pc = "sweep" => todo = {}
      /\ pc # "remove"
  BY DEF LoopInv, UpdateLoop, SweepLoop, InHand, Updating, Sweeping, Listed
<1>2. ~\E i \in Ids : CreateUser(i) \/ UpdateUser(i) \/ SweepUser(i)
  BY <1>1 DEF CreateUser, UpdateUser, SweepUser
<1> SUFFICES Settled'
  BY <1>2
<1>3. ~RemoveUser
  BY <1>1 DEF RemoveUser
<1>4. CASE Fetch \/ BeginSweep \/ EndSweep \/ Reindex \/ OnUserAdd \/ OnUserUpdate \/ OnUserRemove
  BY <1>4 DEF Fetch, BeginSweep, EndSweep, Reindex, OnUserAdd, OnUserUpdate, OnUserRemove
<1>5. CASE FetchFails \/ OnUserAddFails \/ OnUserRemoveFails \/ TrafficFails \/ TrafficSynced
  BY <1>5 DEF FetchFails, OnUserAddFails, OnUserRemoveFails, TrafficFails, TrafficSynced, Abort
<1>6. CASE \E i \in Ids : KeepUser(i)
  BY <1>6 DEF KeepUser
<1>7. CASE RemoteChange \/ Tick \/ Stop \/ Exit \/ UNCHANGED vars
  BY <1>7 DEF RemoteChange, Tick, Stop, Exit, vars
<1> QED
  BY <1>2, <1>3, <1>4, <1>5, <1>6, <1>7 DEF Next, Sync, Bookkeeping

\* A pool that agrees with an unchanged list calls no hook and stays as it is,
\* through any number of complete and aborted cycles.
THEOREM SettledStaysQuiet == Safety => SettledIsQuiet
<1>1. TypeOK /\ LoopInv /\ [Next]_vars =>
        [Settled /\ UNCHANGED remote =>
           /\ Settled'
           /\ ~\E i \in Ids : CreateUser(i) \/ UpdateUser(i) \/ SweepUser(i)]_vars
  BY SettledStep
<1> QED
  BY <1>1, LoopInvariance, TypeCorrect, PTL DEF Safety, SettledIsQuiet
=============================================================================
