--------------------------- MODULE XrayPoolProofs ---------------------------
(***************************************************************************)
(* XrayPool implements UserPool and serves whom the pool says; what is     *)
(* left of that when a reload leaves an old pool behind (XrayReload).      *)
(***************************************************************************)
EXTENDS XrayReload, UserPoolProofs

\* A step of XrayPool is a step of UserPool or leaves its variables alone.
LEMMA XStepRefines == [XNext]_allvars => [Next]_vars
<1> SUFFICES ASSUME [XNext]_allvars PROVE [Next]_vars
  OBVIOUS
<1>1. CASE XSync
  <2>1. CASE Bookkeeping /\ UNCHANGED xvars
    BY <2>1 DEF Next, Sync
  <2>2. ASSUME NEW i \in Ids, XCreateUser(i) PROVE [Next]_vars
    BY <2>2 DEF XCreateUser, Next, Sync
  <2>3. CASE XRemoveUser
    BY <2>3 DEF XRemoveUser, Next, Sync
  <2>4. CASE AddNewUser \/ AddNewUserFails
    BY <2>4 DEF AddNewUser, AddNewUserFails, Next, Sync
  <2>5. CASE RemoveOldUser \/ RemoveOldUserFails \/ KeepOldUser
    BY <2>5 DEF RemoveOldUser, RemoveOldUserFails, KeepOldUser
  <2>6. CASE AddUpdatedUser \/ AddUpdatedUserRefused \/ AddUpdatedUserFails \/ LeaveDisabledUser
    BY <2>6 DEF AddUpdatedUser, AddUpdatedUserRefused, AddUpdatedUserFails,
                LeaveDisabledUser, Next, Sync
  <2>7. CASE RemoveUnlistedUser \/ RemoveUnlistedUserFails
    BY <2>7 DEF RemoveUnlistedUser, RemoveUnlistedUserFails, Next, Sync
  <2>8. CASE QueryStats \/ (\E i \in Ids : WalkPooled(i) \/ WalkLeaked(i))
    BY <2>8 DEF QueryStats, WalkPooled, WalkLeaked
  <2>9. CASE QueryStatsFails \/ Report \/ ReportFails
    BY <2>9 DEF QueryStatsFails, Report, ReportFails, Next, Sync
  <2> QED
    BY <1>1, <2>1, <2>2, <2>3, <2>4, <2>5, <2>6, <2>7, <2>8, <2>9 DEF XSync
<1>2. CASE XTick \/ XExit \/ ((RemoteChange \/ Stop) /\ UNCHANGED xvars)
  BY <1>2 DEF XTick, XExit, Next
<1>3. CASE \E i \in Ids : Count(i)
  BY <1>3 DEF Count
<1>4. CASE UNCHANGED allvars
  BY <1>4 DEF allvars
<1> QED
  BY <1>1, <1>2, <1>3, <1>4 DEF XNext

\* Whatever the hooks of xray do, the pool behaves as UserPool says.
THEOREM XrayPoolRefinesUserPool == XSafety => PoolRefined
<1>1. XInit => Init
  BY DEF XInit
<1>2. [XNext]_allvars => [Next]_vars
  BY XStepRefines
<1> QED
  BY <1>1, <1>2, PTL DEF XSafety, Safety, PoolRefined

-----------------------------------------------------------------------------
\* OnUserAdd and OnUserUpdate work on a user of the pool.
HookOnPooled == pc \in {"reindex", "onAdd", "onUpdate"} => cur \in Ids /\ users[cur] # NoUser

InboundType == inbound \in [Tags -> [Ids -> Passwords \cup {None}]]
AddIsUpdate == hook = "add" => pc = "onUpdate"

HandInv == HookOnPooled /\ InboundType /\ AddIsUpdate

\* Who is served after a step, having been answered for or not served before,
\* is answered for.
Keeps ==
  \A i \in Ids :
    Served(i)' # None /\ (Served(i) = None \/ AnswersFor(i)) => AnswersFor(i)'

\* A change of one entry of the first inbound, seen through Served.
LEMMA SetServedEffect ==
  ASSUME InboundType, NEW i \in Ids, NEW p \in Passwords \cup {None}, SetServed(i, p)
  PROVE  InboundType' /\ \A j \in Ids : Served(j)' = IF j = i THEN p ELSE Served(j)
<1>1. 1 \in Tags
  BY PoolAssumption DEF Tags
<1> QED
  BY <1>1 DEF InboundType, SetServed, Served

\* What a step may do to the first inbound: nothing, or to add or remove a
\* user of the pool, or to remove one that is not.
Touches(i) ==
  /\ InboundType'
  /\ \A j \in Ids \ {i} : Served(j)' = Served(j)
  /\ Served(i)' \in {Served(i), None} \/ (users[i] # NoUser /\ UNCHANGED users)

\* The calls, successful or not, touch one user.
LEMMA CallsTouchOne ==
  ASSUME TypeOK, InboundType, NEW i \in Ids
  PROVE  /\ /\ AddTakesEffect(i) \/ AddFails(i)
            /\ users[i] # NoUser /\ UNCHANGED users
            => Touches(i)
         /\ RemoveTakesEffect(i) \/ RemoveFails(i) => Touches(i)
         /\ RemoveTakesEffect(i) => Served(i)' = None
<1>1. ASSUME RemoveTakesEffect(i) PROVE Touches(i) /\ Served(i)' = None
  BY <1>1, SetServedEffect DEF RemoveTakesEffect, Touches
<1>2. ASSUME inbound' = inbound PROVE Touches(i)
  BY <1>2 DEF Touches, InboundType, Served
<1>3. ASSUME AddTakesEffect(i), users[i] # NoUser, UNCHANGED users PROVE Touches(i)
  <2>1. users[i].password \in Passwords
    BY <1>3 DEF TypeOK, Config, Slot, User
  <2> QED
    BY <1>3, <2>1, SetServedEffect DEF AddTakesEffect, Touches
<1> QED
  BY <1>1, <1>2, <1>3 DEF AddFails, RemoveFails

\* No step of the pool leaves or puts a user into xray that the pool is done
\* with; this is also true of a pool that is not alone with its xray.
LEMMA HandStep ==
  TypeOK /\ LoopInv /\ HandInv /\ [XNext]_allvars => HandInv' /\ Keeps
<1> SUFFICES ASSUME TypeOK, LoopInv, HandInv, [XNext]_allvars PROVE HandInv' /\ Keeps
  OBVIOUS
<1> USE DEF HandInv, HookOnPooled, AddIsUpdate, Keeps, AnswersFor,
            pool, lifecycle, locals, vars, xvars
<1>0. /\ pc = "users" => todo \subseteq Ids /\ \A i \in todo : resp[i] # NoUser
      /\ pc \in {"sweep", "onRemove", "remove"} => todo \subseteq Ids
      /\ pc \in {"onRemove", "remove"} => cur \in todo
      /\ DOMAIN users = Ids /\ users = [i \in Ids |-> users[i]]
  BY DEF TypeOK, Config, LoopInv, UpdateLoop, SweepLoop, InHand, Updating, Sweeping,
         Listed
<1>u. UNCHANGED inbound => InboundType' /\ \A i \in Ids : Served(i)' = Served(i)
  BY DEF InboundType, Served
<1>1. ASSUME NEW i \in Ids, XCreateUser(i) PROVE HandInv' /\ Keeps
  <2>1. /\ users' = [users EXCEPT ![i] = resp[i]] /\ resp[i] # NoUser
        /\ pc' \in {"users", "onAdd"} /\ (pc' = "onAdd" => cur' = i)
        /\ UNCHANGED <<inbound, hook>> /\ pc = "users"
    BY <1>0, <1>1 DEF XCreateUser, CreateUser
  <2>2. \A j \in Ids : users[j] # NoUser => users'[j] # NoUser
    BY <1>0, <2>1
  <2>3. users'[i] # NoUser
    BY <1>0, <2>1
  <2> QED
    BY <1>u, <2>1, <2>2, <2>3
<1>2. CASE Bookkeeping /\ UNCHANGED xvars
  <2>1. CASE Fetch \/ FetchFails \/ Reindex
    BY <1>2, <1>u, <2>1 DEF Fetch, FetchFails, Reindex, Abort
  <2>2. CASE BeginSweep \/ EndSweep
    BY <1>2, <1>u, <2>2 DEF BeginSweep, EndSweep
  <2>3. ASSUME NEW i \in Ids, KeepUser(i) PROVE HandInv' /\ Keeps
    BY <1>2, <1>u, <2>3 DEF KeepUser
  <2>4. ASSUME NEW i \in Ids, SweepUser(i) PROVE HandInv' /\ Keeps
    <3>1. pc' = "onRemove"
      BY <2>4, XrayAssumption DEF SweepUser
    <3> QED
      BY <1>2, <1>u, <2>4, <3>1 DEF SweepUser
  <2>5. ASSUME NEW i \in Ids, UpdateUser(i) PROVE HandInv' /\ Keeps
    <3>1. /\ users' = [users EXCEPT ![i] = resp[i]] /\ resp[i] # NoUser
          /\ pc' \in {"reindex", "onUpdate"} /\ cur' = i /\ pc = "users"
      BY <1>0, <2>5 DEF UpdateUser
    <3>2. pc' = "onUpdate"
      BY <2>5, XrayAssumption DEF UpdateUser
    <3> QED
      BY <1>0, <1>2, <1>u, <3>1, <3>2
  <2> QED
    BY <1>2, <2>1, <2>2, <2>3, <2>4, <2>5 DEF Bookkeeping
<1>3. CASE XRemoveUser
  <2>1. /\ users' = [users EXCEPT ![cur] = NoUser]
        /\ pc' = "sweep" /\ UNCHANGED <<inbound, hook>> /\ pc = "remove"
    BY <1>3 DEF XRemoveUser, RemoveUser
  <2> QED
    BY <1>0, <1>u, <2>1
<1>4. CASE AddNewUser \/ AddNewUserFails
  <2>1. cur \in Ids /\ users[cur] # NoUser /\ UNCHANGED <<users, hook>> /\ pc = "onAdd"
    BY <1>4 DEF AddNewUser, AddNewUserFails, OnUserAdd, OnUserAddFails, Abort
  <2> PICK c \in Ids : c = cur
    BY <2>1
  <2>2. Touches(c)
    BY <1>4, <2>1, CallsTouchOne DEF AddNewUser, AddNewUserFails
  <2>3. pc' \in {"users", "idle", "done"}
    BY <1>4 DEF AddNewUser, AddNewUserFails, OnUserAdd, OnUserAddFails, Abort
  <2> QED
    BY <2>1, <2>2, <2>3 DEF Touches
<1>5. CASE RemoveOldUser \/ RemoveOldUserFails \/ KeepOldUser
  <2>1. /\ cur \in Ids /\ users[cur] # NoUser /\ UNCHANGED <<users, pc, cur>>
        /\ pc = "onUpdate"
    BY <1>5 DEF RemoveOldUser, RemoveOldUserFails, KeepOldUser
  <2>2. CASE KeepOldUser
    BY <1>u, <2>1, <2>2 DEF KeepOldUser
  <2>3. CASE RemoveOldUser \/ RemoveOldUserFails
    <3> PICK c \in Ids : c = cur
      BY <2>1
    <3>1. Touches(c)
      BY <2>1, <2>3, CallsTouchOne DEF RemoveOldUser, RemoveOldUserFails
    <3> QED
      BY <2>1, <3>1 DEF Touches
  <2> QED
    BY <1>5, <2>2, <2>3
<1>6. CASE AddUpdatedUser \/ AddUpdatedUserRefused \/ AddUpdatedUserFails \/ LeaveDisabledUser
  <2>1. /\ pc = "onUpdate" /\ pc' = "users" /\ UNCHANGED users /\ hook' = "enter"
        /\ cur \in Ids /\ users[cur] # NoUser
    BY <1>6 DEF AddUpdatedUser, AddUpdatedUserRefused, AddUpdatedUserFails,
                LeaveDisabledUser, OnUserUpdate
  <2>2. CASE AddUpdatedUser \/ AddUpdatedUserFails
    <3> PICK c \in Ids : c = cur
      BY <2>1
    <3>1. Touches(c)
      BY <2>1, <2>2, CallsTouchOne DEF AddUpdatedUser, AddUpdatedUserFails
    <3> QED
      BY <2>1, <3>1 DEF Touches
  <2>3. CASE AddUpdatedUserRefused \/ LeaveDisabledUser
    BY <1>u, <2>1, <2>3 DEF AddUpdatedUserRefused, LeaveDisabledUser
  <2> QED
    BY <1>6, <2>2, <2>3
<1>7. CASE RemoveUnlistedUser \/ RemoveUnlistedUserFails
  <2>1. cur \in Ids /\ UNCHANGED <<users, hook>> /\ pc = "onRemove"
    BY <1>0, <1>7 DEF RemoveUnlistedUser, RemoveUnlistedUserFails, OnUserRemove,
                      OnUserRemoveFails, Abort
  <2> PICK c \in Ids : c = cur
    BY <2>1
  <2>2. Touches(c)
    BY <1>7, <2>1, CallsTouchOne DEF RemoveUnlistedUser, RemoveUnlistedUserFails
  <2>3. CASE RemoveUnlistedUser
    <3>1. Served(c)' = None /\ pc' = "remove" /\ cur' = c
      BY <2>1, <2>3, CallsTouchOne DEF RemoveUnlistedUser, OnUserRemove
    <3> QED
      BY <2>1, <2>2, <3>1 DEF Touches
  <2>4. CASE RemoveUnlistedUserFails
    <3>1. pc' \in {"idle", "done"}
      BY <2>4 DEF RemoveUnlistedUserFails, OnUserRemoveFails, Abort
    <3> QED
      BY <2>1, <2>2, <3>1 DEF Touches
  <2> QED
    BY <1>7, <2>3, <2>4
<1>8. CASE QueryStats \/ QueryStatsFails \/ Report \/ ReportFails
  BY <1>8, <1>u DEF QueryStats, QueryStatsFails, Report, ReportFails, TrafficSynced,
                    TrafficFails, Abort
<1>9. ASSUME NEW i \in Ids, WalkPooled(i) \/ WalkLeaked(i) PROVE HandInv' /\ Keeps
  <2>1. UNCHANGED <<users, pc, cur, hook>>
    BY <1>9 DEF WalkPooled, WalkLeaked
  <2>2. CASE WalkPooled(i)
    BY <1>u, <2>1, <2>2 DEF WalkPooled
  <2>3. CASE WalkLeaked(i)
    <3>1. Touches(i) /\ users[i] = NoUser
      BY <2>3, CallsTouchOne DEF WalkLeaked
    <3> QED
      BY <2>1, <3>1 DEF Touches
  <2> QED
    BY <1>9, <2>2, <2>3
<1>10. CASE XTick \/ XExit \/ ((RemoteChange \/ Stop) /\ UNCHANGED xvars)
  <2>1. UNCHANGED inbound /\ UNCHANGED hook
    BY <1>10 DEF XTick, XExit
  <2>2. UNCHANGED <<users, cur>>
    BY <1>10 DEF XTick, XExit, Tick, Exit, RemoteChange, Stop
  <2>3. CASE XTick
    BY <1>u, <2>1, <2>2, <2>3 DEF XTick, Tick
  <2>4. CASE XExit
    BY <1>u, <2>1, <2>2, <2>4 DEF XExit, Exit
  <2>5. CASE RemoteChange \/ Stop
    <3>1. UNCHANGED pc
      BY <2>5 DEF RemoteChange, Stop
    <3> QED
      BY <1>u, <2>1, <2>2, <3>1
  <2> QED
    BY <1>10, <2>3, <2>4, <2>5
<1>11. ASSUME NEW i \in Ids, Count(i) PROVE HandInv' /\ Keeps
  BY <1>11, <1>u DEF Count
<1>12. CASE UNCHANGED allvars
  BY <1>12, <1>u DEF allvars
<1> QED
  BY <1>1, <1>2, <1>3, <1>4, <1>5, <1>6, <1>7, <1>8, <1>9, <1>10, <1>11, <1>12
  DEF XNext, XSync

\* Everybody whom xray serves is a user of the pool that it is not about to
\* forget: RemoveUser runs only after OnUserRemove has succeeded.
ServedAreAnswered == \A i \in Ids : Served(i) # None => AnswersFor(i)

-----------------------------------------------------------------------------
\* What the type invariant says besides the pool, inbound and hook = "add".
FlagType ==
  /\ running \in [Ids -> BOOLEAN]
  /\ known \subseteq Ids
  /\ hook \in {"enter", "add", "walk"}
  /\ answer \subseteq known
  /\ faulty \in BOOLEAN
  /\ hook = "walk" => pc = "traffic"

\* OnUserUpdate adds a user only after it has cleared its flag.
UpdateClears == hook = "add" /\ ~faulty => ~running[cur]

FlagInv == FlagType /\ UpdateClears

\* Every step keeps the flags in their types; nothing here depends on what
\* xray serves.
LEMMA FlagStep == TypeOK /\ LoopInv /\ HandInv /\ FlagInv /\ [XNext]_allvars => FlagInv'
<1> SUFFICES ASSUME TypeOK, LoopInv, HandInv, FlagInv, [XNext]_allvars PROVE FlagInv'
  OBVIOUS
<1> USE DEF FlagInv, FlagType, UpdateClears, pool, lifecycle, locals, vars, xvars
<1>h. /\ pc \in {"onAdd", "onUpdate"} => cur \in Ids
      /\ hook = "add" => pc = "onUpdate"
  BY DEF HandInv, HookOnPooled, AddIsUpdate
<1>c. pc \in {"onRemove", "remove"} => cur \in Ids
  BY DEF LoopInv, SweepLoop, InHand, Sweeping, Listed
<1>1. ASSUME NEW i \in Ids, XCreateUser(i) PROVE FlagInv'
  BY <1>1, <1>h DEF XCreateUser, CreateUser
<1>2. CASE Bookkeeping /\ UNCHANGED xvars
  <2>1. pc \notin {"traffic", "onUpdate"}
    BY <1>2 DEF Bookkeeping, Fetch, FetchFails, Abort, KeepUser, UpdateUser, Reindex,
                BeginSweep, SweepUser, EndSweep
  <2> QED
    BY <1>2, <1>h, <2>1
<1>3. CASE XRemoveUser
  BY <1>3, <1>h DEF XRemoveUser, RemoveUser
<1>4. CASE AddNewUser \/ AddNewUserFails
  BY <1>4, <1>h DEF AddNewUser, AddNewUserFails, AddFails, OnUserAdd, OnUserAddFails
<1>5. CASE RemoveOldUser \/ RemoveOldUserFails \/ KeepOldUser
  <2>1. pc = "onUpdate" /\ cur \in Ids /\ UNCHANGED <<pc, cur, known, answer>>
    BY <1>5, <1>h DEF RemoveOldUser, RemoveOldUserFails, KeepOldUser
  <2> QED
    BY <1>5, <2>1 DEF RemoveOldUser, RemoveOldUserFails, KeepOldUser, RemoveFails
<1>6. CASE AddUpdatedUser \/ AddUpdatedUserRefused \/ AddUpdatedUserFails \/ LeaveDisabledUser
  <2>1. hook' = "enter" /\ UNCHANGED <<running, known, answer>> /\ faulty' \in {faulty, TRUE}
    BY <1>6 DEF AddUpdatedUser, AddUpdatedUserRefused, AddUpdatedUserFails,
                LeaveDisabledUser, AddFails
  <2> QED
    BY <2>1
<1>7. CASE RemoveUnlistedUser \/ RemoveUnlistedUserFails
  <2>1. pc = "onRemove" /\ UNCHANGED <<hook, known, answer>>
    BY <1>7 DEF RemoveUnlistedUser, RemoveUnlistedUserFails, OnUserRemove,
                OnUserRemoveFails
  <2>2. /\ running' \in {running, [running EXCEPT ![cur] = FALSE]}
        /\ faulty' \in {faulty, TRUE}
    BY <1>7 DEF RemoveUnlistedUser, RemoveUnlistedUserFails, RemoveFails
  <2> QED
    BY <1>c, <1>h, <2>1, <2>2
<1>8. CASE QueryStats \/ QueryStatsFails \/ Report \/ ReportFails
  BY <1>8, <1>h DEF QueryStats, QueryStatsFails, Report, ReportFails, TrafficFails
<1>9. ASSUME NEW i \in Ids, WalkPooled(i) \/ WalkLeaked(i) PROVE FlagInv'
  <2>1. /\ hook = "walk" /\ UNCHANGED <<pc, running, known, hook>>
        /\ answer' = answer \ {i} /\ faulty' \in {faulty, TRUE}
    BY <1>9 DEF WalkPooled, WalkLeaked, RemoveFails
  <2> QED
    BY <2>1
<1>10. CASE XTick \/ XExit \/ ((RemoteChange \/ Stop) /\ UNCHANGED xvars)
  <2>1. UNCHANGED xvars /\ UNCHANGED cur
    BY <1>10 DEF XTick, XExit, Tick, Exit, RemoteChange, Stop
  <2>2. UNCHANGED pc \/ pc = "idle"
    BY <1>10 DEF XTick, XExit, Tick, Exit, RemoteChange, Stop
  <2> QED
    BY <2>1, <2>2
<1>11. ASSUME NEW i \in Ids, Count(i) PROVE FlagInv'
  BY <1>11 DEF Count
<1>12. CASE UNCHANGED allvars
  BY <1>12 DEF allvars
<1> QED
  BY <1>1, <1>2, <1>3, <1>4, <1>5, <1>6, <1>7, <1>8, <1>9, <1>10, <1>11, <1>12
  DEF XNext, XSync

-----------------------------------------------------------------------------
\* While no call has failed, an enabled user that xray does not serve is in
\* the hands of a hook, or is about to leave the pool.
EnabledInHand ==
  ~faulty => \A i \in Ids : users[i] # NoUser /\ users[i].enable =>
    Served(i) # None \/ (cur = i /\ pc \in {"onAdd", "onUpdate", "remove"})

\* What a pool knows of an xray that only it changes.
Exact == ServedAreAnswered /\ RunningIsServed /\ EnabledInHand

\* A call that succeeds has served or dropped exactly the user it is about.
LEMMA CallSucceeds ==
  ASSUME TypeOK, InboundType, NEW i \in Ids
  PROVE  /\ AddTakesEffect(i) /\ users[i] # NoUser =>
              /\ Served(i)' # None /\ Served(i)' = users[i].password
              /\ \A j \in Ids \ {i} : Served(j)' = Served(j)
         /\ RemoveTakesEffect(i) => \A j \in Ids \ {i} : Served(j)' = Served(j)
<1>1. ASSUME RemoveTakesEffect(i) PROVE \A j \in Ids \ {i} : Served(j)' = Served(j)
  BY <1>1, SetServedEffect DEF RemoveTakesEffect
<1>2. ASSUME AddTakesEffect(i), users[i] # NoUser
      PROVE  /\ Served(i)' # None /\ Served(i)' = users[i].password
             /\ \A j \in Ids \ {i} : Served(j)' = Served(j)
  <2>1. users[i].password \in Passwords
    BY <1>2 DEF TypeOK, Config, Slot, User
  <2> QED
    BY <1>2, <2>1, SetServedEffect, XrayAssumption DEF AddTakesEffect
<1> QED
  BY <1>1, <1>2

\* Every step keeps that, or notes that a call has failed.
LEMMA ExactStep ==
  TypeOK /\ LoopInv /\ HandInv /\ FlagInv /\ Exact /\ [XNext]_allvars => Exact'
<1> SUFFICES ASSUME TypeOK, LoopInv, HandInv, FlagInv, Exact, [XNext]_allvars PROVE Exact'
  OBVIOUS
<1> USE DEF RunningIsServed, EnabledInHand, pool, lifecycle, locals, vars, xvars
<1>k. ServedAreAnswered'
  BY HandStep DEF Exact, ServedAreAnswered, Keeps
<1>e. RunningIsServed /\ EnabledInHand
  BY DEF Exact
<1> SUFFICES RunningIsServed' /\ EnabledInHand'
  BY <1>k DEF Exact
<1>t. /\ DOMAIN users = Ids /\ running \in [Ids -> BOOLEAN] /\ faulty \in BOOLEAN
      /\ users = [i \in Ids |-> users[i]]
  BY DEF TypeOK, Config, FlagInv, FlagType
<1>i. InboundType
  BY DEF HandInv
<1>h. pc \in {"onAdd", "onUpdate"} => cur \in Ids /\ users[cur] # NoUser
  BY DEF HandInv, HookOnPooled
<1>a. hook = "add" => pc = "onUpdate" /\ (~faulty => ~running[cur])
  BY DEF HandInv, AddIsUpdate, FlagInv, UpdateClears
<1>c. pc \in {"onRemove", "remove"} => cur \in Ids
  BY DEF LoopInv, SweepLoop, InHand, Sweeping, Listed
<1>u. UNCHANGED inbound => \A i \in Ids : Served(i)' = Served(i)
  BY DEF Served
<1>f. ASSUME faulty' PROVE RunningIsServed' /\ EnabledInHand'
  BY <1>f
<1>1. ASSUME NEW i \in Ids, XCreateUser(i) PROVE RunningIsServed' /\ EnabledInHand'
  <2>1. /\ users' = [users EXCEPT ![i] = resp[i]]
        /\ running' = [running EXCEPT ![i] = FALSE]
        /\ pc = "users" /\ pc' = "onAdd" /\ cur' = i
        /\ UNCHANGED <<inbound, faulty>>
    BY <1>1, XrayAssumption DEF XCreateUser, CreateUser
  <2>2. \A j \in Ids \ {i} : users'[j] = users[j] /\ running'[j] = running[j]
    BY <1>t, <2>1
  <2>3. ~running'[i]
    BY <1>t, <2>1
  <2> QED
    BY <1>e, <1>u, <2>1, <2>2, <2>3
<1>2. CASE Bookkeeping /\ UNCHANGED xvars
  <2>1. ASSUME NEW i \in Ids, UpdateUser(i) PROVE RunningIsServed' /\ EnabledInHand'
    <3>1. /\ users' = [users EXCEPT ![i] = resp[i]]
          /\ pc = "users" /\ pc' = "onUpdate" /\ cur' = i
      BY <2>1, XrayAssumption DEF UpdateUser
    <3>2. \A j \in Ids \ {i} : users'[j] = users[j]
      BY <1>t, <3>1
    <3> QED
      BY <1>2, <1>e, <1>u, <3>1, <3>2
  <2>2. ASSUME ~\E i \in Ids : UpdateUser(i)
        PROVE  UNCHANGED users /\ pc \notin {"onAdd", "onUpdate", "remove"}
    BY <1>2, <2>2 DEF Bookkeeping, Fetch, FetchFails, Abort, KeepUser, Reindex,
                      BeginSweep, SweepUser, EndSweep
  <2> QED
    BY <1>2, <1>e, <1>u, <2>1, <2>2
<1>3. CASE XRemoveUser
  <2>1. /\ users' = [users EXCEPT ![cur] = NoUser] /\ cur \in Ids
        /\ running' = [running EXCEPT ![cur] = FALSE]
        /\ pc = "remove" /\ UNCHANGED <<inbound, faulty>>
    BY <1>3, <1>c DEF XRemoveUser, RemoveUser
  <2>2. /\ \A j \in Ids \ {cur} : users'[j] = users[j] /\ running'[j] = running[j]
        /\ users'[cur] = NoUser /\ ~running'[cur]
    BY <1>t, <2>1
  <2> QED
    BY <1>e, <1>u, <2>1, <2>2
<1>4. CASE AddNewUser
  <2>1. /\ cur \in Ids /\ users[cur] # NoUser /\ pc = "onAdd" /\ pc' = "users"
        /\ running' = [running EXCEPT ![cur] = TRUE]
        /\ UNCHANGED <<users, faulty>>
    BY <1>4, <1>h DEF AddNewUser, OnUserAdd
  <2> PICK c \in Ids : c = cur
    BY <2>1
  <2>2. /\ Served(c)' # None /\ Served(c)' = users[c].password
        /\ \A j \in Ids \ {c} : Served(j)' = Served(j)
    BY <1>4, <1>i, <2>1, CallSucceeds DEF AddNewUser
  <2>3. \A j \in Ids \ {c} : running'[j] = running[j]
    BY <1>t, <2>1
  <2> QED
    BY <1>e, <2>1, <2>2, <2>3
<1>5. CASE AddNewUserFails \/ RemoveOldUserFails \/ RemoveUnlistedUserFails
  BY <1>5, <1>f DEF AddNewUserFails, RemoveOldUserFails, RemoveUnlistedUserFails,
                    AddFails, RemoveFails
<1>6. CASE AddUpdatedUserFails \/ QueryStatsFails
  BY <1>6, <1>f DEF AddUpdatedUserFails, AddFails, QueryStatsFails
<1>7. CASE RemoveOldUser
  <2>1. /\ cur \in Ids /\ pc = "onUpdate"
        /\ running' = [running EXCEPT ![cur] = FALSE]
        /\ UNCHANGED <<users, pc, cur, faulty>>
    BY <1>7, <1>h DEF RemoveOldUser
  <2>2. \A j \in Ids \ {cur} : Served(j)' = Served(j) /\ running'[j] = running[j]
    BY <1>7, <1>i, <1>t, <2>1, CallSucceeds DEF RemoveOldUser
  <2>3. ~running'[cur]
    BY <1>t, <2>1
  <2> QED
    BY <1>e, <2>1, <2>2, <2>3
<1>8. CASE KeepOldUser
  BY <1>8, <1>e, <1>u DEF KeepOldUser
<1>9. CASE AddUpdatedUser
  <2>1. /\ cur \in Ids /\ users[cur] # NoUser
        /\ pc = "onUpdate" /\ (~faulty => ~running[cur])
        /\ UNCHANGED <<users, running, faulty>>
    BY <1>9, <1>h, <1>a DEF AddUpdatedUser, OnUserUpdate
  <2> PICK c \in Ids : c = cur
    BY <2>1
  <2>2. /\ Served(c)' # None
        /\ \A j \in Ids \ {c} : Served(j)' = Served(j)
    BY <1>9, <1>i, <2>1, CallSucceeds DEF AddUpdatedUser
  <2> QED
    BY <1>e, <2>1, <2>2
<1>10. CASE AddUpdatedUserRefused \/ LeaveDisabledUser
  <2>1. /\ cur \in Ids /\ pc = "onUpdate" /\ (~faulty => ~running[cur])
        /\ Served(cur) # None \/ ~users[cur].enable
        /\ UNCHANGED <<users, running, inbound, faulty>>
    BY <1>10, <1>h, <1>a DEF AddUpdatedUserRefused, LeaveDisabledUser, OnUserUpdate
  <2> QED
    BY <1>e, <1>u, <2>1
<1>11. CASE RemoveUnlistedUser
  <2>1. /\ cur \in Ids /\ pc = "onRemove" /\ pc' = "remove"
        /\ running' = [running EXCEPT ![cur] = FALSE]
        /\ UNCHANGED <<users, cur, faulty>>
    BY <1>11, <1>c DEF RemoveUnlistedUser, OnUserRemove
  <2>2. \A j \in Ids \ {cur} : Served(j)' = Served(j) /\ running'[j] = running[j]
    BY <1>11, <1>i, <1>t, <2>1, CallSucceeds DEF RemoveUnlistedUser
  <2>3. ~running'[cur]
    BY <1>t, <2>1
  <2> QED
    BY <1>e, <2>1, <2>2, <2>3
<1>12. CASE QueryStats \/ Report \/ ReportFails
  <2>1. pc = "traffic" /\ UNCHANGED <<users, running, inbound, faulty>>
    BY <1>12 DEF QueryStats, Report, ReportFails, TrafficSynced, TrafficFails, Abort
  <2> QED
    BY <1>e, <1>u, <2>1
<1>13. ASSUME NEW i \in Ids, WalkPooled(i) PROVE RunningIsServed' /\ EnabledInHand'
  BY <1>13, <1>e, <1>u DEF WalkPooled
<1>14. ASSUME NEW i \in Ids, WalkLeaked(i) PROVE RunningIsServed' /\ EnabledInHand'
  <2>1. users[i] = NoUser /\ UNCHANGED <<users, pc, cur, running>>
    BY <1>14 DEF WalkLeaked
  <2>2. Served(i) = None
    BY <2>1 DEF Exact, ServedAreAnswered, AnswersFor
  <2>3. faulty' = TRUE \/ (faulty' = faulty /\ RemoveTakesEffect(i))
    BY <1>14 DEF WalkLeaked, RemoveFails
  <2>4. RemoveTakesEffect(i) => \A j \in Ids \ {i} : Served(j)' = Served(j)
    BY <1>i, CallSucceeds
  <2> QED
    BY <1>e, <1>f, <2>1, <2>2, <2>3, <2>4
<1>15. CASE XTick \/ XExit \/ ((RemoteChange \/ Stop) /\ UNCHANGED xvars)
  <2>1. UNCHANGED xvars
    BY <1>15 DEF XTick, XExit
  <2>2. UNCHANGED <<users, cur>> /\ (UNCHANGED pc \/ pc = "idle")
    BY <1>15 DEF XTick, XExit, Tick, Exit, RemoteChange, Stop
  <2> QED
    BY <1>e, <1>u, <2>1, <2>2
<1>16. ASSUME NEW i \in Ids, Count(i) PROVE RunningIsServed' /\ EnabledInHand'
  BY <1>16, <1>e, <1>u DEF Count
<1>17. CASE UNCHANGED allvars
  BY <1>17, <1>e, <1>u DEF allvars
<1> QED
  BY <1>1, <1>2, <1>3, <1>4, <1>5, <1>6, <1>7, <1>8, <1>9, <1>10, <1>11, <1>12, <1>13,
     <1>14, <1>15, <1>16, <1>17
  DEF XNext, XSync

\* A new pool and an instance of xray that serves nobody.
Fresh ==
  /\ pc = "fetch" /\ hook = "enter"
  /\ users = Nobody /\ running = [i \in Ids |-> FALSE]
  /\ inbound = [t \in Tags |-> [i \in Ids |-> None]]
  /\ known = {} /\ answer = {} /\ faulty = FALSE

\* They are as every pool and its instance should be.
LEMMA FreshPool == Fresh => HandInv /\ FlagInv /\ LoopInv /\ Exact
<1> SUFFICES ASSUME Fresh PROVE HandInv /\ FlagInv /\ LoopInv /\ Exact
  OBVIOUS
<1> USE DEF Fresh
<1>1. LoopInv
  BY DEF LoopInv, UpdateLoop, SweepLoop, InHand, PoolMatchesResponse, Updating, Sweeping
<1>2. InboundType /\ \A i \in Ids : Served(i) = None
  <2>1. 1 \in Tags
    BY PoolAssumption DEF Tags
  <2> QED
    BY <2>1 DEF InboundType, Served
<1>3. HandInv
  BY <1>2 DEF HandInv, HookOnPooled, AddIsUpdate
<1>4. FlagInv
  BY DEF FlagInv, FlagType, UpdateClears
<1>5. Exact
  BY <1>2 DEF Exact, ServedAreAnswered, RunningIsServed, EnabledInHand, Nobody
<1> QED
  BY <1>1, <1>3, <1>4, <1>5

\* The invariants of the xray tunnel together.
LEMMA XInvariance == XSafety => [](TypeOK /\ HandInv /\ FlagInv /\ Exact)
<1>1. XInit => HandInv /\ FlagInv /\ LoopInv /\ Exact
  BY FreshPool DEF XInit, Init, Fresh
<1>2. TypeOK /\ LoopInv /\ [Next]_vars => LoopInv'
  BY LoopStep
<1>3. TypeOK /\ LoopInv /\ HandInv /\ [XNext]_allvars => HandInv'
  BY HandStep
<1>4. TypeOK /\ LoopInv /\ HandInv /\ FlagInv /\ [XNext]_allvars => FlagInv'
  BY FlagStep
<1>5. TypeOK /\ LoopInv /\ HandInv /\ FlagInv /\ Exact /\ [XNext]_allvars => Exact'
  BY ExactStep
<1> QED
  BY <1>1, <1>2, <1>3, <1>4, <1>5, XrayPoolRefinesUserPool, XStepRefines, TypeCorrect, PTL
  DEF XSafety, PoolRefined

\* What the properties say of a pool that has xray for itself.
LEMMA ExactMeans == Exact => InboundWithinPool /\ RunningIsServed /\ EnabledIsServed
BY DEF Exact, ServedAreAnswered, AnswersFor, EnabledInHand, InboundWithinPool, EnabledIsServed

\* The hooks keep the types, and are inside OnUserUpdate or the traffic walk
\* only when the cycle is.
THEOREM XTypeCorrect == XSafety => []XTypeOK
<1>1. TypeOK /\ HandInv /\ FlagInv => XTypeOK
  BY DEF HandInv, InboundType, AddIsUpdate, FlagInv, FlagType, XTypeOK
<1> QED
  BY <1>1, XInvariance, PTL

\* While no gRPC call has failed, User.running is only set for a user whom
\* xray serves with its present password, up to the update under way.
THEOREM RunningAreServed == XSafety => []RunningIsServed
BY XInvariance, ExactMeans, PTL

\* While no gRPC call has failed, xray serves every enabled user when a cycle
\* gets to its traffic report.
THEOREM EnabledAreServed == XSafety => []EnabledIsServed
BY XInvariance, ExactMeans, PTL

\* xray never serves a user that is not in the pool, whichever gRPC calls fail
\* and whether they took effect or not.
THEOREM ServedArePooled == XSafety => []InboundWithinPool
BY XInvariance, ExactMeans, PTL

\* What a complete pass over the response has achieved in xray.
ServedAsListed ==
  pc = "traffic" =>
    \A i \in Ids :
      /\ resp[i] = NoUser => Served(i) = None
      /\ ~faulty /\ resp[i] # NoUser => (resp[i].enable => Served(i) # None)

\* When a cycle gets to its traffic report, xray has stopped serving everybody
\* whom the endpoint does not list any more, however many cycles before were
\* aborted, and serves every enabled user listed, if no call has ever failed.
THEOREM CompletePassIsServed == XSafety => []ServedAsListed
<1>1. Exact /\ PoolMatchesResponse => ServedAsListed
  BY ExactMeans DEF InboundWithinPool, EnabledIsServed, PoolMatchesResponse, ServedAsListed
<1> QED
  BY <1>1, XInvariance, XrayPoolRefinesUserPool, ResponseApplied, PTL DEF PoolRefined

-----------------------------------------------------------------------------
(***************************************************************************)
(* A cycle of the tunnel is finite.                                        *)
(***************************************************************************)

\* A step of the goroutine is one of the cycle, or one inside a hook or the
\* walk, which brings the end of that nearer.
LEMMA HookShrinks ==
  ASSUME IsFiniteSet(Ids), TypeOK, TypeOK', LoopInv, FlagInv, XSync
  PROVE  \/ LeftOfCycle' \in 0..(LeftOfCycle - 1)
         \/ LeftOfCycle' = LeftOfCycle /\ LeftOfHook' \in 0..(LeftOfHook - 1)
<1>v. UNCHANGED vars => LeftOfCycle' = LeftOfCycle
  BY DEF LeftOfCycle, LeftOfPass, vars, locals
<1>1. CASE Sync
  BY <1>1, CycleShrinks DEF Next
<1>2. CASE RemoveOldUser \/ RemoveOldUserFails \/ KeepOldUser
  <2>1. /\ UNCHANGED vars /\ pc = "onUpdate" /\ pc' = "onUpdate"
        /\ hook = "enter" /\ hook' = "add"
    BY <1>2 DEF RemoveOldUser, RemoveOldUserFails, KeepOldUser, vars
  <2>2. LeftOfHook = 1 /\ LeftOfHook' = 0
    BY <2>1 DEF LeftOfHook
  <2> QED
    BY <1>v, <2>1, <2>2
<1>3. CASE QueryStats
  <2>1. /\ UNCHANGED vars /\ pc = "traffic" /\ pc' = "traffic"
        /\ hook = "enter" /\ hook' = "walk" /\ answer' = known
    BY <1>3 DEF QueryStats, vars
  <2>2. LeftOfHook = Cardinality(Ids) + 1 /\ LeftOfHook' = Cardinality(known)
    BY <2>1 DEF LeftOfHook
  <2>3. /\ Cardinality(Ids) \in Nat /\ Cardinality(known) \in Nat
        /\ Cardinality(known) <= Cardinality(Ids)
    BY VisitsCount DEF FlagInv, FlagType
  <2> QED
    BY <1>v, <2>1, <2>2, <2>3
<1>4. ASSUME NEW i \in Ids, WalkPooled(i) \/ WalkLeaked(i)
      PROVE  LeftOfCycle' = LeftOfCycle /\ LeftOfHook' \in 0..(LeftOfHook - 1)
  <2>1. /\ UNCHANGED vars /\ UNCHANGED pc /\ hook = "walk" /\ hook' = "walk"
        /\ i \in answer /\ answer' = answer \ {i}
    BY <1>4 DEF WalkPooled, WalkLeaked, vars
  <2>2. LeftOfHook = Cardinality(answer) /\ LeftOfHook' = Cardinality(answer')
    BY <2>1 DEF LeftOfHook
  <2>3. /\ answer \subseteq Ids /\ answer' \subseteq Ids
    BY <2>1 DEF FlagInv, FlagType
  <2>4. /\ Cardinality(answer) \in Nat /\ Cardinality(answer') \in Nat
        /\ Cardinality(answer \ {i}) = Cardinality(answer) - 1
    BY <2>1, <2>3, VisitsCount
  <2> QED
    BY <1>v, <2>1, <2>2, <2>4
<1>5. CASE AddNewUser \/ AddNewUserFails \/ RemoveUnlistedUser \/ RemoveUnlistedUserFails
  BY <1>1, <1>5 DEF AddNewUser, AddNewUserFails, RemoveUnlistedUser,
                    RemoveUnlistedUserFails, Sync
<1>6. CASE AddUpdatedUser \/ AddUpdatedUserRefused \/ AddUpdatedUserFails \/ LeaveDisabledUser
  BY <1>1, <1>6 DEF AddUpdatedUser, AddUpdatedUserRefused, AddUpdatedUserFails,
                    LeaveDisabledUser, Sync
<1>7. CASE QueryStatsFails \/ Report \/ ReportFails
  BY <1>1, <1>7 DEF QueryStatsFails, Report, ReportFails, Sync
<1>8. CASE Bookkeeping \/ XRemoveUser \/ \E i \in Ids : XCreateUser(i)
  BY <1>1, <1>8 DEF XRemoveUser, XCreateUser, Sync
<1> QED
  BY <1>2, <1>3, <1>4, <1>5, <1>6, <1>7, <1>8 DEF XSync

\* With finitely many users no hook and no walk goes on for ever: the cycle of
\* the xray tunnel is bounded like that of the pool.
THEOREM XCyclesAreFinite == IsFiniteSet(Ids) /\ XSafety => HooksAreFinite
<1> SUFFICES ASSUME IsFiniteSet(Ids) PROVE XSafety => HooksAreFinite
  OBVIOUS
<1>1. TypeOK /\ TypeOK' /\ LoopInv /\ FlagInv =>
        [XSync => \/ LeftOfCycle' \in 0..(LeftOfCycle - 1)
                  \/ /\ LeftOfCycle' = LeftOfCycle
                     /\ LeftOfHook' \in 0..(LeftOfHook - 1)]_allvars
  BY HookShrinks
<1> QED
  BY <1>1, XInvariance, XrayPoolRefinesUserPool, LoopInvariance, TypeCorrect, PTL
  DEF PoolRefined, HooksAreFinite

-----------------------------------------------------------------------------
(***************************************************************************)
(* A reload: the old pool goes on with the cycle that Stop has met.        *)
(***************************************************************************)

\* What is left of the old pool is the state of a pool in mid-cycle.
OldInv ==
  /\ ousers \in Config /\ oresp \in Config /\ otodo \subseteq Ids
  /\ opc # "reindex"
  /\ opc \in Updating => \A i \in otodo : oresp[i] # NoUser
  /\ opc \in {"onAdd", "onUpdate"} => ocur \in Ids /\ ousers[ocur] # NoUser
  /\ opc \in {"onRemove", "remove"} => ocur \in Ids
  /\ ohook = "add" => opc = "onUpdate"

\* As Keeps and Touches, for the old pool.
OldKeeps ==
  \A i \in Ids :
    Served(i)' # None /\ (Served(i) = None \/ Old!AnswersFor(i)) => Old!AnswersFor(i)'

OldTouches(i) ==
  /\ InboundType'
  /\ \A j \in Ids \ {i} : Served(j)' = Served(j)
  /\ Served(i)' \in {Served(i), None} \/ (ousers[i] # NoUser /\ UNCHANGED ousers)

\* The late calls, successful or not, touch one user of the new instance.
LEMMA OldCallsTouchOne ==
  ASSUME OldInv, InboundType, NEW i \in Ids
  PROVE  /\ /\ Old!AddTakesEffect(i) \/ Old!AddFails(i)
            /\ ousers[i] # NoUser /\ UNCHANGED ousers
            => OldTouches(i)
         /\ Old!RemoveTakesEffect(i) \/ Old!RemoveFails(i) => OldTouches(i)
         /\ Old!RemoveTakesEffect(i) => Served(i)' = None
<1>1. ASSUME Old!RemoveTakesEffect(i) PROVE OldTouches(i) /\ Served(i)' = None
  <2>1. SetServed(i, None)
    BY <1>1 DEF Old!RemoveTakesEffect, Old!SetServed, SetServed
  <2> QED
    BY <2>1, SetServedEffect DEF OldTouches
<1>2. ASSUME inbound' = inbound PROVE OldTouches(i)
  BY <1>2 DEF OldTouches, InboundType, Served
<1>3. ASSUME Old!AddTakesEffect(i), ousers[i] # NoUser, UNCHANGED ousers PROVE OldTouches(i)
  <2>1. ousers[i].password \in Passwords
    BY <1>3 DEF OldInv, Config, Slot, User
  <2>2. SetServed(i, ousers[i].password)
    BY <1>3 DEF Old!AddTakesEffect, Old!SetServed, SetServed
  <2> QED
    BY <1>3, <2>1, <2>2, SetServedEffect DEF OldTouches
<1> QED
  BY <1>1, <1>2, <1>3 DEF Old!AddFails, Old!RemoveFails

\* Like a pool of its own, the old pool leaves or puts into xray nobody that
\* it is done with; and it touches nothing else that the new one uses.
LEMMA OldStep ==
  TypeOK /\ OldInv /\ InboundType /\ (Old!XSync \/ Old!XTick \/ Old!XExit)
    => OldInv' /\ InboundType' /\ OldKeeps /\ UNCHANGED <<remote, userpass, known>>
<1> DEFINE Rest == UNCHANGED <<remote, userpass, known>>
<1> SUFFICES ASSUME TypeOK, OldInv, InboundType, Old!XSync \/ Old!XTick \/ Old!XExit
             PROVE  OldInv' /\ InboundType' /\ OldKeeps /\ Rest
  OBVIOUS
<1> USE DEF OldInv, OldKeeps, Old!AnswersFor, Updating,
            Old!pool, Old!lifecycle, Old!locals, Old!vars, Old!xvars
<1>0. /\ ~HasPasswordMap
      /\ DOMAIN ousers = Ids /\ ousers = [i \in Ids |-> ousers[i]]
  BY XrayAssumption DEF Config
<1>f. Old!ForgetLocals => oresp' \in Config /\ otodo' = {}
  BY DEF Old!ForgetLocals, Old!Nobody, Config, Slot
<1>u. UNCHANGED inbound => InboundType' /\ \A i \in Ids : Served(i)' = Served(i)
  BY DEF InboundType, Served
<1>1. ASSUME NEW i \in Ids, Old!XCreateUser(i)
      PROVE  OldInv' /\ InboundType' /\ OldKeeps /\ Rest
  <2>1. /\ opc = "users" /\ i \in otodo /\ oresp[i] # NoUser
        /\ ousers' = [ousers EXCEPT ![i] = oresp[i]]
        /\ otodo' = otodo \ {i} /\ opc' = "onAdd" /\ ocur' = i
        /\ UNCHANGED <<oresp, ohook, inbound>> /\ Rest
    BY <1>0, <1>1, XrayAssumption DEF Old!XCreateUser, Old!CreateUser
  <2>2. /\ \A j \in Ids \ {i} : ousers'[j] = ousers[j]
        /\ ousers'[i] = oresp[i] /\ ousers' \in Config
    BY <1>0, <2>1 DEF Config
  <2> QED
    BY <1>u, <2>1, <2>2
<1>2. CASE Old!Bookkeeping /\ UNCHANGED Old!xvars
  <2>1. CASE Old!Fetch
    <3>1. /\ oresp' = remote /\ otodo' = {i \in Ids : remote[i] # NoUser}
          /\ opc' = "users" /\ opc = "fetch" /\ UNCHANGED ousers
      BY <2>1 DEF Old!Fetch, Old!Listed
    <3>2. remote \in Config
      BY DEF TypeOK
    <3> QED
      BY <1>2, <1>u, <2>1, <3>1, <3>2 DEF Old!Fetch
  <2>2. CASE Old!FetchFails
    BY <1>2, <1>f, <1>u, <2>2 DEF Old!FetchFails, Old!Abort
  <2>3. CASE Old!Reindex
    BY <2>3 DEF Old!Reindex
  <2>4. CASE Old!BeginSweep \/ Old!EndSweep
    BY <1>2, <1>u, <2>4 DEF Old!BeginSweep, Old!EndSweep, Old!Listed
  <2>5. ASSUME NEW i \in Ids, Old!KeepUser(i)
        PROVE  OldInv' /\ InboundType' /\ OldKeeps /\ Rest
    BY <1>2, <1>u, <2>5 DEF Old!KeepUser
  <2>6. ASSUME NEW i \in Ids, Old!SweepUser(i)
        PROVE  OldInv' /\ InboundType' /\ OldKeeps /\ Rest
    <3>1. opc' = "onRemove" /\ ocur' = i
      BY <2>6, XrayAssumption DEF Old!SweepUser
    <3> QED
      BY <1>2, <1>u, <2>6, <3>1 DEF Old!SweepUser
  <2>7. ASSUME NEW i \in Ids, Old!UpdateUser(i)
        PROVE  OldInv' /\ InboundType' /\ OldKeeps /\ Rest
    <3>1. /\ opc = "users" /\ oresp[i] # NoUser
          /\ ousers' = [ousers EXCEPT ![i] = oresp[i]]
          /\ otodo' = otodo \ {i} /\ opc' = "onUpdate" /\ ocur' = i
          /\ UNCHANGED <<oresp, remote, userpass>>
      BY <1>0, <2>7 DEF Old!UpdateUser
    <3>2. /\ \A j \in Ids \ {i} : ousers'[j] = ousers[j]
          /\ ousers'[i] = oresp[i] /\ ousers' \in Config
      BY <1>0, <3>1 DEF Config
    <3> QED
      BY <1>2, <1>u, <3>1, <3>2
  <2> QED
    BY <1>2, <2>1, <2>2, <2>3, <2>4, <2>5, <2>6, <2>7 DEF Old!Bookkeeping
<1>3. CASE Old!XRemoveUser
  <2>1. /\ opc = "remove" /\ ousers' = [ousers EXCEPT ![ocur] = NoUser]
        /\ otodo' = otodo \ {ocur} /\ opc' = "sweep"
        /\ UNCHANGED <<oresp, ohook, inbound>> /\ Rest
    BY <1>0, <1>3 DEF Old!XRemoveUser, Old!RemoveUser
  <2>2. /\ \A j \in Ids \ {ocur} : ousers'[j] = ousers[j]
        /\ ousers' \in Config
    BY <1>0, <2>1 DEF Config, Slot
  <2> QED
    BY <1>u, <2>1, <2>2
<1>4. CASE Old!AddNewUser \/ Old!AddNewUserFails
  <2>1. /\ ocur \in Ids /\ ousers[ocur] # NoUser /\ opc = "onAdd"
        /\ UNCHANGED <<ousers, ohook>> /\ Rest
    BY <1>4 DEF Old!AddNewUser, Old!AddNewUserFails, Old!OnUserAdd, Old!OnUserAddFails,
                Old!Abort
  <2> PICK c \in Ids : c = ocur
    BY <2>1
  <2>2. OldTouches(c)
    BY <1>4, <2>1, OldCallsTouchOne DEF Old!AddNewUser, Old!AddNewUserFails
  <2>3. \/ opc' = "users" /\ UNCHANGED <<oresp, otodo>>
        \/ opc' \in {"idle", "done"} /\ Old!ForgetLocals
    BY <1>4 DEF Old!AddNewUser, Old!AddNewUserFails, Old!OnUserAdd, Old!OnUserAddFails,
                Old!Abort
  <2> QED
    BY <1>f, <2>1, <2>2, <2>3 DEF OldTouches
<1>5. CASE Old!RemoveOldUser \/ Old!RemoveOldUserFails \/ Old!KeepOldUser
  <2>1. /\ ocur \in Ids /\ ousers[ocur] # NoUser /\ opc = "onUpdate"
        /\ UNCHANGED <<ousers, opc, oresp, otodo, ocur>> /\ Rest
    BY <1>5 DEF Old!RemoveOldUser, Old!RemoveOldUserFails, Old!KeepOldUser
  <2>2. CASE Old!KeepOldUser
    BY <1>u, <2>1, <2>2 DEF Old!KeepOldUser
  <2>3. CASE Old!RemoveOldUser \/ Old!RemoveOldUserFails
    <3> PICK c \in Ids : c = ocur
      BY <2>1
    <3>1. OldTouches(c)
      BY <2>1, <2>3, OldCallsTouchOne DEF Old!RemoveOldUser, Old!RemoveOldUserFails
    <3> QED
      BY <2>1, <3>1 DEF OldTouches
  <2> QED
    BY <1>5, <2>2, <2>3
<1>6. CASE \/ Old!AddUpdatedUser \/ Old!AddUpdatedUserFails
           \/ Old!AddUpdatedUserRefused \/ Old!LeaveDisabledUser
  <2>1. /\ opc = "onUpdate" /\ opc' = "users" /\ ohook' = "enter"
        /\ ocur \in Ids /\ ousers[ocur] # NoUser
        /\ UNCHANGED <<ousers, oresp, otodo>> /\ Rest
    BY <1>6 DEF Old!AddUpdatedUser, Old!AddUpdatedUserRefused, Old!AddUpdatedUserFails,
                Old!LeaveDisabledUser, Old!OnUserUpdate
  <2>2. CASE Old!AddUpdatedUser \/ Old!AddUpdatedUserFails
    <3> PICK c \in Ids : c = ocur
      BY <2>1
    <3>1. OldTouches(c)
      BY <2>1, <2>2, OldCallsTouchOne DEF Old!AddUpdatedUser, Old!AddUpdatedUserFails
    <3> QED
      BY <2>1, <3>1 DEF OldTouches
  <2>3. CASE Old!AddUpdatedUserRefused \/ Old!LeaveDisabledUser
    BY <1>u, <2>1, <2>3 DEF Old!AddUpdatedUserRefused, Old!LeaveDisabledUser
  <2> QED
    BY <1>6, <2>2, <2>3
<1>7. CASE Old!RemoveUnlistedUser \/ Old!RemoveUnlistedUserFails
  <2>1. ocur \in Ids /\ opc = "onRemove" /\ UNCHANGED <<ousers, ohook>> /\ Rest
    BY <1>7 DEF Old!RemoveUnlistedUser, Old!RemoveUnlistedUserFails, Old!OnUserRemove,
                Old!OnUserRemoveFails, Old!Abort
  <2> PICK c \in Ids : c = ocur
    BY <2>1
  <2>2. OldTouches(c)
    BY <1>7, <2>1, OldCallsTouchOne DEF Old!RemoveUnlistedUser, Old!RemoveUnlistedUserFails
  <2>3. CASE Old!RemoveUnlistedUser
    <3>1. /\ Served(c)' = None /\ opc' = "remove"
          /\ UNCHANGED <<oresp, otodo, ocur>>
      BY <2>1, <2>3, OldCallsTouchOne DEF Old!RemoveUnlistedUser, Old!OnUserRemove
    <3> QED
      BY <2>1, <2>2, <3>1 DEF OldTouches
  <2>4. CASE Old!RemoveUnlistedUserFails
    <3>1. opc' \in {"idle", "done"} /\ Old!ForgetLocals
      BY <2>4 DEF Old!RemoveUnlistedUserFails, Old!OnUserRemoveFails, Old!Abort
    <3> QED
      BY <1>f, <2>1, <2>2, <3>1 DEF OldTouches
  <2> QED
    BY <1>7, <2>3, <2>4
<1>8. CASE Old!QueryStats \/ Old!QueryStatsFails \/ Old!Report \/ Old!ReportFails
  <2>1. /\ opc = "traffic" /\ UNCHANGED <<ousers, inbound>> /\ Rest
        /\ ohook' \in {"enter", "walk"}
        /\ \/ opc' = "traffic" /\ UNCHANGED <<oresp, otodo>>
           \/ opc' \in {"idle", "done"} /\ Old!ForgetLocals
           \/ opc' = "fetch" /\ oresp' = Old!Nobody /\ UNCHANGED otodo
    BY <1>8 DEF Old!QueryStats, Old!QueryStatsFails, Old!Report, Old!ReportFails,
                Old!TrafficSynced, Old!TrafficFails, Old!Abort
  <2>2. Old!Nobody \in Config
    BY DEF Old!Nobody, Config, Slot
  <2> QED
    BY <1>f, <1>u, <2>1, <2>2
<1>9. ASSUME NEW i \in Ids, Old!WalkPooled(i) \/ Old!WalkLeaked(i)
      PROVE  OldInv' /\ InboundType' /\ OldKeeps /\ Rest
  <2>1. UNCHANGED <<ousers, opc, oresp, otodo, ocur, ohook>> /\ Rest
    BY <1>9 DEF Old!WalkPooled, Old!WalkLeaked
  <2>2. CASE Old!WalkPooled(i)
    BY <1>u, <2>1, <2>2 DEF Old!WalkPooled
  <2>3. CASE Old!WalkLeaked(i)
    <3>1. OldTouches(i) /\ ousers[i] = NoUser
      BY <2>3, OldCallsTouchOne DEF Old!WalkLeaked
    <3> QED
      BY <2>1, <3>1 DEF OldTouches
  <2> QED
    BY <1>9, <2>2, <2>3
<1>10. CASE Old!XTick \/ Old!XExit
  BY <1>10, <1>u DEF Old!XTick, Old!XExit, Old!Tick, Old!Exit
<1> QED
  BY <1>1, <1>2, <1>3, <1>4, <1>5, <1>6, <1>7, <1>8, <1>9, <1>10 DEF Old!XSync

\* What holds of the pool at hand whatever the old one does.
PoolInv == TypeOK /\ LoopInv /\ IndexInv /\ HandInv /\ FlagInv

ReloadInv == PoolInv /\ OldInv /\ (~overlapped => Exact) /\ StrangersAreOld

\* A step of a pool keeps all that, whatever xray serves.
LEMMA PoolStep ==
  PoolInv /\ [XNext]_allvars => PoolInv' /\ Keeps /\ (Exact => Exact')
BY XStepRefines, TypeOKStep, LoopStep, IndexStep, HandStep, FlagStep, ExactStep DEF PoolInv

\* Reload starts with a fresh pool.
LEMMA ReloadIsFresh == PoolInv /\ Reload => PoolInv' /\ Exact' /\ OldInv'
<1> SUFFICES ASSUME PoolInv, Reload PROVE PoolInv' /\ Exact' /\ OldInv'
  OBVIOUS
<1> USE DEF PoolInv
<1>1. Fresh'
  BY DEF Reload, Fresh
<1>2. HandInv' /\ FlagInv' /\ LoopInv' /\ Exact'
  <2>1. Fresh' => HandInv' /\ FlagInv' /\ LoopInv' /\ Exact'
    BY FreshPool, PTL
  <2> QED
    BY <1>1, <2>1
<1>3. TypeOK'
  <2>1. Nobody \in Config /\ 1 \in 1..NumTags
    BY PoolAssumption DEF Nobody, Config, Slot
  <2> QED
    BY <2>1 DEF TypeOK, Reload, ForgetLocals, Slot, Phases
<1>4. IndexInv'
  <2>1. /\ \A k \in Keys : userpass[k] = NoId
        /\ UNCHANGED userpass /\ pc' = "fetch"
    BY XrayAssumption DEF IndexInv, NoIndexWithoutKey, Reload
  <2> QED
    BY <2>1 DEF IndexInv, NoIndexWithoutKey, MovingIsPooled, IndexSound
<1>5. OldInv'
  <2>1. pc # "reindex"
    BY XrayAssumption DEF IndexInv, MovingIsPooled
  <2>2. /\ users \in Config /\ resp \in Config /\ todo \subseteq Ids
        /\ pc \in Updating => \A i \in todo : resp[i] # NoUser
        /\ pc \in {"onRemove", "remove"} => cur \in Ids
    BY DEF TypeOK, LoopInv, UpdateLoop, SweepLoop, InHand, Sweeping, Listed
  <2>3. /\ pc \in {"onAdd", "onUpdate"} => cur \in Ids /\ users[cur] # NoUser
        /\ hook = "add" => pc = "onUpdate"
    BY DEF HandInv, HookOnPooled, AddIsUpdate
  <2>4. /\ ousers' = users /\ opc' = pc /\ oresp' = resp /\ otodo' = todo
        /\ ocur' = cur /\ ohook' = hook
    BY DEF Reload
  <2> QED
    BY <2>1, <2>2, <2>3, <2>4 DEF OldInv
<1> QED
  BY <1>2, <1>3, <1>4, <1>5

\* The old pool leaves the variables of the pool at hand alone.
LEMMA OldLeavesPool ==
  ASSUME PoolInv, InboundType',
         UNCHANGED <<remote, users, userpass, running, known, lifecycle, pc, locals,
                     hook, answer, faulty>>
  PROVE  PoolInv' /\ (Exact /\ UNCHANGED inbound => Exact')
         /\ \A i \in Ids : AnswersFor(i)' = AnswersFor(i)
<1> USE DEF lifecycle, locals
<1>1. TypeOK' /\ LoopInv' /\ IndexInv'
  BY DEF PoolInv, TypeOK, LoopInv, UpdateLoop, SweepLoop, InHand, PoolMatchesResponse,
         IndexInv, NoIndexWithoutKey, MovingIsPooled, IndexSound, Pooled, KeyOf, Moving
<1>2. HandInv' /\ FlagInv'
  BY DEF PoolInv, HandInv, HookOnPooled, AddIsUpdate, FlagInv, FlagType, UpdateClears
<1>3. Exact /\ UNCHANGED inbound => Exact'
  BY DEF Exact, ServedAreAnswered, AnswersFor, RunningIsServed, EnabledInHand, Served
<1>4. \A i \in Ids : AnswersFor(i)' = AnswersFor(i)
  BY DEF AnswersFor
<1> QED
  BY <1>1, <1>2, <1>3, <1>4 DEF PoolInv

\* Every step of the reload keeps its invariant.
LEMMA ReloadStep == ReloadInv /\ [RNext]_rvars => ReloadInv'
<1> SUFFICES ASSUME ReloadInv, [RNext]_rvars PROVE ReloadInv'
  OBVIOUS
<1> USE DEF ReloadInv
<1>1. CASE Reload
  <2>1. \A i \in Ids : Served(i)' = None
    <3>1. 1 \in Tags
      BY PoolAssumption DEF Tags
    <3> QED
      BY <1>1, <3>1 DEF Reload, Served
  <2> QED
    BY <1>1, <2>1, ReloadIsFresh DEF StrangersAreOld
<1>2. CASE Open \/ UNCHANGED rvars
  <2>1. UNCHANGED <<allvars, ovars, overlapped>>
    BY <1>2 DEF Open, rvars
  <2>2. PoolInv' /\ (Exact => Exact')
    BY <2>1, PoolStep
  <2>3. OldInv'
    BY <2>1 DEF OldInv, ovars
  <2>4. StrangersAreOld'
    BY <2>1 DEF StrangersAreOld, AnswersFor, Old!AnswersFor, Served, allvars, vars, pool,
                locals, xvars, ovars
  <2> QED
    BY <2>1, <2>2, <2>3, <2>4
<1>3. CASE PoolSync \/ PoolTick \/ Environment
  <2>1. [XNext]_allvars /\ UNCHANGED <<ovars, overlapped>>
    BY <1>3 DEF PoolSync, PoolTick, Environment, XNext
  <2>2. PoolInv' /\ Keeps /\ (Exact => Exact')
    BY <2>1, PoolStep
  <2>3. OldInv'
    BY <2>1 DEF OldInv, ovars
  <2>4. \A i \in Ids : Old!AnswersFor(i)' = Old!AnswersFor(i)
    BY <2>1 DEF Old!AnswersFor, ovars
  <2>5. StrangersAreOld'
    BY <2>1, <2>2, <2>4 DEF StrangersAreOld, Keeps
  <2> QED
    BY <2>1, <2>2, <2>3, <2>5
<1>4. CASE OldSync \/ OldTick \/ OldExit
  <2>1. Old!XSync \/ Old!XTick \/ Old!XExit
    BY <1>4 DEF OldSync, OldTick, OldExit
  <2>2. OldInv' /\ InboundType' /\ OldKeeps /\ UNCHANGED <<remote, userpass, known>>
    BY <2>1, OldStep DEF PoolInv, HandInv
  <2>3. UNCHANGED <<users, running, lifecycle, pc, locals, hook, answer, faulty>>
    BY <1>4 DEF OldSync, OldTick, OldExit
  <2>4. overlapped => overlapped'
    BY <1>4 DEF OldSync, OldTick, OldExit
  <2>5. inbound' # inbound => overlapped'
    BY <1>4 DEF OldSync, OldTick, OldExit, Old!XTick, Old!XExit, Old!xvars
  <2>6. /\ PoolInv' /\ (Exact /\ UNCHANGED inbound => Exact')
        /\ \A i \in Ids : AnswersFor(i)' = AnswersFor(i)
    BY <2>2, <2>3, OldLeavesPool
  <2>7. \A i \in Ids : Served(i)' # Served(i) => overlapped'
    BY <2>5 DEF Served
  <2>8. StrangersAreOld'
    <3> SUFFICES ASSUME NEW i \in Ids, Served(i)' # None
                 PROVE  AnswersFor(i)' \/ (overlapped' /\ Old!AnswersFor(i)')
      BY DEF StrangersAreOld
    <3>1. CASE Served(i) # None /\ AnswersFor(i)
      BY <2>6, <3>1
    <3>2. CASE Served(i) # None /\ overlapped /\ Old!AnswersFor(i)
      BY <2>2, <2>4, <3>2 DEF OldKeeps
    <3>3. CASE Served(i) = None
      BY <2>2, <2>7, <3>3 DEF OldKeeps
    <3> QED
      BY <3>1, <3>2, <3>3 DEF StrangersAreOld
  <2> QED
    BY <2>2, <2>4, <2>5, <2>6, <2>8
<1> QED
  BY <1>1, <1>2, <1>3, <1>4 DEF RNext

\* In every behaviour of a reload.
LEMMA RInvariance == RSpec => []ReloadInv
<1>1. RInit => ReloadInv
  <2> SUFFICES ASSUME RInit PROVE ReloadInv
    OBVIOUS
  <2>1. HandInv /\ FlagInv /\ LoopInv /\ Exact
    BY FreshPool DEF RInit, XInit, Init, Fresh
  <2>2. TypeOK /\ IndexInv
    <3>1. Nobody \in Config /\ 1 \in 1..NumTags
      BY PoolAssumption DEF Nobody, Config, Slot
    <3>2. TypeOK
      BY <3>1 DEF RInit, XInit, Init, TypeOK, Slot, Phases
    <3> QED
      BY <3>2
      DEF RInit, XInit, Init, IndexInv, NoIndexWithoutKey, MovingIsPooled, IndexSound
  <2>3. OldInv
    BY DEF RInit, OldInv, Nobody, Config, Slot, Updating
  <2>4. StrangersAreOld
    BY <2>1 DEF StrangersAreOld, Exact, ServedAreAnswered
  <2> QED
    BY <2>1, <2>2, <2>3, <2>4 DEF ReloadInv, PoolInv
<1>2. ReloadInv /\ [RNext]_rvars => ReloadInv'
  BY ReloadStep
<1> QED
  BY <1>1, <1>2, PTL DEF RSpec

\* Until a late call of the old pool has changed the users of the new
\* instance, it serves exactly whom the new pool says: Stop does not wait for
\* the cycle, and need not as long as the cycle does not reach the API.
THEOREM UntouchedServesExactly == RSpec => []UntouchedIsExact
<1>1. ReloadInv => UntouchedIsExact
  BY ExactMeans DEF ReloadInv, UntouchedIsExact
<1> QED
  BY <1>1, RInvariance, PTL

\* Whatever the late calls do, a user outside the new pool is served only
\* while the old pool has it.
THEOREM StrangersComeFromOldPool == RSpec => []StrangersAreOld
<1>1. ReloadInv => StrangersAreOld
  BY DEF ReloadInv
<1> QED
  BY <1>1, RInvariance, PTL
=============================================================================
