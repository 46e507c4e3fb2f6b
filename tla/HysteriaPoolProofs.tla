------------------------- MODULE HysteriaPoolProofs -------------------------
(***************************************************************************)
(* HysteriaPool implements UserPool, and a session outlives its user only  *)
(* when the kick of OnUserRemove passed it by.                             *)
(***************************************************************************)
EXTENDS HysteriaPool, UserPoolProofs

\* A step of HysteriaPool is a step of UserPool or leaves its variables alone.
LEMMA HStepRefines == [HNext]_allvars => [Next]_vars
<1> SUFFICES ASSUME [HNext]_allvars PROVE [Next]_vars
  OBVIOUS
<1>1. CASE HSync
  <2>1. CASE Bookkeeping /\ UNCHANGED hvars
    BY <2>1 DEF Next, Sync
  <2>2. CASE (\E i \in Ids : HCreateUser(i)) \/ HRemoveUser
    BY <2>2 DEF HCreateUser, HRemoveUser, Next, Sync
  <2>3. CASE UpdateOfIdleUser \/ KickUpdatedUser \/ ClearRunning
    BY <2>3 DEF UpdateOfIdleUser, KickUpdatedUser, ClearRunning, Next, Sync
  <2>4. CASE KickRemovedUser \/ KickRemovedUserFails
    BY <2>4 DEF KickRemovedUser, KickRemovedUserFails, Next, Sync
  <2>5. CASE GetTraffic \/ GetTrafficFails \/ Report \/ ReportFails
    BY <2>5 DEF GetTraffic, GetTrafficFails, Report, ReportFails, Next, Sync
  <2>6. CASE \E i \in Ids : WalkPooled(i) \/ WalkLeaked(i) \/ WalkLeakedFails(i)
    BY <2>6 DEF WalkPooled, WalkLeaked, WalkLeakedFails
  <2> QED
    BY <1>1, <2>1, <2>2, <2>3, <2>4, <2>5, <2>6 DEF HSync
<1>2. CASE (RemoteChange \/ Tick \/ Stop \/ Exit) /\ UNCHANGED hvars
  BY <1>2 DEF Next
<1>3. CASE \E c \in Clients : Lookup(c) \/ Mark(c) \/ Connect(c) \/ Talk(c) \/ Disconnect(c)
  BY <1>3 DEF Lookup, Mark, Connect, Talk, Disconnect
<1>4. CASE UNCHANGED allvars
  BY <1>4 DEF allvars
<1> QED
  BY <1>1, <1>2, <1>3, <1>4 DEF HNext, Environment

\* Whatever the handlers of /auth and the hooks do, the pool behaves as
\* UserPool says.
THEOREM HysteriaPoolRefinesUserPool == HSafety => PoolRefined
<1>1. HInit => Init
  BY DEF HInit
<1>2. [HNext]_allvars => [Next]_vars
  BY HStepRefines
<1> QED
  BY <1>1, <1>2, PTL DEF HSafety, Safety, PoolRefined

-----------------------------------------------------------------------------
ConnType ==
  /\ conn \in [Clients -> Conn]
  /\ \A c \in Clients : conn[c].state = "off" => conn[c] = Off

\* Whoever is left with an object that is not pooled has been passed by, and
\* so has everybody under the user that is about to leave the pool.
OrphansMissed ==
  \A c \in Clients : conn[c].state # "off" /\ ~conn[c].own => c \in missed
LeaversMissed ==
  pc = "remove" => \A c \in Clients : conn[c].id = cur => c \in missed

RemovalInv == ConnType /\ OrphansMissed /\ LeaversMissed

\* A kick notes those it passes by, and forgets nobody who is still there.
LEMMA KickNotes ==
  ASSUME ConnType, NEW i, Kick(i) \/ KickFails(i)
  PROVE  /\ ConnType'
         /\ \A c \in Clients : conn'[c] \in {conn[c], Off}
         /\ i \in Ids => \A c \in Clients : conn'[c].id = i => c \in missed'
         /\ \A c \in Clients : conn'[c] = conn[c] /\ c \in missed =>
              c \in missed' \/ conn[c] = Off
<1>a. Off \in Conn /\ Off.id \notin Ids /\ Off.state = "off"
  BY PoolAssumption, HysteriaAssumption DEF Off, Conn
<1>1. CASE Kick(i)
  BY <1>a, <1>1 DEF Kick, Sessions, ClientsOf, ConnType
<1>2. CASE KickFails(i)
  BY <1>a, <1>2 DEF KickFails, ClientsOf, ConnType
<1> QED
  BY <1>1, <1>2

\* The walk over the traffic answer is part of the traffic report.
WalkReports == hook = "walk" => pc = "traffic"

\* No other step of the goroutine can come in between.
LEMMA WalkStep == WalkReports /\ [HNext]_allvars => WalkReports'
<1> SUFFICES ASSUME WalkReports, [HNext]_allvars PROVE WalkReports'
  OBVIOUS
<1> USE DEF WalkReports, vars, locals, pool, lifecycle, Abort
<1>1. CASE Bookkeeping /\ UNCHANGED hvars
  BY <1>1 DEF Bookkeeping, Fetch, FetchFails, Reindex, BeginSweep, EndSweep,
              KeepUser, UpdateUser, SweepUser, hvars
<1>2. CASE (\E i \in Ids : HCreateUser(i)) \/ HRemoveUser
  BY <1>2 DEF HCreateUser, CreateUser, HRemoveUser, RemoveUser
<1>3. CASE UpdateOfIdleUser \/ KickUpdatedUser \/ ClearRunning
  BY <1>3 DEF UpdateOfIdleUser, KickUpdatedUser, ClearRunning, OnUserUpdate
<1>4. CASE KickRemovedUser \/ KickRemovedUserFails
  BY <1>4 DEF KickRemovedUser, KickRemovedUserFails, OnUserRemove, OnUserRemoveFails
<1>5. CASE GetTraffic \/ GetTrafficFails \/ Report \/ ReportFails
  BY <1>5 DEF GetTraffic, GetTrafficFails, Report, ReportFails
<1>6. CASE \E i \in Ids : WalkPooled(i) \/ WalkLeaked(i) \/ WalkLeakedFails(i)
  BY <1>6 DEF WalkPooled, WalkLeaked, WalkLeakedFails
<1>7. CASE (RemoteChange \/ Tick \/ Stop \/ Exit) /\ UNCHANGED hvars
  BY <1>7 DEF RemoteChange, Tick, Stop, Exit, hvars
<1>8. CASE \E c \in Clients : Lookup(c) \/ Mark(c) \/ Connect(c) \/ Talk(c) \/ Disconnect(c)
  BY <1>8 DEF Lookup, Mark, Connect, Talk, Disconnect
<1>9. CASE UNCHANGED allvars
  BY <1>9 DEF allvars, hvars
<1> QED
  BY <1>1, <1>2, <1>3, <1>4, <1>5, <1>6, <1>7, <1>8, <1>9
  DEF HNext, HSync, Environment

\* Every step keeps track of those who lose their object.
LEMMA RemovalStep ==
  TypeOK /\ LoopInv /\ WalkReports /\ RemovalInv /\ [HNext]_allvars => RemovalInv'
<1> SUFFICES ASSUME TypeOK, LoopInv, WalkReports, RemovalInv, [HNext]_allvars
             PROVE  RemovalInv'
  OBVIOUS
<1> USE DEF RemovalInv
<1>0. /\ pc \in {"onRemove", "remove"} => cur \in Ids
      /\ userpass \in [Keys -> Ids \cup {NoId}]
  BY DEF TypeOK, Config, LoopInv, InHand
<1>a. Off \in Conn /\ Off.id \notin Ids /\ Off.state = "off"
  BY PoolAssumption, HysteriaAssumption DEF Off, Conn
<1>u. ASSUME UNCHANGED <<conn, missed>>, pc' = "remove" => pc = "remove" /\ cur' = cur
      PROVE  RemovalInv'
  BY <1>u DEF ConnType, OrphansMissed, LeaversMissed
<1>k. ASSUME NEW i, Kick(i) \/ KickFails(i),
             pc' = "remove" => cur' = i /\ i \in Ids
      PROVE  RemovalInv'
  <2>1. ConnType' /\ LeaversMissed'
    BY <1>k, KickNotes DEF LeaversMissed
  <2>2. OrphansMissed'
    BY <1>a, <1>k, KickNotes DEF OrphansMissed
  <2> QED
    BY <2>1, <2>2
<1>1. CASE Bookkeeping /\ UNCHANGED hvars
  <2>1. pc' # "remove" \/ \E i \in Ids : SweepUser(i)
    BY <1>1 DEF Bookkeeping, Fetch, FetchFails, Abort, Reindex, BeginSweep, EndSweep,
                KeepUser, UpdateUser
  <2>2. ASSUME NEW i \in Ids, SweepUser(i) PROVE pc' # "remove"
    BY <2>2, HysteriaAssumption DEF SweepUser
  <2> QED
    BY <1>1, <1>u, <2>1, <2>2 DEF hvars
<1>2. CASE \E i \in Ids : HCreateUser(i)
  BY <1>2, <1>u DEF HCreateUser, CreateUser
<1>3. CASE HRemoveUser
  <2>1. /\ pc = "remove" /\ pc' = "sweep" /\ missed' = missed /\ cur \in Ids
        /\ conn' = [c \in Clients |-> IF conn[c].id = cur THEN [conn[c] EXCEPT !.own = FALSE]
                                                          ELSE conn[c]]
    BY <1>0, <1>3 DEF HRemoveUser, RemoveUser, ClientsOf
  <2>2. ConnType'
    BY <1>a, <2>1 DEF ConnType, Conn
  <2>3. OrphansMissed'
    BY <2>1 DEF OrphansMissed, LeaversMissed, ConnType, Conn
  <2> QED
    BY <2>1, <2>2, <2>3 DEF LeaversMissed
<1>4. CASE UpdateOfIdleUser
  BY <1>4 DEF UpdateOfIdleUser, OnUserUpdate, ConnType, OrphansMissed, LeaversMissed
<1>5. CASE KickUpdatedUser
  BY <1>5, <1>k DEF KickUpdatedUser, vars, locals
<1>6. CASE ClearRunning
  BY <1>6, <1>u DEF ClearRunning, OnUserUpdate
<1>7. CASE KickRemovedUser
  BY <1>0, <1>7, <1>k DEF KickRemovedUser, OnUserRemove, locals
<1>8. CASE KickRemovedUserFails
  BY <1>0, <1>8, <1>k DEF KickRemovedUserFails, OnUserRemoveFails, Abort
<1>9. CASE GetTraffic \/ GetTrafficFails \/ Report \/ ReportFails
  BY <1>9, <1>u DEF GetTraffic, GetTrafficFails, Report, ReportFails, TrafficFails,
                    TrafficSynced, Abort, vars, locals
<1>10. ASSUME NEW i \in Ids, WalkPooled(i) PROVE RemovalInv'
  BY <1>10, <1>u DEF WalkPooled, vars, locals
<1>11. ASSUME NEW i \in Ids, WalkLeaked(i) \/ WalkLeakedFails(i) PROVE RemovalInv'
  BY <1>11, <1>k DEF WalkLeaked, WalkLeakedFails, WalkReports, vars, locals
<1>12. CASE (RemoteChange \/ Tick \/ Stop \/ Exit) /\ UNCHANGED hvars
  BY <1>12, <1>u DEF RemoteChange, Tick, Stop, Exit, hvars, locals
<1>13. ASSUME NEW c \in Clients, Lookup(c) PROVE RemovalInv'
  <2>1. PICK k \in Keys :
          /\ userpass[k] # NoId
          /\ conn' = [conn EXCEPT ![c] = [state |-> "found", id |-> userpass[k],
                                          own |-> TRUE, key |-> k]]
          /\ missed' = IF Kicked(userpass[k]) THEN missed \cup {c} ELSE missed
    BY <1>13 DEF Lookup
  <2>2. userpass[k] \in Ids /\ pc' = pc /\ cur' = cur
    BY <1>0, <1>13, <2>1 DEF Lookup, vars, locals
  <2>3. ConnType'
    BY <2>1, <2>2 DEF ConnType, Conn
  <2>4. OrphansMissed'
    BY <2>1 DEF OrphansMissed, ConnType
  <2>5. LeaversMissed'
    BY <2>1, <2>2 DEF LeaversMissed, Kicked, ConnType
  <2> QED
    BY <2>3, <2>4, <2>5
<1>14. ASSUME NEW c \in Clients, Mark(c) \/ Connect(c) PROVE RemovalInv'
  <2>1. PICK s \in {"marked", "on"} : conn' = [conn EXCEPT ![c].state = s]
    BY <1>14 DEF Mark, Connect
  <2>2. conn[c].state # "off" /\ UNCHANGED <<pc, cur, missed>>
    BY <1>14 DEF Mark, Connect, vars, locals
  <2> QED
    BY <2>1, <2>2 DEF ConnType, Conn, OrphansMissed, LeaversMissed
<1>15. ASSUME NEW c \in Clients, Talk(c) PROVE RemovalInv'
  BY <1>15, <1>u DEF Talk, vars, locals
<1>16. ASSUME NEW c \in Clients, Disconnect(c) PROVE RemovalInv'
  <2>1. /\ conn' = [conn EXCEPT ![c] = Off] /\ missed' = missed \ {c}
        /\ UNCHANGED <<pc, cur>>
    BY <1>16 DEF Disconnect, vars, locals
  <2> QED
    BY <1>0, <1>a, <2>1 DEF ConnType, OrphansMissed, LeaversMissed
<1>17. CASE UNCHANGED allvars
  BY <1>17, <1>u DEF allvars, vars, hvars, locals
<1> QED
  BY <1>1, <1>2, <1>3, <1>4, <1>5, <1>6, <1>7, <1>8, <1>9, <1>10, <1>11, <1>12,
     <1>13, <1>14, <1>15, <1>16, <1>17
  DEF HNext, HSync, Environment

\* A session on an object that has left the pool was between GetUserByPass
\* and its start when OnUserRemove kicked, or its kick failed.
THEOREM RemovalEndsSessions == HSafety => []OnlyMissedOutliveRemoval
<1>1. HInit => RemovalInv /\ WalkReports
  BY PoolAssumption
  DEF HInit, Init, WalkReports, RemovalInv, ConnType, Conn, Off, OrphansMissed, LeaversMissed
<1>2. TypeOK /\ LoopInv /\ WalkReports /\ RemovalInv /\ [HNext]_allvars => RemovalInv'
  BY RemovalStep
<1>6. WalkReports /\ [HNext]_allvars => WalkReports'
  BY WalkStep
<1>3. Init => LoopInv
  BY DEF Init, LoopInv, UpdateLoop, SweepLoop, InHand, PoolMatchesResponse,
         Updating, Sweeping
<1>4. TypeOK /\ LoopInv /\ [Next]_vars => LoopInv'
  BY LoopStep
<1>5. RemovalInv => OnlyMissedOutliveRemoval
  BY DEF RemovalInv, ConnType, OrphansMissed, OnlyMissedOutliveRemoval, Conn
<1> QED
  BY <1>1, <1>2, <1>3, <1>4, <1>5, <1>6, HysteriaPoolRefinesUserPool, TypeCorrect, PTL
  DEF HSafety, Safety, PoolRefined

-----------------------------------------------------------------------------
\* The state of the handlers and hooks beyond ConnType.
HookType ==
  /\ running \in [Ids -> BOOLEAN] /\ counted \subseteq Ids /\ answer \subseteq Ids
  /\ hook \in {"enter", "clear", "walk"} /\ missed \subseteq Clients
  /\ hook = "clear" => pc = "onUpdate"
  /\ \A c \in Clients : conn[c].state # "off" => conn[c].id \in Ids

\* Every step keeps it.
LEMMA HookTypeStep ==
  TypeOK /\ ConnType /\ HookType /\ [HNext]_allvars => HookType'
<1> SUFFICES ASSUME TypeOK, ConnType, HookType, [HNext]_allvars PROVE HookType'
  OBVIOUS
<1> USE DEF HookType, vars, locals, pool, lifecycle, Abort
<1>k. ASSUME NEW i, Kick(i) \/ KickFails(i)
      PROVE  /\ missed' \subseteq Clients
             /\ \A c \in Clients : conn'[c].state # "off" => conn'[c].id \in Ids
  <2>1. missed' \subseteq Clients
    BY <1>k DEF Kick, KickFails, Sessions, ClientsOf
  <2> QED
    BY <1>k, <2>1, KickNotes DEF Off
<1>1. CASE Bookkeeping /\ UNCHANGED hvars
  BY <1>1 DEF Bookkeeping, Fetch, FetchFails, Reindex, BeginSweep, EndSweep,
              KeepUser, UpdateUser, SweepUser, hvars
<1>2. CASE (\E i \in Ids : HCreateUser(i)) \/ HRemoveUser
  <2>1. CASE \E i \in Ids : HCreateUser(i)
    BY <2>1 DEF HCreateUser, CreateUser
  <2>2. CASE HRemoveUser
    <3>1. \A c \in Clients : conn'[c].state = conn[c].state /\ conn'[c].id = conn[c].id
      BY <2>2 DEF HRemoveUser, ConnType, Conn
    <3> QED
      BY <2>2, <3>1 DEF HRemoveUser, RemoveUser
  <2> QED
    BY <1>2, <2>1, <2>2
<1>3. CASE UpdateOfIdleUser \/ ClearRunning
  BY <1>3 DEF UpdateOfIdleUser, ClearRunning, OnUserUpdate, ClientsOf
<1>4. CASE KickUpdatedUser \/ KickRemovedUser \/ KickRemovedUserFails
  BY <1>4, <1>k DEF KickUpdatedUser, KickRemovedUser, KickRemovedUserFails, OnUserRemove,
                    OnUserRemoveFails
<1>5. CASE GetTraffic \/ GetTrafficFails \/ Report \/ ReportFails
  BY <1>5 DEF GetTraffic, GetTrafficFails, Report, ReportFails, TrafficSynced, TrafficFails
<1>6. ASSUME NEW i \in Ids, WalkPooled(i) \/ WalkLeaked(i) \/ WalkLeakedFails(i)
      PROVE  HookType'
  BY <1>6, <1>k DEF WalkPooled, WalkLeaked, WalkLeakedFails
<1>7. CASE (RemoteChange \/ Tick \/ Stop \/ Exit) /\ UNCHANGED hvars
  BY <1>7 DEF RemoteChange, Tick, Stop, Exit, hvars
<1>8. ASSUME NEW c \in Clients,
             Lookup(c) \/ Mark(c) \/ Connect(c) \/ Talk(c) \/ Disconnect(c)
      PROVE  HookType'
  <2>1. CASE Lookup(c)
    BY <2>1 DEF Lookup, ConnType, TypeOK
  <2>2. CASE Talk(c)
    BY <2>2 DEF Talk
  <2>3. CASE Mark(c) \/ Connect(c)
    BY <2>3 DEF Mark, Connect, ConnType, Conn
  <2>4. CASE Disconnect(c)
    BY <2>4 DEF Disconnect, ConnType, Off
  <2> QED
    BY <1>8, <2>1, <2>2, <2>3, <2>4
<1>9. CASE UNCHANGED allvars
  BY <1>9 DEF allvars, hvars
<1> QED
  BY <1>1, <1>2, <1>3, <1>4, <1>5, <1>6, <1>7, <1>8, <1>9
  DEF HNext, HSync, Environment

\* The user OnUserUpdate is called for, and an object a client was found by,
\* are pooled until RemoveUser says otherwise.
HandIsUser == pc \in {"reindex", "onUpdate"} => cur \in Ids
OwnIsPooled ==
  \A c \in Clients : conn[c].own => conn[c].id \in Ids /\ users[conn[c].id] # NoUser

\* Between the kick of OnUserUpdate and its SetRunning(false), whoever is
\* under the user has been passed by.
ClearedMissed == hook = "clear" => \A c \in Clients : conn[c].id = cur => c \in missed

\* OnlyMissedKeepOldPassword, before the session has begun as well.
KeysAreCurrent ==
  \A c \in Clients :
    conn[c].own /\ conn[c].key # KeyOf(conn[c].id) =>
      c \in missed \/ (cur = conn[c].id /\ pc \in {"reindex", "onUpdate"})

UpdateInv ==
  HandIsUser /\ OwnIsPooled /\ ClearedMissed /\ RunningUnlessMissed /\ KeysAreCurrent

\* Every step keeps track of those an update passes by.
LEMMA UpdateStep ==
  ASSUME TypeOK, LoopInv, IndexSound, ConnType, HookType, HookType', UpdateInv,
         [HNext]_allvars
  PROVE  UpdateInv'
<1> USE DEF UpdateInv
<1>a. Off \in Conn /\ Off.id \notin Ids /\ Off.state = "off" /\ Off.own = FALSE
  BY PoolAssumption, HysteriaAssumption DEF Off, Conn
<1>b. /\ pc = "users" => todo \subseteq Ids /\ \A i \in todo : resp[i] # NoUser
      /\ users \in [Ids -> Slot] /\ resp \in [Ids -> Slot]
      /\ userpass \in [Keys -> Ids \cup {NoId}]
  BY DEF TypeOK, Config, LoopInv, UpdateLoop, Updating, Listed
<1>u. ASSUME UNCHANGED <<conn, missed, running, users>>,
             hook' = "clear" => hook = "clear" /\ cur' = cur,
             pc \in {"reindex", "onUpdate"} \/ pc' \in {"reindex", "onUpdate"} =>
               pc \in {"reindex", "onUpdate"} /\ pc' \in {"reindex", "onUpdate"} /\ cur' = cur
      PROVE  UpdateInv'
  BY <1>u DEF HandIsUser, OwnIsPooled, ClearedMissed, RunningUnlessMissed, KeysAreCurrent,
              KeyOf
<1>k. ASSUME NEW i \in Ids, Kick(i) \/ KickFails(i), UNCHANGED <<running, users>>,
             hook' = "clear" => cur' = i,
             pc \in {"reindex", "onUpdate"} \/ pc' \in {"reindex", "onUpdate"} =>
               pc \in {"reindex", "onUpdate"} /\ pc' \in {"reindex", "onUpdate"} /\ cur' = cur
      PROVE  UpdateInv'
  <2>1. /\ \A c \in Clients : conn'[c].own => conn'[c] = conn[c] /\ (c \in missed => c \in missed')
        /\ \A c \in Clients : conn'[c].id = i => c \in missed'
    BY <1>a, <1>k, KickNotes
  <2>2. HandIsUser' /\ OwnIsPooled' /\ ClearedMissed'
    BY <1>k, <2>1 DEF HandIsUser, OwnIsPooled, ClearedMissed
  <2>3. RunningUnlessMissed' /\ KeysAreCurrent'
    BY <1>k, <2>1 DEF RunningUnlessMissed, KeysAreCurrent, KeyOf
  <2> QED
    BY <2>2, <2>3
<1>1. CASE Bookkeeping /\ UNCHANGED hvars
  <2>1. ASSUME NEW i \in Ids, UpdateUser(i) PROVE UpdateInv'
    <3>1. /\ users' = [users EXCEPT ![i] = resp[i]] /\ resp[i] # NoUser /\ cur' = i
          /\ pc = "users" /\ pc' \in {"reindex", "onUpdate"}
          /\ UNCHANGED <<conn, missed, running, hook>> /\ hook # "clear"
      BY <1>1, <1>b, <2>1 DEF UpdateUser, hvars, HookType
    <3>2. HandIsUser' /\ OwnIsPooled' /\ ClearedMissed' /\ RunningUnlessMissed'
      BY <1>b, <3>1 DEF HandIsUser, OwnIsPooled, ClearedMissed, RunningUnlessMissed
    <3>3. KeysAreCurrent'
      BY <1>b, <3>1 DEF KeysAreCurrent, KeyOf, OwnIsPooled
    <3> QED
      BY <3>2, <3>3
  <2>2. CASE ~\E i \in Ids : UpdateUser(i)
    BY <1>1, <1>u, <2>2, HysteriaAssumption
       DEF Bookkeeping, Fetch, FetchFails, Abort, Reindex, BeginSweep, EndSweep,
           KeepUser, SweepUser, hvars, pool, lifecycle, locals, HookType
  <2> QED
    BY <2>1, <2>2
<1>2. ASSUME NEW i \in Ids, HCreateUser(i) PROVE UpdateInv'
  <2>1. /\ users' = [users EXCEPT ![i] = resp[i]] /\ resp[i] # NoUser /\ users[i] = NoUser
        /\ pc = "users" /\ pc' = "users" /\ UNCHANGED <<conn, missed, hook>>
        /\ running' = [running EXCEPT ![i] = FALSE] /\ hook # "clear"
    BY <1>2, <1>b, HysteriaAssumption DEF HCreateUser, CreateUser, HookType
  <2>2. \A c \in Clients : conn[c].own => conn[c].id # i
    BY <2>1 DEF OwnIsPooled
  <2>3. HandIsUser' /\ OwnIsPooled' /\ ClearedMissed'
    BY <1>b, <2>1 DEF HandIsUser, OwnIsPooled, ClearedMissed
  <2>4. RunningUnlessMissed' /\ KeysAreCurrent'
    BY <1>b, <2>1, <2>2 DEF RunningUnlessMissed, KeysAreCurrent, KeyOf, OwnIsPooled, HookType
  <2> QED
    BY <2>3, <2>4
<1>3. CASE HRemoveUser
  <2>1. /\ users' = [users EXCEPT ![cur] = NoUser] /\ running' = [running EXCEPT ![cur] = FALSE]
        /\ pc = "remove" /\ pc' = "sweep" /\ UNCHANGED <<missed, hook>> /\ hook # "clear"
        /\ \A c \in Clients :
             /\ conn'[c].id = conn[c].id /\ conn'[c].state = conn[c].state
             /\ conn'[c].key = conn[c].key
             /\ conn'[c].own => conn[c].own /\ conn[c].id # cur
    BY <1>3 DEF HRemoveUser, RemoveUser, ClientsOf, ConnType, Conn, HookType
  <2>2. HandIsUser' /\ OwnIsPooled' /\ ClearedMissed'
    BY <1>b, <2>1 DEF HandIsUser, OwnIsPooled, ClearedMissed
  <2>3. RunningUnlessMissed' /\ KeysAreCurrent'
    BY <1>b, <2>1 DEF RunningUnlessMissed, KeysAreCurrent, KeyOf, OwnIsPooled, HookType
  <2> QED
    BY <2>2, <2>3
<1>4. CASE UpdateOfIdleUser
  <2>1. /\ pc' = "users" /\ UNCHANGED <<users, running, conn, hook>> /\ hook # "clear"
        /\ missed' = missed \cup {c \in Clients : conn[c].id = cur}
    BY <1>4 DEF UpdateOfIdleUser, OnUserUpdate, pool, ClientsOf
  <2> QED
    BY <2>1 DEF HandIsUser, OwnIsPooled, ClearedMissed, RunningUnlessMissed, KeysAreCurrent,
                KeyOf
<1>5. CASE KickUpdatedUser
  BY <1>5, <1>k DEF KickUpdatedUser, HandIsUser, vars, pool, locals
<1>6. CASE ClearRunning
  <2>1. /\ pc' = "users" /\ UNCHANGED <<users, conn, missed>> /\ hook = "clear"
        /\ hook' # "clear" /\ running' = [running EXCEPT ![cur] = FALSE]
    BY <1>6 DEF ClearRunning, OnUserUpdate, pool
  <2>2. HandIsUser' /\ OwnIsPooled' /\ ClearedMissed'
    BY <2>1 DEF HandIsUser, OwnIsPooled, ClearedMissed
  <2>3. RunningUnlessMissed' /\ KeysAreCurrent'
    BY <2>1 DEF RunningUnlessMissed, KeysAreCurrent, KeyOf, ClearedMissed, OwnIsPooled, HookType
  <2> QED
    BY <2>2, <2>3
<1>7. CASE KickRemovedUser \/ KickRemovedUserFails
  <2>1. cur \in Ids /\ hook # "clear" /\ UNCHANGED <<hook, users, running>>
    BY <1>7 DEF KickRemovedUser, KickRemovedUserFails, OnUserRemove, OnUserRemoveFails,
                Abort, pool, HookType, LoopInv, InHand, TypeOK
  <2> QED
    BY <1>7, <1>k, <2>1 DEF KickRemovedUser, KickRemovedUserFails, OnUserRemove,
                            OnUserRemoveFails, Abort
<1>8. CASE GetTraffic \/ GetTrafficFails \/ Report \/ ReportFails
  BY <1>8, <1>u DEF GetTraffic, GetTrafficFails, Report, ReportFails, TrafficFails,
                    TrafficSynced, Abort, vars, pool, locals, HookType
<1>9. ASSUME NEW i \in Ids, WalkPooled(i) PROVE UpdateInv'
  BY <1>9, <1>u DEF WalkPooled, vars, pool, locals
<1>10. ASSUME NEW i \in Ids, WalkLeaked(i) \/ WalkLeakedFails(i) PROVE UpdateInv'
  <2>1. hook' # "clear" /\ UNCHANGED <<pc, cur, users, running>>
    BY <1>10 DEF WalkLeaked, WalkLeakedFails, vars, pool, locals
  <2> QED
    BY <1>10, <1>k, <2>1 DEF WalkLeaked, WalkLeakedFails
<1>11. CASE (RemoteChange \/ Tick \/ Stop \/ Exit) /\ UNCHANGED hvars
  BY <1>11, <1>u DEF RemoteChange, Tick, Stop, Exit, hvars, pool, lifecycle, locals
<1>12. ASSUME NEW c \in Clients, Lookup(c) PROVE UpdateInv'
  <2>1. PICK k \in Keys :
          /\ userpass[k] # NoId /\ users[userpass[k]] # NoUser
          /\ conn' = [conn EXCEPT ![c] = [state |-> "found", id |-> userpass[k],
                                          own |-> TRUE, key |-> k]]
          /\ missed' = IF Kicked(userpass[k]) THEN missed \cup {c} ELSE missed
    BY <1>12 DEF Lookup
  <2>2. UNCHANGED <<pc, cur, users, running, hook>>
    BY <1>12 DEF Lookup, vars, pool, locals
  <2>3. userpass[k] \in Ids /\ (KeyOf(userpass[k]) = k \/ (pc = "reindex" /\ cur = userpass[k]))
    BY <1>b, <2>1 DEF IndexSound, Moving
  <2>4. conn'[c] = [state |-> "found", id |-> userpass[k], own |-> TRUE, key |-> k]
    BY <2>1 DEF ConnType
  <2>5. \A d \in Clients \ {c} : conn'[d] = conn[d] /\ (d \in missed <=> d \in missed')
    BY <2>1 DEF ConnType
  <2>6. HandIsUser' /\ OwnIsPooled'
    BY <2>1, <2>2, <2>3, <2>4, <2>5 DEF HandIsUser, OwnIsPooled
  <2>7. ClearedMissed'
    BY <2>1, <2>2, <2>4, <2>5 DEF ClearedMissed, Kicked, HookType
  <2>8. RunningUnlessMissed'
    BY <2>2, <2>4, <2>5 DEF RunningUnlessMissed
  <2>9. KeysAreCurrent'
    BY <2>2, <2>3, <2>4, <2>5 DEF KeysAreCurrent, KeyOf
  <2> QED
    BY <2>6, <2>7, <2>8, <2>9
<1>13. ASSUME NEW c \in Clients, Mark(c) \/ Connect(c) PROVE UpdateInv'
  <2>1. /\ UNCHANGED <<pc, cur, users, hook, missed>>
        /\ \A d \in Clients : /\ conn'[d].id = conn[d].id /\ conn'[d].own = conn[d].own
                              /\ conn'[d].key = conn[d].key
    BY <1>13 DEF Mark, Connect, vars, pool, locals, ConnType, Conn
  <2>2. HandIsUser' /\ OwnIsPooled' /\ ClearedMissed' /\ KeysAreCurrent'
    BY <2>1 DEF HandIsUser, OwnIsPooled, ClearedMissed, KeysAreCurrent, KeyOf
  <2>3. \A d \in Clients \ {c} : conn'[d] = conn[d]
    BY <1>13 DEF Mark, Connect, ConnType
  <2>4. CASE Mark(c)
    <3>1. running' = IF conn[c].own THEN [running EXCEPT ![conn[c].id] = TRUE] ELSE running
      BY <2>4 DEF Mark
    <3> QED
      BY <2>1, <2>2, <2>3, <3>1 DEF RunningUnlessMissed, OwnIsPooled, HookType
  <2>5. CASE Connect(c)
    BY <2>1, <2>2, <2>3, <2>5 DEF Connect, RunningUnlessMissed
  <2> QED
    BY <1>13, <2>4, <2>5
<1>14. ASSUME NEW c \in Clients, Talk(c) PROVE UpdateInv'
  BY <1>14, <1>u DEF Talk, vars, pool, locals
<1>15. ASSUME NEW c \in Clients, Disconnect(c) PROVE UpdateInv'
  <2>1. /\ UNCHANGED <<pc, cur, users, hook, running>> /\ conn'[c] = Off
        /\ missed' = missed \ {c} /\ \A d \in Clients \ {c} : conn'[d] = conn[d]
    BY <1>15 DEF Disconnect, vars, pool, locals, ConnType
  <2>2. HandIsUser' /\ OwnIsPooled' /\ ClearedMissed'
    BY <1>a, <2>1 DEF HandIsUser, OwnIsPooled, ClearedMissed, HookType
  <2>3. RunningUnlessMissed' /\ KeysAreCurrent'
    BY <1>a, <2>1 DEF RunningUnlessMissed, KeysAreCurrent, KeyOf
  <2> QED
    BY <2>2, <2>3
<1>16. CASE UNCHANGED allvars
  BY <1>16, <1>u DEF allvars, vars, hvars, pool, locals
<1> QED
  BY <1>1, <1>2, <1>3, <1>4, <1>5, <1>6, <1>7, <1>8, <1>9, <1>10, <1>11, <1>12,
     <1>13, <1>14, <1>15, <1>16
  DEF HNext, HSync, Environment

\* The invariants of the hysteria tunnel together.
LEMMA HInvariance == HSafety => []((RemovalInv /\ WalkReports) /\ (HookType /\ UpdateInv))
<1>1. HInit => LoopInv /\ RemovalInv /\ WalkReports /\ HookType /\ UpdateInv
  <2> SUFFICES ASSUME HInit PROVE LoopInv /\ RemovalInv /\ WalkReports /\ HookType /\ UpdateInv
    OBVIOUS
  <2>1. LoopInv
    BY DEF HInit, Init, LoopInv, UpdateLoop, SweepLoop, InHand, PoolMatchesResponse,
           Updating, Sweeping
  <2>2. RemovalInv /\ WalkReports
    BY PoolAssumption DEF HInit, Init, WalkReports, RemovalInv, ConnType, Conn, Off,
                          OrphansMissed, LeaversMissed
  <2>3. HookType /\ UpdateInv
    BY DEF HInit, Init, HookType, UpdateInv, HandIsUser, OwnIsPooled, ClearedMissed,
           RunningUnlessMissed, KeysAreCurrent, Off
  <2> QED
    BY <2>1, <2>2, <2>3
<1>2. [HNext]_allvars => [Next]_vars
  BY HStepRefines
<1>3. TypeOK /\ LoopInv /\ [Next]_vars => LoopInv'
  BY LoopStep
<1>4. TypeOK /\ LoopInv /\ WalkReports /\ RemovalInv /\ [HNext]_allvars => RemovalInv'
  BY RemovalStep
<1>5. WalkReports /\ [HNext]_allvars => WalkReports'
  BY WalkStep
<1>6. TypeOK /\ RemovalInv /\ HookType /\ [HNext]_allvars => HookType'
  BY HookTypeStep DEF RemovalInv
<1>7. TypeOK /\ LoopInv /\ IndexSound /\ RemovalInv /\ HookType /\ HookType' /\ UpdateInv
        /\ [HNext]_allvars => UpdateInv'
  BY UpdateStep DEF RemovalInv
<1> QED
  BY <1>1, <1>2, <1>3, <1>4, <1>5, <1>6, <1>7, HysteriaPoolRefinesUserPool, TypeCorrect,
     IndexIsSound, PTL DEF HSafety, PoolRefined

\* The types of pool, handlers and hooks: a client has a user, an object and
\* a key exactly as long as /auth or the server has to do with it.
THEOREM HTypeCorrect == HSafety => []HTypeOK
<1>1. TypeOK /\ RemovalInv /\ WalkReports /\ HookType => HTypeOK
  <2> SUFFICES ASSUME TypeOK, RemovalInv, WalkReports, HookType PROVE HTypeOK
    OBVIOUS
  <2>1. \A c \in Clients : conn[c].state = "off" <=> conn[c] = Off
    BY DEF RemovalInv, ConnType, Off
  <2> QED
    BY <2>1 DEF RemovalInv, ConnType, WalkReports, HookType, HTypeOK
<1> QED
  BY <1>1, HInvariance, HysteriaPoolRefinesUserPool, TypeCorrect, PTL DEF PoolRefined

\* OnUserUpdate may rely on the running flag: a client that /auth has marked,
\* on an object still pooled, is covered by it unless a kick passed it by.
THEOREM RunningIsReliable == HSafety => []RunningUnlessMissed
<1>1. UpdateInv => RunningUnlessMissed
  BY DEF UpdateInv
<1> QED
  BY <1>1, HInvariance, PTL

\* A session on a password that is not its user's any more is one that the
\* last update passed by, or the update is still under way.
THEOREM UpdateEndsSessions == HSafety => []OnlyMissedKeepOldPassword
<1>1. UpdateInv => OnlyMissedKeepOldPassword
  BY DEF UpdateInv, KeysAreCurrent, OnlyMissedKeepOldPassword
<1> QED
  BY <1>1, HInvariance, PTL

-----------------------------------------------------------------------------
\* A step of the goroutine is one of the cycle, or one inside a hook or the
\* walk, which brings the end of that nearer.
LEMMA HookShrinks ==
  ASSUME IsFiniteSet(Ids), TypeOK, TypeOK', LoopInv, HookType, HSync
  PROVE  \/ LeftOfCycle' \in 0..(LeftOfCycle - 1)
         \/ LeftOfCycle' = LeftOfCycle /\ LeftOfHook' \in 0..(LeftOfHook - 1)
<1>v. UNCHANGED vars => LeftOfCycle' = LeftOfCycle
  BY DEF LeftOfCycle, LeftOfPass, vars, locals
<1>1. CASE Sync
  BY <1>1, CycleShrinks DEF Next
<1>2. CASE KickUpdatedUser
  <2>1. /\ UNCHANGED vars /\ pc = "onUpdate" /\ pc' = "onUpdate"
        /\ hook = "enter" /\ hook' = "clear"
    BY <1>2 DEF KickUpdatedUser, vars
  <2>2. LeftOfHook = 1 /\ LeftOfHook' = 0
    BY <2>1 DEF LeftOfHook
  <2> QED
    BY <1>v, <2>1, <2>2
<1>3. CASE GetTraffic
  <2>1. /\ UNCHANGED vars /\ pc = "traffic" /\ pc' = "traffic"
        /\ hook = "enter" /\ hook' = "walk" /\ answer' = counted
    BY <1>3 DEF GetTraffic, vars
  <2>2. LeftOfHook = Cardinality(Ids) + 1 /\ LeftOfHook' = Cardinality(counted)
    BY <2>1 DEF LeftOfHook
  <2>3. /\ Cardinality(Ids) \in Nat /\ Cardinality(counted) \in Nat
        /\ Cardinality(counted) <= Cardinality(Ids)
    BY VisitsCount DEF HookType
  <2> QED
    BY <1>v, <2>1, <2>2, <2>3
<1>4. ASSUME NEW i \in Ids, WalkPooled(i) \/ WalkLeaked(i) \/ WalkLeakedFails(i)
      PROVE  LeftOfCycle' = LeftOfCycle /\ LeftOfHook' \in 0..(LeftOfHook - 1)
  <2>1. /\ UNCHANGED vars /\ UNCHANGED pc /\ hook = "walk" /\ hook' = "walk"
        /\ i \in answer /\ answer' = answer \ {i}
    BY <1>4 DEF WalkPooled, WalkLeaked, WalkLeakedFails, vars
  <2>2. LeftOfHook = Cardinality(answer) /\ LeftOfHook' = Cardinality(answer')
    BY <2>1 DEF LeftOfHook
  <2>3. answer \subseteq Ids /\ answer' \subseteq Ids
    BY <2>1 DEF HookType
  <2>4. /\ Cardinality(answer) \in Nat /\ Cardinality(answer') \in Nat
        /\ Cardinality(answer \ {i}) = Cardinality(answer) - 1
    BY <2>1, <2>3, VisitsCount
  <2> QED
    BY <1>v, <2>1, <2>2, <2>4
<1>5. CASE UpdateOfIdleUser \/ ClearRunning \/ KickRemovedUser \/ KickRemovedUserFails
  BY <1>1, <1>5 DEF UpdateOfIdleUser, ClearRunning, KickRemovedUser, KickRemovedUserFails,
                    Sync
<1>6. CASE GetTrafficFails \/ Report \/ ReportFails
  BY <1>1, <1>6 DEF GetTrafficFails, Report, ReportFails, Sync
<1>7. CASE Bookkeeping \/ HRemoveUser \/ \E i \in Ids : HCreateUser(i)
  BY <1>1, <1>7 DEF HRemoveUser, HCreateUser, Sync
<1> QED
  BY <1>2, <1>3, <1>4, <1>5, <1>6, <1>7 DEF HSync

\* With finitely many users no hook and no walk goes on for ever: the cycle of
\* the hysteria tunnel is bounded like that of the pool.
THEOREM HCyclesAreFinite == IsFiniteSet(Ids) /\ HSafety => HooksAreFinite
<1> SUFFICES ASSUME IsFiniteSet(Ids) PROVE HSafety => HooksAreFinite
  OBVIOUS
<1>1. TypeOK /\ TypeOK' /\ LoopInv /\ HookType =>
        [HSync => \/ LeftOfCycle' \in 0..(LeftOfCycle - 1)
                  \/ /\ LeftOfCycle' = LeftOfCycle
                     /\ LeftOfHook' \in 0..(LeftOfHook - 1)]_allvars
  BY HookShrinks
<1> QED
  BY <1>1, HInvariance, HysteriaPoolRefinesUserPool, LoopInvariance, TypeCorrect, PTL
  DEF PoolRefined, HooksAreFinite
=============================================================================
