------------------------------ MODULE UserPool ------------------------------
(***************************************************************************)
(* The user pool every tunnel keeps (tunnel/common/pool.go).  One          *)
(* goroutine repeats a sync cycle: read the list of users from the remote  *)
(* endpoint, bring the maps `users` and `userpass` in line with it, then   *)
(* report traffic.  Handlers of client connections look a user up in       *)
(* between, at any point where the goroutine does not hold the mutex.      *)
(*                                                                         *)
(* A step of the goroutine is one critical section of the mutex, one call  *)
(* over the network, or one unlocked write of a User object.  The hooks of *)
(* PoolConfig are environment calls here that only return; HysteriaPool    *)
(* and XrayPool extend this module with what each hook does.               *)
(***************************************************************************)
EXTENDS Naturals, FiniteSets

CONSTANTS
  Ids,            \* user ids the remote endpoint may list
  Passwords,
  Enables,        \* values of the fields Equal compares besides Password
  Keys,           \* range of PoolConfig.PasswordKey
  PasswordKey,    \* the function PoolConfig.PasswordKey
  HasPasswordMap, \* FALSE when PoolConfig.PasswordKey is nil
  Hooks,          \* which of the add/update/remove hooks are not nil
  NumTags,        \* Len(PoolConfig.IterTags()), 1 when IterTags is nil
  AllowHandover,  \* may the remote give one user's password to another?
  NoUser,         \* no entry in `users`
  NoId            \* no entry in `userpass`

User == [password : Passwords, enable : Enables]
Slot == User \cup {NoUser}
Config == [Ids -> Slot]

ASSUME PoolAssumption ==
  /\ NoUser \notin User
  /\ NoId \notin Ids
  /\ PasswordKey \in [Passwords -> Keys]
  /\ Hooks \subseteq {"add", "update", "remove"}
  /\ NumTags \in Nat \ {0}
  /\ {HasPasswordMap, AllowHandover} \subseteq BOOLEAN

VARIABLES
  remote,     \* the list the endpoint would answer with now (environment)
  users,      \* UserPool.users, NoUser for an absent id
  userpass,   \* UserPool.userpass, NoId for an absent key
  started,    \* Start has returned nil: the goroutine is running
  cancelled,  \* Stop has called up.cancel
  pc,         \* where the goroutine is in syncOnce
  round,      \* the iteration of `for range tags`
  resp,       \* resp.Users of the cycle under way
  todo,       \* ids the current loop has still to visit
  cur,        \* the user in hand
  old         \* what the user in hand was before UpdateFromServer

pool == <<users, userpass>>
lifecycle == <<started, cancelled>>
locals == <<round, resp, todo, cur, old>>
vars == <<remote, pool, lifecycle, pc, locals>>

Listed(c) == {i \in Ids : c[i] # NoUser}
Nobody == [i \in Ids |-> NoUser]

Phases == {"fetch", "users", "reindex", "onAdd", "onUpdate", "sweep",
           "onRemove", "remove", "traffic", "idle", "done"}

TypeOK ==
  /\ remote \in Config
  /\ users \in Config
  /\ userpass \in [Keys -> Ids \cup {NoId}]
  /\ started \in BOOLEAN
  /\ cancelled \in BOOLEAN
  /\ pc \in Phases
  /\ round \in 1..NumTags
  /\ resp \in Config
  /\ todo \subseteq Ids
  /\ cur \in Ids \cup {NoId}
  /\ old \in Slot

\* NewUserPool, and Start up to its first syncOnce.
Init ==
  /\ remote = Nobody
  /\ users = Nobody
  /\ userpass = [k \in Keys |-> NoId]
  /\ started = FALSE
  /\ cancelled = FALSE
  /\ pc = "fetch"
  /\ round = 1
  /\ resp = Nobody
  /\ todo = {}
  /\ cur = NoId
  /\ old = NoUser

-----------------------------------------------------------------------------
(***************************************************************************)
(* The environment: the list kept by the remote endpoint.                  *)
(***************************************************************************)

KeysOf(c, i) == IF c[i] = NoUser THEN {} ELSE {PasswordKey[c[i].password]}

\* Keys that the pool holds, or is about to hold, for user i.
Claimed(i) == KeysOf(users, i) \cup KeysOf(resp, i)

\* Nobody else is listed with the key of c[i], now ...
Distinct(c, i) == \A j \in Ids \ {i} : KeysOf(c, i) \cap KeysOf(c, j) = {}

\* ... nor was when the pool last heard of it.
NoHandover(c, i) == \A j \in Ids \ {i} : KeysOf(c, i) \cap Claimed(j) = {}

\* One entry of the list changes at a time; the pool reads the list whole.
RemoteChange ==
  \E i \in Ids, s \in Slot :
    LET c == [remote EXCEPT ![i] = s] IN
    /\ Distinct(c, i)
    /\ AllowHandover \/ NoHandover(c, i)
    /\ remote' = c
    /\ UNCHANGED <<pool, lifecycle, pc, locals>>

-----------------------------------------------------------------------------
(***************************************************************************)
(* syncOnce: how a cycle starts and ends.                                  *)
(***************************************************************************)

\* The goroutine's select takes ticker.C; syncOnce begins.
Tick ==
  /\ pc = "idle"
  /\ pc' = "fetch"
  /\ UNCHANGED <<remote, pool, lifecycle, locals>>

\* What a cycle leaves behind when it ends: its locals are gone.
ForgetLocals ==
  /\ round' = 1
  /\ resp' = Nobody
  /\ todo' = {}
  /\ cur' = NoId
  /\ old' = NoUser

\* An error leaves syncOnce.  The first one makes Start return the error,
\* a later one is logged and the goroutine waits for the next tick.
Abort ==
  /\ pc' = IF started THEN "idle" ELSE "done"
  /\ ForgetLocals
  /\ UNCHANGED <<remote, pool, lifecycle>>

FetchFails == pc = "fetch" /\ Abort

\* GetJSON has decoded an answer.
Fetch ==
  /\ pc = "fetch"
  /\ resp' = remote
  /\ todo' = Listed(remote)
  /\ pc' = "users"
  /\ UNCHANGED <<remote, pool, lifecycle, round, cur, old>>

\* Mutant of TrafficSynced that runs the loop over the tags once too often.
TrafficSyncedOnceMore ==
  /\ pc = "traffic"
  /\ IF round <= NumTags
       THEN /\ pc' = "fetch"
            /\ round' = round + 1
            /\ resp' = Nobody
            /\ UNCHANGED <<todo, cur, old, started>>
       ELSE /\ pc' = "idle"
            /\ started' = TRUE
            /\ ForgetLocals
  /\ UNCHANGED <<remote, pool, cancelled>>

\* syncTrafficToServer (its effects are in TrafficSync) returns nil; the
\* loop over the tags goes on or ends, and the first syncOnce that ends
\* lets Start launch the goroutine.
TrafficSynced ==
  /\ pc = "traffic"
  /\ IF round < NumTags
       THEN /\ pc' = "fetch"
            /\ round' = round + 1
            /\ resp' = Nobody
            /\ UNCHANGED <<todo, cur, old, started>>
       ELSE /\ pc' = "idle"
            /\ started' = TRUE
            /\ ForgetLocals
  /\ UNCHANGED <<remote, pool, cancelled>>

TrafficFails == pc = "traffic" /\ Abort

-----------------------------------------------------------------------------
(***************************************************************************)
(* syncUserConfigsFromServer, the loop over resp.Users.                    *)
(***************************************************************************)

\* Mutant of CreateUser that forgets the password map.
CreateUserUnindexed(i) ==
  /\ pc = "users" /\ i \in todo /\ users[i] = NoUser
  /\ users' = [users EXCEPT ![i] = resp[i]]
  /\ todo' = todo \ {i}
  /\ pc' = IF "add" \in Hooks THEN "onAdd" ELSE "users"
  /\ cur' = IF "add" \in Hooks THEN i ELSE NoId
  /\ UNCHANGED <<remote, userpass, lifecycle, round, resp, old>>

\* The id is new: CreateUser writes both maps under the write lock.
CreateUser(i) ==
  /\ pc = "users" /\ i \in todo /\ users[i] = NoUser
  /\ users' = [users EXCEPT ![i] = resp[i]]
  /\ userpass' = IF HasPasswordMap
                   THEN [userpass EXCEPT ![PasswordKey[resp[i].password]] = i]
                   ELSE userpass
  /\ todo' = todo \ {i}
  /\ pc' = IF "add" \in Hooks THEN "onAdd" ELSE "users"
  /\ cur' = IF "add" \in Hooks THEN i ELSE NoId
  /\ UNCHANGED <<remote, lifecycle, round, resp, old>>

\* OnUserAdd returns nil; on an error the cycle is aborted.
OnUserAdd ==
  /\ pc = "onAdd"
  /\ pc' = "users"
  /\ cur' = NoId
  /\ UNCHANGED <<remote, pool, lifecycle, round, resp, todo, old>>

OnUserAddFails == pc = "onAdd" /\ Abort

\* oldUser.Equal(newUser): nothing to do but note the id in userM.
KeepUser(i) ==
  /\ pc = "users" /\ i \in todo /\ users[i] = resp[i]
  /\ todo' = todo \ {i}
  /\ UNCHANGED <<remote, pool, lifecycle, pc, round, resp, cur, old>>

\* Mutant of UpdateUser that does not compare.
UpdateUserAlways(i) ==
  /\ pc = "users" /\ i \in todo
  /\ users[i] # NoUser
  /\ users' = [users EXCEPT ![i] = resp[i]]
  /\ old' = users[i]
  /\ cur' = i
  /\ todo' = todo \ {i}
  /\ pc' = IF HasPasswordMap /\ users[i].password # resp[i].password
             THEN "reindex" ELSE "onUpdate"
  /\ UNCHANGED <<remote, userpass, lifecycle, round, resp>>

\* UpdateFromServer overwrites the User object without taking the mutex.
UpdateUser(i) ==
  /\ pc = "users" /\ i \in todo
  /\ users[i] # NoUser /\ users[i] # resp[i]
  /\ users' = [users EXCEPT ![i] = resp[i]]
  /\ old' = users[i]
  /\ cur' = i
  /\ todo' = todo \ {i}
  /\ pc' = IF HasPasswordMap /\ users[i].password # resp[i].password
             THEN "reindex" ELSE "onUpdate"
  /\ UNCHANGED <<remote, userpass, lifecycle, round, resp>>

\* Mutant of Reindex that keeps the entry of the old password.
ReindexKeepsOld ==
  /\ pc = "reindex"
  /\ userpass' = [userpass EXCEPT ![PasswordKey[users[cur].password]] = cur]
  /\ pc' = "onUpdate"
  /\ UNCHANGED <<remote, users, lifecycle, locals>>

\* The password changed: move the entry of userpass under the write lock.
Reindex ==
  /\ pc = "reindex"
  /\ userpass' = [userpass EXCEPT ![PasswordKey[old.password]] = NoId,
                                  ![PasswordKey[users[cur].password]] = cur]
  /\ pc' = "onUpdate"
  /\ UNCHANGED <<remote, users, lifecycle, locals>>

\* OnUserUpdate, skipped when nil, returns nothing.
OnUserUpdate ==
  /\ pc = "onUpdate"
  /\ pc' = "users"
  /\ cur' = NoId
  /\ old' = NoUser
  /\ UNCHANGED <<remote, pool, lifecycle, round, resp, todo>>

-----------------------------------------------------------------------------
(***************************************************************************)
(* syncUserConfigsFromServer, the loop over GetAllUsers.                   *)
(***************************************************************************)

\* Mutant of BeginSweep that never finds an unlisted user.
BeginSweepNone ==
  /\ pc = "users" /\ todo = {}
  /\ todo' = {}
  /\ pc' = "sweep"
  /\ UNCHANGED <<remote, pool, lifecycle, round, resp, cur, old>>

\* Every entry has been seen: find the pooled users that are not in userM.
BeginSweep ==
  /\ pc = "users" /\ todo = {}
  /\ todo' = Listed(users) \ Listed(resp)
  /\ pc' = "sweep"
  /\ UNCHANGED <<remote, pool, lifecycle, round, resp, cur, old>>

SweepUser(i) ==
  /\ pc = "sweep" /\ i \in todo
  /\ cur' = i
  /\ pc' = IF "remove" \in Hooks THEN "onRemove" ELSE "remove"
  /\ UNCHANGED <<remote, pool, lifecycle, round, resp, todo, old>>

\* OnUserRemove returns nil; on an error the cycle is aborted.
OnUserRemove ==
  /\ pc = "onRemove"
  /\ pc' = "remove"
  /\ UNCHANGED <<remote, pool, lifecycle, locals>>

\* Mutant of OnUserRemoveFails that tries the hook again at once.
OnUserRemoveRetries ==
  /\ pc = "onRemove"
  /\ cur' = NoId
  /\ pc' = "sweep"
  /\ UNCHANGED <<remote, pool, lifecycle, round, resp, todo, old>>

OnUserRemoveFails == pc = "onRemove" /\ Abort

\* RemoveUser deletes from both maps under the write lock.
RemoveUser ==
  /\ pc = "remove"
  /\ users' = [users EXCEPT ![cur] = NoUser]
  /\ userpass' = IF HasPasswordMap
                   THEN [userpass EXCEPT ![PasswordKey[users[cur].password]] = NoId]
                   ELSE userpass
  /\ todo' = todo \ {cur}
  /\ cur' = NoId
  /\ pc' = "sweep"
  /\ UNCHANGED <<remote, lifecycle, round, resp, old>>

EndSweep ==
  /\ pc = "sweep" /\ todo = {}
  /\ pc' = "traffic"
  /\ UNCHANGED <<remote, pool, lifecycle, locals>>

-----------------------------------------------------------------------------
(***************************************************************************)
(* Stop, and the goroutine's way out.                                      *)
(***************************************************************************)

\* Stop cancels ctx2 once Start has set up.cancel.
Stop ==
  /\ started /\ ~cancelled
  /\ cancelled' = TRUE
  /\ UNCHANGED <<remote, pool, started, pc, locals>>

\* Mutant of Exit: a goroutine that only leaves before it is started.
ExitBeforeStart ==
  /\ pc = "idle" /\ cancelled /\ ~started
  /\ pc' = "done"
  /\ UNCHANGED <<remote, pool, lifecycle, locals>>

\* select takes ctx2.Done().  When a tick is ready too it may take either.
Exit ==
  /\ pc = "idle" /\ cancelled
  /\ pc' = "done"
  /\ UNCHANGED <<remote, pool, lifecycle, locals>>

-----------------------------------------------------------------------------
\* Errors that keep a cycle from bringing the pool in line with the list.
Fault == FetchFails \/ OnUserAddFails \/ OnUserRemoveFails

\* The steps of the configuration sync that call no hook and leave the set
\* of User objects alone.
Bookkeeping ==
  \/ Fetch \/ FetchFails \/ Reindex \/ BeginSweep \/ EndSweep
  \/ \E i \in Ids : KeepUser(i) \/ UpdateUser(i) \/ SweepUser(i)

Sync ==
  \/ Bookkeeping
  \/ \E i \in Ids : CreateUser(i)
  \/ RemoveUser
  \/ OnUserAdd \/ OnUserAddFails \/ OnUserUpdate
  \/ OnUserRemove \/ OnUserRemoveFails
  \/ TrafficSynced \/ TrafficFails

Next == RemoteChange \/ Tick \/ Sync \/ Stop \/ Exit

\* The goroutine is scheduled and its ticker fires; a select that finds
\* ctx2.Done() ready over and over takes it at some point.
Fairness == WF_vars(Sync) /\ WF_vars(Tick) /\ SF_vars(Exit)

\* What the pool promises whatever its hooks do, and with their scheduling.
Safety == Init /\ [][Next]_vars
Spec == Safety /\ Fairness

-----------------------------------------------------------------------------
(***************************************************************************)
(* Properties.                                                             *)
(***************************************************************************)

Pooled(i) == users[i] # NoUser
KeyOf(i) == PasswordKey[users[i].password]

\* The one user whose entry is between UpdateFromServer and the re-keying.
Moving(i) == pc = "reindex" /\ cur = i

\* Without a PasswordKey the password map stays empty.
NoIndexWithoutKey == ~HasPasswordMap => \A k \in Keys : userpass[k] = NoId

\* The user being re-keyed is pooled, and its former fields are at hand.
MovingIsPooled == pc = "reindex" => /\ HasPasswordMap
                                   /\ cur \in Ids /\ Pooled(cur)
                                   /\ old \in User

\* A key that finds a user is the key of that user's present password, so a
\* revoked password, or one of a removed user, authenticates nobody.  The
\* only exception is the password a user had until UpdateFromServer, while
\* the goroutine waits for the mutex (GetUserByKey against the writes at
\* CreateUser, RemoveUser and the re-keying of syncUserConfigsFromServer).
IndexSound ==
  \A k \in Keys : userpass[k] # NoId =>
    LET i == userpass[k] IN
      /\ Pooled(i)
      /\ \/ KeyOf(i) = k
         \/ Moving(i) /\ PasswordKey[old.password] = k

\* A pooled user is found by its own password, except while it is being
\* re-keyed: no delete of another user's old key takes its entry away.
IndexComplete ==
  HasPasswordMap =>
    \A i \in Ids : Pooled(i) /\ ~Moving(i) => userpass[KeyOf(i)] = i

\* After a complete pass over the response every user is found by its own
\* password: PasswordKey "computes the lookup key for the password map".
FoundAfterSync ==
  pc = "traffic" /\ HasPasswordMap =>
    \A i \in Ids : Pooled(i) => userpass[KeyOf(i)] = i

\* When a cycle gets to its traffic report, the pool holds exactly the users
\* of the response, with its fields, whatever earlier cycles aborted midway.
PoolMatchesResponse == pc = "traffic" => users = resp

\* How many steps the goroutine is from the end of its cycle, at most: a pass
\* visits every listed user and every pooled one, with up to three steps each,
\* and there is a pass for every tag.
PassLength == 6 * Cardinality(Ids) + 4

LeftOfPass ==
  LET visits == 3 * Cardinality(todo)
      updated == 3 * Cardinality(Ids) + 3
  IN CASE pc = "fetch" -> PassLength
       [] pc = "users" -> updated + visits
       [] pc \in {"onAdd", "onUpdate"} -> updated + visits + 1
       [] pc = "reindex" -> updated + visits + 2
       [] pc = "sweep" -> visits + 2
       [] pc = "onRemove" -> visits + 1
       [] pc = "remove" -> visits
       [] pc = "traffic" -> 1

LeftOfCycle ==
  IF pc \in {"idle", "done"} THEN 0
  ELSE (NumTags - round) * (PassLength + 1) + LeftOfPass

\* A cycle ends after so many steps, whatever the endpoint answers, the pool
\* holds, and hooks and reports refuse, and whatever the endpoint and Stop do
\* meanwhile: nothing is visited twice and nothing is tried again.
CycleIsFinite ==
  [][/\ Sync => LeftOfCycle' \in 0..(LeftOfCycle - 1)
     /\ ~Sync /\ ~Tick => LeftOfCycle' <= LeftOfCycle]_vars

\* The pool is as the endpoint lists it, and so is the response in hand.
Settled == users = remote /\ (pc \notin {"fetch", "idle", "done"} => resp = remote)

\* As long as the list stays the same, a pool that agrees with it stays so
\* and no hook is called for anybody, however many cycles run or fail: nobody
\* is disconnected for nothing.
SettledIsQuiet ==
  [][Settled /\ UNCHANGED remote =>
       /\ Settled'
       /\ ~\E i \in Ids : CreateUser(i) \/ UpdateUser(i) \/ SweepUser(i)]_vars

\* If the endpoint's list changes, and fetches and hooks fail, only finitely
\* often, then the pool ends up equal to that list for good, however often
\* traffic cannot be reported, or the goroutine has ended.
Converges ==
  []<><<RemoteChange \/ Fault>>_vars \/ <>[](users = remote \/ pc = "done")

\* Once Stop is called the goroutine ends, be it in the middle of a cycle.
StopTerminates == cancelled ~> pc = "done"
=============================================================================
