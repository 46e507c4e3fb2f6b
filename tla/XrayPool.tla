------------------------------ MODULE XrayPool ------------------------------
(***************************************************************************)
(* The user pool of the xray tunnel (tunnel/xray/user.go, services.go).    *)
(* There is no password map: xray itself authenticates the clients of an   *)
(* inbound, and the hooks add and remove users of the inbound over gRPC    *)
(* (AlterInbound, external).  xray refuses to add an email it has, and     *)
(* answers "not found" for one it has not.  A call may fail before or      *)
(* after it took effect.                                                   *)
(***************************************************************************)
EXTENDS UserPool

CONSTANT None  \* an id that xray does not serve

ASSUME XrayAssumption ==
  /\ None \notin Passwords
  /\ ~HasPasswordMap /\ Hooks = {"add", "update", "remove"} /\ Enables = BOOLEAN

VARIABLES
  running,  \* User.running of the object pooled under an id
  inbound,  \* per tag and id: the password xray accepts, None for no user
  known,    \* ids for which xray has a traffic counter
  hook,     \* where the goroutine is inside OnUserUpdate or FetchTraffic
  answer,   \* ids of the QueryStats answer still to be walked
  faulty    \* history: some gRPC call has failed

xvars == <<running, inbound, known, hook, answer, faulty>>
allvars == <<vars, xvars>>

Tags == 1..NumTags

XTypeOK ==
  /\ TypeOK
  /\ running \in [Ids -> BOOLEAN]
  /\ inbound \in [Tags -> [Ids -> Passwords \cup {None}]]
  /\ known \subseteq Ids
  /\ hook \in {"enter", "add", "walk"}
  /\ answer \subseteq known
  /\ faulty \in BOOLEAN
  /\ hook = "add" => pc = "onUpdate"
  /\ hook = "walk" => pc = "traffic"

XInit ==
  /\ Init
  /\ running = [i \in Ids |-> FALSE]
  /\ inbound = [t \in Tags |-> [i \in Ids |-> None]]
  /\ known = {}
  /\ hook = "enter"
  /\ answer = {}
  /\ faulty = FALSE

\* Every hook works on proxyTags[0].
Served(i) == inbound[1][i]
SetServed(i, p) == inbound' = [inbound EXCEPT ![1][i] = p]

-----------------------------------------------------------------------------
(***************************************************************************)
(* AddInboundUser and RemoveInboundUser, up to the flag they set.          *)
(***************************************************************************)

AddTakesEffect(i) == Served(i) = None /\ SetServed(i, users[i].password)
RemoveTakesEffect(i) == SetServed(i, None)

\* The call returns an error, and may have taken effect.
AddFails(i) == (inbound' = inbound \/ AddTakesEffect(i)) /\ faulty' = TRUE
RemoveFails(i) == (inbound' = inbound \/ RemoveTakesEffect(i)) /\ faulty' = TRUE

\* A client is served for the first time and xray starts to count for it.
Count(i) ==
  /\ Served(i) # None /\ i \notin known
  /\ known' = known \cup {i}
  /\ UNCHANGED <<vars, running, inbound, hook, answer, faulty>>

-----------------------------------------------------------------------------
(***************************************************************************)
(* OnUserAdd.                                                              *)
(***************************************************************************)

\* A new id gets a User object that is not running.
XCreateUser(i) ==
  /\ CreateUser(i)
  /\ running' = [running EXCEPT ![i] = FALSE]
  /\ UNCHANGED <<inbound, known, hook, answer, faulty>>

\* OnUserAdd adds the user, enabled or not, and marks it running.
AddNewUser ==
  /\ OnUserAdd
  /\ AddTakesEffect(cur)
  /\ running' = [running EXCEPT ![cur] = TRUE]
  /\ UNCHANGED <<known, hook, answer, faulty>>

\* The cycle is aborted; the user stays in the pool.
AddNewUserFails ==
  /\ OnUserAddFails
  /\ AddFails(cur)
  /\ UNCHANGED <<running, known, hook, answer>>

-----------------------------------------------------------------------------
(***************************************************************************)
(* OnUserUpdate: remove the user if it is marked running, then add it      *)
(* again if it is enabled; errors are ignored.                             *)
(***************************************************************************)

\* Mutant of RemoveOldUser that leaves User.running set.
RemoveOldUserKeepsFlag ==
  /\ pc = "onUpdate" /\ hook = "enter" /\ running[cur]
  /\ RemoveTakesEffect(cur)
  /\ hook' = "add"
  /\ UNCHANGED <<vars, running, known, answer, faulty>>

\* Mutant of RemoveOldUser that takes OnUserUpdate for done when the user is
\* out of xray.
RemoveOldUserOnly ==
  /\ pc = "onUpdate" /\ hook = "enter" /\ running[cur]
  /\ RemoveTakesEffect(cur)
  /\ running' = [running EXCEPT ![cur] = FALSE]
  /\ OnUserUpdate
  /\ UNCHANGED <<known, hook, answer, faulty>>

RemoveOldUser ==
  /\ pc = "onUpdate" /\ hook = "enter" /\ running[cur]
  /\ RemoveTakesEffect(cur)
  /\ running' = [running EXCEPT ![cur] = FALSE]
  /\ hook' = "add"
  /\ UNCHANGED <<vars, known, answer, faulty>>

RemoveOldUserFails ==
  /\ pc = "onUpdate" /\ hook = "enter" /\ running[cur]
  /\ RemoveFails(cur)
  /\ hook' = "add"
  /\ UNCHANGED <<vars, running, known, answer>>

KeepOldUser ==
  /\ pc = "onUpdate" /\ hook = "enter" /\ ~running[cur]
  /\ hook' = "add"
  /\ UNCHANGED <<vars, running, inbound, known, answer, faulty>>

\* AddInboundUser(newUser) marks the decoded object running, which is thrown
\* away after the cycle, and not the pooled one.
AddUpdatedUser ==
  /\ hook = "add" /\ users[cur].enable
  /\ OnUserUpdate
  /\ AddTakesEffect(cur)
  /\ hook' = "enter"
  /\ UNCHANGED <<running, known, answer, faulty>>

\* xray still has the user and refuses.
AddUpdatedUserRefused ==
  /\ hook = "add" /\ users[cur].enable /\ Served(cur) # None
  /\ OnUserUpdate
  /\ hook' = "enter"
  /\ UNCHANGED <<running, inbound, known, answer, faulty>>

AddUpdatedUserFails ==
  /\ hook = "add" /\ users[cur].enable
  /\ OnUserUpdate
  /\ AddFails(cur)
  /\ hook' = "enter"
  /\ UNCHANGED <<running, known, answer>>

LeaveDisabledUser ==
  /\ hook = "add" /\ ~users[cur].enable
  /\ OnUserUpdate
  /\ hook' = "enter"
  /\ UNCHANGED <<running, inbound, known, answer, faulty>>

-----------------------------------------------------------------------------
(***************************************************************************)
(* OnUserRemove.                                                           *)
(***************************************************************************)

\* Mutant of RemoveUnlistedUser that takes any error for "not found".
RemoveUnlistedUserAnyway ==
  /\ OnUserRemove
  /\ RemoveTakesEffect(cur) \/ inbound' = inbound
  /\ running' = [running EXCEPT ![cur] = FALSE]
  /\ UNCHANGED <<known, hook, answer, faulty>>

\* "not found" counts as success.
RemoveUnlistedUser ==
  /\ OnUserRemove
  /\ RemoveTakesEffect(cur)
  /\ running' = [running EXCEPT ![cur] = FALSE]
  /\ UNCHANGED <<known, hook, answer, faulty>>

\* An error other than "not found" aborts the cycle.
RemoveUnlistedUserFails ==
  /\ OnUserRemoveFails
  /\ RemoveFails(cur)
  /\ UNCHANGED <<running, known, hook, answer>>

XRemoveUser ==
  /\ RemoveUser
  /\ running' = [running EXCEPT ![cur] = FALSE]
  /\ UNCHANGED <<inbound, known, hook, answer, faulty>>

-----------------------------------------------------------------------------
(***************************************************************************)
(* fetchXrayTraffic and the report (its sums are in TrafficSync).          *)
(***************************************************************************)

\* Mutant of QueryStats that lists the users of the pool only.
QueryStatsPooled ==
  /\ pc = "traffic" /\ hook = "enter"
  /\ answer' = known \cap Listed(users)
  /\ hook' = "walk"
  /\ UNCHANGED <<vars, running, inbound, known, faulty>>

\* QueryStats lists every counter it has, also of users removed long ago.
QueryStats ==
  /\ pc = "traffic" /\ hook = "enter"
  /\ answer' = known
  /\ hook' = "walk"
  /\ UNCHANGED <<vars, running, inbound, known, faulty>>

QueryStatsFails ==
  /\ hook = "enter"
  /\ TrafficFails
  /\ faulty' = TRUE
  /\ UNCHANGED <<running, inbound, known, hook, answer>>

WalkPooled(i) ==
  /\ hook = "walk" /\ i \in answer /\ users[i] # NoUser
  /\ answer' = answer \ {i}
  /\ UNCHANGED <<vars, running, inbound, known, hook, faulty>>

\* Mutant of WalkLeaked that tries again until the call succeeds.
WalkLeakedRetries(i) ==
  /\ hook = "walk" /\ i \in answer /\ users[i] = NoUser
  /\ \/ RemoveTakesEffect(i) /\ faulty' = faulty /\ answer' = answer \ {i}
     \/ RemoveFails(i) /\ answer' = answer
  /\ UNCHANGED <<vars, running, known, hook>>

\* A user that is not in the pool is removed once more; errors are logged.
WalkLeaked(i) ==
  /\ hook = "walk" /\ i \in answer /\ users[i] = NoUser
  /\ answer' = answer \ {i}
  /\ \/ RemoveTakesEffect(i) /\ faulty' = faulty
     \/ RemoveFails(i)
  /\ UNCHANGED <<vars, running, known, hook>>

Report ==
  /\ hook = "walk" /\ answer = {}
  /\ TrafficSynced
  /\ hook' = "enter"
  /\ UNCHANGED <<running, inbound, known, answer, faulty>>

ReportFails ==
  /\ hook = "walk" /\ answer = {}
  /\ TrafficFails
  /\ hook' = "enter"
  /\ UNCHANGED <<running, inbound, known, answer, faulty>>

-----------------------------------------------------------------------------
XSync ==
  \/ Bookkeeping /\ UNCHANGED xvars
  \/ (\E i \in Ids : XCreateUser(i)) \/ XRemoveUser
  \/ AddNewUser \/ AddNewUserFails
  \/ RemoveOldUser \/ RemoveOldUserFails \/ KeepOldUser
  \/ AddUpdatedUser \/ AddUpdatedUserRefused \/ AddUpdatedUserFails
  \/ LeaveDisabledUser
  \/ RemoveUnlistedUser \/ RemoveUnlistedUserFails
  \/ QueryStats \/ QueryStatsFails \/ Report \/ ReportFails
  \/ \E i \in Ids : WalkPooled(i) \/ WalkLeaked(i)

XTick == Tick /\ UNCHANGED xvars
XExit == Exit /\ UNCHANGED xvars

XNext ==
  \/ XSync \/ XTick \/ XExit
  \/ (RemoteChange \/ Stop) /\ UNCHANGED xvars
  \/ \E i \in Ids : Count(i)

\* Errors that keep a cycle from removing an unlisted user.
XFault == FetchFails \/ AddNewUserFails \/ RemoveUnlistedUserFails

XSafety == XInit /\ [][XNext]_allvars
XSpec == XSafety /\ WF_allvars(XSync) /\ WF_allvars(XTick) /\ SF_allvars(XExit)

-----------------------------------------------------------------------------
(***************************************************************************)
(* Properties.                                                             *)
(***************************************************************************)

\* The hooks never make the pool do what UserPool does not allow.
PoolRefined == Safety

\* xray serves nobody who is not in the pool, whatever calls failed and
\* however: OnUserRemove must have succeeded before RemoveUser forgets a user.
InboundWithinPool == \A i \in Ids : Served(i) # None => users[i] # NoUser

\* While no call has failed, a user marked running is one that xray serves
\* with its present password, or with the one that OnUserUpdate is about to
\* replace: it removes nobody in vain.
RunningIsServed ==
  ~faulty => \A i \in Ids : running[i] =>
    /\ Served(i) # None
    /\ Served(i) = users[i].password \/ (pc = "onUpdate" /\ cur = i)

\* The pool has user i, and is not about to forget it.
AnswersFor(i) == users[i] # NoUser /\ ~(pc = "remove" /\ cur = i)

\* While no call has failed, xray serves every enabled user of the pool when
\* a cycle gets to its traffic report, with some password of that user.
EnabledIsServed ==
  ~faulty /\ pc = "traffic" =>
    \A i \in Ids : users[i] # NoUser => (users[i].enable => Served(i) # None)

Wanted(u) == IF u.enable THEN u.password ELSE None

\* When OnUserUpdate returns and no call has failed, xray has the new
\* configuration of the user: "OnUserUpdate is called when an existing
\* user's config has changed", which is the only place where it can get it.
UpdateIsApplied ==
  [][OnUserUpdate /\ ~faulty' => inbound'[1][cur] = Wanted(users[cur])]_allvars

\* How many calls the hook at work, or the report, has before it, at most.
LeftOfHook ==
  CASE pc = "onUpdate" /\ hook = "enter" -> 1
    [] pc = "traffic" /\ hook = "enter" -> Cardinality(Ids) + 1
    [] hook = "walk" -> Cardinality(answer)
    [] OTHER -> 0

\* A hook returns, and the walk over the statistics ends, after so many calls,
\* however many of them fail and whoever connects meanwhile: a cycle of the
\* tunnel takes a bounded number of steps.
HooksAreFinite ==
  [][XSync => \/ LeftOfCycle' \in 0..(LeftOfCycle - 1)
              \/ /\ LeftOfCycle' = LeftOfCycle
                 /\ LeftOfHook' \in 0..(LeftOfHook - 1)]_allvars

\* A user that the endpoint has dropped for good is not served for ever,
\* when fetches and hooks fail only finitely often and the goroutine is not
\* stopped.
DroppedUsersLeave ==
  \/ []<><<XFault>>_allvars
  \/ <>(pc = "done")
  \/ \A i \in Ids : <>[](remote[i] = NoUser) => <>[](Served(i) = None)
=============================================================================
