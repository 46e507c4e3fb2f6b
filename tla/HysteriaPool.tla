---------------------------- MODULE HysteriaPool ----------------------------
(***************************************************************************)
(* The user pool of the hysteria tunnel (tunnel/hysteria/user.go) with the *)
(* /auth endpoint (services.go) that admits clients.  The hysteria server, *)
(* external here, asks /auth about every connection, keeps a session for   *)
(* each it admits, counts the traffic of each user, and ends the sessions  *)
(* of a user on /kick.  A User object is marked running when /auth admits  *)
(* somebody with it, and OnUserUpdate kicks only a user marked so.         *)
(***************************************************************************)
EXTENDS UserPool

CONSTANTS
  Clients,  \* connections to the hysteria server
  NoKey     \* a client that has presented no password

ASSUME HysteriaAssumption ==
  /\ NoKey \notin Keys
  /\ HasPasswordMap /\ Hooks = {"update", "remove"} /\ NumTags = 1

VARIABLES
  running,  \* User.running of the object pooled under an id
  conn,     \* what the handler of /auth, then the server, holds of a client
  counted,  \* ids with traffic since the counters were last cleared
  hook,     \* where the goroutine is inside OnUserUpdate or FetchTraffic
  answer,   \* ids of the traffic answer still to be walked
  missed    \* history: clients that the last kick of their user, or update, passed by

hvars == <<running, conn, counted, hook, answer, missed>>
allvars == <<vars, hvars>>

\* "found": /auth has looked the password up; "marked": SetRunning is done;
\* "on": the server has the answer and runs the session.  "own" tells that
\* the object found is still the one in the pool; "key" is the password used.
Conn == [state : {"off", "found", "marked", "on"},
         id : Ids \cup {NoId}, own : BOOLEAN, key : Keys \cup {NoKey}]
Off == [state |-> "off", id |-> NoId, own |-> FALSE, key |-> NoKey]

HTypeOK ==
  /\ TypeOK
  /\ running \in [Ids -> BOOLEAN]
  /\ conn \in [Clients -> Conn]
  /\ counted \subseteq Ids
  /\ hook \in {"enter", "clear", "walk"}
  /\ answer \subseteq Ids
  /\ missed \subseteq Clients
  /\ \A c \in Clients : conn[c].state = "off" <=> conn[c] = Off
  /\ hook = "clear" => pc = "onUpdate"
  /\ hook = "walk" => pc = "traffic"

HInit ==
  /\ Init
  /\ running = [i \in Ids |-> FALSE]
  /\ conn = [c \in Clients |-> Off]
  /\ counted = {}
  /\ hook = "enter"
  /\ answer = {}
  /\ missed = {}

ClientsOf(i) == {c \in Clients : conn[c].id = i}
Sessions(i) == {c \in ClientsOf(i) : conn[c].state = "on"}

-----------------------------------------------------------------------------
(***************************************************************************)
(* The handler of /auth and the session that follows it.                   *)
(***************************************************************************)

\* The goroutine has kicked user i and not yet drawn the consequence.
Kicked(i) == cur = i /\ (pc = "remove" \/ (pc = "onUpdate" /\ hook = "clear"))

\* GetUserByPass under the read lock.  A request that is malformed or whose
\* password finds nobody is refused, which changes nothing.
Lookup(c) ==
  /\ conn[c].state = "off"
  /\ \E k \in Keys :
       LET i == userpass[k] IN
       /\ i # NoId /\ users[i] # NoUser
       /\ conn' = [conn EXCEPT ![c] =
                    [state |-> "found", id |-> i, own |-> TRUE, key |-> k]]
       /\ missed' = IF Kicked(i) THEN missed \cup {c} ELSE missed
  /\ UNCHANGED <<vars, running, counted, hook, answer>>

\* Mutant of Mark without SetRunning.
MarkWithoutFlag(c) ==
  /\ conn[c].state = "found"
  /\ conn' = [conn EXCEPT ![c].state = "marked"]
  /\ UNCHANGED <<vars, running, counted, hook, answer, missed>>

\* SetRunning(true) under the lock, on the object found before, which may
\* have been removed from the pool in between.
Mark(c) ==
  /\ conn[c].state = "found"
  /\ conn' = [conn EXCEPT ![c].state = "marked"]
  /\ running' = IF conn[c].own THEN [running EXCEPT ![conn[c].id] = TRUE]
                               ELSE running
  /\ UNCHANGED <<vars, counted, hook, answer, missed>>

\* The answer reaches the server, and the session begins.
Connect(c) ==
  /\ conn[c].state = "marked"
  /\ conn' = [conn EXCEPT ![c].state = "on"]
  /\ UNCHANGED <<vars, running, counted, hook, answer, missed>>

Talk(c) ==
  /\ conn[c].state = "on"
  /\ counted' = counted \cup {conn[c].id}
  /\ UNCHANGED <<vars, running, conn, hook, answer, missed>>

\* The client goes away; a request whose connection dies has no session.
Disconnect(c) ==
  /\ conn[c].state \in {"marked", "on"}
  /\ conn' = [conn EXCEPT ![c] = Off]
  /\ missed' = missed \ {c}
  /\ UNCHANGED <<vars, running, counted, hook, answer>>

-----------------------------------------------------------------------------
(***************************************************************************)
(* kickUser, and the hooks that call it.                                   *)
(***************************************************************************)

\* /kick ends the sessions the user has; a request still in /auth has none.
Kick(i) ==
  /\ conn' = [c \in Clients |-> IF c \in Sessions(i) THEN Off ELSE conn[c]]
  /\ missed' = (missed \ Sessions(i)) \cup (ClientsOf(i) \ Sessions(i))

KickFails(i) ==
  /\ conn' = conn
  /\ missed' = missed \cup ClientsOf(i)

\* OnUserUpdate finds the user not running and returns.  It passes by the
\* requests that are still to mark the user.
UpdateOfIdleUser ==
  /\ pc = "onUpdate" /\ hook = "enter" /\ ~running[cur]
  /\ OnUserUpdate
  /\ missed' = missed \cup ClientsOf(cur)
  /\ UNCHANGED <<running, conn, counted, hook, answer>>

\* Mutant of KickUpdatedUser that never calls kickUser.
KickUpdatedUserNever ==
  /\ pc = "onUpdate" /\ hook = "enter" /\ running[cur]
  /\ UNCHANGED <<conn, missed>>
  /\ hook' = "clear"
  /\ UNCHANGED <<vars, running, counted, answer>>

\* OnUserUpdate kicks; a failure is logged and forgotten.
KickUpdatedUser ==
  /\ pc = "onUpdate" /\ hook = "enter" /\ running[cur]
  /\ Kick(cur) \/ KickFails(cur)
  /\ hook' = "clear"
  /\ UNCHANGED <<vars, running, counted, answer>>

\* SetRunning(false) ends OnUserUpdate.
ClearRunning ==
  /\ hook = "clear"
  /\ running' = [running EXCEPT ![cur] = FALSE]
  /\ hook' = "enter"
  /\ OnUserUpdate
  /\ UNCHANGED <<conn, counted, answer, missed>>

\* Mutant of KickRemovedUser that ignores a failure of the kick.
KickRemovedUserAlways ==
  /\ OnUserRemove
  /\ Kick(cur) \/ UNCHANGED <<conn, missed>>
  /\ UNCHANGED <<running, counted, hook, answer>>

\* OnUserRemove kicks before RemoveUser ...
KickRemovedUser ==
  /\ OnUserRemove
  /\ Kick(cur)
  /\ UNCHANGED <<running, counted, hook, answer>>

\* ... and a failure keeps the user in the pool for the next cycle.  The
\* sessions may be gone all the same when only the answer was lost.
KickRemovedUserFails ==
  /\ OnUserRemoveFails
  /\ Kick(cur) \/ KickFails(cur)
  /\ UNCHANGED <<running, counted, hook, answer>>

\* A new id gets a User object that is not running.
HCreateUser(i) ==
  /\ CreateUser(i)
  /\ running' = [running EXCEPT ![i] = FALSE]
  /\ UNCHANGED <<conn, counted, hook, answer, missed>>

\* The object leaves the pool; handlers that found it keep their pointer.
HRemoveUser ==
  /\ RemoveUser
  /\ running' = [running EXCEPT ![cur] = FALSE]
  /\ conn' = [c \in Clients |->
                IF c \in ClientsOf(cur) THEN [conn[c] EXCEPT !.own = FALSE]
                                        ELSE conn[c]]
  /\ UNCHANGED <<counted, hook, answer, missed>>

-----------------------------------------------------------------------------
(***************************************************************************)
(* fetchHysteriaTraffic and the report (its sums are in TrafficSync).      *)
(***************************************************************************)

\* Mutant of GetTraffic that drops the users who are not in the pool.
GetTrafficPooledOnly ==
  /\ pc = "traffic" /\ hook = "enter"
  /\ answer' = counted \cap Listed(users)
  /\ counted' = {}
  /\ hook' = "walk"
  /\ UNCHANGED <<vars, running, conn, missed>>

\* GET /traffic?clear=1 answers with the counters and clears them.
GetTraffic ==
  /\ pc = "traffic" /\ hook = "enter"
  /\ answer' = counted
  /\ counted' = {}
  /\ hook' = "walk"
  /\ UNCHANGED <<vars, running, conn, missed>>

\* Mutant of GetTrafficFails that asks again until there is an answer.
GetTrafficRetries ==
  /\ pc = "traffic" /\ hook = "enter"
  /\ counted' \in {counted, {}}
  /\ UNCHANGED <<vars, running, conn, hook, answer, missed>>

\* The call fails, before or after the server has cleared its counters.
GetTrafficFails ==
  /\ hook = "enter"
  /\ TrafficFails
  /\ counted' \in {counted, {}}
  /\ UNCHANGED <<running, conn, hook, answer, missed>>

\* A user of the pool: its counters are copied.
WalkPooled(i) ==
  /\ hook = "walk" /\ i \in answer /\ users[i] # NoUser
  /\ answer' = answer \ {i}
  /\ UNCHANGED <<vars, running, conn, counted, hook, missed>>

\* Traffic of a user that is not in the pool: kick it.
WalkLeaked(i) ==
  /\ hook = "walk" /\ i \in answer /\ users[i] = NoUser
  /\ answer' = answer \ {i}
  /\ Kick(i)
  /\ UNCHANGED <<vars, running, counted, hook>>

\* That kick failed; the failure is logged.
WalkLeakedFails(i) ==
  /\ hook = "walk" /\ i \in answer /\ users[i] = NoUser
  /\ answer' = answer \ {i}
  /\ KickFails(i)
  /\ UNCHANGED <<vars, running, counted, hook>>

\* The report is posted, or is not.
Report ==
  /\ hook = "walk" /\ answer = {}
  /\ TrafficSynced
  /\ hook' = "enter"
  /\ UNCHANGED <<running, conn, counted, answer, missed>>

ReportFails ==
  /\ hook = "walk" /\ answer = {}
  /\ TrafficFails
  /\ hook' = "enter"
  /\ UNCHANGED <<running, conn, counted, answer, missed>>

-----------------------------------------------------------------------------
HSync ==
  \/ Bookkeeping /\ UNCHANGED hvars
  \/ (\E i \in Ids : HCreateUser(i)) \/ HRemoveUser
  \/ UpdateOfIdleUser \/ KickUpdatedUser \/ ClearRunning
  \/ KickRemovedUser \/ KickRemovedUserFails
  \/ GetTraffic \/ GetTrafficFails \/ Report \/ ReportFails
  \/ \E i \in Ids : WalkPooled(i) \/ WalkLeaked(i) \/ WalkLeakedFails(i)

Environment ==
  \/ (RemoteChange \/ Tick \/ Stop \/ Exit) /\ UNCHANGED hvars
  \/ \E c \in Clients : Lookup(c) \/ Mark(c) \/ Connect(c) \/ Talk(c) \/ Disconnect(c)

HNext == HSync \/ Environment

\* Errors that keep a cycle from kicking a user that is not in the pool.
HFault ==
  \/ FetchFails \/ KickRemovedUserFails \/ GetTrafficFails
  \/ \E i \in Ids : Sessions(i) # {} /\ WalkLeakedFails(i)

HTick == Tick /\ UNCHANGED hvars
HExit == Exit /\ UNCHANGED hvars
HSafety == HInit /\ [][HNext]_allvars
HSpec == HSafety /\ WF_allvars(HSync) /\ WF_allvars(HTick) /\ SF_allvars(HExit)

-----------------------------------------------------------------------------
(***************************************************************************)
(* Properties.                                                             *)
(***************************************************************************)

\* Handlers and hooks never make the pool do what UserPool does not allow.
PoolRefined == Safety

\* Whoever OnUserUpdate must kick is marked running: a client that /auth has
\* marked, on an object still in the pool, is covered by the flag unless the
\* last kick of that user passed it by (it failed, or ran while the client
\* was between GetUserByPass and its session, or before the flag was cleared).
RunningUnlessMissed ==
  \A c \in Clients :
    /\ conn[c].state \in {"marked", "on"}
    /\ conn[c].own
    /\ c \notin missed
    => running[conn[c].id]

\* A session admitted by a password that is not its user's any more has been
\* passed by when OnUserUpdate kicked, or OnUserUpdate is still to come: the
\* running flag never makes a change of password go unnoticed.
OnlyMissedKeepOldPassword ==
  \A c \in Clients :
    /\ conn[c].state = "on"
    /\ conn[c].own
    /\ conn[c].key # KeyOf(conn[c].id)
    => c \in missed \/ (cur = conn[c].id /\ pc \in {"reindex", "onUpdate"})

\* A user leaves the pool only after its sessions have ended: whoever is
\* still connected on a removed User object was between GetUserByPass and
\* its session when OnUserRemove kicked.
OnlyMissedOutliveRemoval ==
  \A c \in Clients : conn[c].state = "on" /\ ~conn[c].own => c \in missed

\* How many calls the hook at work, or the report, has before it, at most.
LeftOfHook ==
  CASE pc = "onUpdate" /\ hook = "enter" -> 1
    [] pc = "traffic" /\ hook = "enter" -> Cardinality(Ids) + 1
    [] hook = "walk" -> Cardinality(answer)
    [] OTHER -> 0

\* A hook returns, and the walk over the traffic ends, after so many calls,
\* however many of them fail and whatever the handlers do meanwhile: a cycle
\* of the tunnel takes a bounded number of steps.
HooksAreFinite ==
  [][HSync => \/ LeftOfCycle' \in 0..(LeftOfCycle - 1)
              \/ /\ LeftOfCycle' = LeftOfCycle
                 /\ LeftOfHook' \in 0..(LeftOfHook - 1)]_allvars

Leaked(c) == conn[c].state = "on" /\ users[conn[c].id] = NoUser

\* A session of a user that is not in the pool does not go on for ever while
\* it transfers data, when calls fail only finitely often and the goroutine
\* is not stopped: the traffic it causes gets it kicked.
LeakedSessionsEnd ==
  \/ []<><<HFault>>_allvars
  \/ <>(pc = "done")
  \/ \A c \in Clients : ~([]<><<Talk(c)>>_allvars /\ <>[]Leaked(c))
=============================================================================
