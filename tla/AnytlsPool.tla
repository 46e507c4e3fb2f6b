----------------------------- MODULE AnytlsPool -----------------------------
(***************************************************************************)
(* The user pool of the anytls tunnel (tunnel/anytls/user.go) with the     *)
(* accept loop (server.go) and the handler that admits a connection        *)
(* (inbound_tcp.go).  The pool has no hooks: what becomes of a user shows  *)
(* only in whom the handlers admit from then on.  A handler waits for its  *)
(* client without a deadline before the lookup, and may be overtaken by a  *)
(* sync between the lookup and the session: it reads the field Enable      *)
(* after it has given the mutex back.                                      *)
(***************************************************************************)
EXTENDS UserPool

CONSTANTS
  Clients,  \* connections to the listener
  NoKey     \* a client that has presented no password

ASSUME AnytlsAssumption ==
  /\ NoKey \notin Keys
  /\ HasPasswordMap /\ Hooks = {} /\ NumTags = 1 /\ Enables = BOOLEAN

VARIABLES
  conn,    \* what the handler of a connection holds
  closed,  \* Stop has closed the listener
  gone,    \* the accept loop has returned
  raced    \* history: clients looked up before their user's last change was done

avars == <<conn, closed, gone, raced>>
allvars == <<vars, avars>>

\* "open": accepted, the hash not yet read; "found": AuthenticateHash has
\* returned the User object; "on": the session runs.  "own" tells that the
\* object is still the one in the pool, and "enable" is its field once it is
\* not; "key" is the hash the client sent.
Conn == [state : {"off", "open", "found", "on"}, id : Ids \cup {NoId},
         own : BOOLEAN, enable : BOOLEAN, key : Keys \cup {NoKey}]
Off == [state |-> "off", id |-> NoId, own |-> FALSE, enable |-> FALSE, key |-> NoKey]
Open == [Off EXCEPT !.state = "open"]

ATypeOK ==
  /\ TypeOK
  /\ conn \in [Clients -> Conn]
  /\ {closed, gone} \subseteq BOOLEAN
  /\ raced \subseteq Clients
  /\ \A c \in Clients : conn[c].state \in {"off", "open"} => conn[c] \in {Off, Open}
  /\ \A c \in Clients : conn[c].own => conn[c].id \in Ids /\ users[conn[c].id] # NoUser

AInit ==
  /\ Init
  /\ conn = [c \in Clients |-> Off]
  /\ closed = FALSE
  /\ gone = FALSE
  /\ raced = {}

-----------------------------------------------------------------------------
(***************************************************************************)
(* AnytlsServer: the accept loop, which Start launches after up.Start has  *)
(* returned nil, and Stop.  (A failed Start closes the listener before     *)
(* anybody accepts.)                                                       *)
(***************************************************************************)

\* Mutant of Accept that goes on without the listener.
AcceptAlways(c) ==
  /\ started /\ conn[c].state = "off"
  /\ conn' = [conn EXCEPT ![c] = Open]
  /\ UNCHANGED <<vars, closed, gone, raced>>

Accept(c) ==
  /\ started /\ ~gone /\ ~closed
  /\ conn[c].state = "off"
  /\ conn' = [conn EXCEPT ![c] = Open]
  /\ UNCHANGED <<vars, closed, gone, raced>>

\* Any error of Accept ends the loop, a passing one too; the listener and
\* the pool stay as they are.
AcceptFails ==
  /\ started /\ ~gone
  /\ gone' = TRUE
  /\ UNCHANGED <<vars, conn, closed, raced>>

\* Stop closes the listener, then stops the pool.  Connections stay.
CloseListener ==
  /\ started /\ ~closed
  /\ closed' = TRUE
  /\ UNCHANGED <<vars, conn, gone, raced>>

AStop == closed /\ Stop /\ UNCHANGED avars

-----------------------------------------------------------------------------
(***************************************************************************)
(* handleTcpConnection.                                                    *)
(***************************************************************************)

\* AuthenticateHash under the read lock.  A hash that finds nobody ends the
\* connection (Leave).
Lookup(c) ==
  /\ conn[c].state = "open"
  /\ \E k \in Keys :
       LET i == userpass[k] IN
       /\ i # NoId /\ users[i] # NoUser
       /\ conn' = [conn EXCEPT ![c] = [state |-> "found", id |-> i, own |-> TRUE,
                                       enable |-> FALSE, key |-> k]]
       /\ raced' = IF Moving(i) THEN raced \cup {c} ELSE raced
  /\ UNCHANGED <<vars, closed, gone>>

\* User.Enable of the object in the handler's hand.
Enabled(c) ==
  IF conn[c].own THEN users[conn[c].id].enable ELSE conn[c].enable

\* Mutant of Admit that does not look at Enable.
AdmitDisabled(c) ==
  /\ conn[c].state = "found"
  /\ conn' = [conn EXCEPT ![c].state = "on"]
  /\ UNCHANGED <<vars, closed, gone, raced>>

\* The user is enabled; the padding is read and the session begins.
Admit(c) ==
  /\ conn[c].state = "found" /\ Enabled(c)
  /\ conn' = [conn EXCEPT ![c].state = "on"]
  /\ UNCHANGED <<vars, closed, gone, raced>>

\* The handler returns: the client is refused, or it goes away.
Leave(c) ==
  /\ conn[c].state # "off"
  /\ conn' = [conn EXCEPT ![c] = Off]
  /\ raced' = raced \ {c}
  /\ UNCHANGED <<vars, closed, gone>>

-----------------------------------------------------------------------------
(***************************************************************************)
(* The steps of the pool's goroutine that handlers notice.                 *)
(***************************************************************************)

\* Handlers that hold the pooled object of user i and have not finished.
Waiting(i) ==
  {c \in Clients : conn[c].state = "found" /\ conn[c].own /\ conn[c].id = i}

\* UpdateFromServer writes Enable in the object the handlers hold.
AUpdateUser(i) ==
  /\ UpdateUser(i)
  /\ raced' = raced \cup Waiting(i)
  /\ UNCHANGED <<conn, closed, gone>>

\* The object leaves the pool; handlers keep their pointer.
ARemoveUser ==
  /\ RemoveUser
  /\ raced' = raced \cup Waiting(cur)
  /\ conn' = [c \in Clients |->
                IF conn[c].own /\ conn[c].id = cur
                  THEN [conn[c] EXCEPT !.own = FALSE, !.enable = users[cur].enable]
                  ELSE conn[c]]
  /\ UNCHANGED <<closed, gone>>

\* The others: no handler looks at what they change in between.
AQuiet ==
  \/ Fetch \/ FetchFails \/ Reindex \/ BeginSweep \/ EndSweep \/ OnUserUpdate
  \/ TrafficSynced \/ TrafficFails
  \/ \E i \in Ids : CreateUser(i) \/ KeepUser(i) \/ SweepUser(i)

ASync ==
  \/ AQuiet /\ UNCHANGED avars
  \/ ARemoveUser
  \/ \E i \in Ids : AUpdateUser(i)

ATick == Tick /\ UNCHANGED avars

AExit == Exit /\ UNCHANGED avars

ANext ==
  \/ ASync \/ ATick \/ AExit \/ AStop
  \/ RemoteChange /\ UNCHANGED avars
  \/ AcceptFails \/ CloseListener
  \/ \E c \in Clients : Accept(c) \/ Lookup(c) \/ Admit(c) \/ Leave(c)

ASafety == AInit /\ [][ANext]_allvars
ASpec == ASafety /\ WF_allvars(ASync) /\ WF_allvars(ATick) /\ SF_allvars(AExit)

-----------------------------------------------------------------------------
(***************************************************************************)
(* Properties.                                                             *)
(***************************************************************************)

\* Accept loop and handlers never make the pool do what UserPool does not
\* allow.
PoolRefined == Safety

\* A client is admitted with the present password of a user that is pooled
\* and enabled, unless that user was updated or removed between
\* AuthenticateHash and the session, or was being re-keyed at the lookup:
\* reading Enable without the mutex lets in no other.
AdmissionIsCurrent ==
  [][\A c \in Clients : Admit(c) /\ c \notin raced =>
       LET i == conn[c].id IN
       /\ Pooled(i) /\ users[i].enable
       /\ KeyOf(i) = conn[c].key]_allvars

AdmitAs(i, k) ==
  \E c \in Clients : Admit(c) /\ conn[c].id = i /\ conn[c].key = k

\* A password that is not the user's any more, or the one of a user that is
\* disabled or removed, is shut out in the end, if fetches fail only finitely
\* often, and also when the server is stopped and its pool goes stale: only
\* the connections under way get in, each one once.  (A user who is disabled
\* with one password and enabled with another, over and over, may be let in
\* with the first one every time, by a lookup that comes before the re-keying
\* and a look at Enable that comes after UpdateFromServer.)
RevokedShutOut ==
  \/ []<><<Fault>>_allvars
  \/ \A i \in Ids, k \in Keys :
       (\/ <>[](k \notin KeysOf(remote, i))
        \/ <>[](remote[i] # NoUser => ~remote[i].enable))
         => <>[][~AdmitAs(i, k)]_allvars
=============================================================================
