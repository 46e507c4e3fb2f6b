----------------------------- MODULE XrayReload -----------------------------
(***************************************************************************)
(* A reload of the xray tunnel (cli/start.go, xray/server.go): the watcher *)
(* closes the instance and cancels its pool, but does not wait for the     *)
(* cycle under way.  That cycle runs under the context of the process and  *)
(* reaches xray by the address of its API, so that once the new instance   *)
(* listens there the old pool works on the users of the new one.           *)
(*                                                                         *)
(* The variables of XrayPool are those of the pool at hand; the o...       *)
(* variables are what is left of the pool before it.                       *)
(***************************************************************************)
EXTENDS XrayPool

VARIABLES
  ousers, orunning, opc, oround, oresp, otodo, ocur, oold, ohook, oanswer,
  open,       \* the instance listens
  overlapped  \* history: the old pool has changed the users of this instance

ovars == <<ousers, orunning, opc, oround, oresp, otodo, ocur, oold, ohook, oanswer>>
rvars == <<allvars, ovars, open, overlapped>>

\* The old pool has been started and stopped for good (~FALSE: TLC does not
\* take a literal for a variable); it shares xray and the endpoint.
Old == INSTANCE XrayPool WITH
  users <- ousers, running <- orunning, pc <- opc, round <- oround,
  resp <- oresp, todo <- otodo, cur <- ocur, old <- oold, hook <- ohook,
  answer <- oanswer, started <- ~FALSE, cancelled <- ~FALSE, faulty <- ~FALSE

RInit ==
  /\ XInit
  /\ ousers = Nobody /\ orunning = [i \in Ids |-> FALSE]
  /\ opc = "done" /\ oround = 1
  /\ oresp = Nobody /\ otodo = {} /\ ocur = NoId /\ oold = NoUser
  /\ ohook = "enter" /\ oanswer = {}
  /\ open = TRUE /\ overlapped = FALSE

-----------------------------------------------------------------------------
\* Mutant of Reload that does not close the instance.
ReloadKeepsUsers ==
  /\ open /\ started /\ opc = "done"
  /\ open' = FALSE /\ overlapped' = FALSE
  /\ ousers' = users /\ orunning' = running
  /\ opc' = pc /\ oround' = round
  /\ oresp' = resp /\ otodo' = todo /\ ocur' = cur /\ oold' = old
  /\ ohook' = hook /\ oanswer' = answer
  /\ users' = Nobody /\ running' = [i \in Ids |-> FALSE]
  /\ started' = FALSE /\ pc' = "fetch" /\ ForgetLocals
  /\ hook' = "enter" /\ answer' = {} /\ faulty' = FALSE
  /\ UNCHANGED <<remote, userpass, cancelled, inbound, known>>

\* Stop of the tunnel, and Setup of a new one with an empty pool.  One pool
\* is left over at a time.
Reload ==
  /\ open /\ started /\ opc = "done"
  /\ open' = FALSE /\ overlapped' = FALSE
  /\ ousers' = users /\ orunning' = running
  /\ opc' = pc /\ oround' = round
  /\ oresp' = resp /\ otodo' = todo /\ ocur' = cur /\ oold' = old
  /\ ohook' = hook /\ oanswer' = answer
  /\ users' = Nobody /\ running' = [i \in Ids |-> FALSE]
  /\ started' = FALSE /\ pc' = "fetch" /\ ForgetLocals
  /\ hook' = "enter" /\ answer' = {} /\ faulty' = FALSE
  /\ inbound' = [t \in Tags |-> [i \in Ids |-> None]] /\ known' = {}
  /\ UNCHANGED <<remote, userpass, cancelled>>

\* The new instance starts.
Open ==
  /\ ~open /\ open' = TRUE
  /\ UNCHANGED <<allvars, ovars, overlapped>>

\* The pool at hand, from the first cycle of its Start.
PoolSync == open /\ XSync /\ UNCHANGED <<ovars, open, overlapped>>
PoolTick == open /\ XTick /\ UNCHANGED <<ovars, open, overlapped>>

\* A call of the old pool that xray has answered.
OldCallAnswered ==
  \/ Old!AddNewUser \/ Old!RemoveOldUser \/ Old!AddUpdatedUser
  \/ Old!RemoveUnlistedUser \/ Old!QueryStats

\* The cycle that Stop has met goes on.  While no instance listens its calls
\* fail and change nothing.
OldSync ==
  /\ Old!XSync
  /\ ~open => inbound' = inbound /\ ~OldCallAnswered
  /\ overlapped' = (overlapped \/ inbound' # inbound)
  /\ UNCHANGED <<users, running, lifecycle, pc, locals, hook, answer, faulty, open>>

\* A tick may be ready besides ctx2.Done().
OldTick ==
  /\ Old!XTick
  /\ UNCHANGED <<users, running, lifecycle, pc, locals, hook, answer, faulty,
                 open, overlapped>>

OldExit ==
  /\ Old!XExit
  /\ UNCHANGED <<users, running, lifecycle, pc, locals, hook, answer, faulty,
                 open, overlapped>>

Environment ==
  /\ \/ RemoteChange /\ UNCHANGED xvars
     \/ open /\ \E i \in Ids : Count(i)
  /\ UNCHANGED <<ovars, open, overlapped>>

RNext ==
  \/ Reload \/ Open \/ PoolSync \/ PoolTick
  \/ OldSync \/ OldTick \/ OldExit \/ Environment

RSpec ==
  /\ RInit /\ [][RNext]_rvars
  /\ WF_rvars(PoolSync) /\ WF_rvars(PoolTick) /\ WF_rvars(Open)
  /\ WF_rvars(OldSync) /\ SF_rvars(OldExit)

-----------------------------------------------------------------------------
(***************************************************************************)
(* Properties.                                                             *)
(***************************************************************************)

\* What a reload promises without waiting for the old pool: as long as no
\* late call of it has reached the new instance, that instance serves nobody
\* outside the new pool, and while none of its own calls has failed, the
\* users marked running and, when traffic is reported, every enabled user.
UntouchedIsExact ==
  ~overlapped => InboundWithinPool /\ RunningIsServed /\ EnabledIsServed

\* A user outside the new pool is served only by a late call of the old pool,
\* and only while that one has it: a user that both have removed is out of
\* xray, in whatever order their calls got there.
StrangersAreOld ==
  \A i \in Ids : Served(i) # None =>
    AnswersFor(i) \/ (overlapped /\ Old!AnswersFor(i))

\* Errors that keep a cycle of the pool at hand from removing a user.
RemovalFails ==
  /\ UNCHANGED ovars
  /\ \/ XFault \/ QueryStatsFails
     \/ \E i \in Ids : WalkLeaked(i) /\ Served(i) # None /\ UNCHANGED inbound

\* A user whom a late call of the old pool has put into the new instance is
\* in no pool that would remove it; once it has connected, the traffic report
\* of the new pool finds it ("tring remove leak user"), so that a user the
\* endpoint has dropped for good is not served for ever.
StrangersLeave ==
  \/ []<><<RemovalFails>>_rvars
  \/ []<><<Reload>>_rvars
  \/ <>[](pc = "done")
  \/ \A i \in Ids :
       ~<>[](remote[i] = NoUser /\ Served(i) # None /\ i \in known)
=============================================================================
