---------------------------- MODULE TrafficSync ----------------------------
(***************************************************************************)
(* syncTrafficToServer (tunnel/common/pool.go) with the FetchTraffic of    *)
(* each tunnel, and the configuration sync as far as it moves traffic: it  *)
(* adds and removes User objects.  xray and hysteria keep the counters     *)
(* themselves and are asked for them (a read that resets); anytls counts   *)
(* straight into the User object, from the goroutines of the connections.  *)
(* A direction of traffic is not told apart from the other: both fields of *)
(* User are read, reported and reset alike.                                *)
(***************************************************************************)
EXTENDS Naturals

CONSTANTS
  Ids,
  Sources,   \* the tunnels looked at
  MaxUse,    \* bound on the bytes a user moves
  NoId

ASSUME TrafficAssumption ==
  /\ Sources \subseteq {"xray", "hysteria", "anytls"}
  /\ MaxUse \in Nat
  /\ NoId \notin Ids

VARIABLES
  source,    \* the tunnel of this pool
  pc,        \* where the goroutine is
  pooled,    \* ids with a User object in the pool
  orphaned,  \* ids with connections that outlived their User object
  consumed,  \* bytes moved by each user
  counter,   \* counters of the xray or hysteria server
  answer,    \* what the server answered, until it is copied
  todo,      \* ids the current loop has still to visit
  field,     \* UploadTraffic + DownloadTraffic of the pooled User object
  cur,       \* the user whose traffic is in tfs but not yet reset
  tfs,       \* the report under construction
  billed,    \* what the endpoint has recorded
  faulty     \* history: a call has failed, a user was removed, or a byte came
             \* between the GenTraffic and the ResetTraffic of its user

vars == <<source, pc, pooled, orphaned, consumed, counter, answer, todo, field,
          cur, tfs, billed, faulty>>

Zero == [i \in Ids |-> 0]
Pull == source \in {"xray", "hysteria"}

\* xray counts inbound traffic only: "double it to account for outbound".
Factor == IF source = "xray" THEN 2 ELSE 1

Phases == {"config", "fetch", "copy", "gather", "reset", "post"}

TypeOK ==
  /\ source \in Sources
  /\ pc \in Phases
  /\ pooled \subseteq Ids /\ orphaned \subseteq Ids /\ todo \subseteq Ids
  /\ consumed \in [Ids -> Nat] /\ counter \in [Ids -> Nat]
  /\ answer \in [Ids -> Nat] /\ field \in [Ids -> Nat]
  /\ tfs \in [Ids -> Nat] /\ billed \in [Ids -> Nat]
  /\ cur \in Ids \cup {NoId}
  /\ (cur \in Ids) <=> (pc = "reset")
  /\ faulty \in BOOLEAN

Init ==
  /\ source \in Sources
  /\ pc = "config"
  /\ pooled = {} /\ orphaned = {} /\ todo = {}
  /\ consumed = Zero /\ counter = Zero /\ answer = Zero
  /\ field = Zero /\ tfs = Zero /\ billed = Zero
  /\ cur = NoId
  /\ faulty = FALSE

Plus(f, i, n) == [f EXCEPT ![i] = @ + n]
Clear(f, i) == [f EXCEPT ![i] = 0]

-----------------------------------------------------------------------------
(***************************************************************************)
(* Traffic.                                                                *)
(***************************************************************************)

\* The server of a pulled tunnel counts, for whoever has a session.
UsePulled(i) ==
  /\ Pull /\ i \in pooled \cup orphaned /\ consumed[i] < MaxUse
  /\ consumed' = Plus(consumed, i, 1)
  /\ counter' = Plus(counter, i, 1)
  /\ UNCHANGED <<source, pc, pooled, orphaned, answer, todo, field, cur, tfs,
                 billed, faulty>>

\* countingConn adds to the field of the User object the handler found.
UsePushed(i) ==
  /\ ~Pull /\ i \in pooled /\ consumed[i] < MaxUse
  /\ consumed' = Plus(consumed, i, 1)
  /\ field' = Plus(field, i, 1)
  /\ faulty' = (faulty \/ cur = i)
  /\ UNCHANGED <<source, pc, pooled, orphaned, counter, answer, todo, cur, tfs,
                 billed>>

\* That object has left the pool: nobody will read its fields.
UseOrphan(i) ==
  /\ ~Pull /\ i \in orphaned /\ consumed[i] < MaxUse
  /\ consumed' = Plus(consumed, i, 1)
  /\ UNCHANGED <<source, pc, pooled, orphaned, counter, answer, todo, field,
                 cur, tfs, billed, faulty>>

-----------------------------------------------------------------------------
(***************************************************************************)
(* The configuration sync adds and removes User objects.                   *)
(***************************************************************************)

AddUser(i) ==
  /\ pc = "config" /\ i \notin pooled
  /\ pooled' = pooled \cup {i}
  /\ field' = Clear(field, i)
  /\ UNCHANGED <<source, pc, orphaned, consumed, counter, answer, todo, cur,
                 tfs, billed, faulty>>

RemoveUser(i) ==
  /\ pc = "config" /\ i \in pooled
  /\ pooled' = pooled \ {i}
  /\ orphaned' = orphaned \cup {i}
  /\ field' = Clear(field, i)
  /\ faulty' = TRUE
  /\ UNCHANGED <<source, pc, consumed, counter, answer, todo, cur, tfs, billed>>

\* Mutant of Begin that goes on without the users of anytls.
BeginNoUsers ==
  /\ pc = "config"
  /\ pc' = IF Pull THEN "fetch" ELSE "gather"
  /\ todo' = {}
  /\ UNCHANGED <<source, pooled, orphaned, consumed, counter, answer, field,
                 cur, tfs, billed, faulty>>

\* syncTrafficToServer begins: with FetchTraffic, when there is one.
Begin ==
  /\ pc = "config"
  /\ pc' = IF Pull THEN "fetch" ELSE "gather"
  /\ todo' = IF Pull THEN {} ELSE pooled
  /\ UNCHANGED <<source, pooled, orphaned, consumed, counter, answer, field,
                 cur, tfs, billed, faulty>>

-----------------------------------------------------------------------------
(***************************************************************************)
(* FetchTraffic of xray and hysteria.                                      *)
(***************************************************************************)

\* The server answers with its counters and resets them in one go.  xray
\* lists idle users too, hysteria only those with traffic.
Fetch ==
  /\ pc = "fetch"
  /\ answer' = counter
  /\ counter' = Zero
  /\ todo' = {i \in Ids : source = "xray" \/ counter[i] > 0}
  /\ pc' = "copy"
  /\ UNCHANGED <<source, pooled, orphaned, consumed, field, cur, tfs, billed, faulty>>

\* The call fails, before or after the reset.
FetchFails ==
  /\ pc = "fetch"
  /\ counter' \in {counter, Zero}
  /\ pc' = "config"
  /\ faulty' = TRUE
  /\ UNCHANGED <<source, pooled, orphaned, consumed, answer, todo, field, cur,
                 tfs, billed>>

\* The field of the user is overwritten, whatever it held.
CopyPooled(i) ==
  /\ pc = "copy" /\ i \in todo /\ i \in pooled
  /\ field' = [field EXCEPT ![i] = answer[i] * Factor]
  /\ answer' = Clear(answer, i)
  /\ todo' = todo \ {i}
  /\ UNCHANGED <<source, pc, pooled, orphaned, consumed, counter, cur, tfs,
                 billed, faulty>>

\* The user is not in the pool: its traffic is logged as leaked.
CopyLeaked(i) ==
  /\ pc = "copy" /\ i \in todo /\ i \notin pooled
  /\ answer' = Clear(answer, i)
  /\ todo' = todo \ {i}
  /\ faulty' = TRUE
  /\ UNCHANGED <<source, pc, pooled, orphaned, consumed, counter, field, cur,
                 tfs, billed>>

\* A counter whose name is no user id (of another user of the xray instance)
\* ends FetchTraffic, with what is not yet copied.
CopyForeign ==
  /\ pc = "copy" /\ source = "xray" /\ todo # {}
  /\ pc' = "config"
  /\ answer' = Zero
  /\ todo' = {}
  /\ faulty' = TRUE
  /\ UNCHANGED <<source, pooled, orphaned, consumed, counter, field, cur, tfs, billed>>

\* Mutant of Copied that finds no user to report.
CopiedNoUsers ==
  /\ pc = "copy" /\ todo = {}
  /\ pc' = "gather"
  /\ UNCHANGED <<source, pooled, orphaned, consumed, counter, answer, todo,
                 field, cur, tfs, billed, faulty>>

\* FetchTraffic returns nil; GetAllUsers.
Copied ==
  /\ pc = "copy" /\ todo = {}
  /\ pc' = "gather"
  /\ todo' = pooled
  /\ UNCHANGED <<source, pooled, orphaned, consumed, counter, answer, field,
                 cur, tfs, billed, faulty>>

-----------------------------------------------------------------------------
(***************************************************************************)
(* The loop over the users, and the report.                                *)
(***************************************************************************)

SkipIdle(i) ==
  /\ pc = "gather" /\ i \in todo /\ field[i] = 0
  /\ todo' = todo \ {i}
  /\ UNCHANGED <<source, pc, pooled, orphaned, consumed, counter, answer, field,
                 cur, tfs, billed, faulty>>

\* GenTraffic.
Gather(i) ==
  /\ pc = "gather" /\ i \in todo /\ field[i] > 0
  /\ tfs' = [tfs EXCEPT ![i] = field[i]]
  /\ cur' = i
  /\ todo' = todo \ {i}
  /\ pc' = "reset"
  /\ UNCHANGED <<source, pooled, orphaned, consumed, counter, answer, field,
                 billed, faulty>>

\* ResetTraffic: a plain store of 0, over what was added since GenTraffic.
Reset ==
  /\ pc = "reset"
  /\ field' = Clear(field, cur)
  /\ cur' = NoId
  /\ pc' = "gather"
  /\ UNCHANGED <<source, pooled, orphaned, consumed, counter, answer, todo, tfs,
                 billed, faulty>>

Gathered ==
  /\ pc = "gather" /\ todo = {}
  /\ pc' = "post"
  /\ UNCHANGED <<source, pooled, orphaned, consumed, counter, answer, todo,
                 field, cur, tfs, billed, faulty>>

\* Mutant of Post that takes what was reported off the users' fields, which
\* ResetTraffic has cleared already.
PostTakesOff ==
  /\ pc = "post"
  /\ billed' = [i \in Ids |-> billed[i] + tfs[i]]
  /\ field' = [i \in Ids |-> IF i \in pooled THEN field[i] - tfs[i] ELSE field[i]]
  /\ tfs' = Zero
  /\ pc' = "config"
  /\ UNCHANGED <<source, pooled, orphaned, consumed, counter, answer, todo, cur, faulty>>

\* The endpoint gets the report and records it.  (When its answer is lost the
\* cycle ends with an error, and all the same.)
Post ==
  /\ pc = "post"
  /\ billed' = [i \in Ids |-> billed[i] + tfs[i]]
  /\ tfs' = Zero
  /\ pc' = "config"
  /\ UNCHANGED <<source, pooled, orphaned, consumed, counter, answer, todo,
                 field, cur, faulty>>

\* Mutant of PostFails that puts the traffic back for the next report, though
\* the endpoint may have recorded it.
PostFailsRetried ==
  /\ pc = "post"
  /\ \/ billed' = billed
     \/ billed' = [i \in Ids |-> billed[i] + tfs[i]]
  /\ field' = [i \in Ids |-> IF i \in pooled THEN field[i] + tfs[i] ELSE field[i]]
  /\ tfs' = Zero
  /\ pc' = "config"
  /\ faulty' = TRUE
  /\ UNCHANGED <<source, pooled, orphaned, consumed, counter, answer, todo, cur>>

\* It does not get the report, or refuses it with a status nobody looks at.
PostFails ==
  /\ pc = "post"
  /\ tfs' = Zero
  /\ pc' = "config"
  /\ faulty' = TRUE
  /\ UNCHANGED <<source, pooled, orphaned, consumed, counter, answer, todo,
                 field, cur, billed>>

-----------------------------------------------------------------------------
\* Errors that keep syncTrafficToServer from its report.
Fault == FetchFails \/ CopyForeign

Traffic == \E i \in Ids : UsePulled(i) \/ UsePushed(i) \/ UseOrphan(i)

Configure == \E i \in Ids : AddUser(i) \/ RemoveUser(i)

Report ==
  \/ Begin \/ Fetch \/ Copied \/ Reset \/ Gathered \/ Post \/ PostFails \/ Fault
  \/ \E i \in Ids : CopyPooled(i) \/ CopyLeaked(i) \/ SkipIdle(i) \/ Gather(i)

Next == Traffic \/ Configure \/ Report

\* syncOnce reaches its traffic report again and again.
Spec == Init /\ [][Next]_vars /\ WF_vars(Report)

-----------------------------------------------------------------------------
(***************************************************************************)
(* Properties.                                                             *)
(***************************************************************************)

\* Bytes that can still get to the bill of user i.  Between GenTraffic and
\* ResetTraffic the report and the field hold the same bytes.
Open(i) ==
  Factor * (counter[i] + answer[i]) + field[i] + (IF cur = i THEN 0 ELSE tfs[i])

Ledger == INSTANCE TrafficLedger WITH
            used <- [i \in Ids |-> Factor * consumed[i]],
            open <- [i \in Ids |-> Open(i)]

\* Counting, fetching, reporting and failing are, seen from the bill, moves
\* of TrafficLedger: no byte is ever charged twice.
Charged == Ledger!Spec

\* As long as nothing fails, no user is removed and no connection adds to a
\* field between GenTraffic and ResetTraffic, no byte is lost: what was moved
\* is billed or still on its way.
NothingLost ==
  ~faulty => \A i \in Ids : billed[i] + Open(i) = Factor * consumed[i]

\* When FetchTraffic fails only finitely often nothing stays open for ever,
\* whatever becomes of the reports: every byte ends up on the bill or is lost.
EventuallySettled ==
  []<><<Fault>>_vars \/ <>[](\A i \in Ids : Open(i) = 0)
=============================================================================
