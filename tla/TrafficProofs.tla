--------------------------- MODULE TrafficProofs ---------------------------
(***************************************************************************)
(* No byte is charged twice, and without failures none is lost, for any    *)
(* number of users and bytes.                                              *)
(***************************************************************************)
EXTENDS TrafficSync, TLAPS

\* The report holds what the field of the user in hand held.
HeldTwice ==
  \A i \in Ids : cur = i => tfs[i] <= field[i] /\ (~faulty => tfs[i] = field[i])

\* An answer is kept only while its users are copied.
AnswerIsTodo == \A i \in Ids : answer[i] # 0 => pc = "copy" /\ i \in todo

\* Nobody writes the fields of a user outside the pool.
FieldsArePooled == \A i \in Ids : field[i] # 0 => i \in pooled

\* A report is begun empty, and has each user once.
ReportOnce ==
  \A i \in Ids : tfs[i] # 0 => pc \in {"gather", "reset", "post"} /\ i \notin todo

\* A pulled tunnel leaves nothing in the fields from one cycle to the next.
FieldsAreFresh ==
  Pull /\ ~faulty => \A i \in Ids : field[i] # 0 =>
    \/ pc = "copy" /\ i \notin todo
    \/ pc \in {"gather", "reset"} /\ (i \in todo \/ cur = i)

\* Connections outlive a User object only after a removal.
OrphansAreRemoved == orphaned # {} => faulty

\* FetchTraffic runs for xray and hysteria only.
CopiesArePulled == pc \in {"fetch", "copy"} => Pull

Inv ==
  /\ OrphansAreRemoved /\ CopiesArePulled
  /\ TypeOK /\ HeldTwice /\ AnswerIsTodo /\ FieldsArePooled /\ ReportOnce
  /\ FieldsAreFresh

\* What a step does to the account of user i: it never gives more to the bill
\* than was moved, and loses a byte only if it is, or follows, a failure.
Account(i) == billed[i] + Open(i)
Balanced(i) ==
  /\ billed'[i] >= billed[i] /\ consumed'[i] >= consumed[i]
  /\ Account(i)' <= Account(i) + Factor * (consumed'[i] - consumed[i])
  /\ ~faulty' => Account(i)' = Account(i) + Factor * (consumed'[i] - consumed[i])

LEMMA FactorIs ==
  ASSUME Inv
  PROVE  Factor \in {1, 2} /\ (source' = source => Factor' = Factor /\ Pull' = Pull)
BY DEF Factor, Pull

LEMMA InitInv == Init => Inv
<1> SUFFICES ASSUME Init PROVE Inv
  OBVIOUS
<1>1. \A i \in Ids : tfs[i] = 0 /\ field[i] = 0 /\ answer[i] = 0
  BY DEF Init, Zero
<1>2. TypeOK
  BY TrafficAssumption DEF Init, TypeOK, Zero, Phases
<1> QED
  BY <1>1, <1>2, TrafficAssumption
     DEF Init, Inv, HeldTwice, AnswerIsTodo, FieldsArePooled, ReportOnce, FieldsAreFresh,
         OrphansAreRemoved, CopiesArePulled

\* The steps that move bytes.
LEMMA TrafficStep ==
  ASSUME Inv, NEW i \in Ids, UsePulled(i) \/ UsePushed(i) \/ UseOrphan(i)
  PROVE  Inv' /\ billed' = billed /\ \A j \in Ids : Balanced(j)
<1> USE DEF Inv, Plus
<1>0. Factor \in {1, 2} /\ Factor' = Factor /\ Pull' = Pull
  BY FactorIs DEF UsePulled, UsePushed, UseOrphan
<1>1. TypeOK'
  <2>1. CASE UsePulled(i)
    BY <2>1 DEF TypeOK, UsePulled
  <2>2. CASE UsePushed(i)
    BY <2>2 DEF TypeOK, UsePushed
  <2>3. CASE UseOrphan(i)
    BY <2>3 DEF TypeOK, UseOrphan
  <2> QED
    BY <2>1, <2>2, <2>3
<1>2. /\ OrphansAreRemoved' /\ CopiesArePulled' /\ HeldTwice' /\ AnswerIsTodo'
      /\ FieldsArePooled' /\ ReportOnce' /\ FieldsAreFresh'
  <2>1. CASE UsePulled(i)
    BY <1>0, <2>1 DEF UsePulled, HeldTwice, AnswerIsTodo, FieldsArePooled, ReportOnce,
                      FieldsAreFresh, OrphansAreRemoved, CopiesArePulled
  <2>2. CASE UsePushed(i)
    <3>1. /\ \A j \in Ids : field'[j] = IF j = i THEN field[j] + 1 ELSE field[j]
          /\ \A j \in Ids : field[j] \in Nat /\ tfs[j] \in Nat
          /\ faulty \in BOOLEAN /\ (faulty' <=> faulty \/ cur = i)
      BY <2>2 DEF UsePushed, TypeOK
    <3> QED
      BY <1>0, <2>2, <3>1 DEF UsePushed, HeldTwice, AnswerIsTodo, FieldsArePooled,
                              ReportOnce, FieldsAreFresh, OrphansAreRemoved, CopiesArePulled
  <2>3. CASE UseOrphan(i)
    BY <1>0, <2>3 DEF UseOrphan, HeldTwice, AnswerIsTodo, FieldsArePooled, ReportOnce,
                      FieldsAreFresh, OrphansAreRemoved, CopiesArePulled
  <2> QED
    BY <2>1, <2>2, <2>3
<1>3. ASSUME NEW j \in Ids PROVE Balanced(j)
  <2>1. CASE UsePulled(i)
    <3>1. /\ counter'[j] = IF j = i THEN counter[j] + 1 ELSE counter[j]
          /\ consumed'[j] = IF j = i THEN consumed[j] + 1 ELSE consumed[j]
      BY <2>1 DEF UsePulled, TypeOK
    <3> QED
      BY <1>0, <2>1, <3>1 DEF UsePulled, TypeOK, Balanced, Account, Open
  <2>2. CASE UsePushed(i)
    <3>1. /\ field'[j] = IF j = i THEN field[j] + 1 ELSE field[j]
          /\ consumed'[j] = IF j = i THEN consumed[j] + 1 ELSE consumed[j]
      BY <2>2 DEF UsePushed, TypeOK
    <3>2. Factor = 1
      BY <2>2 DEF UsePushed, Factor, Pull
    <3> QED
      BY <1>0, <2>2, <3>1, <3>2 DEF UsePushed, TypeOK, Balanced, Account, Open
  <2>3. CASE UseOrphan(i)
    <3>1. consumed'[j] = IF j = i THEN consumed[j] + 1 ELSE consumed[j]
      BY <2>3 DEF UseOrphan, TypeOK
    <3> QED
      BY <1>0, <2>3, <3>1 DEF UseOrphan, TypeOK, OrphansAreRemoved, Balanced, Account, Open
  <2> QED
    BY <2>1, <2>2, <2>3
<1> QED
  BY <1>1, <1>2, <1>3 DEF UsePulled, UsePushed, UseOrphan

\* The steps of the configuration sync.
LEMMA ConfigureStep ==
  ASSUME Inv, NEW i \in Ids, AddUser(i) \/ RemoveUser(i)
  PROVE  Inv' /\ consumed' = consumed /\ \A j \in Ids : Balanced(j)
<1> USE DEF Inv, Clear, Zero
<1>0. Factor \in {1, 2} /\ Factor' = Factor /\ Pull' = Pull
  BY FactorIs DEF AddUser, RemoveUser
<1>1. CASE AddUser(i)
  <2>1. TypeOK'
    BY <1>0, <1>1, TrafficAssumption DEF AddUser, TypeOK, Phases
  <2>2. /\ HeldTwice' /\ AnswerIsTodo' /\ FieldsArePooled' /\ ReportOnce'
        /\ FieldsAreFresh' /\ OrphansAreRemoved' /\ CopiesArePulled'
    BY <1>0, <1>1, TrafficAssumption
       DEF AddUser, TypeOK, HeldTwice, AnswerIsTodo, FieldsArePooled, ReportOnce, FieldsAreFresh,
           OrphansAreRemoved, CopiesArePulled
  <2>3. ASSUME NEW j \in Ids PROVE Balanced(j)
    BY <1>0, <1>1, TrafficAssumption
       DEF AddUser, TypeOK, HeldTwice, AnswerIsTodo, FieldsArePooled, ReportOnce, FieldsAreFresh,
           OrphansAreRemoved, CopiesArePulled,
           Balanced, Account, Open
  <2> QED
    BY <1>1, <2>1, <2>2, <2>3 DEF AddUser
<1>2. CASE RemoveUser(i)
  <2>1. TypeOK'
    BY <1>0, <1>2, TrafficAssumption DEF RemoveUser, TypeOK, Phases
  <2>2. /\ HeldTwice' /\ AnswerIsTodo' /\ FieldsArePooled' /\ ReportOnce'
        /\ FieldsAreFresh' /\ OrphansAreRemoved' /\ CopiesArePulled'
    BY <1>0, <1>2, TrafficAssumption
       DEF RemoveUser, TypeOK, HeldTwice, AnswerIsTodo, FieldsArePooled, ReportOnce, FieldsAreFresh,
           OrphansAreRemoved, CopiesArePulled
  <2>3. ASSUME NEW j \in Ids PROVE Balanced(j)
    BY <1>0, <1>2, TrafficAssumption
       DEF RemoveUser, TypeOK, HeldTwice, AnswerIsTodo, FieldsArePooled, ReportOnce, FieldsAreFresh,
           OrphansAreRemoved, CopiesArePulled,
           Balanced, Account, Open
  <2> QED
    BY <1>2, <2>1, <2>2, <2>3 DEF RemoveUser
<1> QED
  BY <1>1, <1>2

\* FetchTraffic, up to its loop and from the end of it.
LEMMA FetchStep ==
  ASSUME Inv, Begin \/ Fetch \/ FetchFails \/ CopyForeign \/ Copied
  PROVE  Inv' /\ consumed' = consumed /\ \A j \in Ids : Balanced(j)
<1> USE DEF Inv, Clear, Zero
<1>0. Factor \in {1, 2} /\ Factor' = Factor /\ Pull' = Pull
  BY FactorIs DEF Begin, Fetch, FetchFails, CopyForeign, Copied
<1>1. CASE Begin
  <2>1. TypeOK'
    BY <1>0, <1>1, TrafficAssumption DEF Begin, TypeOK, Phases
  <2>2. /\ HeldTwice' /\ AnswerIsTodo' /\ FieldsArePooled' /\ ReportOnce'
        /\ FieldsAreFresh' /\ OrphansAreRemoved' /\ CopiesArePulled'
    BY <1>0, <1>1, TrafficAssumption
       DEF Begin, TypeOK, HeldTwice, AnswerIsTodo, FieldsArePooled, ReportOnce, FieldsAreFresh,
           OrphansAreRemoved, CopiesArePulled
  <2>3. ASSUME NEW j \in Ids PROVE Balanced(j)
    BY <1>0, <1>1, TrafficAssumption
       DEF Begin, TypeOK, HeldTwice, AnswerIsTodo, FieldsArePooled, ReportOnce, FieldsAreFresh,
           OrphansAreRemoved, CopiesArePulled,
           Balanced, Account, Open
  <2> QED
    BY <1>1, <2>1, <2>2, <2>3 DEF Begin
<1>2. CASE Fetch
  <2>1. TypeOK'
    BY <1>0, <1>2, TrafficAssumption DEF Fetch, TypeOK, Phases
  <2>2. /\ HeldTwice' /\ AnswerIsTodo' /\ FieldsArePooled' /\ ReportOnce'
        /\ FieldsAreFresh' /\ OrphansAreRemoved' /\ CopiesArePulled'
    BY <1>0, <1>2, TrafficAssumption
       DEF Fetch, TypeOK, HeldTwice, AnswerIsTodo, FieldsArePooled, ReportOnce, FieldsAreFresh,
           OrphansAreRemoved, CopiesArePulled
  <2>3. ASSUME NEW j \in Ids PROVE Balanced(j)
    BY <1>0, <1>2, TrafficAssumption
       DEF Fetch, TypeOK, HeldTwice, AnswerIsTodo, FieldsArePooled, ReportOnce, FieldsAreFresh,
           OrphansAreRemoved, CopiesArePulled,
           Balanced, Account, Open
  <2> QED
    BY <1>2, <2>1, <2>2, <2>3 DEF Fetch
<1>3. CASE FetchFails
  <2>1. TypeOK'
    BY <1>0, <1>3, TrafficAssumption DEF FetchFails, TypeOK, Phases
  <2>2. /\ HeldTwice' /\ AnswerIsTodo' /\ FieldsArePooled' /\ ReportOnce'
        /\ FieldsAreFresh' /\ OrphansAreRemoved' /\ CopiesArePulled'
    BY <1>0, <1>3, TrafficAssumption
       DEF FetchFails, TypeOK, HeldTwice, AnswerIsTodo, FieldsArePooled, ReportOnce, FieldsAreFresh,
           OrphansAreRemoved, CopiesArePulled
  <2>3. ASSUME NEW j \in Ids PROVE Balanced(j)
    BY <1>0, <1>3, TrafficAssumption
       DEF FetchFails, TypeOK, HeldTwice, AnswerIsTodo, FieldsArePooled, ReportOnce, FieldsAreFresh,
           OrphansAreRemoved, CopiesArePulled,
           Balanced, Account, Open
  <2> QED
    BY <1>3, <2>1, <2>2, <2>3 DEF FetchFails
<1>4. CASE CopyForeign
  <2>1. TypeOK'
    BY <1>0, <1>4, TrafficAssumption DEF CopyForeign, TypeOK, Phases
  <2>2. /\ HeldTwice' /\ AnswerIsTodo' /\ FieldsArePooled' /\ ReportOnce'
        /\ FieldsAreFresh' /\ OrphansAreRemoved' /\ CopiesArePulled'
    BY <1>0, <1>4, TrafficAssumption
       DEF CopyForeign, TypeOK, HeldTwice, AnswerIsTodo, FieldsArePooled, ReportOnce,
           FieldsAreFresh, OrphansAreRemoved, CopiesArePulled
  <2>3. ASSUME NEW j \in Ids PROVE Balanced(j)
    BY <1>0, <1>4, TrafficAssumption
       DEF CopyForeign, TypeOK, HeldTwice, AnswerIsTodo, FieldsArePooled, ReportOnce,
           FieldsAreFresh, OrphansAreRemoved, CopiesArePulled,
           Balanced, Account, Open
  <2> QED
    BY <1>4, <2>1, <2>2, <2>3 DEF CopyForeign
<1>5. CASE Copied
  <2>1. TypeOK'
    BY <1>0, <1>5, TrafficAssumption DEF Copied, TypeOK, Phases
  <2>2. /\ HeldTwice' /\ AnswerIsTodo' /\ FieldsArePooled' /\ ReportOnce'
        /\ FieldsAreFresh' /\ OrphansAreRemoved' /\ CopiesArePulled'
    BY <1>0, <1>5, TrafficAssumption
       DEF Copied, TypeOK, HeldTwice, AnswerIsTodo, FieldsArePooled, ReportOnce, FieldsAreFresh,
           OrphansAreRemoved, CopiesArePulled
  <2>3. ASSUME NEW j \in Ids PROVE Balanced(j)
    BY <1>0, <1>5, TrafficAssumption
       DEF Copied, TypeOK, HeldTwice, AnswerIsTodo, FieldsArePooled, ReportOnce, FieldsAreFresh,
           OrphansAreRemoved, CopiesArePulled,
           Balanced, Account, Open
  <2> QED
    BY <1>5, <2>1, <2>2, <2>3 DEF Copied
<1> QED
  BY <1>1, <1>2, <1>3, <1>4, <1>5

\* The loop of FetchTraffic.
LEMMA CopyStep ==
  ASSUME Inv, NEW i \in Ids, CopyPooled(i) \/ CopyLeaked(i)
  PROVE  Inv' /\ consumed' = consumed /\ \A j \in Ids : Balanced(j)
<1> USE DEF Inv, Clear, Zero
<1>0. Factor \in {1, 2} /\ Factor' = Factor /\ Pull' = Pull
  BY FactorIs DEF CopyPooled, CopyLeaked
<1>1. CASE CopyPooled(i)
  <2>1. TypeOK'
    BY <1>0, <1>1, TrafficAssumption DEF CopyPooled, TypeOK, Phases
  <2>2. /\ HeldTwice' /\ AnswerIsTodo' /\ FieldsArePooled' /\ ReportOnce'
        /\ FieldsAreFresh' /\ OrphansAreRemoved' /\ CopiesArePulled'
    BY <1>0, <1>1, TrafficAssumption
       DEF CopyPooled, TypeOK, HeldTwice, AnswerIsTodo, FieldsArePooled, ReportOnce, FieldsAreFresh,
           OrphansAreRemoved, CopiesArePulled
  <2>3. ASSUME NEW j \in Ids PROVE Balanced(j)
    <3>1. /\ answer'[j] = IF j = i THEN 0 ELSE answer[j]
          /\ field'[j] = IF j = i THEN Factor * answer[i] ELSE field[j]
          /\ ~faulty' /\ j = i => field[i] = 0
          /\ UNCHANGED <<counter, billed, tfs, consumed, cur, faulty>>
      BY <1>0, <1>1 DEF CopyPooled, TypeOK, FieldsAreFresh, CopiesArePulled
    <3>2. /\ {answer[j], field[j], counter[j], tfs[j], billed[j], consumed[j]} \subseteq Nat
          /\ faulty \in BOOLEAN
      BY DEF TypeOK
    <3>3. CASE Factor = 1
      BY <1>0, <3>1, <3>2, <3>3 DEF Balanced, Account, Open
    <3>4. CASE Factor = 2
      BY <1>0, <3>1, <3>2, <3>4 DEF Balanced, Account, Open
    <3> QED
      BY <1>0, <3>3, <3>4
  <2> QED
    BY <1>1, <2>1, <2>2, <2>3 DEF CopyPooled
<1>2. CASE CopyLeaked(i)
  <2>1. TypeOK'
    BY <1>0, <1>2, TrafficAssumption DEF CopyLeaked, TypeOK, Phases
  <2>2. /\ HeldTwice' /\ AnswerIsTodo' /\ FieldsArePooled' /\ ReportOnce'
        /\ FieldsAreFresh' /\ OrphansAreRemoved' /\ CopiesArePulled'
    BY <1>0, <1>2, TrafficAssumption
       DEF CopyLeaked, TypeOK, HeldTwice, AnswerIsTodo, FieldsArePooled, ReportOnce, FieldsAreFresh,
           OrphansAreRemoved, CopiesArePulled
  <2>3. ASSUME NEW j \in Ids PROVE Balanced(j)
    BY <1>0, <1>2, TrafficAssumption
       DEF CopyLeaked, TypeOK, HeldTwice, AnswerIsTodo, FieldsArePooled, ReportOnce, FieldsAreFresh,
           OrphansAreRemoved, CopiesArePulled,
           Balanced, Account, Open
  <2> QED
    BY <1>2, <2>1, <2>2, <2>3 DEF CopyLeaked
<1> QED
  BY <1>1, <1>2

\* The loop over the users.
LEMMA GatherStep ==
  ASSUME Inv, NEW i \in Ids, SkipIdle(i) \/ Gather(i)
  PROVE  Inv' /\ consumed' = consumed /\ \A j \in Ids : Balanced(j)
<1> USE DEF Inv, Clear, Zero
<1>0. Factor \in {1, 2} /\ Factor' = Factor /\ Pull' = Pull
  BY FactorIs DEF SkipIdle, Gather
<1>1. CASE SkipIdle(i)
  <2>1. TypeOK'
    BY <1>0, <1>1, TrafficAssumption DEF SkipIdle, TypeOK, Phases
  <2>2. /\ HeldTwice' /\ AnswerIsTodo' /\ FieldsArePooled' /\ ReportOnce'
        /\ FieldsAreFresh' /\ OrphansAreRemoved' /\ CopiesArePulled'
    BY <1>0, <1>1, TrafficAssumption
       DEF SkipIdle, TypeOK, HeldTwice, AnswerIsTodo, FieldsArePooled, ReportOnce, FieldsAreFresh,
           OrphansAreRemoved, CopiesArePulled
  <2>3. ASSUME NEW j \in Ids PROVE Balanced(j)
    BY <1>0, <1>1, TrafficAssumption
       DEF SkipIdle, TypeOK, HeldTwice, AnswerIsTodo, FieldsArePooled, ReportOnce, FieldsAreFresh,
           OrphansAreRemoved, CopiesArePulled,
           Balanced, Account, Open
  <2> QED
    BY <1>1, <2>1, <2>2, <2>3 DEF SkipIdle
<1>2. CASE Gather(i)
  <2>1. TypeOK'
    BY <1>0, <1>2, TrafficAssumption DEF Gather, TypeOK, Phases
  <2>2. /\ HeldTwice' /\ AnswerIsTodo' /\ FieldsArePooled' /\ ReportOnce'
        /\ FieldsAreFresh' /\ OrphansAreRemoved' /\ CopiesArePulled'
    BY <1>0, <1>2, TrafficAssumption
       DEF Gather, TypeOK, HeldTwice, AnswerIsTodo, FieldsArePooled, ReportOnce, FieldsAreFresh,
           OrphansAreRemoved, CopiesArePulled
  <2>3. ASSUME NEW j \in Ids PROVE Balanced(j)
    BY <1>0, <1>2, TrafficAssumption
       DEF Gather, TypeOK, HeldTwice, AnswerIsTodo, FieldsArePooled, ReportOnce, FieldsAreFresh,
           OrphansAreRemoved, CopiesArePulled,
           Balanced, Account, Open
  <2> QED
    BY <1>2, <2>1, <2>2, <2>3 DEF Gather
<1> QED
  BY <1>1, <1>2

\* The loop's way back and out, and the report.
LEMMA PostStep ==
  ASSUME Inv, Post \/ PostFails \/ Reset \/ Gathered
  PROVE  Inv' /\ consumed' = consumed /\ \A j \in Ids : Balanced(j)
<1> USE DEF Inv, Clear, Zero
<1>0. Factor \in {1, 2} /\ Factor' = Factor /\ Pull' = Pull
  BY FactorIs DEF Post, PostFails, Reset, Gathered
<1>1. CASE Post
  <2>1. TypeOK'
    BY <1>0, <1>1, TrafficAssumption DEF Post, TypeOK, Phases
  <2>2. /\ HeldTwice' /\ AnswerIsTodo' /\ FieldsArePooled' /\ ReportOnce'
        /\ FieldsAreFresh' /\ OrphansAreRemoved' /\ CopiesArePulled'
    BY <1>0, <1>1, TrafficAssumption
       DEF Post, TypeOK, HeldTwice, AnswerIsTodo, FieldsArePooled, ReportOnce, FieldsAreFresh,
           OrphansAreRemoved, CopiesArePulled
  <2>3. ASSUME NEW j \in Ids PROVE Balanced(j)
    BY <1>0, <1>1, TrafficAssumption
       DEF Post, TypeOK, HeldTwice, AnswerIsTodo, FieldsArePooled, ReportOnce, FieldsAreFresh,
           OrphansAreRemoved, CopiesArePulled,
           Balanced, Account, Open
  <2> QED
    BY <1>1, <2>1, <2>2, <2>3 DEF Post
<1>2. CASE PostFails
  <2>1. TypeOK'
    BY <1>0, <1>2, TrafficAssumption DEF PostFails, TypeOK, Phases
  <2>2. /\ HeldTwice' /\ AnswerIsTodo' /\ FieldsArePooled' /\ ReportOnce'
        /\ FieldsAreFresh' /\ OrphansAreRemoved' /\ CopiesArePulled'
    BY <1>0, <1>2, TrafficAssumption
       DEF PostFails, TypeOK, HeldTwice, AnswerIsTodo, FieldsArePooled, ReportOnce, FieldsAreFresh,
           OrphansAreRemoved, CopiesArePulled
  <2>3. ASSUME NEW j \in Ids PROVE Balanced(j)
    BY <1>0, <1>2, TrafficAssumption
       DEF PostFails, TypeOK, HeldTwice, AnswerIsTodo, FieldsArePooled, ReportOnce, FieldsAreFresh,
           OrphansAreRemoved, CopiesArePulled,
           Balanced, Account, Open
  <2> QED
    BY <1>2, <2>1, <2>2, <2>3 DEF PostFails
<1>3. CASE Reset
  <2>1. TypeOK'
    BY <1>0, <1>3, TrafficAssumption DEF Reset, TypeOK, Phases
  <2>2. /\ HeldTwice' /\ AnswerIsTodo' /\ FieldsArePooled' /\ ReportOnce'
        /\ FieldsAreFresh' /\ OrphansAreRemoved' /\ CopiesArePulled'
    BY <1>0, <1>3, TrafficAssumption
       DEF Reset, TypeOK, HeldTwice, AnswerIsTodo, FieldsArePooled, ReportOnce, FieldsAreFresh,
           OrphansAreRemoved, CopiesArePulled
  <2>3. ASSUME NEW j \in Ids PROVE Balanced(j)
    BY <1>0, <1>3, TrafficAssumption
       DEF Reset, TypeOK, HeldTwice, AnswerIsTodo, FieldsArePooled, ReportOnce, FieldsAreFresh,
           OrphansAreRemoved, CopiesArePulled,
           Balanced, Account, Open
  <2> QED
    BY <1>3, <2>1, <2>2, <2>3 DEF Reset
<1>4. CASE Gathered
  <2>1. TypeOK'
    BY <1>0, <1>4, TrafficAssumption DEF Gathered, TypeOK, Phases
  <2>2. /\ HeldTwice' /\ AnswerIsTodo' /\ FieldsArePooled' /\ ReportOnce'
        /\ FieldsAreFresh' /\ OrphansAreRemoved' /\ CopiesArePulled'
    BY <1>0, <1>4, TrafficAssumption
       DEF Gathered, TypeOK, HeldTwice, AnswerIsTodo, FieldsArePooled, ReportOnce, FieldsAreFresh,
           OrphansAreRemoved, CopiesArePulled
  <2>3. ASSUME NEW j \in Ids PROVE Balanced(j)
    BY <1>0, <1>4, TrafficAssumption
       DEF Gathered, TypeOK, HeldTwice, AnswerIsTodo, FieldsArePooled, ReportOnce, FieldsAreFresh,
           OrphansAreRemoved, CopiesArePulled,
           Balanced, Account, Open
  <2> QED
    BY <1>4, <2>1, <2>2, <2>3 DEF Gathered
<1> QED
  BY <1>1, <1>2, <1>3, <1>4

LEMMA StepInv ==
  ASSUME Inv, Next
  PROVE  /\ Inv' /\ source' = source
         /\ billed' = billed \/ consumed' = consumed
         /\ \A j \in Ids : Balanced(j)
<1>1. source' = source
  BY DEF Next, Traffic, Configure, Report, Fault, UsePulled, UsePushed, UseOrphan,
         AddUser, RemoveUser, Begin, Fetch, FetchFails, CopyPooled, CopyLeaked,
         CopyForeign, Copied, SkipIdle, Gather, Reset, Gathered, Post, PostFails
<1>2. CASE Traffic
  BY <1>1, <1>2, TrafficStep DEF Traffic
<1>3. CASE Configure
  BY <1>1, <1>3, ConfigureStep DEF Configure
<1>4. CASE Begin \/ Fetch \/ FetchFails \/ CopyForeign \/ Copied
  BY <1>1, <1>4, FetchStep
<1>5. ASSUME NEW i \in Ids, CopyPooled(i) \/ CopyLeaked(i)
      PROVE  Inv' /\ consumed' = consumed /\ \A j \in Ids : Balanced(j)
  BY <1>5, CopyStep
<1>6. ASSUME NEW i \in Ids, SkipIdle(i) \/ Gather(i)
      PROVE  Inv' /\ consumed' = consumed /\ \A j \in Ids : Balanced(j)
  BY <1>6, GatherStep
<1>7. CASE Post \/ PostFails \/ Reset \/ Gathered
  BY <1>1, <1>7, PostStep
<1> QED
  BY <1>1, <1>2, <1>3, <1>4, <1>5, <1>6, <1>7 DEF Next, Report, Fault

LEMMA StutterInv == Inv /\ UNCHANGED vars => Inv'
BY DEF Inv, vars, TypeOK, HeldTwice, AnswerIsTodo, FieldsArePooled, ReportOnce,
       FieldsAreFresh, OrphansAreRemoved, CopiesArePulled, Pull

LEMMA Invariance == Spec => []Inv
<1>1. Inv /\ [Next]_vars => Inv'
  BY StepInv, StutterInv
<1> QED
  BY <1>1, InitInv, PTL DEF Spec

-----------------------------------------------------------------------------
\* The variables keep their types.
THEOREM TypeCorrect == Spec => []TypeOK
<1>1. Inv => TypeOK
  BY DEF Inv
<1> QED
  BY <1>1, Invariance, PTL

\* The amounts are natural numbers.
LEMMA InvNumbers ==
  ASSUME Inv, NEW i \in Ids
  PROVE  /\ billed[i] \in Nat /\ Open(i) \in Nat /\ consumed[i] \in Nat
         /\ Factor * consumed[i] \in Nat
BY FactorIs DEF Inv, TypeOK, Open

\* Nothing is due, billed or on its way at first.
LEMMA InitialAccount ==
  ASSUME Init, NEW i \in Ids
  PROVE  billed[i] = 0 /\ Open(i) = 0 /\ Factor * consumed[i] = 0
BY DEF Init, Open, Zero, Factor

\* A failure is remembered.
LEMMA StepFaulty == ASSUME Inv, Next PROVE faulty => faulty'
BY DEF Inv, TypeOK, Next, Traffic, Configure, Report, Fault, UsePulled, UsePushed,
       UseOrphan, AddUser, RemoveUser, Begin, Fetch, FetchFails, CopyPooled, CopyLeaked,
       CopyForeign, Copied, SkipIdle, Gather, Reset, Gathered, Post, PostFails

\* Without failures, removals and bytes that come between GenTraffic and
\* ResetTraffic, every byte moved is billed or on its way.
THEOREM NothingIsLost == Spec => []NothingLost
<1>1. ASSUME Init, NEW i \in Ids PROVE billed[i] + Open(i) = Factor * consumed[i]
  BY <1>1, InitialAccount
<1>0. Init => NothingLost
  BY <1>1 DEF NothingLost
<1>2. Inv /\ NothingLost /\ [Next]_vars => NothingLost'
  <2> SUFFICES ASSUME Inv, NothingLost, [Next]_vars PROVE NothingLost'
    OBVIOUS
  <2>1. CASE Next
    <3>1. Factor' = Factor /\ Factor \in {1, 2}
      BY <2>1, StepInv, FactorIs
    <3>2. ~faulty' => ~faulty
      BY <2>1, StepFaulty DEF Inv, TypeOK
    <3>3. ASSUME NEW i \in Ids, ~faulty'
          PROVE  (billed[i] + Open(i) = Factor * consumed[i])'
      <4>1. Balanced(i) /\ billed[i] + Open(i) = Factor * consumed[i]
        BY <2>1, <3>2, <3>3, StepInv DEF NothingLost
      <4>2. consumed[i] \in Nat /\ consumed'[i] \in Nat
        BY <2>1, StepInv DEF Inv, TypeOK
      <4> QED
        BY <3>1, <3>3, <4>1, <4>2 DEF Balanced, Account
    <3> QED
      BY <3>3 DEF NothingLost
  <2>2. CASE UNCHANGED vars
    BY <2>2 DEF vars, NothingLost, Open, Factor
  <2> QED
    BY <2>1, <2>2
<1> QED
  BY <1>0, <1>2, Invariance, PTL DEF Spec

\* The ledger itself: whoever follows it charges no byte twice.
LEMMA LedgerAtMostOnce == Ledger!Spec => []Ledger!AtMostOnce
<1> DEFINE due == [i \in Ids |-> Factor * consumed[i]]
           ahead == [i \in Ids |-> Open(i)]
           LedgerInv == /\ due \in [Ids -> Nat] /\ ahead \in [Ids -> Nat]
                        /\ billed \in [Ids -> Nat]
                        /\ \A i \in Ids : billed[i] + ahead[i] <= due[i]
<1>1. Ledger!Init => LedgerInv
  BY DEF Ledger!Init
<1>2. ASSUME LedgerInv, [Ledger!Next]_Ledger!vars PROVE LedgerInv'
  <2> HIDE DEF due, ahead
  <2>1. CASE /\ billed' = billed /\ due' \in [Ids -> Nat] /\ ahead' \in [Ids -> Nat]
             /\ \A i \in Ids : /\ due'[i] >= due[i]
                               /\ ahead'[i] <= ahead[i] + (due'[i] - due[i])
    BY <1>2, <2>1
  <2>2. CASE /\ due' = due /\ ahead' \in [Ids -> Nat] /\ billed' \in [Ids -> Nat]
             /\ \A i \in Ids : /\ billed'[i] >= billed[i]
                               /\ billed'[i] + ahead'[i] <= billed[i] + ahead[i]
    BY <1>2, <2>2
  <2>3. CASE UNCHANGED <<due, ahead, billed>>
    BY <1>2, <2>3
  <2> QED
    BY <1>2, <2>1, <2>2, <2>3
       DEF Ledger!Next, Ledger!Use, Ledger!Settle, Ledger!vars, due, ahead
<1>3. LedgerInv => Ledger!AtMostOnce
  BY DEF Ledger!AtMostOnce
<1> HIDE DEF LedgerInv
<1> QED
  BY <1>1, <1>2, <1>3, PTL DEF Ledger!Spec

\* syncTrafficToServer is an implementation of TrafficLedger ...
THEOREM TrafficIsCharged == Spec => Charged
<1>1. ASSUME Init PROVE Ledger!Init
  <2>1. /\ [i \in Ids |-> Factor * consumed[i]] = [i \in Ids |-> 0]
        /\ [i \in Ids |-> Open(i)] = [i \in Ids |-> 0]
    BY <1>1, InitialAccount
  <2>2. billed = [i \in Ids |-> 0]
    BY <1>1 DEF Init, Zero
  <2> QED
    BY <2>1, <2>2 DEF Ledger!Init
<1>2. ASSUME Inv, Next PROVE [Ledger!Next]_Ledger!vars
  <2>1. /\ Inv' /\ (billed' = billed \/ consumed' = consumed)
        /\ \A i \in Ids : Balanced(i)
        /\ Factor' = Factor /\ Factor \in {1, 2}
    BY <1>2, StepInv, FactorIs
  <2>2. ASSUME NEW i \in Ids
        PROVE  /\ {billed[i], Open(i), consumed[i], Factor * consumed[i]} \subseteq Nat
               /\ {billed'[i], Open(i)', consumed'[i], Factor' * consumed'[i]} \subseteq Nat
    <3>1. /\ billed[i] \in Nat /\ Open(i) \in Nat /\ consumed[i] \in Nat
          /\ Factor * consumed[i] \in Nat
      BY <1>2, InvNumbers
    <3>2. /\ billed'[i] \in Nat /\ consumed'[i] \in Nat /\ field'[i] \in Nat
          /\ tfs'[i] \in Nat /\ counter'[i] \in Nat /\ answer'[i] \in Nat
      BY <2>1 DEF Inv, TypeOK
    <3>3. Factor' * consumed'[i] \in Nat /\ Factor' * (counter'[i] + answer'[i]) \in Nat
      BY <2>1, <3>2
    <3>4. Open(i)' \in Nat
      BY <3>2, <3>3 DEF Open
    <3> QED
      BY <3>1, <3>2, <3>3, <3>4
  <2>3. ASSUME NEW i \in Ids
        PROVE  /\ Factor' * consumed'[i] >= Factor * consumed[i]
               /\ consumed' = consumed => Factor' * consumed'[i] = Factor * consumed[i]
               /\ Factor * (consumed'[i] - consumed[i])
                    = Factor' * consumed'[i] - Factor * consumed[i]
    BY <2>1, <2>2 DEF Balanced
  <2>4. /\ [i \in Ids |-> Factor * consumed[i]]' \in [Ids -> Nat]
        /\ [i \in Ids |-> Open(i)]' \in [Ids -> Nat]
        /\ billed' \in [Ids -> Nat]
    <3>1. \A i \in Ids : Factor' * consumed'[i] \in Nat /\ Open(i)' \in Nat
      BY <2>2
    <3>2. billed' \in [Ids -> Nat]
      BY <2>1 DEF Inv, TypeOK
    <3> QED
      BY <3>1, <3>2
  <2>5. CASE billed' = billed
    <3>1. \A i \in Ids :
            Open(i)' <= Open(i) + (Factor' * consumed'[i] - Factor * consumed[i])
      BY <2>1, <2>2, <2>3, <2>5 DEF Balanced, Account
    <3> QED
      BY <2>3, <2>4, <2>5, <3>1 DEF Ledger!Next, Ledger!Use
  <2>6. CASE consumed' = consumed
    <3>1. \A i \in Ids : /\ billed'[i] >= billed[i]
                         /\ billed'[i] + Open(i)' <= billed[i] + Open(i)
      BY <2>1, <2>2, <2>3, <2>6 DEF Balanced, Account
    <3> QED
      BY <2>1, <2>4, <2>6, <3>1 DEF Ledger!Next, Ledger!Settle
  <2> QED
    BY <2>1, <2>5, <2>6
<1>3. UNCHANGED vars => UNCHANGED Ledger!vars
  BY DEF vars, Ledger!vars, Open, Factor
<1> QED
  BY <1>1, <1>2, <1>3, Invariance, PTL DEF Spec, Charged, Ledger!Spec

\* ... so that nobody is billed for more bytes than they have moved.
THEOREM NoByteTwice == Spec => []Ledger!AtMostOnce
BY TrafficIsCharged, LedgerAtMostOnce, PTL DEF Charged
=============================================================================
