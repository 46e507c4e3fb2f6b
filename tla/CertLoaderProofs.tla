-------------------------- MODULE CertLoaderProofs --------------------------
(***************************************************************************)
(* The cache of CertLoader is current when it looks current, and never     *)
(* goes back, for any number of handshakes, pairs and writes.              *)
(***************************************************************************)
EXTENDS CertLoader, TLAPS

\* Times do not run ahead of the clock.
Past ==
  /\ cert # NoFile => cert.time <= clock
  /\ key # NoFile => key.time <= clock
  /\ cache.certTime <= clock /\ cache.keyTime <= clock
  /\ \A h \in Handshakes : loaded[h].certTime <= clock /\ loaded[h].keyTime <= clock

\* Each half of the cache is that of its file, if it has the time of it.
CacheIsCurrent ==
  /\ cert # NoFile /\ cert.time = cache.certTime => cache.pair = cert.pair
  /\ key # NoFile /\ key.time = cache.keyTime => cache.pair = key.pair

\* So is what makeCache has read after its stat calls.
LoadedIsCurrent ==
  \A h \in Handshakes :
    /\ pc[h] \in {"readKey", "store"} /\ cert # NoFile
         => (cert.time = loaded[h].certTime => loaded[h].pair = cert.pair)
    /\ pc[h] = "store" /\ key # NoFile
         => (key.time = loaded[h].keyTime => loaded[h].pair = key.pair)

\* Files are never older than the cache, nor is what a handshake has loaded
\* under the lock.
NotOlder ==
  /\ cert # NoFile => cache.certTime <= cert.time
  /\ key # NoFile => cache.keyTime <= key.time
  /\ \A h \in Handshakes :
       /\ pc[h] \in {"makeStatKey", "readCert", "readKey", "store"} =>
            /\ cache.certTime <= loaded[h].certTime
            /\ cert # NoFile => loaded[h].certTime <= cert.time
       /\ pc[h] \in {"readCert", "readKey", "store"} =>
            /\ cache.keyTime <= loaded[h].keyTime
            /\ key # NoFile => loaded[h].keyTime <= key.time

Inv == TypeOK /\ Past /\ CacheIsCurrent /\ LoadedIsCurrent /\ NotOlder

\* What the variables hold, handshake by handshake.
LEMMA Types ==
  ASSUME TypeOK
  PROVE  /\ clock \in Nat
         /\ cert # NoFile => cert.pair \in Pairs /\ cert.time \in Nat
         /\ key # NoFile => key.pair \in Pairs /\ key.time \in Nat
         /\ cache.pair \in Pairs /\ cache.certTime \in Nat /\ cache.keyTime \in Nat
         /\ \A h \in Handshakes :
              /\ loaded[h].pair \in Pairs
              /\ loaded[h].certTime \in Nat /\ loaded[h].keyTime \in Nat
BY LoaderAssumption DEF TypeOK, File, Cache, Times

LEMMA InitInv == Init => Inv
<1> SUFFICES ASSUME Init PROVE Inv
  OBVIOUS
<1>1. PICK p \in Pairs :
        /\ cert = [pair |-> p, time |-> 0] /\ key = cert
        /\ cache = [pair |-> p, certTime |-> 0, keyTime |-> 0]
  BY DEF Init
<1>2. TypeOK
  BY <1>1, LoaderAssumption DEF Init, TypeOK, File, Cache, Times, Places
<1>3. Past /\ CacheIsCurrent /\ LoadedIsCurrent /\ NotOlder
  BY <1>1 DEF Init, Past, CacheIsCurrent, LoadedIsCurrent, NotOlder
<1> QED
  BY <1>2, <1>3 DEF Inv

\* A write gets a time that nothing has.
LEMMA ReplaceStep == ASSUME Inv, Replace PROVE Inv' /\ UNCHANGED cache
<1> USE DEF Inv
<1>1. /\ clock' = clock + 1 /\ clock' \in Times
      /\ UNCHANGED <<cache, lock, pc, seen, loaded>>
      /\ \/ UNCHANGED cert
         \/ cert' = NoFile
         \/ \E p \in Pairs : cert' = [pair |-> p, time |-> clock + 1]
      /\ \/ UNCHANGED key
         \/ key' = NoFile
         \/ \E p \in Pairs : key' = [pair |-> p, time |-> clock + 1]
  BY LoaderAssumption
     DEF Replace, Remove, WriteCert, WriteKey, Written, TypeOK, Times
<1>2. TypeOK'
  BY <1>1 DEF TypeOK, File
<1>3. /\ cert' # NoFile => UNCHANGED cert \/ cert'.time = clock + 1
      /\ key' # NoFile => UNCHANGED key \/ key'.time = clock + 1
  BY <1>1
<1>4. Past' /\ CacheIsCurrent' /\ LoadedIsCurrent' /\ NotOlder'
  BY <1>1, <1>3, Types DEF Past, CacheIsCurrent, LoadedIsCurrent, NotOlder
<1> QED
  BY <1>1, <1>2, <1>4

\* The steps up to the lock, and out of the function, load nothing.
LEMMA ServeStep ==
  ASSUME Inv, NEW h \in Handshakes,
         \/ Begin(h) \/ StatCert(h) \/ StatKey(h) \/ TryLock(h) \/ Compare(h)
         \/ Unlock(h)
  PROVE  Inv' /\ UNCHANGED cache
<1> USE DEF Inv
<1>1. UNCHANGED <<files, cache, loaded>>
  BY DEF Begin, StatCert, StatKey, TryLock, Compare, Unlock, Return
<1>2. /\ \A g \in Handshakes \ {h} : pc'[g] = pc[g]
      /\ pc'[h] \in {"idle", "statCert", "statKey", "tryLock", "compare",
                     "makeStatCert", "unlock"}
  BY DEF Begin, StatCert, StatKey, TryLock, Compare, Unlock, Return, Goto, TypeOK
<1>3. TypeOK'
  <2>1. pc' \in [Handshakes -> Places]
    BY DEF Begin, StatCert, StatKey, TryLock, Compare, Unlock, Return, Goto, TypeOK, Places
  <2>2. seen' \in [Handshakes -> [cache : Cache, certTime : Times]]
    BY LoaderAssumption
       DEF Begin, StatCert, StatKey, TryLock, Compare, Unlock, Return, TypeOK, File, Times
  <2>3. /\ lock' \in Handshakes \cup {NoHandshake}
        /\ \A g \in Handshakes :
             (lock = g <=> pc[g] \in {"compare", "makeStatCert", "makeStatKey",
                                     "readCert", "readKey", "store", "unlock"})'
    BY LoaderAssumption
       DEF Begin, StatCert, StatKey, TryLock, Compare, Unlock, Return, Goto, TypeOK
  <2> QED
    BY <1>1, <2>1, <2>2, <2>3 DEF TypeOK, files
<1>4. Past' /\ CacheIsCurrent' /\ LoadedIsCurrent' /\ NotOlder'
  BY <1>1, <1>2 DEF files, Past, CacheIsCurrent, LoadedIsCurrent, NotOlder
<1> QED
  BY <1>1, <1>3, <1>4

\* makeCache, under the lock.
LEMMA MakeStep ==
  ASSUME Inv, NEW h \in Handshakes,
         MakeStatCert(h) \/ MakeStatKey(h) \/ ReadCert(h) \/ ReadKey(h)
  PROVE  Inv' /\ UNCHANGED cache
<1> USE DEF Inv
<1>1. UNCHANGED <<files, cache, lock, seen>>
  BY DEF MakeStatCert, MakeStatKey, ReadCert, ReadKey
<1>2. TypeOK'
  <2>1. pc' \in [Handshakes -> Places]
    BY DEF MakeStatCert, MakeStatKey, ReadCert, ReadKey, Goto, TypeOK, Places
  <2>2. loaded' \in [Handshakes -> Cache]
    <3>1. loaded[h] \in Cache /\ loaded \in [Handshakes -> Cache]
      BY DEF TypeOK
    <3>2. \/ loaded' = loaded
          \/ \E n \in Times : \/ loaded' = [loaded EXCEPT ![h].certTime = n]
                             \/ loaded' = [loaded EXCEPT ![h].keyTime = n]
          \/ \E p \in Pairs : loaded' = [loaded EXCEPT ![h].pair = p]
      BY DEF MakeStatCert, MakeStatKey, ReadCert, ReadKey, TypeOK, File
    <3> QED
      BY <3>1, <3>2 DEF Cache
  <2>3. \A g \in Handshakes :
          (lock = g <=> pc[g] \in {"compare", "makeStatCert", "makeStatKey",
                                  "readCert", "readKey", "store", "unlock"})'
    BY <1>1 DEF MakeStatCert, MakeStatKey, ReadCert, ReadKey, Goto, TypeOK
  <2> QED
    BY <1>1, <2>1, <2>2, <2>3 DEF TypeOK, files
<1>3. \A g \in Handshakes \ {h} : pc'[g] = pc[g] /\ loaded'[g] = loaded[g]
  BY DEF MakeStatCert, MakeStatKey, ReadCert, ReadKey, Goto, TypeOK
<1>4. \/ pc'[h] = "unlock" /\ loaded'[h] = loaded[h]
      \/ /\ pc'[h] = "makeStatKey" /\ cert # NoFile
         /\ loaded'[h] = [loaded[h] EXCEPT !.certTime = cert.time]
      \/ /\ pc[h] = "makeStatKey" /\ pc'[h] = "readCert" /\ key # NoFile
         /\ loaded'[h] = [loaded[h] EXCEPT !.keyTime = key.time]
      \/ /\ pc[h] = "readCert" /\ pc'[h] = "readKey" /\ cert # NoFile
         /\ loaded'[h] = [loaded[h] EXCEPT !.pair = cert.pair]
      \/ /\ pc[h] = "readKey" /\ pc'[h] = "store" /\ loaded'[h] = loaded[h]
         /\ key # NoFile /\ key.pair = loaded[h].pair
  BY DEF MakeStatCert, MakeStatKey, ReadCert, ReadKey, Goto, TypeOK
<1>5. loaded[h] \in Cache
  BY DEF TypeOK
<1>6. Past' /\ CacheIsCurrent' /\ LoadedIsCurrent' /\ NotOlder'
  BY <1>1, <1>3, <1>4, <1>5, Types
     DEF files, Cache, Past, CacheIsCurrent, LoadedIsCurrent, NotOlder
<1> QED
  BY <1>1, <1>2, <1>6

\* Only the holder of the lock stores, and what it stores is not older.
LEMMA StoreStep ==
  ASSUME Inv, NEW h \in Handshakes, Store(h)
  PROVE  /\ Inv'
         /\ cache'.certTime >= cache.certTime /\ cache'.keyTime >= cache.keyTime
<1> USE DEF Inv, Store
<1>1. \A g \in Handshakes \ {h} :
        /\ pc'[g] = pc[g]
        /\ pc[g] \notin {"makeStatKey", "readCert", "readKey", "store"}
  BY DEF Goto, TypeOK
<1>2. pc'[h] = "unlock"
  BY DEF Goto, TypeOK
<1>3. TypeOK'
  BY DEF Goto, TypeOK, Places, files
<1>4. Past' /\ CacheIsCurrent' /\ LoadedIsCurrent' /\ NotOlder'
  BY <1>1, <1>2, Types DEF files, Past, CacheIsCurrent, LoadedIsCurrent, NotOlder
<1> QED
  BY <1>3, <1>4, Types DEF NotOlder

LEMMA StepInv ==
  Inv /\ [Next]_vars =>
    /\ Inv'
    /\ cache'.certTime >= cache.certTime /\ cache'.keyTime >= cache.keyTime
<1> SUFFICES ASSUME Inv, [Next]_vars
             PROVE  /\ Inv'
                    /\ cache'.certTime >= cache.certTime
                    /\ cache'.keyTime >= cache.keyTime
  OBVIOUS
<1>1. CASE Replace
  BY <1>1, ReplaceStep, Types DEF Inv
<1>2. ASSUME NEW h \in Handshakes, Begin(h) \/ (Step(h) /\ ~Store(h))
      PROVE  Inv' /\ UNCHANGED cache
  BY <1>2, ServeStep, MakeStep DEF Step
<1>3. ASSUME NEW h \in Handshakes, Store(h)
      PROVE  /\ Inv'
             /\ cache'.certTime >= cache.certTime /\ cache'.keyTime >= cache.keyTime
  BY <1>3, StoreStep
<1>4. CASE UNCHANGED vars
  BY <1>4, Types
     DEF vars, Inv, TypeOK, Past, CacheIsCurrent, LoadedIsCurrent, NotOlder
<1> QED
  BY <1>1, <1>2, <1>3, <1>4, Types DEF Next, Inv

LEMMA Invariance == Spec => []Inv
BY InitInv, StepInv, PTL DEF Spec

-----------------------------------------------------------------------------
\* The variables keep their types, and one handshake at a time is between
\* TryLock and Unlock.
THEOREM TypeCorrect == Spec => []TypeOK
<1>1. Inv => TypeOK
  BY DEF Inv
<1> QED
  BY <1>1, Invariance, PTL

\* A cache with the times of the files has their contents.
THEOREM CacheLooksRight == Spec => []UpToDateIsCurrent
<1>1. Inv => UpToDateIsCurrent
  BY DEF Inv, CacheIsCurrent, UpToDateIsCurrent
<1> QED
  BY <1>1, Invariance, PTL

\* No store replaces the cache by something older.
THEOREM CacheIsMonotonic == Spec => CacheNeverOlder
<1>1. Inv /\ [Next]_vars =>
        [cache'.certTime >= cache.certTime /\ cache'.keyTime >= cache.keyTime]_vars
  BY StepInv
<1> QED
  BY <1>1, Invariance, PTL DEF Spec, CacheNeverOlder
=============================================================================
