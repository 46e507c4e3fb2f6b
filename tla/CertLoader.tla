----------------------------- MODULE CertLoader -----------------------------
(***************************************************************************)
(* LocalCertificateLoader (tunnel/hysteria/utils/certloader.go): handshakes *)
(* take a certificate from two files that the operator replaces while the  *)
(* server runs.  The pair is cached with the modification times of both    *)
(* files.  A handshake that sees other times loads the pair again, unless  *)
(* another handshake is at it; every failure falls back on the cache.      *)
(*                                                                         *)
(* This is the component as it is written, for a caller of fillTLSConfig   *)
(* that names files; HysteriaServer.Setup, the only one, never does.       *)
(*                                                                         *)
(* InitializeCache has run before the first handshake (fillTLSConfig), so  *)
(* there always is a cache.  A step of a handshake is one system call, one *)
(* access to the cache pointer, or one operation of the mutex.             *)
(***************************************************************************)
EXTENDS Naturals

CONSTANTS
  Handshakes,  \* goroutines of connections
  Pairs,       \* key pairs the operator has
  MaxWrites,   \* bound on the writes of the operator
  NoFile,      \* the file is not there
  NoHandshake  \* the mutex is free

ASSUME LoaderAssumption ==
  /\ MaxWrites \in Nat
  /\ NoHandshake \notin Handshakes
  /\ Pairs # {}

\* A file: which half it holds, and when it was written.
Times == 0..MaxWrites
File == [pair : Pairs, time : Times]
Cache == [pair : Pairs, certTime : Times, keyTime : Times]

ASSUME NoFileAssumption == NoFile \notin File

VARIABLES
  cert,    \* CertFile
  key,     \* KeyFile
  clock,   \* time of the last write
  cache,   \* l.cache
  lock,    \* who holds l.lock
  pc,      \* where each handshake is in getCertificateWithCache
  seen,    \* the cache it has loaded, with the times of its last stat calls
  loaded   \* what makeCache has put together so far

vars == <<cert, key, clock, cache, lock, pc, seen, loaded>>
files == <<cert, key, clock>>

Places == {"idle", "statCert", "statKey", "tryLock", "compare", "makeStatCert",
           "makeStatKey", "readCert", "readKey", "store", "unlock"}

TypeOK ==
  /\ cert \in File \cup {NoFile} /\ key \in File \cup {NoFile}
  /\ clock \in Times
  /\ cache \in Cache
  /\ lock \in Handshakes \cup {NoHandshake}
  /\ pc \in [Handshakes -> Places]
  /\ seen \in [Handshakes -> [cache : Cache, certTime : Times]]
  /\ loaded \in [Handshakes -> Cache]
  /\ \A h \in Handshakes :
       lock = h <=> pc[h] \in {"compare", "makeStatCert", "makeStatKey",
                               "readCert", "readKey", "store", "unlock"}

\* InitializeCache has loaded a pair.
Init ==
  /\ \E p \in Pairs :
       /\ cert = [pair |-> p, time |-> 0] /\ key = cert
       /\ cache = [pair |-> p, certTime |-> 0, keyTime |-> 0]
  /\ clock = 0
  /\ lock = NoHandshake
  /\ pc = [h \in Handshakes |-> "idle"]
  /\ seen = [h \in Handshakes |-> [cache |-> cache, certTime |-> 0]]
  /\ loaded = [h \in Handshakes |-> cache]

-----------------------------------------------------------------------------
(***************************************************************************)
(* The operator.  Every write leaves a modification time of its own.       *)
(***************************************************************************)

Written(p) == [pair |-> p, time |-> clock + 1]

WriteCert(p) == cert' = Written(p) /\ UNCHANGED key
WriteKey(p) == key' = Written(p) /\ UNCHANGED cert
Remove == (cert' = NoFile /\ UNCHANGED key) \/ (key' = NoFile /\ UNCHANGED cert)

Replace ==
  /\ clock < MaxWrites
  /\ clock' = clock + 1
  /\ Remove \/ \E p \in Pairs : WriteCert(p) \/ WriteKey(p)
  /\ UNCHANGED <<cache, lock, pc, seen, loaded>>

-----------------------------------------------------------------------------
(***************************************************************************)
(* getCertificateWithCache.                                                *)
(***************************************************************************)

Goto(h, place) == pc' = [pc EXCEPT ![h] = place]

\* What a handshake has in its local variables is of no use once it is over.
Return(h) ==
  /\ Goto(h, "idle")
  /\ seen' = [seen EXCEPT ![h] = [cache |-> cache, certTime |-> 0]]
  /\ UNCHANGED loaded

\* A client connects; l.cache.Load().
Begin(h) ==
  /\ pc[h] = "idle"
  /\ seen' = [seen EXCEPT ![h].cache = cache]
  /\ Goto(h, "statCert")
  /\ UNCHANGED <<files, cache, lock, loaded>>

\* checkModTime.  With a file missing the cached certificate is served.
StatCert(h) ==
  /\ pc[h] = "statCert"
  /\ IF cert = NoFile
       THEN Return(h)
       ELSE /\ seen' = [seen EXCEPT ![h].certTime = cert.time]
            /\ Goto(h, "statKey")
            /\ UNCHANGED loaded
  /\ UNCHANGED <<files, cache, lock>>

\* The cache is up to date, or is not.
StatKey(h) ==
  /\ pc[h] = "statKey"
  /\ IF \/ key = NoFile
        \/ /\ key.time = seen[h].cache.keyTime
           /\ seen[h].certTime = seen[h].cache.certTime
       THEN Return(h)
       ELSE Goto(h, "tryLock") /\ UNCHANGED <<seen, loaded>>
  /\ UNCHANGED <<files, cache, lock>>

\* Mutant of TryLock that does not look whether the mutex is free.
TryLockBlind(h) ==
  /\ pc[h] = "tryLock"
  /\ Goto(h, "compare")
  /\ UNCHANGED <<files, cache, lock, seen, loaded>>

\* Another handshake is updating the cache: serve what there is.
TryLock(h) ==
  /\ pc[h] = "tryLock"
  /\ IF lock = NoHandshake
       THEN /\ lock' = h
            /\ Goto(h, "compare")
            /\ UNCHANGED <<seen, loaded>>
       ELSE /\ lock' = lock
            /\ Return(h)
  /\ UNCHANGED <<files, cache>>

\* Another handshake has updated it.  (A new cache never has the times of an
\* older one, so comparing contents is comparing pointers.)
Compare(h) ==
  /\ pc[h] = "compare"
  /\ Goto(h, IF cache # seen[h].cache THEN "unlock" ELSE "makeStatCert")
  /\ UNCHANGED <<files, cache, lock, seen, loaded>>

-----------------------------------------------------------------------------
(***************************************************************************)
(* makeCache: the times first, then the contents; on an error the handshake *)
(* serves what is cached.                                                  *)
(***************************************************************************)

MakeStatCert(h) ==
  /\ pc[h] = "makeStatCert"
  /\ IF cert = NoFile
       THEN Goto(h, "unlock") /\ UNCHANGED loaded
       ELSE /\ loaded' = [loaded EXCEPT ![h].certTime = cert.time]
            /\ Goto(h, "makeStatKey")
  /\ UNCHANGED <<files, cache, lock, seen>>

MakeStatKey(h) ==
  /\ pc[h] = "makeStatKey"
  /\ IF key = NoFile
       THEN Goto(h, "unlock") /\ UNCHANGED loaded
       ELSE /\ loaded' = [loaded EXCEPT ![h].keyTime = key.time]
            /\ Goto(h, "readCert")
  /\ UNCHANGED <<files, cache, lock, seen>>

\* LoadX509KeyPair reads the certificate ...
ReadCert(h) ==
  /\ pc[h] = "readCert"
  /\ IF cert = NoFile
       THEN Goto(h, "unlock") /\ UNCHANGED loaded
       ELSE /\ loaded' = [loaded EXCEPT ![h].pair = cert.pair]
            /\ Goto(h, "readKey")
  /\ UNCHANGED <<files, cache, lock, seen>>

\* Mutant of ReadKey that takes the times of what it has read instead of
\* those of its earlier stat calls.
ReadKeyStatsAgain(h) ==
  /\ pc[h] = "readKey"
  /\ IF (key = NoFile \/ cert = NoFile) \/ key.pair # loaded[h].pair
       THEN Goto(h, "unlock") /\ UNCHANGED loaded
       ELSE /\ loaded' = [loaded EXCEPT ![h].certTime = cert.time, ![h].keyTime = key.time]
            /\ Goto(h, "store")
  /\ UNCHANGED <<files, cache, lock, seen>>

\* ... then the key, and refuses halves of different pairs.
ReadKey(h) ==
  /\ pc[h] = "readKey"
  /\ Goto(h, IF key = NoFile \/ key.pair # loaded[h].pair THEN "unlock" ELSE "store")
  /\ UNCHANGED <<files, cache, lock, seen, loaded>>

Store(h) ==
  /\ pc[h] = "store"
  /\ cache' = loaded[h]
  /\ Goto(h, "unlock")
  /\ UNCHANGED <<files, lock, seen, loaded>>

\* Mutant of Unlock that forgets the mutex when nothing was stored.
UnlockAfterStore(h) ==
  /\ pc[h] = "unlock"
  /\ lock' = IF cache = loaded[h] THEN NoHandshake ELSE lock
  /\ Return(h)
  /\ UNCHANGED <<files, cache>>

\* defer l.lock.Unlock(); serve the certificate found, loaded or cached.
Unlock(h) ==
  /\ pc[h] = "unlock"
  /\ lock' = NoHandshake
  /\ Return(h)
  /\ UNCHANGED <<files, cache>>

-----------------------------------------------------------------------------
Step(h) ==
  \/ StatCert(h) \/ StatKey(h) \/ TryLock(h) \/ Compare(h)
  \/ MakeStatCert(h) \/ MakeStatKey(h) \/ ReadCert(h) \/ ReadKey(h)
  \/ Store(h) \/ Unlock(h)

Next == Replace \/ \E h \in Handshakes : Begin(h) \/ Step(h)

\* Goroutines are scheduled.
Spec == Init /\ [][Next]_vars /\ \A h \in Handshakes : WF_vars(Step(h))

-----------------------------------------------------------------------------
(***************************************************************************)
(* Properties.                                                             *)
(***************************************************************************)

\* A cache whose times are those of the files holds what is in the files:
\* a write that falls between the stat calls and the reads of makeCache is
\* noticed by the next handshake.
UpToDateIsCurrent ==
  cert # NoFile /\ key # NoFile =>
    (cache.certTime = cert.time /\ cache.keyTime = key.time =>
       cache.pair = cert.pair /\ cache.pair = key.pair)

\* The cache never goes back to files older than those it was made of,
\* however long a handshake sleeps between its reads and its store.
CacheNeverOlder ==
  [][cache'.certTime >= cache.certTime /\ cache'.keyTime >= cache.keyTime]_vars

Settled == cert # NoFile /\ key # NoFile /\ cert.pair = key.pair

\* "users can update the cert without restarting the server": once both
\* files hold halves of one pair and clients keep connecting, that pair is
\* what the server ends up with.
UpdateReachesClients ==
  \/ ~[]<><<\E h \in Handshakes : Begin(h)>>_vars
  \/ <>[](Settled => cache.pair = cert.pair)
=============================================================================
