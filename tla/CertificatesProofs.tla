------------------------- MODULE CertificatesProofs -------------------------
(***************************************************************************)
(* The safety of Certificates, for any set of pairs.                       *)
(***************************************************************************)
EXTENDS Certificates, TLAPS

\* Before the first tunnel nothing of the process is there.
BootIsClean ==
  phase \in {"boot"} \cup Ended =>
    ~magic /\ default = None /\ reading = None /\ xray = Off /\ ~dynamic

\* The self-signed pair is in use only if it was generated to the end.
BytesAreDefault == default # None => bytes = default

\* certmagic never leaves off in the middle while the process lives.
FilesArePaired == magic /\ pending = None => disk.cert # None /\ disk.cert = disk.key

\* Nothing has been written since GetCertificatePEM read the certificate.
ReadingIsCurrent == reading # None /\ ~torn => pending = None /\ reading = disk.cert

CertInv ==
  /\ BootIsClean /\ BytesAreDefault /\ FilesArePaired /\ ReadingIsCurrent
  /\ HandshakesHaveCertificate /\ SelfSignedIsShared /\ NoSilentFallback
  /\ SnapshotIsAPair

Inv == TypeOK /\ CertInv

LEMMA InitInv == Init => Inv
<1> SUFFICES ASSUME Init PROVE Inv
  OBVIOUS
<1>1. TypeOK
  BY DEF Init, TypeOK, Settings, Section, Halves, PairOrNone, Off, Both
<1>2. CertInv
  BY NoneAssumption
     DEF Init, CertInv, BootIsClean, BytesAreDefault, FilesArePaired, ReadingIsCurrent,
         HandshakesHaveCertificate, SelfSignedIsShared, NoSilentFallback,
         SnapshotIsAPair, Off, Both, Ended
<1> QED
  BY <1>1, <1>2 DEF Inv

\* A process that ends leaves nothing but the files.
LEMMA DieInv == ASSUME Inv, NEW end \in Ended, Die(end) PROVE Inv'
<1>1. TypeOK'
  BY DEF Inv, Die, TypeOK, Settings, Section, Halves, PairOrNone, Off, Both, Ended
<1>2. CertInv'
  BY DEF Die, CertInv, BootIsClean, BytesAreDefault, FilesArePaired, ReadingIsCurrent,
         HandshakesHaveCertificate, SelfSignedIsShared, NoSilentFallback,
         SnapshotIsAPair, Off, Both, Ended
<1> QED
  BY <1>1, <1>2 DEF Inv

\* What InitTlsCfg does to the self-signed pair.
LEMMA InitTlsCfgEffect ==
  ASSUME Inv, InitTlsCfg
  PROVE  /\ {default', bytes'} \subseteq PairOrNone
         /\ magic' = magic
         /\ magic \/ (default' # None /\ bytes' = default')
         /\ default # None \/ magic => UNCHANGED <<default, bytes>>
<1>1. Fresh \subseteq Pairs /\ None \notin Fresh
  BY NoneAssumption DEF Fresh
<1> QED
  BY <1>1 DEF Inv, TypeOK, CertInv, BytesAreDefault, InitTlsCfg, process, PairOrNone

\* Nor does a failure of it touch a pair that is in use.
LEMMA InitTlsCfgFailsEffect ==
  ASSUME Inv, InitTlsCfgFails
  PROVE  bytes' \in PairOrNone /\ default = None /\ UNCHANGED <<magic, default>>
BY DEF Inv, TypeOK, InitTlsCfgFails, Fresh, PairOrNone

LEMMA StorageStep == ASSUME Inv, Issue \/ Issued PROVE Inv'
<1> USE DEF Inv, process
<1>1. CASE Issue
  <2>1. PICK p \in Pairs :
          /\ pending' = p /\ p # None
          /\ disk' \in {[disk EXCEPT !.cert = p], [disk EXCEPT !.key = p]}
    BY <1>1, NoneAssumption DEF Issue, Fresh
  <2>2. TypeOK'
    BY <1>1, <2>1 DEF Issue, TypeOK, Halves, PairOrNone, Off, Both
  <2>3. CertInv'
    BY <1>1, <2>1
       DEF Issue, CertInv, BootIsClean, BytesAreDefault, FilesArePaired,
           ReadingIsCurrent, HandshakesHaveCertificate, SelfSignedIsShared,
           NoSilentFallback, SnapshotIsAPair, Off, Both
  <2> QED
    BY <2>2, <2>3
<1>2. CASE Issued
  <2>1. TypeOK'
    BY <1>2 DEF Issued, TypeOK, Halves, PairOrNone, Off, Both
  <2>2. CertInv'
    BY <1>2
       DEF Issued, CertInv, BootIsClean, BytesAreDefault, FilesArePaired,
           ReadingIsCurrent, HandshakesHaveCertificate, SelfSignedIsShared,
           NoSilentFallback, SnapshotIsAPair, Off, Both
  <2> QED
    BY <2>1, <2>2
<1> QED
  BY <1>1, <1>2

\* Every way out of the boot leaves either a pair or the permission to be
\* without one.
LEMMA BootStep == ASSUME Inv, Boot PROVE Inv'
<1> USE DEF Inv, storage, process, tunnels, Acme
<1>1. CASE AcmeObtained
  <2>1. TypeOK'
    BY <1>1 DEF AcmeObtained, Booted, TypeOK, Halves
  <2>2. CertInv'
    BY <1>1
       DEF AcmeObtained, Booted, TypeOK, CertInv, BootIsClean, BytesAreDefault,
           FilesArePaired, ReadingIsCurrent, HandshakesHaveCertificate,
           SelfSignedIsShared, NoSilentFallback, SnapshotIsAPair, Ended
  <2> QED
    BY <2>1, <2>2
<1>2. CASE ((AcmeFails \/ AcmeRejected) /\ ~Acme.fallback) \/ PregenerateFails
  BY <1>2, DieInv DEF AcmeFails, AcmeRejected, PregenerateFails, Ended
<1>3. ASSUME phase = "boot", Booted, UNCHANGED <<disk, magic>>, pending' \in {pending, None},
             {default', bytes'} \subseteq PairOrNone, default' # None => bytes' = default',
             Acme.domains => Acme.fallback
      PROVE Inv'
  <2>1. TypeOK'
    BY <1>3 DEF Booted, TypeOK, PairOrNone
  <2>2. CertInv'
    BY <1>3
       DEF Booted, TypeOK, CertInv, BootIsClean, BytesAreDefault, FilesArePaired,
           ReadingIsCurrent, HandshakesHaveCertificate, SelfSignedIsShared,
           NoSilentFallback, SnapshotIsAPair, Ended
  <2> QED
    BY <2>1, <2>2
<1>4. CASE AcmeFails /\ Acme.fallback
  BY <1>3, <1>4 DEF AcmeFails, TypeOK, CertInv, BytesAreDefault
<1>5. CASE AcmeRejected /\ Acme.fallback
  BY <1>3, <1>5, InitTlsCfgEffect, InitTlsCfgFailsEffect
     DEF AcmeRejected, TypeOK, CertInv, BytesAreDefault, BootIsClean
<1>6. CASE Pregenerate
  BY <1>3, <1>6, InitTlsCfgEffect DEF Pregenerate, TypeOK, CertInv, BootIsClean
<1> QED
  BY <1>1, <1>2, <1>4, <1>5, <1>6 DEF Boot

\* The goroutine that starts and restarts the tunnels.
LEMMA WatcherStep == ASSUME Inv, Watcher PROVE Inv'
<1> USE DEF Inv, storage, process, tunnels
<1> DEFINE Frame == UNCHANGED <<phase, settings, storage>>
<1>1. ASSUME Frame, InitTlsCfg \/ InitTlsCfgFails, UNCHANGED <<torn, dynamic>>,
             UNCHANGED xray, reading' \in {reading, None}, phase \in {"start", "up"}
      PROVE Inv'
  <2>1. /\ {default', bytes'} \subseteq PairOrNone /\ magic' = magic
        /\ default # None \/ magic => UNCHANGED <<default, bytes>>
        /\ default' # None => bytes' = default'
    <3>1. CASE InitTlsCfg
      BY <3>1, InitTlsCfgEffect DEF CertInv, BytesAreDefault
    <3>2. CASE InitTlsCfgFails
      BY <3>2, InitTlsCfgFailsEffect DEF TypeOK, InitTlsCfgFails
    <3> QED
      BY <1>1, <3>1, <3>2
  <2>2. TypeOK'
    BY <1>1, <2>1 DEF TypeOK, PairOrNone
  <2>3. CertInv'
    BY <1>1, <2>1
       DEF CertInv, BootIsClean, BytesAreDefault, FilesArePaired, ReadingIsCurrent,
           HandshakesHaveCertificate, SelfSignedIsShared, NoSilentFallback,
           SnapshotIsAPair, Off, Both, Ended
  <2> QED
    BY <2>2, <2>3
<1>2. CASE Started
  BY <1>2
     DEF Started, TypeOK, CertInv, BootIsClean, BytesAreDefault, FilesArePaired,
         ReadingIsCurrent, HandshakesHaveCertificate, SelfSignedIsShared,
         NoSilentFallback, SnapshotIsAPair, Ended
<1>3. CASE SetupXraySelfSigned
  <2>1. /\ {default', bytes'} \subseteq PairOrNone /\ magic' = magic
        /\ default' # None /\ bytes' = default'
    BY <1>3, InitTlsCfgEffect DEF SetupXraySelfSigned
  <2>2. TypeOK'
    BY <1>3, <2>1 DEF SetupXraySelfSigned, Ready, TypeOK, Halves, Both
  <2>3. CertInv'
    BY <1>3, <2>1
       DEF SetupXraySelfSigned, Ready, CertInv, BootIsClean, BytesAreDefault,
           FilesArePaired, ReadingIsCurrent, HandshakesHaveCertificate,
           SelfSignedIsShared, NoSilentFallback, SnapshotIsAPair, Both, Ended
  <2> QED
    BY <2>2, <2>3
<1>4. CASE LoadCert
  <2>1. TypeOK'
    BY <1>4 DEF LoadCert, Ready, TypeOK, Halves
  <2>2. CertInv'
    BY <1>4
       DEF LoadCert, Ready, CertInv, BootIsClean, BytesAreDefault, FilesArePaired,
           ReadingIsCurrent, HandshakesHaveCertificate, SelfSignedIsShared,
           NoSilentFallback, SnapshotIsAPair, Ended
  <2> QED
    BY <2>1, <2>2
<1>5. CASE LoadKey
  <2>1. TypeOK'
    BY <1>5 DEF LoadKey, TypeOK, Halves, PairOrNone
  <2>2. CertInv'
    BY <1>5
       DEF LoadKey, TypeOK, CertInv, BootIsClean, BytesAreDefault, FilesArePaired,
           ReadingIsCurrent, HandshakesHaveCertificate, SelfSignedIsShared,
           NoSilentFallback, SnapshotIsAPair, Ended
  <2> QED
    BY <2>1, <2>2
<1>6. CASE StopXray \/ StopDynamic
  <2>1. TypeOK'
    <3>1. Off \in Halves
      BY DEF Off, Both, Halves, PairOrNone
    <3> QED
      BY <1>6, <3>1 DEF StopXray, StopDynamic, Ready, TypeOK
  <2>2. CertInv'
    BY <1>6
       DEF StopXray, StopDynamic, Ready, CertInv, BootIsClean, BytesAreDefault,
           FilesArePaired, ReadingIsCurrent, HandshakesHaveCertificate,
           SelfSignedIsShared, NoSilentFallback, SnapshotIsAPair, Ended
  <2> QED
    BY <2>1, <2>2
<1>7. CASE SetupDynamic
  <2>1. /\ {default', bytes'} \subseteq PairOrNone /\ magic' = magic
        /\ default # None \/ magic => UNCHANGED <<default, bytes>>
        /\ magic \/ (default' # None /\ bytes' = default')
    BY <1>7, InitTlsCfgEffect DEF SetupDynamic
  <2>2. TypeOK'
    BY <1>7, <2>1 DEF SetupDynamic, Ready, TypeOK
  <2>3. CertInv'
    BY <1>7, <2>1
       DEF SetupDynamic, Ready, CertInv, BootIsClean, BytesAreDefault, FilesArePaired,
           ReadingIsCurrent, HandshakesHaveCertificate, SelfSignedIsShared,
           NoSilentFallback, SnapshotIsAPair, Off, Both, Ended
  <2> QED
    BY <2>2, <2>3
<1>8. CASE SetupFails
  <2>1. CASE phase = "start"
    BY <1>8, <2>1, DieInv DEF SetupFails, Ended
  <2>2. CASE phase = "up"
    BY <1>1, <1>8, <2>2 DEF SetupFails
  <2> QED
    BY <1>8, <2>1, <2>2 DEF SetupFails
<1> QED
  BY <1>2, <1>3, <1>4, <1>5, <1>6, <1>7, <1>8 DEF Watcher

LEMMA StepInv == Inv /\ [Next]_vars => Inv'
<1> SUFFICES ASSUME Inv, [Next]_vars PROVE Inv'
  OBVIOUS
<1>1. CASE Crash
  BY <1>1, DieInv DEF Crash, Ended
<1>2. CASE Respawn
  <2>1. TypeOK'
    BY <1>2 DEF Inv, Respawn, TypeOK, CertInv, BootIsClean, storage, process, tunnels
  <2>2. CertInv'
    BY <1>2
       DEF Inv, Respawn, CertInv, BootIsClean, BytesAreDefault, FilesArePaired,
           ReadingIsCurrent, HandshakesHaveCertificate, SelfSignedIsShared,
           NoSilentFallback, SnapshotIsAPair, Ended, storage, process, tunnels
  <2> QED
    BY <2>1, <2>2 DEF Inv
<1>3. CASE UNCHANGED vars
  <2>1. TypeOK'
    BY <1>3 DEF Inv, TypeOK, vars, storage, process, tunnels
  <2>2. CertInv'
    BY <1>3
       DEF Inv, CertInv, BootIsClean, BytesAreDefault, FilesArePaired,
           ReadingIsCurrent, HandshakesHaveCertificate, SelfSignedIsShared,
           NoSilentFallback, SnapshotIsAPair, vars, storage, process, tunnels
  <2> QED
    BY <2>1, <2>2 DEF Inv
<1> QED
  BY <1>1, <1>2, <1>3, StorageStep, BootStep, WatcherStep DEF Next

LEMMA Invariance == Spec => []Inv
BY InitInv, StepInv, PTL DEF Spec

-----------------------------------------------------------------------------
\* The variables keep their types; a load under way needs certmagic.
THEOREM TypeCorrect == Spec => []TypeOK
<1>1. Inv => TypeOK
  BY DEF Inv
<1> QED
  BY <1>1, Invariance, PTL

\* GetCertificate of a running tunnel always has a certificate to give.
THEOREM CertificateForHandshakes == Spec => []HandshakesHaveCertificate
<1>1. Inv => HandshakesHaveCertificate
  BY DEF Inv, CertInv
<1> QED
  BY <1>1, Invariance, PTL

\* The tunnels without ACME share one self-signed pair.
THEOREM OneSelfSignedPair == Spec => []SelfSignedIsShared
<1>1. Inv => SelfSignedIsShared
  BY DEF Inv, CertInv
<1> QED
  BY <1>1, Invariance, PTL

\* Without Fallback no agent with domains is up on a self-signed certificate.
THEOREM FallbackOnlyIfAllowed == Spec => []NoSilentFallback
<1>1. Inv => NoSilentFallback
  BY DEF Inv, CertInv
<1> QED
  BY <1>1, Invariance, PTL

\* Outside a renewal xray gets the two halves of one pair.
THEOREM PairForXray == Spec => []SnapshotIsAPair
<1>1. Inv => SnapshotIsAPair
  BY DEF Inv, CertInv
<1> QED
  BY <1>1, Invariance, PTL
=============================================================================
