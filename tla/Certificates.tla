---------------------------- MODULE Certificates ----------------------------
(***************************************************************************)
(* Where the certificates of the tunnels come from (tool/tls, cli/action.go *)
(* and the Setup of each tunnel): from an ACME authority through certmagic, *)
(* or from a self-signed pair made on first use.  anytls and hysteria ask  *)
(* for the certificate at every handshake; xray gets it once, as PEM.      *)
(*                                                                         *)
(* certmagic is external: it keeps the pair in two files of a directory    *)
(* that outlives the process, and renews it in the background, one file    *)
(* after the other.  The rest happens in one goroutine, first the one that *)
(* boots and then the config watcher.                                      *)
(***************************************************************************)

CONSTANTS
  Pairs,  \* pairs of a certificate and its key
  None    \* no pair

ASSUME NoneAssumption == None \notin Pairs

VARIABLES
  phase,     \* "boot", "start" (the first tunnels), "up"; "refused" after
             \* an ACME error at boot, "dead" after any other end
  settings,  \* the ACME section of the config file, and the flags
  disk,      \* the two files of the first managed domain
  pending,   \* the pair certmagic has half written
  magic,     \* CertMagicInstance # nil
  default,   \* DefaultTLSConfig
  bytes,     \* DefaultTLSConfigCertBytes and ...KeyBytes
  reading,   \* the certificate GetCertificatePEM has loaded, but not its key
  xray,      \* the PEM strings a running xray was given
  torn,      \* history: certmagic was writing while xray's were loaded
  dynamic    \* a tunnel that serves GetCertificate (anytls, hysteria) runs

storage == <<disk, pending>>
process == <<magic, default, bytes>>
tunnels == <<reading, xray, torn, dynamic>>
vars == <<phase, settings, storage, process, tunnels>>

Section == [domains : BOOLEAN, fallback : BOOLEAN]
Settings == [file : Section, flags : Section]
PairOrNone == Pairs \cup {None}
Halves == [cert : PairOrNone, key : PairOrNone]
Both(p) == [cert |-> p, key |-> p]
Off == Both(None)

Ended == {"refused", "dead"}

TypeOK ==
  /\ phase \in {"boot", "start", "up"} \cup Ended
  /\ settings \in Settings
  /\ disk \in Halves /\ xray \in Halves
  /\ {pending, default, bytes, reading} \subseteq PairOrNone
  /\ {magic, torn, dynamic} \subseteq BOOLEAN
  /\ reading # None => phase \in {"start", "up"} /\ magic /\ xray = Off

\* mergeACMECLI: a flag adds to what the file says.
Acme ==
  [domains  |-> settings.file.domains \/ settings.flags.domains,
   fallback |-> settings.file.fallback \/ settings.flags.fallback]

Init ==
  /\ phase = "boot"
  /\ settings \in Settings
  /\ disk = Off /\ pending = None
  /\ magic = FALSE /\ default = None /\ bytes = None
  /\ reading = None /\ xray = Off /\ torn = FALSE /\ dynamic = FALSE

\* A pair that nobody has.
Fresh ==
  Pairs \ {disk.cert, disk.key, pending, default, bytes, reading, xray.cert, xray.key}

-----------------------------------------------------------------------------
(***************************************************************************)
(* certmagic: ManageSync at boot, and the renewals of its maintenance.     *)
(***************************************************************************)

Managing == magic \/ (phase = "boot" /\ Acme.domains)

\* One file is written ...
Issue ==
  /\ Managing /\ pending = None
  /\ \E p \in Fresh :
       /\ pending' = p
       /\ disk' \in {[disk EXCEPT !.cert = p], [disk EXCEPT !.key = p]}
  /\ torn' = (torn \/ reading # None)
  /\ UNCHANGED <<phase, settings, process, reading, xray, dynamic>>

\* ... then the other.
Issued ==
  /\ pending # None
  /\ disk' = Both(pending)
  /\ pending' = None
  /\ torn' = (torn \/ reading # None)
  /\ UNCHANGED <<phase, settings, process, reading, xray, dynamic>>

-----------------------------------------------------------------------------
(***************************************************************************)
(* InitTlsCfg, which every Setup calls too.                                *)
(***************************************************************************)

\* Mutant of InitTlsCfg that makes a pair of its own for every caller.
InitTlsCfgAnew ==
  \/ magic /\ UNCHANGED process
  \/ /\ ~magic
     /\ default' \in Fresh /\ bytes' = default'
     /\ UNCHANGED magic

InitTlsCfg ==
  \/ (magic \/ default # None) /\ UNCHANGED process
  \/ /\ ~magic /\ default = None
     /\ default' \in Fresh /\ bytes' = default'
     /\ UNCHANGED magic

\* generateKeyPair sets the bytes before it fails to write the optional files.
InitTlsCfgFails ==
  /\ ~magic /\ default = None
  /\ bytes' \in {bytes} \cup Fresh
  /\ UNCHANGED <<magic, default>>

-----------------------------------------------------------------------------
(***************************************************************************)
(* The start of the process: action, up to startSTAgent.                   *)
(***************************************************************************)

\* Only the files outlive the process.
Die(end) ==
  /\ phase' = end
  /\ pending' = None
  /\ magic' = FALSE /\ default' = None /\ bytes' = None
  /\ reading' = None /\ xray' = Off /\ torn' = FALSE /\ dynamic' = FALSE
  /\ UNCHANGED <<settings, disk>>

Booted == phase' = "start" /\ UNCHANGED <<settings, tunnels>>

\* ManageSync has found a pair, or obtained one.
AcmeObtained ==
  /\ phase = "boot" /\ Acme.domains
  /\ pending = None /\ disk.cert # None /\ disk.cert = disk.key
  /\ magic' = TRUE
  /\ Booted
  /\ UNCHANGED <<storage, default, bytes>>

\* Mutant of AcmeFails that always falls back.
AcmeFailsSilently ==
  /\ phase = "boot" /\ Acme.domains
  /\ pending' = None /\ Booted /\ UNCHANGED <<disk, process>>

\* Mutant of AcmeFails that never falls back.
AcmeFailsForGood == phase = "boot" /\ Acme.domains /\ Die("refused")

\* ManageSync fails, whatever it has written.  With Fallback InitCertMagic
\* returns nil, so that nobody calls InitTlsCfg here.
AcmeFails ==
  /\ phase = "boot" /\ Acme.domains
  /\ IF Acme.fallback
       THEN pending' = None /\ Booted /\ UNCHANGED <<disk, process>>
       ELSE Die("refused")

\* InitCertMagic returns an error before ManageSync: an option it does not
\* know, or no ZeroSSL credentials.  An error of InitTlsCfg is ignored.
AcmeRejected ==
  /\ phase = "boot" /\ Acme.domains /\ pending = None
  /\ IF Acme.fallback
       THEN (InitTlsCfg \/ InitTlsCfgFails) /\ Booted /\ UNCHANGED storage
       ELSE Die("refused")

\* Without ACME the pair is made in advance.
Pregenerate ==
  /\ phase = "boot" /\ ~Acme.domains
  /\ InitTlsCfg /\ Booted
  /\ UNCHANGED storage

PregenerateFails == phase = "boot" /\ ~Acme.domains /\ Die("dead")

\* startSTAgent has started the tunnels of the configuration.
Started ==
  /\ phase = "start" /\ reading = None
  /\ phase' = "up"
  /\ UNCHANGED <<settings, storage, process, tunnels>>

\* The process is killed, or another part of it calls log.Fatal.
Crash == phase \notin Ended /\ Die("dead")

Respawn ==
  /\ phase \in Ended
  /\ phase' = "boot"
  /\ settings' \in Settings
  /\ UNCHANGED <<storage, process, tunnels>>

-----------------------------------------------------------------------------
(***************************************************************************)
(* Setup and Stop of the tunnels, at boot or by the config watcher.        *)
(***************************************************************************)

\* The goroutine is not in the middle of GetCertificatePEM.
Ready == phase \in {"start", "up"} /\ reading = None

\* buildXrayInstanceCfg without certmagic: the bytes of the self-signed pair.
SetupXraySelfSigned ==
  /\ Ready /\ ~magic /\ xray = Off
  /\ InitTlsCfg
  /\ xray' = Both(bytes')
  /\ torn' = FALSE
  /\ UNCHANGED <<phase, settings, storage, reading, dynamic>>

\* Mutant of LoadCert for a reload that sets the new xray up before it stops the
\* one that runs.
LoadCertBeforeStop ==
  /\ Ready /\ magic
  /\ disk.cert # None
  /\ reading' = disk.cert
  /\ torn' = (pending # None)
  /\ UNCHANGED <<phase, settings, storage, process, xray, dynamic>>

\* GetCertificatePEM loads the certificate ...
LoadCert ==
  /\ Ready /\ magic /\ xray = Off
  /\ disk.cert # None
  /\ reading' = disk.cert
  /\ torn' = (pending # None)
  /\ UNCHANGED <<phase, settings, storage, process, xray, dynamic>>

\* Mutant of LoadKey that hands out the key of the self-signed pair.
LoadKeyDefault ==
  /\ reading # None
  /\ xray' = [cert |-> reading, key |-> bytes]
  /\ reading' = None
  /\ UNCHANGED <<phase, settings, storage, process, torn, dynamic>>

\* ... then the key, and xray keeps both.
LoadKey ==
  /\ reading # None /\ disk.key # None
  /\ xray' = [cert |-> reading, key |-> disk.key]
  /\ reading' = None
  /\ UNCHANGED <<phase, settings, storage, process, torn, dynamic>>

StopXray ==
  /\ phase = "up" /\ Ready /\ xray # Off
  /\ xray' = Off /\ torn' = FALSE
  /\ UNCHANGED <<phase, settings, storage, process, reading, dynamic>>

\* Mutant of SetupDynamic that relies on the pair made at boot.
SetupDynamicOnly ==
  /\ Ready /\ ~dynamic
  /\ dynamic' = TRUE
  /\ UNCHANGED <<phase, settings, storage, process, reading, xray, torn>>

\* Setup of anytls and of hysteria.
SetupDynamic ==
  /\ Ready /\ ~dynamic
  /\ InitTlsCfg
  /\ dynamic' = TRUE
  /\ UNCHANGED <<phase, settings, storage, reading, xray, torn>>

StopDynamic ==
  /\ phase = "up" /\ Ready /\ dynamic
  /\ dynamic' = FALSE
  /\ UNCHANGED <<phase, settings, storage, process, reading, xray, torn>>

\* InitTlsCfg, a load from storage or anything after it fails: fatal at boot,
\* logged by the watcher, which tries again at the next tick.
SetupFails ==
  /\ phase \in {"start", "up"}
  /\ xray = Off \/ ~dynamic \/ reading # None
  /\ IF phase = "start"
       THEN Die("dead")
       ELSE /\ InitTlsCfg \/ InitTlsCfgFails
            /\ reading' = None
            /\ UNCHANGED <<phase, settings, storage, xray, torn, dynamic>>

-----------------------------------------------------------------------------
Boot == AcmeObtained \/ AcmeFails \/ AcmeRejected \/ Pregenerate \/ PregenerateFails

Watcher ==
  \/ Started \/ SetupXraySelfSigned \/ LoadCert \/ LoadKey \/ StopXray
  \/ SetupDynamic \/ StopDynamic \/ SetupFails

Next == Issue \/ Issued \/ Boot \/ Watcher \/ Crash \/ Respawn

\* The goroutine runs, ManageSync has a timeout of two minutes, a load one of
\* half a minute, and systemd starts a dead agent again.
Spec ==
  /\ Init /\ [][Next]_vars
  /\ WF_vars(Boot) /\ WF_vars(LoadKey \/ SetupFails) /\ WF_vars(Started) /\ WF_vars(Respawn)

-----------------------------------------------------------------------------
(***************************************************************************)
(* Properties.                                                             *)
(***************************************************************************)

\* GetCertificate never meets a nil DefaultTLSConfig: a tunnel that runs has
\* ACME or the self-signed pair behind it, although after a fallback inside
\* InitCertMagic nobody has called InitTlsCfg at boot, and although action
\* ignores an error of it.
HandshakesHaveCertificate == dynamic => magic \/ default # None

\* All tunnels on the self-signed certificate have the same one, through
\* failed generations and restarts of tunnels: the bytes that xray was given
\* are those GetCertificate serves.
SelfSignedIsShared == ~magic /\ xray # Off => xray = Both(default)

\* "Default: false (startup fails on ACME error)": an agent with domains runs
\* on a self-signed certificate only if its file or its flags allow for it.
NoSilentFallback ==
  phase \in {"start", "up"} /\ ~magic /\ (settings.file.domains \/ settings.flags.domains)
    => settings.file.fallback \/ settings.flags.fallback

\* What GetCertificatePEM gives to xray is the certificate and the key of one
\* pair, also after crashes of an agent whose certmagic was writing; unless a
\* renewal was on its way while the two files were loaded.
SnapshotIsAPair == xray # Off /\ ~torn => xray.cert = xray.key

\* "if true and ACME fails, log a warning and continue with self-signed": an
\* agent with Fallback comes up whatever ACME does, if nothing else ends it.
FallbackBoots ==
  \/ []<>(phase = "dead")
  \/ []<>(phase = "refused" /\ ~Acme.fallback)
  \/ <>(phase = "up")
=============================================================================
