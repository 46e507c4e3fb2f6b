----------------------------- MODULE Supervisor -----------------------------
(***************************************************************************)
(* startSTAgent (cli/start.go): it starts the tunnels of the configuration *)
(* and then, tick by tick, loads the configuration again and stops, starts *)
(* or restarts tunnels.  A tunnel is an object with Setup, Start and Stop  *)
(* (tunnel/*/server.go).  What counts here is which sockets it holds, and  *)
(* which it leaves behind when Setup or Start fails half way: the loop     *)
(* drops such an object without calling Stop.                              *)
(*                                                                         *)
(* The handling of one tunnel is one step: nothing else in the program     *)
(* reads `instances`.  The traffic statistics server of hysteria binds its *)
(* port in a goroutine of its own, and ends the process when it cannot.    *)
(***************************************************************************)
EXTENDS Naturals, Sequences

CONSTANTS
  Order,       \* the tunnels, in the order of the table `tunnels`
  ListenSets,  \* the sets of <<tag, address>> pairs a tunnel may be told to serve
  Options,     \* values of the options of a tunnel
  NoScheme,    \* an empty padding_scheme
  BadScheme,   \* one that UpdatePaddingScheme refuses
  Default,     \* the padding scheme built into anytls
  Off          \* the tunnel is not configured, or instances[i] == nil

Tunnels == {Order[n] : n \in 1..Len(Order)}

\* The addresses the tunnels may bind.  The options of xray are the address of
\* its gRPC API.
Sockets == (UNION UNION {ListenSets[t] : t \in Tunnels}) \cup Options["xray"]

\* The options: for hysteria what NeedReload compares besides the address, for
\* anytls the padding scheme, for xray the API address, which NeedReload ignores.
TunnelConfig(t) == [listen : ListenSets[t], opts : Options[t]]
Entry(t) == TunnelConfig(t) \cup {Off}

Schemes == Options["anytls"] \ {NoScheme, BadScheme}

ASSUME SupervisorAssumption ==
  /\ Order \in Seq({"xray", "hysteria", "anytls"}) /\ Order # <<>>
  /\ \A t \in Tunnels : Off \notin TunnelConfig(t)
  /\ \A t \in Tunnels : {} \notin ListenSets[t]
  /\ Default \notin Schemes

VARIABLES
  phase,    \* "boot", "up", or "dead" until systemd starts the agent again
  cfg,      \* the configuration loaded last
  at,       \* where the loop over `tunnels` is, 0 outside of it
  server,   \* what the tunnel object in instances[i] was configured with
  ghost,    \* sockets held by objects that are not in `instances`
  stats,    \* 127.0.0.1:8122: is it bound, and goroutines about to bind it
  padding,  \* the process-wide padding scheme of anytls
  faulty    \* history: a Setup or Start has failed since the process started

vars == <<phase, cfg, at, server, ghost, stats, padding, faulty>>

TypeOK ==
  /\ phase \in {"boot", "up", "dead"}
  /\ at \in 0..Len(Order)
  /\ \A t \in Tunnels : cfg[t] \in Entry(t) /\ server[t] \in Entry(t)
  /\ \A t \in Tunnels : ghost[t] \subseteq Sockets
  /\ stats \in [bound : BOOLEAN, pending : 0..2]
  /\ padding \in Schemes \cup {Default}
  /\ faulty \in BOOLEAN
  /\ phase = "boot" => at > 0
  /\ phase = "dead" => at = 0

Nothing == [t \in Tunnels |-> Off]
NoGhosts == [t \in Tunnels |-> {}]
Unbound == [bound |-> FALSE, pending |-> 0]

IsConfig(c) == DOMAIN c = Tunnels /\ \A t \in Tunnels : c[t] \in Entry(t)

\* Every configuration file there is.
Configurations ==
  {c \in [Tunnels -> UNION {Entry(t) : t \in Tunnels}] : IsConfig(c)}

\* The agent starts with some configuration.
Init ==
  /\ phase = "boot" /\ at = 1
  /\ cfg \in Configurations
  /\ server = Nothing
  /\ ghost = NoGhosts
  /\ stats = Unbound
  /\ padding = Default
  /\ faulty = FALSE

-----------------------------------------------------------------------------
(***************************************************************************)
(* Setup, Start and Stop of a tunnel.                                      *)
(***************************************************************************)

Handled == Order[at]

\* Mutant of Advance that runs over the end of the table.
AdvanceTooFar ==
  /\ at' = at + 1
  /\ phase' = IF at > Len(Order) THEN "up" ELSE phase

\* The loop goes on with the next tunnel, or ends.
Advance ==
  /\ at' = IF at = Len(Order) THEN 0 ELSE at + 1
  /\ phase' = IF at = Len(Order) THEN "up" ELSE phase

\* The addresses that a start must have for itself.  The inbounds of xray share
\* theirs, with SO_REUSEPORT; its API does not, and instance.Start fails without
\* it.  anytls closes its listener when Start fails.
Claims(t, c) ==
  CASE t = "xray"     -> {c.opts}
    [] t = "hysteria" -> c.listen
    [] t = "anytls"   -> {}

\* One of them is held by an object the loop has forgotten.
Blocked(t, c) == Claims(t, c) \cap ghost[t] # {}

\* fillTrafficLogger launches runTrafficStatsServer.  Two pending goroutines
\* stand for any larger number.
LaunchStats ==
  stats' = [stats EXCEPT !.pending = IF @ = 2 THEN 2 ELSE @ + 1]

\* UpdatePaddingScheme keeps the scheme it has when it refuses the new one.
SchemeAfter(s) == IF s \in Schemes THEN s ELSE padding

SetupPadding(t, c) == padding' = IF t = "anytls" THEN SchemeAfter(c.opts) ELSE padding
SetupStats(t) == IF t = "hysteria" THEN LaunchStats ELSE UNCHANGED stats

Starts(t, c) ==
  /\ ~Blocked(t, c)
  /\ server' = [server EXCEPT ![t] = c]
  /\ SetupStats(t)
  /\ SetupPadding(t, c)
  /\ UNCHANGED <<ghost, faulty>>

\* What an error of Setup or Start leaves behind, by tunnel.  xray: nothing,
\* the listeners instance.Start had opened when it failed, or the whole instance,
\* its API included, when the first sync of the user pool failed.
XrayLeaves(c) ==
  /\ \E left \in SUBSET (c.listen \cup {c.opts}) :
       ghost' = [ghost EXCEPT !["xray"] = @ \cup left]
  /\ UNCHANGED <<stats, padding>>

\* hysteria: fillConn is the first to fill the configuration and binds the
\* UDP socket; after fillTrafficLogger the statistics server is on its way.
HysteriaLeaves(c) ==
  /\ \/ UNCHANGED <<ghost, stats>>
     \/ /\ ghost' = [ghost EXCEPT !["hysteria"] = @ \cup c.listen]
        /\ UNCHANGED stats \/ LaunchStats
  /\ UNCHANGED padding

\* anytls: nothing but the padding scheme.
AnytlsLeaves(c) ==
  /\ padding' \in {padding, SchemeAfter(c.opts)}
  /\ UNCHANGED <<ghost, stats>>

Leaves(t, c) ==
  \/ t = "xray" /\ XrayLeaves(c)
  \/ t = "hysteria" /\ HysteriaLeaves(c)
  \/ t = "anytls" /\ AnytlsLeaves(c)

\* startTunnel returns nil after an error of Setup or Start ...
StartFails(t, c) ==
  /\ ~Blocked(t, c)
  /\ server' = [server EXCEPT ![t] = Off]
  /\ Leaves(t, c)
  /\ faulty' = TRUE

\* ... and always does when an address cannot be bound.  The inbounds that xray
\* opened before it came to its API stay behind as well.
StartBlocked(t, c) ==
  /\ Blocked(t, c)
  /\ server' = [server EXCEPT ![t] = Off]
  /\ \E left \in SUBSET (IF t = "xray" THEN c.listen ELSE {}) :
       ghost' = [ghost EXCEPT ![t] = @ \cup left]
  /\ UNCHANGED <<stats, padding, faulty>>

-----------------------------------------------------------------------------
(***************************************************************************)
(* The start of the process.                                               *)
(***************************************************************************)

Booting == phase = "boot"

BootSkips ==
  /\ Booting /\ cfg[Handled] = Off
  /\ Advance
  /\ UNCHANGED <<cfg, server, ghost, stats, padding, faulty>>

BootStarts ==
  /\ Booting /\ cfg[Handled] # Off
  /\ Starts(Handled, cfg[Handled])
  /\ Advance
  /\ UNCHANGED cfg

\* log.Fatal: everything the process holds is gone.
Die ==
  /\ phase' = "dead"
  /\ at' = 0
  /\ server' = Nothing
  /\ ghost' = NoGhosts
  /\ stats' = Unbound
  /\ padding' = Default
  /\ faulty' = FALSE
  /\ UNCHANGED cfg

BootFails == Booting /\ cfg[Handled] # Off /\ Die

\* "Restart=always": the service manager runs the agent again.
Respawn ==
  /\ phase = "dead"
  /\ phase' = "boot" /\ at' = 1
  /\ cfg' \in Configurations
  /\ UNCHANGED <<server, ghost, stats, padding, faulty>>

-----------------------------------------------------------------------------
(***************************************************************************)
(* The config watcher.                                                     *)
(***************************************************************************)

\* A tick loads a configuration.  (One that cannot be loaded changes nothing.)
Load ==
  /\ phase = "up" /\ at = 0
  /\ cfg' \in Configurations
  /\ at' = 1
  /\ UNCHANGED <<phase, server, ghost, stats, padding, faulty>>

InLoop == phase = "up" /\ at > 0
Was == server[Handled]
New == cfg[Handled]

\* Mutant of SkipTunnel that skips whatever is not running.
SkipTunnelNotRunning ==
  /\ InLoop /\ Was = Off
  /\ Advance
  /\ UNCHANGED <<cfg, server, ghost, stats, padding, faulty>>

SkipTunnel ==
  /\ InLoop /\ Was = Off /\ New = Off
  /\ Advance
  /\ UNCHANGED <<cfg, server, ghost, stats, padding, faulty>>

\* Stop closes the sockets of the object.
StopTunnel ==
  /\ InLoop /\ Was # Off /\ New = Off
  /\ server' = [server EXCEPT ![Handled] = Off]
  /\ Advance
  /\ UNCHANGED <<cfg, ghost, stats, padding, faulty>>

\* Mutant of ListenChanged that is content with one common inbound.
ListenChangedAll(t, was, new) == new.listen \cap was.listen = {}

\* xray: an inbound that is new or has moved.  The others: the address.
ListenChanged(t, was, new) == ~(new.listen \subseteq was.listen)

NeedReload(t, was, new) ==
  \/ ListenChanged(t, was, new)
  \/ t = "hysteria" /\ new.opts # was.opts

\* The tunnel is new, or Stop runs first and closes what it has.
StartsNow == Was # Off => NeedReload(Handled, Was, New)

StartTunnel ==
  /\ InLoop /\ New # Off /\ StartsNow
  /\ Starts(Handled, New) \/ StartBlocked(Handled, New)
  /\ Advance
  /\ UNCHANGED cfg

StartTunnelFails ==
  /\ InLoop /\ New # Off /\ StartsNow
  /\ StartFails(Handled, New)
  /\ Advance
  /\ UNCHANGED cfg

\* Mutant of UpdatePadding that notes the new scheme without applying it.
UpdatePaddingNoted ==
  /\ server' = [server EXCEPT !["anytls"].opts = New.opts]
  /\ UNCHANGED padding

\* NeedReload of anytls applies a new padding scheme.  A refused one is
\* forgotten; an empty one is noted, and the scheme in use stays in use.
UpdatePadding ==
  \/ /\ New.opts = BadScheme
     /\ UNCHANGED <<server, padding>>
  \/ /\ New.opts # BadScheme
     /\ server' = [server EXCEPT !["anytls"].opts = New.opts]
     /\ padding' = SchemeAfter(New.opts)

\* The tunnel goes on as it is, whatever else has changed in its entry.
KeepTunnel ==
  /\ InLoop /\ Was # Off /\ New # Off /\ ~NeedReload(Handled, Was, New)
  /\ IF Handled = "anytls" /\ New.opts # Was.opts
       THEN UpdatePadding
       ELSE UNCHANGED <<server, padding>>
  /\ Advance
  /\ UNCHANGED <<cfg, ghost, stats, faulty>>

-----------------------------------------------------------------------------
(***************************************************************************)
(* runTrafficStatsServer.                                                  *)
(***************************************************************************)

BindStats ==
  /\ stats.pending > 0 /\ ~stats.bound
  /\ stats' = [bound |-> TRUE, pending |-> stats.pending - 1]
  /\ UNCHANGED <<phase, cfg, at, server, ghost, padding, faulty>>

\* Nobody ever closes the first one, so the second one fails, fatally.
BindStatsFails == stats.pending > 0 /\ stats.bound /\ Die

-----------------------------------------------------------------------------
Fault == BootFails \/ StartTunnelFails

Loop ==
  \/ BootSkips \/ BootStarts \/ BootFails
  \/ SkipTunnel \/ StopTunnel \/ StartTunnel \/ StartTunnelFails \/ KeepTunnel

Stats == BindStats \/ BindStatsFails

Next == Loop \/ Load \/ Stats \/ Respawn

\* Goroutines are scheduled, the ticker fires and finds a configuration that
\* can be loaded at some point, and systemd restarts what has exited.
Spec ==
  /\ Init /\ [][Next]_vars
  /\ WF_vars(Loop) /\ WF_vars(Load) /\ WF_vars(Stats) /\ WF_vars(Respawn)

-----------------------------------------------------------------------------
(***************************************************************************)
(* Properties.                                                             *)
(***************************************************************************)

\* The tunnel runs as the configuration wants it, as far as a running tunnel
\* follows the configuration at all.  (That is the object in `instances`: a
\* forgotten xray may share an inbound's port with it.)
Serves(t) ==
  IF cfg[t] = Off
    THEN server[t] = Off
    ELSE /\ server[t] # Off
         /\ cfg[t].listen \subseteq server[t].listen
         /\ t = "hysteria" => server[t].opts = cfg[t].opts

\* Between two ticks, and as long as no Setup or Start has failed, every
\* tunnel serves all addresses of the configuration loaded last, hysteria
\* with its options too, and those that are gone from it are stopped: what
\* the three NeedReload compare is enough, however many edits were taken in.
ConfiguredIsServed ==
  phase = "up" /\ at = 0 /\ ~faulty => \A t \in Tunnels : Serves(t)

\* The scheme that anytls pads with is the one its tunnel object believes to
\* have, through reloads, refused schemes and restarts, unless that is none
\* or one that was refused.
PaddingApplied ==
  \A t \in Tunnels \cap {"anytls"} :
    server[t] # Off /\ server[t].opts \in Schemes => padding = server[t].opts

\* A tunnel whose start fails is tried again every tick: once configurations
\* stop changing and errors stop, each tunnel runs as configured for good.
\* The exceptions are a hysteria whose UDP address, and an xray whose API address,
\* is held by an earlier object of the tunnel that failed to start, as after a
\* failed first sync of xray: no tick will ever free it, only another address in
\* the configuration or a restart of the process helps.
Stuck(t) == cfg[t] # Off /\ Blocked(t, cfg[t])

Edit == (Load \/ Respawn) /\ cfg' # cfg

Recovers ==
  \/ []<><<Fault \/ Edit>>_vars
  \/ \A t \in Tunnels : <>[](Serves(t) \/ Stuck(t))

\* While nothing fails to start, a reload does not end the agent: the code
\* logs "find listen changed reload hysteria server now..." and means to go
\* on with the tunnel, and with the other ones.
ReloadSurvives == [][phase = "up" /\ ~faulty => phase' # "dead"]_vars
=============================================================================
