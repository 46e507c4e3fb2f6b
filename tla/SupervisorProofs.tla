-------------------------- MODULE SupervisorProofs --------------------------
(***************************************************************************)
(* The loop of Supervisor leaves every tunnel as configured, for any table *)
(* of tunnels, addresses and options.                                      *)
(***************************************************************************)
EXTENDS Supervisor, TLAPS

Maps ==
  /\ server = [t \in Tunnels |-> server[t]]
  /\ ghost = [t \in Tunnels |-> ghost[t]]

\* Only a failed start leaves sockets behind.
GhostsAreFaults == ~faulty => \A t \in Tunnels : ghost[t] = {}

\* At boot a tunnel has not been started, or with the configuration at hand.
BootServer == phase = "boot" => \A t \in Tunnels : server[t] \in {Off, cfg[t]}

\* The loop has been at tunnel t, or there is none.
Passed(t) == phase # "dead" /\ (at = 0 \/ \E n \in 1..(at - 1) : Order[n] = t)

\* What the loop has been at runs as configured.
PassedIsServed == ~faulty => \A t \in Tunnels : Passed(t) => Serves(t)

\* A dead process holds nothing.
DeadIsClean ==
  phase = "dead" =>
    /\ server = Nothing /\ ghost = NoGhosts /\ stats = Unbound
    /\ padding = Default /\ faulty = FALSE

Inv ==
  /\ TypeOK /\ Maps /\ GhostsAreFaults /\ BootServer /\ PassedIsServed
  /\ PaddingApplied /\ DeadIsClean

LEMMA OrderTypes ==
  /\ Len(Order) \in Nat \ {0}
  /\ Tunnels \subseteq {"xray", "hysteria", "anytls"}
  /\ \A n \in 1..Len(Order) : Order[n] \in Tunnels
  /\ \A t \in Tunnels : Off \in Entry(t) /\ ListenSets[t] \subseteq SUBSET Sockets
<1>1. Order \in Seq({"xray", "hysteria", "anytls"}) /\ Order # <<>>
  BY SupervisorAssumption
<1>2. \A n \in 1..Len(Order) : Order[n] \in {"xray", "hysteria", "anytls"}
  BY <1>1
<1>3. Len(Order) \in Nat \ {0}
  BY <1>1
<1>4. \A t \in Tunnels : ListenSets[t] \subseteq SUBSET Sockets
  BY DEF Sockets
<1> QED
  BY <1>2, <1>3, <1>4 DEF Tunnels, Entry

LEMMA ConfigType ==
  ASSUME NEW c \in Configurations
  PROVE  \A t \in Tunnels : c[t] \in Entry(t)
BY DEF Configurations, IsConfig

\* A process with nothing running.
LEMMA FreshInv ==
  ASSUME server' = Nothing, ghost' = NoGhosts, stats' = Unbound, padding' = Default,
         faulty' = FALSE, \A t \in Tunnels : cfg'[t] \in Entry(t),
         (phase' = "boot" /\ at' = 1) \/ (phase' = "dead" /\ at' = 0)
  PROVE  Inv'
<1>1. TypeOK'
  <2>1. /\ phase' \in {"boot", "up", "dead"} /\ at' \in 0..Len(Order)
        /\ phase' = "boot" => at' > 0
        /\ phase' = "dead" => at' = 0
    BY OrderTypes
  <2>2. \A t \in Tunnels : server'[t] \in Entry(t) /\ ghost'[t] = {}
    BY OrderTypes DEF Nothing, NoGhosts
  <2>3. stats' \in [bound : BOOLEAN, pending : 0..2]
    BY DEF Unbound
  <2> QED
    BY <2>1, <2>2, <2>3 DEF TypeOK
<1>2. Maps' /\ GhostsAreFaults' /\ BootServer' /\ PaddingApplied' /\ DeadIsClean'
  BY DEF Maps, GhostsAreFaults, BootServer, PaddingApplied, Nothing, NoGhosts, DeadIsClean
<1>3. PassedIsServed'
  BY DEF PassedIsServed, Passed
<1> QED
  BY <1>1, <1>2, <1>3 DEF Inv

LEMMA InitInv == Init => Inv
<1> SUFFICES ASSUME Init PROVE Inv
  OBVIOUS
<1>1. \A t \in Tunnels : cfg[t] \in Entry(t)
  BY ConfigType DEF Init
<1>2. TypeOK
  <2>1. \A t \in Tunnels : server[t] \in Entry(t) /\ ghost[t] = {}
    BY OrderTypes DEF Init, Nothing, NoGhosts
  <2>2. at \in 0..Len(Order)
    BY OrderTypes DEF Init
  <2>3. stats \in [bound : BOOLEAN, pending : 0..2]
    BY DEF Init, Unbound
  <2>4. /\ phase \in {"boot", "up", "dead"} /\ phase # "dead"
        /\ phase = "boot" => at > 0
    BY DEF Init
  <2>5. padding \in Schemes \cup {Default} /\ faulty \in BOOLEAN
    BY DEF Init
  <2>6. \A t \in Tunnels : ghost[t] \subseteq Sockets
    BY <2>1
  <2> QED
    BY <1>1, <2>1, <2>2, <2>3, <2>4, <2>5, <2>6 DEF TypeOK
<1>3. Maps /\ GhostsAreFaults /\ BootServer /\ PaddingApplied /\ DeadIsClean
  BY DEF Init, Maps, GhostsAreFaults, BootServer, PaddingApplied, Nothing, NoGhosts,
         DeadIsClean
<1>4. PassedIsServed
  BY DEF Init, PassedIsServed, Passed
<1> QED
  BY <1>2, <1>3, <1>4 DEF Inv

LEMMA DieInv == ASSUME Inv, Die PROVE Inv'
BY FreshInv DEF Inv, TypeOK, Die

\* What the handling of the tunnel in hand may do: leave it as configured
\* unless something has failed, and the other tunnels alone.
Handles(h) ==
  /\ at \in 1..Len(Order) /\ phase \in {"boot", "up"} /\ UNCHANGED cfg
  /\ Maps'
  /\ server'[h] \in Entry(h)
  /\ \A t \in Tunnels \ {h} : server'[t] = server[t]
  /\ \A t \in Tunnels : ghost'[t] \subseteq Sockets
  /\ stats' \in [bound : BOOLEAN, pending : 0..2]
  /\ padding' \in Schemes \cup {Default}
  /\ faulty' \in BOOLEAN /\ (faulty => faulty')
  /\ GhostsAreFaults' /\ PaddingApplied'
  /\ ~faulty' => Serves(h)'
  /\ phase = "boot" => server'[h] \in {Off, cfg[h]}

\* The loop goes on after such a step.
LEMMA AdvanceInv ==
  ASSUME Inv, NEW h, h = Handled, Handles(h), Advance PROVE Inv'
<1> USE DEF Inv, Handles
<1>1. h \in Tunnels /\ at' \in 0..Len(Order) /\ phase' \in {"boot", "up"}
  BY OrderTypes DEF Handled, Advance
<1>2. TypeOK'
  BY <1>1, OrderTypes DEF TypeOK, Advance
<1>3. BootServer'
  BY <1>1 DEF BootServer, Advance
<1>4. DeadIsClean'
  BY <1>1 DEF DeadIsClean
<1>5. PassedIsServed'
  <2> SUFFICES ASSUME ~faulty', NEW t \in Tunnels, Passed(t)' PROVE Serves(t)'
    BY DEF PassedIsServed
  <2>1. CASE t = h
    BY <2>1
  <2>2. CASE t # h
    <3>1. PICK n \in 1..Len(Order) : t = Order[n]
      BY DEF Tunnels
    <3>2. Passed(t)
      <4>1. CASE at = Len(Order)
        <5>1. n \in 1..(at - 1)
          BY <2>2, <3>1, <4>1, OrderTypes DEF Handled
        <5> QED
          BY <3>1, <5>1 DEF Passed
      <4>2. CASE at # Len(Order)
        <5>1. at' = at + 1
          BY <4>2 DEF Advance
        <5>2. PICK m \in 1..(at' - 1) : Order[m] = t
          BY <5>1 DEF Passed
        <5>3. m \in 1..(at - 1)
          BY <2>2, <5>1, <5>2 DEF Handled
        <5> QED
          BY <5>2, <5>3 DEF Passed
      <4> QED
        BY <4>1, <4>2
    <3>3. Serves(t)
      BY <3>2 DEF PassedIsServed
    <3> QED
      BY <2>2, <3>3 DEF Serves
  <2> QED
    BY <2>1, <2>2
<1> QED
  BY <1>2, <1>3, <1>4, <1>5

-----------------------------------------------------------------------------
\* Starts, whoever calls it, gives the tunnel what it was told to serve.
LEMMA StartsHandles ==
  ASSUME Inv, at \in 1..Len(Order), phase \in {"boot", "up"}, UNCHANGED cfg,
         NEW h, h = Handled, cfg[h] # Off, Starts(h, cfg[h])
  PROVE  Handles(h)
<1> USE DEF Inv, Starts
<1>1. h \in Tunnels /\ cfg[h] \in TunnelConfig(h)
  BY OrderTypes DEF Handled, TypeOK, Entry
<1>2. /\ Maps' /\ server'[h] = cfg[h]
      /\ \A t \in Tunnels \ {h} : server'[t] = server[t]
  BY <1>1 DEF Maps
<1>3. stats' \in [bound : BOOLEAN, pending : 0..2]
  BY DEF SetupStats, LaunchStats, TypeOK
<1>4. /\ padding' \in Schemes \cup {Default}
      /\ PaddingApplied'
  BY <1>1, <1>2 DEF SetupPadding, SchemeAfter, TypeOK, PaddingApplied
<1>5. Serves(h)'
  BY <1>1, <1>2 DEF Serves
<1> QED
  BY <1>1, <1>2, <1>3, <1>4, <1>5 DEF Handles, TypeOK, GhostsAreFaults

\* A failed start leaves no object, and is remembered.
LEMMA StartFailsHandles ==
  ASSUME Inv, InLoop, UNCHANGED cfg, NEW h, h = Handled, cfg[h] # Off, StartFails(h, cfg[h])
  PROVE  Handles(h)
<1> USE DEF Inv, StartFails
<1>0. at \in 1..Len(Order)
  BY OrderTypes DEF InLoop, TypeOK
<1>1. h \in Tunnels /\ cfg[h] \in TunnelConfig(h)
  <2>1. h \in Tunnels
    BY <1>0, OrderTypes DEF Handled
  <2> QED
    BY <2>1 DEF TypeOK, Entry
<1>2. /\ server' = [server EXCEPT ![h] = Off] /\ server'[h] = Off
      /\ \A t \in Tunnels \ {h} : server'[t] = server[t]
  BY <1>1 DEF Maps
<1>3. cfg[h].listen \subseteq Sockets /\ (h = "xray" => cfg[h].opts \in Sockets)
  BY <1>1, OrderTypes DEF TunnelConfig, Sockets
<1>4. /\ ghost' = [t \in Tunnels |-> ghost'[t]]
      /\ \A t \in Tunnels : ghost'[t] \subseteq Sockets
  <2>1. ghost' = ghost \/ \E left \in SUBSET Sockets : ghost' = [ghost EXCEPT ![h] = @ \cup left]
    BY <1>3 DEF Leaves, XrayLeaves, HysteriaLeaves, AnytlsLeaves
  <2> QED
    BY <1>1, <2>1 DEF Maps, TypeOK
<1>5. stats' \in [bound : BOOLEAN, pending : 0..2]
  BY DEF Leaves, XrayLeaves, HysteriaLeaves, AnytlsLeaves, LaunchStats, TypeOK
<1>6. padding' \in Schemes \cup {Default} /\ (h # "anytls" => padding' = padding)
  BY DEF Leaves, XrayLeaves, HysteriaLeaves, AnytlsLeaves, SchemeAfter, TypeOK
<1>7. PaddingApplied'
  BY <1>1, <1>2, <1>6 DEF PaddingApplied
<1>8. Maps' /\ Off \in Entry(h)
  BY <1>1, <1>2, <1>4, OrderTypes DEF Maps
<1> QED
  BY <1>0, <1>1, <1>2, <1>4, <1>5, <1>6, <1>7, <1>8
     DEF Handles, InLoop, GhostsAreFaults, TypeOK

\* A start is only ever blocked after a failed one, and may leave more behind.
LEMMA StartBlockedHandles ==
  ASSUME Inv, InLoop, UNCHANGED cfg, NEW h, h = Handled, cfg[h] # Off,
         StartBlocked(h, cfg[h])
  PROVE  Handles(h)
<1> USE DEF Inv, StartBlocked
<1>1. h \in Tunnels /\ at \in 1..Len(Order)
  BY OrderTypes DEF Handled, InLoop, TypeOK
<1>2. faulty
  BY <1>1 DEF Blocked, GhostsAreFaults, TypeOK
<1>3. cfg[h].listen \subseteq Sockets
  BY <1>1, OrderTypes DEF TypeOK, Entry, TunnelConfig
<1>4. /\ ghost' = [t \in Tunnels |-> ghost'[t]]
      /\ \A t \in Tunnels : ghost'[t] \subseteq Sockets
  <2>1. PICK left \in SUBSET Sockets : ghost' = [ghost EXCEPT ![h] = @ \cup left]
    BY <1>3
  <2> QED
    BY <1>1, <2>1 DEF Maps, TypeOK
<1>5. /\ server'[h] = Off /\ Maps' /\ Off \in Entry(h)
      /\ \A t \in Tunnels \ {h} : server'[t] = server[t]
  BY <1>1, <1>4, OrderTypes DEF Maps
<1>6. PaddingApplied'
  BY <1>1, <1>5 DEF PaddingApplied
<1> QED
  BY <1>1, <1>2, <1>4, <1>5, <1>6 DEF Handles, InLoop, GhostsAreFaults, TypeOK

\* What runs and need not be reloaded serves the new configuration.
LEMMA KeepHandles ==
  ASSUME Inv, KeepTunnel, NEW h, h = Handled
  PROVE  Handles(h)
<1> USE DEF Inv, KeepTunnel, Was, New
<1>0. at \in 1..Len(Order)
  BY OrderTypes DEF InLoop, TypeOK
<1>1. h \in Tunnels /\ server[h] \in TunnelConfig(h) /\ cfg[h] \in TunnelConfig(h)
  <2>1. h \in Tunnels
    BY <1>0, OrderTypes DEF Handled
  <2>2. server[h] # Off /\ cfg[h] # Off
    OBVIOUS
  <2> QED
    BY <2>1, <2>2 DEF TypeOK, Entry
<1>2. /\ cfg[h].listen \subseteq server[h].listen
      /\ h = "hysteria" => server[h].opts = cfg[h].opts
  BY DEF NeedReload, ListenChanged
<1>3. /\ Maps' /\ \A t \in Tunnels \ {h} : server'[t] = server[t]
      /\ server'[h] \in TunnelConfig(h) /\ server'[h].listen = server[h].listen
      /\ h # "anytls" => server'[h] = server[h] /\ padding' = padding
      /\ padding' \in Schemes \cup {Default}
      /\ PaddingApplied'
  <2>1. CASE UNCHANGED <<server, padding>>
    BY <1>1, <2>1 DEF Maps, TypeOK, PaddingApplied
  <2>2. CASE /\ h = "anytls" /\ padding' = SchemeAfter(cfg[h].opts)
             /\ server' = [server EXCEPT !["anytls"].opts = cfg[h].opts]
    <3>1. /\ server'[h] = [server[h] EXCEPT !.opts = cfg[h].opts]
          /\ \A t \in Tunnels \ {h} : server'[t] = server[t]
          /\ server' = [t \in Tunnels |-> server'[t]]
      BY <1>1, <2>2 DEF Maps
    <3>2. /\ server'[h] \in TunnelConfig(h) /\ server'[h].listen = server[h].listen
          /\ server'[h].opts = cfg[h].opts
      BY <1>1, <3>1 DEF TunnelConfig
    <3>3. padding' \in Schemes \cup {Default} /\ PaddingApplied'
      BY <1>1, <2>2, <3>2 DEF SchemeAfter, TypeOK, PaddingApplied
    <3> QED
      BY <2>2, <3>1, <3>2, <3>3 DEF Maps
  <2> QED
    BY <2>1, <2>2 DEF UpdatePadding
<1>4. Serves(h)'
  BY <1>1, <1>2, <1>3, SupervisorAssumption DEF Serves
<1> QED
  BY <1>0, <1>1, <1>3, <1>4 DEF Handles, InLoop, Entry, GhostsAreFaults, TypeOK

\* The tunnel is left off, or stopped.
LEMMA OffHandles ==
  ASSUME Inv, BootSkips \/ SkipTunnel \/ StopTunnel, NEW h, h = Handled
  PROVE  Handles(h)
<1> USE DEF Inv, BootSkips, SkipTunnel, StopTunnel, Was, New
<1>1. h \in Tunnels /\ at \in 1..Len(Order) /\ phase \in {"boot", "up"} /\ cfg[h] = Off
  BY OrderTypes DEF Handled, InLoop, Booting, TypeOK
<1>2. /\ server'[h] = Off /\ Maps' /\ Off \in Entry(h)
      /\ \A t \in Tunnels \ {h} : server'[t] = server[t]
  BY <1>1, OrderTypes DEF Maps, BootServer, Booting
<1>3. PaddingApplied' /\ Serves(h)'
  BY <1>1, <1>2 DEF PaddingApplied, Serves
<1> QED
  BY <1>1, <1>2, <1>3 DEF Handles, GhostsAreFaults, TypeOK

LEMMA LoopStep == ASSUME Inv, Loop PROVE Inv'
<1> DEFINE h == Handled
<1>1. CASE BootSkips \/ SkipTunnel \/ StopTunnel
  BY <1>1, OffHandles, AdvanceInv DEF BootSkips, SkipTunnel, StopTunnel
<1>2. CASE BootStarts
  BY <1>2, StartsHandles, AdvanceInv, OrderTypes DEF BootStarts, Booting, Inv, TypeOK
<1>3. CASE BootFails
  BY <1>3, DieInv DEF BootFails
<1>4. CASE StartTunnel
  BY <1>4, StartsHandles, StartBlockedHandles, AdvanceInv, OrderTypes
     DEF StartTunnel, InLoop, New, Inv, TypeOK
<1>5. CASE StartTunnelFails
  BY <1>5, StartFailsHandles, AdvanceInv DEF StartTunnelFails, New
<1>6. CASE KeepTunnel
  BY <1>6, KeepHandles, AdvanceInv DEF KeepTunnel
<1> QED
  BY <1>1, <1>2, <1>3, <1>4, <1>5, <1>6 DEF Loop

\* The steps outside of the loop.
LEMMA OtherStep == ASSUME Inv, Load \/ Stats \/ Respawn PROVE Inv'
<1>1. CASE Load
  <2>1. \A t \in Tunnels : cfg'[t] \in Entry(t)
    BY <1>1, ConfigType DEF Load
  <2> QED
    BY <1>1, <2>1, OrderTypes
       DEF Load, Inv, TypeOK, Maps, GhostsAreFaults, BootServer, PassedIsServed, Passed,
           PaddingApplied, DeadIsClean
<1>2. CASE BindStats
  <2>1. stats' \in [bound : BOOLEAN, pending : 0..2]
    BY <1>2 DEF BindStats, Inv, TypeOK
  <2> QED
    BY <1>2, <2>1
       DEF BindStats, Inv, TypeOK, Maps, GhostsAreFaults, BootServer, PassedIsServed,
           Passed, Serves, PaddingApplied, DeadIsClean, Unbound
<1>3. CASE BindStatsFails
  BY <1>3, DieInv DEF BindStatsFails
<1>4. CASE Respawn
  <2>1. \A t \in Tunnels : cfg'[t] \in Entry(t)
    BY <1>4, ConfigType DEF Respawn
  <2>2. /\ server' = Nothing /\ ghost' = NoGhosts /\ stats' = Unbound
        /\ padding' = Default /\ faulty' = FALSE
    BY <1>4 DEF Respawn, Inv, DeadIsClean
  <2> QED
    BY <1>4, <2>1, <2>2, FreshInv DEF Respawn
<1> QED
  BY <1>1, <1>2, <1>3, <1>4 DEF Stats

LEMMA StepInv == Inv /\ [Next]_vars => Inv'
<1> SUFFICES ASSUME Inv, [Next]_vars PROVE Inv'
  OBVIOUS
<1>1. CASE Loop
  BY <1>1, LoopStep
<1>2. CASE Load \/ Stats \/ Respawn
  BY <1>2, OtherStep
<1>3. CASE UNCHANGED vars
  BY <1>3 DEF vars, Inv, TypeOK, Maps, GhostsAreFaults, BootServer, PassedIsServed, Passed,
              Serves, PaddingApplied, DeadIsClean
<1> QED
  BY <1>1, <1>2, <1>3 DEF Next

\* Everything above holds in every behaviour.
LEMMA Invariance == Spec => []Inv
BY InitInv, StepInv, PTL DEF Spec

-----------------------------------------------------------------------------
\* The variables keep their types: the loop never leaves the table of tunnels
\* and holds at most the configuration of the tunnel at hand.
THEOREM TypeCorrect == Spec => []TypeOK
<1>1. Inv => TypeOK
  BY DEF Inv
<1> QED
  BY <1>1, Invariance, PTL

\* Between two ticks, as long as no Setup or Start has failed, what the three
\* NeedReload compare is enough: every tunnel serves the addresses of the
\* configuration loaded last, and those gone from it are stopped.
THEOREM ConfiguredServed == Spec => []ConfiguredIsServed
<1>1. Inv => ConfiguredIsServed
  BY DEF Inv, PassedIsServed, Passed, ConfiguredIsServed
<1> QED
  BY <1>1, Invariance, PTL

\* The process-wide scheme of anytls is the one its tunnel object believes to
\* have, whatever failed starts, refused schemes and reloads came before.
THEOREM PaddingIsApplied == Spec => []PaddingApplied
<1>1. Inv => PaddingApplied
  BY DEF Inv
<1> QED
  BY <1>1, Invariance, PTL
=============================================================================
