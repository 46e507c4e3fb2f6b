---------------------------- MODULE MCSupervisor ----------------------------
(* Values of Supervisor's constants for TLC. *)
EXTENDS Supervisor

CONSTANTS a, b, api, x

\* The whole table, and hysteria alone.
AllTunnels == <<"xray", "hysteria", "anytls">>
OnlyHysteria == <<"hysteria">>

\* xray may get a second inbound and lose it, and has its API at one address;
\* hysteria may move.
Listens ==
  [t \in {"xray", "hysteria", "anytls"} |->
     CASE t = "xray"     -> {{a}, {a, b}}
       [] t = "hysteria" -> {{a}, {b}}
       [] t = "anytls"   -> {{a}}]

Opts ==
  [t \in {"xray", "hysteria", "anytls"} |->
     CASE t = "xray"     -> {api}
       [] t = "hysteria" -> {x}
       [] t = "anytls"   -> {NoScheme, BadScheme, x}]
=============================================================================
