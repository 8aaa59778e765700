-------------------------- MODULE MCRuntimeSupervisor --------------------------
(* Instances of RuntimeSupervisor for TLC. *)
EXTENDS RuntimeSupervisor

CONSTANTS direct, corporate, small, large

MCUpstreams == {direct, corporate}
MCDirect == direct
MCRules == {small, large}

(* The program started with everything on. *)
MCInitialConfigs ==
  {[storage |-> TRUE, decrypt |-> TRUE, rules |-> large, upstream |-> corporate,
    access |-> "lan"]}

Zero(kind) ==
  [kind |-> kind, enabled |-> FALSE, rules |-> small, upstream |-> direct,
   access |-> "loopback"]

AccessCommands == {[Zero("access") EXCEPT !.access = m] : m \in AccessModes}
RulesCommands == {[Zero("rules") EXCEPT !.rules = r] : r \in CaptureRules}
UpstreamCommands == {[Zero("upstream") EXCEPT !.upstream = u] : u \in Upstreams}
SwitchCommands ==
  {[Zero(k) EXCEPT !.enabled = on] : k \in {"storage", "decrypt", "recording"},
                                     on \in BOOLEAN}
ProxyCommands == {Zero("start"), Zero("stop")}

MCCommands ==
  AccessCommands \cup RulesCommands \cup UpstreamCommands \cup SwitchCommands
  \cup ProxyCommands

(* The settings whose handlers write their store a second time. *)
MCSettingsCommands == AccessCommands \cup RulesCommands \cup UpstreamCommands
MCListenerCommands == AccessCommands \cup ProxyCommands
=============================================================================
