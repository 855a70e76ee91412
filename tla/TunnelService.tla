----------------------------- MODULE TunnelService -----------------------------
(***************************************************************************)
(* The process of the VRM tunnel (dbus-vrm-tunnel.py, run_tunnel and       *)
(* DnatRule in vrm_tunnel.py) and the kernel's list of DNAT rules, which   *)
(* outlives it.  Who starts and signals the process is not said here: see  *)
(* module Deployment.                                                      *)
(*                                                                         *)
(* A rule is known by where it sends the traffic: all rules match          *)
(* AdvertiseIp:80, and the first of them in the list decides.              *)
(***************************************************************************)
EXTENDS Naturals, Sequences, SequencesExt

CONSTANTS
    Dests,          \* AdvertiseIp:ProxyPort of the configs that enable it
    IptablesFails   \* whether iptables may fail to change the table; -C is
                    \* taken to answer truly

ASSUME TunnelAssumption == IptablesFails \in BOOLEAN

VARIABLES
    conf,      \* [VRM_TUNNEL] as it resolves: off, invalid or a destination
    tunnel,    \* the process: dead, or the line run_tunnel is at
    dest,      \* the destination of its plan
    owned,     \* DnatRule.added
    chain,     \* the OUTPUT rules of the nat table, in their order
    orphans    \* history: rules whose process died without removing them

processVars == <<tunnel, dest, owned>>
tunnelVars  == <<conf, processVars, chain, orphans>>

Configs == Dests \cup {"off", "invalid"}
Lines   == {"dead", "idle", "add", "handlers", "waiting", "remove"}

ASSUME DestsAssumption == Dests \cap {"off", "invalid"} = {}

IptablesResults == IF IptablesFails THEN BOOLEAN ELSE {TRUE}

-------------------------------------------------------------------------------
\* main(): a config that is off idles; one that is enabled starts the proxy
\* thread.  An invalid config ends the process at once: nothing has changed.

\* Mutant: whatever is not off is taken as it stands.
EnabledUnchecked(c) == c # "off"

Enabled(c) == c \in Dests

TunnelStarts ==
    /\ tunnel = "dead"
    /\ \/ /\ conf = "off"
          /\ tunnel' = "idle"
          /\ UNCHANGED dest
       \/ /\ Enabled(conf)
          /\ tunnel' = "add"
          /\ dest' = conf
    /\ owned' = FALSE
    /\ UNCHANGED <<conf, chain, orphans>>

\* DnatRule.add: -C, then -A unless it is there already.

\* Mutant: no -C check.
AddsUnchecked(d) == TRUE

Adds(d) == d \notin Range(chain)

AddRule ==
    /\ tunnel = "add"
    /\ \/ /\ Adds(dest)
          /\ owned' \in IptablesResults
          /\ chain' = IF owned' THEN Append(chain, dest) ELSE chain
       \/ /\ ~Adds(dest)
          /\ UNCHANGED <<owned, chain>>
    /\ tunnel' = "handlers"
    /\ UNCHANGED <<conf, dest, orphans>>

InstallHandlers ==
    /\ tunnel = "handlers"
    /\ tunnel' = "waiting"
    /\ UNCHANGED <<conf, dest, owned, chain, orphans>>

\* The process ends here and now; what it owned stays in the kernel.
DieAt ==
    /\ tunnel' = "dead"
    /\ orphans' = IF owned THEN orphans \cup {dest} ELSE orphans
    /\ owned' = FALSE
    /\ UNCHANGED <<conf, dest, chain>>

\* SIGTERM: the handler sets the event; before it is installed the default
\* action ends the process.

HandledAt == {"waiting", "remove"}

Terminate ==
    \/ /\ tunnel \in HandledAt
       /\ tunnel' = "remove"
       /\ UNCHANGED <<conf, dest, owned, chain, orphans>>
    \/ /\ tunnel \notin HandledAt \cup {"dead"}
       /\ DieAt
    \/ /\ tunnel = "dead"
       /\ UNCHANGED tunnelVars

\* DnatRule.remove on the way out: -D deletes the first rule that matches.

\* Mutant: the rule stays.
WithoutNone(rules, d) == rules

Without(rules, d) == RemoveFirst(rules, d)

RemoveRule ==
    /\ tunnel = "remove"
    /\ \/ /\ owned
          /\ \E ok \in IptablesResults :
                /\ chain' = IF ok THEN Without(chain, dest) ELSE chain
                /\ orphans' = IF ok THEN orphans ELSE orphans \cup {dest}
       \/ /\ ~owned
          /\ UNCHANGED <<chain, orphans>>
    /\ tunnel' = "dead"
    /\ owned' = FALSE
    /\ UNCHANGED <<conf, dest>>

\* SIGKILL, the OOM killer, a crash of the interpreter.
TunnelKilled == tunnel # "dead" /\ DieAt

\* A reboot: the nat table is empty again.
TunnelRebooted ==
    /\ tunnel' = "dead"
    /\ owned' = FALSE
    /\ chain' = <<>>
    /\ orphans' = {}
    /\ UNCHANGED <<conf, dest>>

TunnelInit ==
    /\ conf \in Configs
    /\ tunnel = "dead"
    /\ dest \in Dests
    /\ owned = FALSE
    /\ chain = <<>>
    /\ orphans = {}

-------------------------------------------------------------------------------
TunnelTypeOK ==
    /\ conf \in Configs
    /\ tunnel \in Lines
    /\ dest \in Dests
    /\ owned \in BOOLEAN
    /\ chain \in Seq(Dests)
    /\ orphans \subseteq Dests

(***************************************************************************)
(* The table never holds a rule twice, over any number of starts, kills    *)
(* and changes of the port: one -D is enough to get rid of it (the -C      *)
(* check of DnatRule.add, vrm_tunnel.py "idempotent add").                 *)
(***************************************************************************)
NoRuleTwice == IsInjective(chain)

(***************************************************************************)
(* A rule in the table belongs to the process that runs now and will       *)
(* remove it, or to one that was never given the chance: killed, ended by  *)
(* a signal before the handlers stood, or refused by iptables ("tracked    *)
(* removal on exit").                                                      *)
(***************************************************************************)
RulesAccountedFor ==
    \A d \in Range(chain) : d \in orphans \/ (owned /\ d = dest /\ tunnel # "dead")
=============================================================================
