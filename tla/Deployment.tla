------------------------------ MODULE Deployment ------------------------------
(***************************************************************************)
(* The two services on the device: install.sh, uninstall.sh and setup.sh,  *)
(* daemontools under them, reboots, and a legacy bridge that is still      *)
(* installed beside them.  The tunnel's own steps are in TunnelService;    *)
(* the bridge is either up or waiting after a refused start.               *)
(*                                                                         *)
(* A script is the list of steps it has left.  Each step is an action, so  *)
(* that svscan, the services and a reboot come in between; a reboot drops  *)
(* the script and runs the lines of rc.local, which are install scripts.   *)
(***************************************************************************)
EXTENDS TunnelService

Services == {"bridge", "tunnel"}

VARIABLES
    link,       \* services linked in /service, a tmpfs
    down,       \* services with a down file in /data
    installed,  \* the .installed marker of the bridge
    runnable,   \* services whose service/run has its x bit
    rclocal,    \* who has a line in /data/rc.local
    rcMode,     \* that file: absent, created by the script that runs (new),
                \* without its x bit (off) or with it (on)
    sup,        \* supervise: none, or the state it is told to keep
    bridge,     \* the bridge process: dead, running, or in its backoff
    legacy,     \* a legacy bridge: stopped (or not there) or running
    script,     \* the steps left of the script that runs
    approved,   \* history: services told to start since they were installed
    wanted,     \* history: the last command to the bridge was to start
    retired,    \* history: services whose line uninstall.sh removed and that
                \* were not installed since
    spoilt      \* history: the tunnel's uninstall.sh rewrote rc.local, and
                \* the bridge's install.sh has not set its mode since

rcVars      == <<rclocal, rcMode>>
fileVars    == <<link, down, installed, runnable, rcVars>>
liveVars    == <<sup, bridge, legacy>>
historyVars == <<approved, wanted, retired, spoilt>>
vars == <<tunnelVars, fileVars, liveVars, script, historyVars>>

\* Scripts, as the steps they take on a service.
Do(step, s) == [step |-> step, of |-> s]

\* Mutant: the link comes first, the down file after it.
InstallLinkFirst(s) ==
    <<Do("allow", s), Do("link", s), Do("mark", s), Do("create", s),
      Do("chmod", s), Do("persist", s)>>

\* Only the bridge's install.sh leaves a marker.
Install(s) ==
    IF s = "bridge"
    THEN <<Do("allow", s), Do("mark", s), Do("link", s), Do("record", s),
           Do("create", s), Do("chmod", s), Do("persist", s)>>
    ELSE <<Do("allow", s), Do("mark", s), Do("link", s), Do("create", s),
           Do("chmod", s), Do("persist", s)>>

Activate(s) == <<Do("arm", s), Do("up", s)>>

Uninstall(s) ==
    IF s = "bridge"
    THEN <<Do("stop", s), Do("unlink", s), Do("kill", s), Do("disarm", s),
           Do("forget", s), Do("tidy", s), Do("erase", s)>>
    ELSE <<Do("stop", s), Do("unlink", s), Do("forget", s)>>

Setup ==
    Install("bridge") \o Install("tunnel") \o <<Do("configure", "tunnel")>>
    \o <<Do("arm", "bridge"), Do("arm", "tunnel"),
         Do("up", "bridge"), Do("up", "tunnel"),
         Do("restart", "bridge"), Do("restart", "tunnel")>>

Scripts == {Install(s) : s \in Services} \cup {Activate(s) : s \in Services}
           \cup {Uninstall(s) : s \in Services} \cup {Setup}

\* The operator starts one script at a time, seconds apart: svscan, which
\* looks every 5 s, has seen the links.  A service is activated where it is
\* linked; uninstall.sh may be run at any time, as after one that was cut off.
Installed(job) == {s \in Services : Do("allow", s) \in Range(job)}

RunScript(job) ==
    /\ script = <<>>
    /\ \A s \in link : sup[s] # "none"
    /\ \A s \in Services : job = Activate(s) => s \in link
    /\ script' = job
    /\ retired' = retired \ Installed(job)
    /\ UNCHANGED <<tunnelVars, fileVars, liveVars, approved, wanted, spoilt>>

Begins(step, s) ==
    /\ script # <<>>
    /\ Head(script) = Do(step, s)
    /\ script' = Tail(script)

-------------------------------------------------------------------------------
\* install.sh, both of them.

\* service/run gets its x bit.
Allow(s) ==
    /\ Begins("allow", s)
    /\ runnable' = runnable \cup {s}
    /\ UNCHANGED <<tunnelVars, link, down, installed, rcVars, liveVars,
                   historyVars>>

\* The bridge's tells a reboot from a first install by its marker; the
\* tunnel's does not.

\* Mutant: the bridge's does not either.
RebootedNever(s) == FALSE

Rebooted(s) == s = "bridge" /\ installed

Mark(s) ==
    /\ Begins("mark", s)
    /\ down' = IF s \in link THEN down
               ELSE IF Rebooted(s) THEN down \ {s}
               ELSE down \cup {s}
    /\ UNCHANGED <<tunnelVars, link, installed, runnable, rcVars, liveVars,
                   historyVars>>

Link(s) ==
    /\ Begins("link", s)
    /\ link' = link \cup {s}
    /\ UNCHANGED <<tunnelVars, down, installed, runnable, rcVars, liveVars,
                   historyVars>>

\* touch .installed
Record ==
    /\ Begins("record", "bridge")
    /\ installed' = TRUE
    /\ UNCHANGED <<tunnelVars, link, down, runnable, rcVars, liveVars,
                   historyVars>>

\* rc.local is created where it is missing; the bridge's script makes it
\* executable every time, the tunnel's only where it has just created it.
CreateRc(s) ==
    /\ Begins("create", s)
    /\ rcMode' = IF rcMode = "absent" THEN "new" ELSE rcMode
    /\ UNCHANGED <<tunnelVars, link, down, installed, runnable, rclocal,
                   liveVars, historyVars>>

ChmodRc(s) ==
    /\ Begins("chmod", s)
    /\ rcMode' = IF s = "bridge" \/ rcMode = "new" THEN "on" ELSE rcMode
    /\ spoilt' = (spoilt /\ s # "bridge")
    /\ UNCHANGED <<tunnelVars, link, down, installed, runnable, rclocal,
                   liveVars, approved, wanted, retired>>

Persist(s) ==
    /\ Begins("persist", s)
    /\ rclocal' = rclocal \cup {s}
    /\ UNCHANGED <<tunnelVars, link, down, installed, runnable, rcMode,
                   liveVars, historyVars>>

-------------------------------------------------------------------------------
\* Activation, setup.sh and svc.

\* What a SIGTERM from svc does to a service; python dies of it in the
\* bridge, whatever the bridge is doing.
Signal(s) ==
    IF s = "bridge" THEN bridge' = "dead" /\ UNCHANGED tunnelVars
    ELSE Terminate /\ UNCHANGED bridge

\* setup_config.py set-tunnel
Configure(c) ==
    /\ Begins("configure", "tunnel")
    /\ c # "invalid"
    /\ conf' = c
    /\ UNCHANGED <<processVars, chain, orphans, fileVars, liveVars, historyVars>>

Arm(s) ==
    /\ Begins("arm", s)
    /\ down' = down \ {s}
    /\ approved' = approved \cup {s}
    /\ wanted' = (wanted \/ s = "bridge")
    /\ UNCHANGED <<tunnelVars, link, installed, runnable, rcVars, liveVars,
                   retired, spoilt>>

\* svc reaches a service through its link and its supervise.
Reaches(s) == s \in link /\ sup[s] # "none"

Up(s) ==
    /\ Begins("up", s)
    /\ sup' = IF Reaches(s) THEN [sup EXCEPT ![s] = "up"] ELSE sup
    /\ UNCHANGED <<tunnelVars, fileVars, bridge, legacy, historyVars>>

Restart(s) ==
    /\ Begins("restart", s)
    /\ IF Reaches(s) THEN Signal(s) ELSE UNCHANGED <<tunnelVars, bridge>>
    /\ UNCHANGED <<fileVars, sup, legacy, historyVars>>

\* The operator's svc -d: it lasts until the next reboot.
SvcDown(s) ==
    /\ script = <<>>
    /\ Reaches(s) /\ sup[s] = "up"
    /\ sup' = [sup EXCEPT ![s] = "down"]
    /\ Signal(s)
    /\ wanted' = (wanted /\ s # "bridge")
    /\ UNCHANGED <<fileVars, legacy, script, approved, retired, spoilt>>

-------------------------------------------------------------------------------
\* uninstall.sh, both of them.

\* svc -dx ends the bridge's supervise, svc -d leaves the tunnel's.
Stop(s) ==
    /\ Begins("stop", s)
    /\ IF Reaches(s)
       THEN /\ sup' = [sup EXCEPT ![s] = IF s = "bridge" THEN "none" ELSE "down"]
            /\ Signal(s)
       ELSE UNCHANGED <<tunnelVars, sup, bridge>>
    /\ wanted' = (wanted /\ s # "bridge")
    /\ UNCHANGED <<fileVars, legacy, approved, retired, spoilt>>

Unlink(s) ==
    /\ Begins("unlink", s)
    /\ link' = link \ {s}
    /\ UNCHANGED <<tunnelVars, down, installed, runnable, rcVars, liveVars,
                   historyVars>>

\* A bridge that svscan brought back before the link was gone.
KillStray ==
    /\ Begins("kill", "bridge")
    /\ bridge' = "dead"
    /\ UNCHANGED <<tunnelVars, fileVars, sup, legacy, historyVars>>

Disarm ==
    /\ Begins("disarm", "bridge")
    /\ runnable' = runnable \ {"bridge"}
    /\ UNCHANGED <<tunnelVars, link, down, installed, rcVars, liveVars,
                   historyVars>>

\* Mutant: the line in rc.local stays.
LineKept(s) == rclocal

LineRemoved(s) == rclocal \ {s}

\* The bridge's sed keeps the mode of rc.local; the tunnel's script writes a
\* new file and moves it there.
Forget(s) ==
    /\ Begins("forget", s)
    /\ rclocal' = LineRemoved(s)
    /\ rcMode' = IF s = "tunnel" /\ rcMode # "absent" THEN "off" ELSE rcMode
    /\ spoilt' = (spoilt \/ (s = "tunnel" /\ rcMode # "absent"))
    /\ approved' = approved \ {s}
    /\ retired' = retired \cup {s}
    /\ UNCHANGED <<tunnelVars, link, down, installed, runnable, liveVars, wanted>>

\* The down file and the marker go last.
Tidy ==
    /\ Begins("tidy", "bridge")
    /\ down' = down \ {"bridge"}
    /\ UNCHANGED <<tunnelVars, link, installed, runnable, rcVars, liveVars,
                   historyVars>>

Erase ==
    /\ Begins("erase", "bridge")
    /\ installed' = FALSE
    /\ UNCHANGED <<tunnelVars, link, down, runnable, rcVars, liveVars,
                   historyVars>>

-------------------------------------------------------------------------------
\* svscan, supervise and the kernel.

Scan(s) ==
    /\ s \in link /\ sup[s] = "none"
    /\ sup' = [sup EXCEPT ![s] = IF s \in down THEN "down" ELSE "up"]
    /\ UNCHANGED <<tunnelVars, fileVars, bridge, legacy, script, historyVars>>

\* main() returns 1 on an invalid [VRM_TUNNEL], and the preflight refuses to
\* start beside a service on one of its instances; run_with_backoff waits
\* before the process ends.
StartRefused == conf = "invalid" \/ legacy = "running"

BridgeStarts ==
    /\ sup["bridge"] = "up" /\ "bridge" \in runnable
    /\ bridge = "dead"
    /\ bridge' = IF StartRefused THEN "backoff" ELSE "running"
    /\ UNCHANGED <<tunnelVars, fileVars, sup, legacy, script, historyVars>>

BackoffEnds ==
    /\ bridge = "backoff"
    /\ bridge' = "dead"
    /\ UNCHANGED <<tunnelVars, fileVars, sup, legacy, script, historyVars>>

TunnelSupervised ==
    /\ sup["tunnel"] = "up" /\ "tunnel" \in runnable
    /\ TunnelStarts
    /\ UNCHANGED <<fileVars, liveVars, script, historyVars>>

TunnelRuns ==
    /\ AddRule \/ InstallHandlers \/ RemoveRule
    /\ UNCHANGED <<fileVars, liveVars, script, historyVars>>

BridgeDies ==
    /\ bridge # "dead"
    /\ bridge' = "dead"
    /\ UNCHANGED <<tunnelVars, fileVars, sup, legacy, script, historyVars>>

TunnelDies ==
    /\ TunnelKilled
    /\ UNCHANGED <<fileVars, liveVars, script, historyVars>>

\* The lines of rc.local, the oldest first.
BootScript ==
    (IF "legacy" \in rclocal THEN <<Do("start", "legacy")>> ELSE <<>>)
    \o (IF "bridge" \in rclocal THEN Install("bridge") ELSE <<>>)
    \o (IF "tunnel" \in rclocal THEN Install("tunnel") ELSE <<>>)

Reboot ==
    /\ TunnelRebooted
    /\ link' = {}
    /\ sup' = [s \in Services |-> "none"]
    /\ bridge' = "dead"
    /\ legacy' = "stopped"
    /\ script' = IF rcMode = "on" THEN BootScript ELSE <<>>
    /\ rcMode' = IF rcMode = "new" THEN "off" ELSE rcMode
    \* The tunnel has to be activated again: its down file is back.
    /\ approved' = approved \ {"tunnel"}
    /\ UNCHANGED <<down, installed, runnable, rclocal, wanted, retired, spoilt>>

\* The operator edits config.ini.
EditConf(c) ==
    /\ script = <<>>
    /\ c # conf
    /\ conf' = c
    /\ UNCHANGED <<processVars, chain, orphans, fileVars, liveVars, script,
                   historyVars>>

-------------------------------------------------------------------------------
\* The legacy bridge: its own install script at boot, its uninstall script,
\* which leaves its line behind, and the operator who removes that line.

LegacyStarts ==
    /\ Begins("start", "legacy")
    /\ legacy' = "running"
    /\ UNCHANGED <<tunnelVars, fileVars, sup, bridge, historyVars>>

LegacyUninstalled ==
    /\ legacy = "running"
    /\ legacy' = "stopped"
    /\ UNCHANGED <<tunnelVars, fileVars, sup, bridge, script, historyVars>>

LeftoverRemoved ==
    /\ "legacy" \in rclocal
    /\ rclocal' = rclocal \ {"legacy"}
    /\ UNCHANGED <<tunnelVars, link, down, installed, runnable, rcMode, liveVars,
                   script, historyVars>>

-------------------------------------------------------------------------------
Init ==
    /\ TunnelInit
    /\ link = {} /\ down = {} /\ installed = FALSE
    /\ runnable = {}
    /\ \/ legacy = "stopped" /\ rclocal = {} /\ rcMode \in {"absent", "off", "on"}
       \/ legacy = "running" /\ rclocal = {"legacy"} /\ rcMode = "on"
    /\ sup = [s \in Services |-> "none"]
    /\ bridge = "dead"
    /\ script = <<>>
    /\ approved = {} /\ wanted = FALSE /\ retired = {} /\ spoilt = FALSE

ScriptStep ==
    \/ \E s \in Services :
          \/ Allow(s) \/ Mark(s) \/ Link(s)
          \/ CreateRc(s) \/ ChmodRc(s) \/ Persist(s)
          \/ Arm(s) \/ Up(s) \/ Restart(s)
          \/ Stop(s) \/ Unlink(s) \/ Forget(s)
    \/ Record
    \/ KillStray \/ Disarm \/ Tidy \/ Erase
    \/ \E c \in Configs : Configure(c)
    \/ LegacyStarts

Operator ==
    \/ \E job \in Scripts : RunScript(job)
    \/ \E s \in Services : SvcDown(s)
    \/ \E c \in Configs : EditConf(c)
    \/ LegacyUninstalled \/ LeftoverRemoved

Daemontools ==
    \/ \E s \in Services : Scan(s)
    \/ BridgeStarts \/ BackoffEnds
    \/ TunnelSupervised

Failures == BridgeDies \/ TunnelDies \/ Reboot

Next == ScriptStep \/ Operator \/ Daemontools \/ TunnelRuns \/ Failures

Spec == Init /\ [][Next]_vars

\* A script runs to its end, svscan and supervise do their work, the tunnel
\* runs.  Nothing is assumed of the operator or of failures.
FairSpec ==
    /\ Spec
    /\ WF_vars(ScriptStep)
    /\ \A s \in Services : WF_vars(Scan(s))
    /\ WF_vars(BridgeStarts) /\ WF_vars(BackoffEnds)
    /\ WF_vars(TunnelSupervised) /\ WF_vars(TunnelRuns)

-------------------------------------------------------------------------------
Steps == [step : {"allow", "mark", "link", "record", "create", "chmod", "persist",
                  "arm", "up", "restart", "configure", "start",
                  "stop", "unlink", "kill", "disarm", "forget", "tidy", "erase"},
          of : Services \cup {"legacy"}]

DeploymentTypeOK ==
    /\ TunnelTypeOK
    /\ link \subseteq Services
    /\ down \subseteq Services
    /\ installed \in BOOLEAN
    /\ runnable \subseteq Services
    /\ rclocal \subseteq Services \cup {"legacy"}
    /\ rcMode \in {"absent", "new", "off", "on"}
    /\ sup \in [Services -> {"none", "down", "up"}]
    /\ bridge \in {"dead", "running", "backoff"}
    /\ legacy \in {"stopped", "running"}
    /\ script \in Seq(Steps)
    /\ approved \subseteq Services
    /\ wanted \in BOOLEAN
    /\ retired \subseteq Services
    /\ spoilt \in BOOLEAN

(***************************************************************************)
(* The tunnel never redirects the device's port 80 before the operator     *)
(* asked for it since its install or the last boot ("the tunnel must NOT   *)
(* start until", dbus-vrm-tunnel/install.sh): the down file is there       *)
(* before the link is.                                                     *)
(***************************************************************************)
TunnelWaitsForOperator ==
    tunnel \notin {"dead", "remove"} => "tunnel" \in approved

(***************************************************************************)
(* From the moment its line in rc.local is removed, what is uninstalled is *)
(* not started again: not by supervise, not by rc.local after a reboot     *)
(* between any two steps (the x bit and the removed line, uninstall.sh).   *)
(* That a bridge is running at that moment is another matter: see          *)
(* UninstalledIsGone.                                                      *)
(***************************************************************************)
NeverRevived ==
    [][/\ bridge = "dead" /\ bridge' # "dead" => "bridge" \notin retired
       /\ tunnel = "dead" /\ tunnel' # "dead" => "tunnel" \notin retired]_vars

\* The bridge is wanted, nothing refuses its start, and from some time on
\* there are neither failures nor commands.
Undisturbed ==
    /\ <>[]wanted
    /\ <>[](~StartRefused)
    /\ <>[][~Failures /\ ~Operator]_vars

(***************************************************************************)
(* A bridge that was activated and neither stopped nor removed since is up *)
(* again after any reboots and crashes, once these and the operator's      *)
(* commands end, no legacy bridge holds its instances, the tunnel's config *)
(* is valid and its uninstall.sh did not leave rc.local without its x bit  *)
(* ("it used to drop the 'down' marker again and the bridge stayed off",   *)
(* install.sh).                                                            *)
(***************************************************************************)
BridgeResumes == <>[](~spoilt) /\ Undisturbed => <>[](bridge = "running")

(***************************************************************************)
(* The same of every rc.local ("The bridge now survives a reboot", "a      *)
(* non-executable file silently disabled the autostart", CHANGELOG.md):    *)
(* removing the tunnel does not disable it.                                *)
(***************************************************************************)
BridgeAlwaysResumes == Undisturbed => <>[](bridge = "running")

(***************************************************************************)
(* No bridge runs once uninstall.sh is past its kill ("so a stale symlink  *)
(* can't accidentally come back up", uninstall.sh).                        *)
(***************************************************************************)
UninstalledIsGone == "bridge" \in retired => bridge = "dead"

(***************************************************************************)
(* supervise does not start the bridge before the operator has run         *)
(* seed_state.py (install.sh): between its install and its activation the  *)
(* bridge does not run.                                                    *)
(***************************************************************************)
BridgeWaitsForOperator == bridge # "dead" => "bridge" \in approved
=============================================================================
