------------------------------- MODULE ConfigFile -------------------------------
(***************************************************************************)
(* config.ini: the operator edits it, setup_config.py rewrites it through  *)
(* config.ini.example, and the bridge and the tunnel read it (cli.py).     *)
(*                                                                         *)
(* Of the template's keys four stand for all: PollSeconds and the instance *)
(* range are like AcPosition, EvccTarget and ProxyPort like AdvertiseIp.   *)
(* Own is a key, and OWN a section, the template does not know.  The order *)
(* of lines, comments and the writing of values are left out.              *)
(***************************************************************************)
EXTENDS Naturals, FiniteSets

CONSTANTS
    Hosts,    \* what an operator gives as EVCC's host, not empty
    Ips,      \* what an operator gives as AdvertiseIp, not empty
    Loopback, \* the loopback addresses among them
    Edits,    \* the <<section, key>> an operator edits by hand
    None      \* no such line

Sections == {"DEFAULT", "ONPREMISE", "VRM_TUNNEL", "OWN"}
Keys     == {"AcPosition", "Host", "Enabled", "AdvertiseIp", "Own"}

Values(k) ==
    CASE k = "AcPosition"  -> {"0", "1"}
      [] k = "Host"        -> Hosts \cup {""}
      [] k = "Enabled"     -> {"true", "false"}
      [] k = "AdvertiseIp" -> Ips \cup {""}
      [] k = "Own"         -> {"own"}

ASSUME ConfigAssumption ==
    /\ "" \notin Hosts /\ "" \notin Ips
    /\ Loopback \subseteq Ips
    /\ Edits \subseteq Sections \X Keys
    /\ \A k \in Keys : None \notin Values(k)

\* A file: the section headers it has, and the value of each line.
Files == [heads : SUBSET Sections,
          value : [Sections -> [Keys -> (UNION {Values(k) : k \in Keys}) \cup {None}]]]

VARIABLE file

-------------------------------------------------------------------------------
\* What the programs read (cli.py).

TemplateSection(k) ==
    CASE k = "AcPosition" -> "DEFAULT"
      [] k = "Host"       -> "ONPREMISE"
      [] OTHER            -> "VRM_TUNNEL"

Settings == Keys \ {"Own"}

Fallback(k) ==
    CASE k = "AcPosition" -> "0"
      [] k = "Enabled"    -> "false"
      [] OTHER            -> ""

\* ConfigParser.get: the section's line, the one in [DEFAULT], the fallback;
\* the fallback at once where the section has no header.
Resolved(f, k) ==
    LET s == TemplateSection(k)
    IN  IF s \notin f.heads \cup {"DEFAULT"} THEN Fallback(k)
        ELSE IF f.value[s][k] # None THEN f.value[s][k]
        ELSE IF f.value["DEFAULT"][k] # None THEN f.value["DEFAULT"][k]
        ELSE Fallback(k)

IpValid(ip) == ip \notin Loopback \cup {""}

TunnelValid(f) ==
    Resolved(f, "Enabled") = "true" => IpValid(Resolved(f, "AdvertiseIp"))

-------------------------------------------------------------------------------
\* What setup_config.py makes of a file.

\* config.ini.example

Template(s, k) ==
    IF k = "Own" \/ s # TemplateSection(k) THEN None ELSE Fallback(k)

TemplateSections == Sections \ {"OWN"}

\* _value
Value(f, s, k) ==
    IF f.value[s][k] # None THEN f.value[s][k] ELSE f.value["DEFAULT"][k]

\* _render: the operator's line, none where the key is inherited, the
\* template's, and the lines the template does not know.

\* Mutant: an inherited key gets the template's line.
LineFilled(f, s, k) ==
    IF f.value[s][k] # None THEN f.value[s][k] ELSE Template(s, k)

\* Mutant: lines the template does not know are left out.
LineOfTemplate(f, s, k) ==
    IF Template(s, k) = None THEN None
    ELSE IF f.value[s][k] # None THEN f.value[s][k]
    ELSE IF Value(f, s, k) # None THEN None
    ELSE Template(s, k)

Line(f, s, k) ==
    IF f.value[s][k] # None THEN f.value[s][k]
    ELSE IF Value(f, s, k) # None THEN None
    ELSE Template(s, k)

Heads(f) == f.heads \cup TemplateSections

Rendered(f) ==
    [heads |-> Heads(f),
     value |-> [s \in Sections |-> [k \in Keys |-> Line(f, s, k)]]]

With(f, s, k, v) ==
    [heads |-> f.heads \cup {s}, value |-> [f.value EXCEPT ![s][k] = v]]

\* sync_with_example: what is missing is what rendering fills in.
Missing(f) ==
    {k \in Settings : Value(f, TemplateSection(k), k) = None}

Synced(f) == IF Missing(f) = {} THEN f ELSE Rendered(f)

HostSet(f, host) == Rendered(With(f, "ONPREMISE", "Host", host))

\* set_tunnel replaces the section.
TunnelSection(enabled, ip) ==
    [k \in Keys |-> CASE k = "Enabled"     -> enabled
                      [] k = "AdvertiseIp" -> ip
                      [] OTHER             -> None]

TunnelSet(f, enabled, ip) ==
    Rendered([heads |-> f.heads \cup {"VRM_TUNNEL"},
              value |-> [f.value EXCEPT !["VRM_TUNNEL"] = TunnelSection(enabled, ip)]])

\* Mutant: the values are taken as they come.
TunnelAccepted(enabled, ip) == TRUE

TunnelAccepts(enabled, ip) == enabled = "true" => IpValid(ip)

-------------------------------------------------------------------------------
\* install.sh at every boot: setup_config.py sync-example.
SyncExample == file' = Synced(file)

SetHost(host) == file' = HostSet(file, host)

SetTunnel(enabled, ip) ==
    /\ TunnelAccepts(enabled, ip)
    /\ file' = TunnelSet(file, enabled, ip)

\* setup.sh, where the operator presses Enter at every question: the current
\* settings are the answers; an invalid tunnel is offered as off.  A host has
\* to be there.

\* Mutant: off is off, with nothing kept.
EnterForgetting(f) ==
    IF TunnelValid(f) /\ Resolved(f, "Enabled") = "true"
    THEN TunnelSet(f, "true", Resolved(f, "AdvertiseIp"))
    ELSE TunnelSet(f, "false", "")

EnterAtTunnel(f) ==
    IF TunnelValid(f)
    THEN TunnelSet(f, Resolved(f, "Enabled"), Resolved(f, "AdvertiseIp"))
    ELSE TunnelSet(f, "false", "")

AfterEnter(f) ==
    EnterAtTunnel(HostSet(Synced(f), Resolved(Synced(f), "Host")))

SetupWithEnter ==
    /\ Resolved(Synced(file), "Host") # ""
    /\ file' = AfterEnter(file)

\* The operator's editor.
EditLine(s, k, v) == file' = With(file, s, k, v)

DropLine(s, k) == file' = [file EXCEPT !.value[s][k] = None]

DropSection(s) ==
    file' = [heads |-> file.heads \ {s},
             value |-> [file.value EXCEPT ![s] = [k \in Keys |-> None]]]

EmptyFile ==
    [heads |-> {}, value |-> [s \in Sections |-> [k \in Keys |-> None]]]

\* install.sh copies the example where there is no config.ini.
Init == file = Rendered(EmptyFile)

Tool ==
    \/ SyncExample
    \/ \E host \in Hosts : SetHost(host)
    \/ \E enabled \in Values("Enabled"), ip \in Values("AdvertiseIp") :
          SetTunnel(enabled, ip)
    \/ SetupWithEnter

Operator ==
    \/ \E e \in Edits : \E v \in Values(e[2]) : EditLine(e[1], e[2], v)
    \/ \E e \in Edits : DropLine(e[1], e[2])
    \/ \E s \in Sections : DropSection(s)

Next == Tool \/ Operator

Spec == Init /\ [][Next]_file

-------------------------------------------------------------------------------
\* Every line stands under its header and has a value of its key.
ConfigTypeOK ==
    /\ file \in Files
    /\ \A s \in Sections, k \in Keys :
          file.value[s][k] # None => s \in file.heads /\ file.value[s][k] \in Values(k)

(***************************************************************************)
(* A tool keeps every line it was not asked to change, in the template's   *)
(* sections, in [DEFAULT] and in the operator's own ("mutates ONLY the     *)
(* requested section/keys", setup_config.py): sync-example changes none,   *)
(* set-host Host, set-tunnel what is in [VRM_TUNNEL], which it "replaces"  *)
(* (the parser's help).  A run of setup.sh that is answered with Enter     *)
(* changes no line of a valid file either, the operator's own in           *)
(* [VRM_TUNNEL] apart.                                                     *)
(***************************************************************************)
Keeps(f, g, changed) ==
    \A s \in Sections, k \in Keys :
        f.value[s][k] # None /\ <<s, k>> \notin changed
            => g.value[s][k] = f.value[s][k]

\* The lines set-tunnel is asked to write, and the others of its section.
Asked == {"VRM_TUNNEL"} \X {"Enabled", "AdvertiseIp"}
Others == {"VRM_TUNNEL"} \X (Keys \ {"Enabled", "AdvertiseIp"})

ValuesKept ==
    /\ Keeps(file, Synced(file), {})
    /\ \A host \in Hosts :
          Keeps(file, HostSet(file, host), {<<"ONPREMISE", "Host">>})
    /\ \A enabled \in Values("Enabled"), ip \in Values("AdvertiseIp") :
          Keeps(file, TunnelSet(file, enabled, ip), Asked \cup Others)
    /\ Resolved(Synced(file), "Host") # "" /\ TunnelValid(Synced(file))
          => Keeps(file, AfterEnter(file), Others)

(***************************************************************************)
(* The same without that exception: "keys or sections the template does    *)
(* not know are kept at the end of their section" (setup_config.py).       *)
(***************************************************************************)
UnknownKeysKept ==
    \A enabled \in Values("Enabled"), ip \in Values("AdvertiseIp") :
        TunnelAccepts(enabled, ip)
            => Keeps(file, TunnelSet(file, enabled, ip), Asked)

(***************************************************************************)
(* Completing the file at boot changes no setting the programs resolve     *)
(* ("keep all values", sync-example): the template's values are cli.py's   *)
(* fallbacks, and what is inherited from [DEFAULT] stays inherited.  A key *)
(* of [DEFAULT] whose own section has no header is the exception: the      *)
(* programs did not see it until the header came.                          *)
(***************************************************************************)
Hidden(f, k) ==
    TemplateSection(k) \notin f.heads /\ f.value["DEFAULT"][k] # None

SameSettings(f, g) ==
    \A k \in Settings : Hidden(f, k) \/ Resolved(g, k) = Resolved(f, k)

BootChangesNothing == SameSettings(file, Synced(file))

(***************************************************************************)
(* A re-run of setup.sh "where the operator just presses Enter changes     *)
(* nothing" of what the programs resolve, if the tunnel's settings are     *)
(* valid.                                                                  *)
(***************************************************************************)
EnterChangesNothing ==
    Resolved(Synced(file), "Host") # "" /\ TunnelValid(Synced(file))
        => SameSettings(file, AfterEnter(file))

(***************************************************************************)
(* No tool leaves an enabled tunnel that the programs refuse where there   *)
(* was none ("Validate via the bridge's single source of truth"), what     *)
(* [DEFAULT] says of the tunnel included.                                  *)
(***************************************************************************)
ToolsKeepTunnelValid ==
    [][/\ TunnelValid(file) /\ ~TunnelValid(file')
       /\ \A k \in Settings : ~Hidden(file, k)
       => ~Tool]_file
===============================================================================
