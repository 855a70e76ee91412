---------------------------- MODULE ConfigFileProofs ----------------------------
(***************************************************************************)
(* config.ini under its tools and its operator, for any hosts, addresses   *)
(* and hand edits.                                                         *)
(***************************************************************************)
EXTENDS ConfigFile, TLAPS

AllValues == UNION {Values(k) : k \in Keys}

\* ConfigTypeOK of any file.
WellFormed(f) ==
    /\ f \in Files
    /\ \A s \in Sections, k \in Keys :
          f.value[s][k] # None => s \in f.heads /\ f.value[s][k] \in Values(k)

\* A line that a file may have.
LineOK(k, v) == v = None \/ v \in Values(k)

-------------------------------------------------------------------------------
\* What a file is made of.
LEMMA FileParts ==
    ASSUME NEW f, WellFormed(f)
    PROVE  /\ f.heads \subseteq Sections
           /\ f.value \in [Sections -> [Keys -> AllValues \cup {None}]]
           /\ f = [heads |-> f.heads, value |-> f.value]
           /\ \A s \in Sections, k \in Keys :
                 /\ LineOK(k, f.value[s][k])
                 /\ f.value[s][k] # None => s \in f.heads
<1>1. Files = [heads : SUBSET Sections,
               value : [Sections -> [Keys -> AllValues \cup {None}]]]
  BY DEF Files, AllValues
<1> QED BY <1>1 DEF WellFormed, LineOK

\* What makes a file well formed.
LEMMA Assembled ==
    ASSUME NEW heads \in SUBSET Sections, NEW value,
           value \in [Sections -> [Keys -> AllValues \cup {None}]],
           \A s \in Sections, k \in Keys :
              /\ LineOK(k, value[s][k])
              /\ value[s][k] # None => s \in heads
    PROVE  WellFormed([heads |-> heads, value |-> value])
<1>1. Files = [heads : SUBSET Sections,
               value : [Sections -> [Keys -> AllValues \cup {None}]]]
  BY DEF Files, AllValues
<1> QED BY <1>1 DEF WellFormed, LineOK

\* Every setting has a place in the template, and a value there that is the
\* programs' fallback.
LEMMA SettingFacts ==
    ASSUME NEW k \in Settings
    PROVE  /\ k \in Keys /\ TemplateSection(k) \in Sections
           /\ TemplateSection(k) \in TemplateSections
           /\ Template(TemplateSection(k), k) = Fallback(k)
           /\ Fallback(k) \in Values(k) /\ Fallback(k) # None
           /\ None \notin Values(k)
<1>1. k \in {"AcPosition", "Host", "Enabled", "AdvertiseIp"}
  BY DEF Settings, Keys
<1>2. None \notin Values(k) /\ k \in Keys
  BY <1>1, ConfigAssumption DEF Keys
<1>3. Fallback(k) \in Values(k)
  BY <1>1 DEF Fallback, Values
<1>4. TemplateSection(k) \in TemplateSections /\ TemplateSection(k) \in Sections
  BY <1>1 DEF TemplateSection, TemplateSections, Sections
<1>5. Template(TemplateSection(k), k) = Fallback(k)
  BY <1>1 DEF Template
<1> QED BY <1>2, <1>3, <1>4, <1>5

\* A template line of any key, if there is one, is a value of the key.
LEMMA TemplateLine ==
    ASSUME NEW s \in Sections, NEW k \in Keys
    PROVE  /\ LineOK(k, Template(s, k))
           /\ Template(s, k) # None => s \in TemplateSections
<1>1. CASE k = "Own" \/ s # TemplateSection(k)
  BY <1>1 DEF Template, LineOK
<1>2. CASE k # "Own" /\ s = TemplateSection(k)
  <2>1. k \in Settings
    BY <1>2 DEF Settings
  <2> QED BY <1>2, <2>1, SettingFacts DEF LineOK
<1> QED BY <1>1, <1>2

\* The parts of a rendered file.
LEMMA RenderedParts ==
    ASSUME NEW f
    PROVE  /\ Rendered(f).heads = f.heads \cup TemplateSections
           /\ \A s \in Sections, k \in Keys :
                 Rendered(f).value[s][k] = Line(f, s, k)
BY DEF Rendered, Heads

\* Rendering makes a well formed file of one.
LEMMA RenderedWellFormed ==
    ASSUME NEW f, WellFormed(f)
    PROVE  WellFormed(Rendered(f))
<1>1. ASSUME NEW s \in Sections, NEW k \in Keys
      PROVE  /\ LineOK(k, Line(f, s, k))
             /\ Line(f, s, k) # None => s \in Heads(f)
             /\ Line(f, s, k) \in AllValues \cup {None}
  <2>1. /\ LineOK(k, f.value[s][k])
        /\ f.value[s][k] # None => s \in f.heads
    BY FileParts
  <2>2. Line(f, s, k) \in {f.value[s][k], None, Template(s, k)}
        /\ (f.value[s][k] = None /\ Line(f, s, k) # None
               => Line(f, s, k) = Template(s, k))
        /\ (f.value[s][k] # None => Line(f, s, k) = f.value[s][k])
    BY DEF Line
  <2>3. LineOK(k, Line(f, s, k)) /\ (Line(f, s, k) # None => s \in Heads(f))
    BY <2>1, <2>2, TemplateLine DEF LineOK, Heads
  <2> QED BY <2>3 DEF LineOK, AllValues
<1>2. Heads(f) \in SUBSET Sections
  BY FileParts DEF Heads, TemplateSections
<1> DEFINE value == [s \in Sections |-> [k \in Keys |-> Line(f, s, k)]]
<1>3. value \in [Sections -> [Keys -> AllValues \cup {None}]]
  BY <1>1
<1>4. \A s \in Sections, k \in Keys : value[s][k] = Line(f, s, k)
  OBVIOUS
<1>5. Rendered(f) = [heads |-> Heads(f), value |-> value]
  BY DEF Rendered
<1> HIDE DEF value
<1> QED BY <1>1, <1>2, <1>3, <1>4, <1>5, Assembled, ZenonT(60)

\* Rendering keeps what the programs resolve.
LEMMA RenderedSame ==
    ASSUME NEW f, WellFormed(f), NEW k \in Settings, ~Hidden(f, k)
    PROVE  Resolved(Rendered(f), k) = Resolved(f, k)
<1> DEFINE s == TemplateSection(k)
<1>1. /\ k \in Keys /\ s \in Sections /\ s \in TemplateSections
      /\ Template(s, k) = Fallback(k) /\ Fallback(k) # None
      /\ "DEFAULT" \in Sections
  BY SettingFacts DEF Sections
<1>2. /\ Rendered(f).heads = f.heads \cup TemplateSections
      /\ Rendered(f).value[s][k] = Line(f, s, k)
      /\ Rendered(f).value["DEFAULT"][k] = Line(f, "DEFAULT", k)
  BY <1>1, RenderedParts
<1>3. s \notin f.heads => f.value[s][k] = None /\ f.value["DEFAULT"][k] = None
  BY <1>1, FileParts DEF Hidden
<1>4. CASE f.value[s][k] # None
  <2>1. Resolved(f, k) = f.value[s][k]
    BY <1>3, <1>4 DEF Resolved
  <2>2. Resolved(Rendered(f), k) = Line(f, s, k)
    BY <1>1, <1>2, <1>4 DEF Resolved, Line
  <2> QED BY <1>4, <2>1, <2>2 DEF Line
<1>5. CASE f.value[s][k] = None /\ f.value["DEFAULT"][k] # None
  <2>1. Resolved(f, k) = f.value["DEFAULT"][k]
    BY <1>3, <1>5 DEF Resolved
  <2>2. Line(f, s, k) = None /\ Line(f, "DEFAULT", k) = f.value["DEFAULT"][k]
    BY <1>5 DEF Line, Value
  <2> QED BY <1>1, <1>2, <1>5, <2>1, <2>2 DEF Resolved
<1>6. CASE f.value[s][k] = None /\ f.value["DEFAULT"][k] = None
  <2>1. Resolved(f, k) = Fallback(k)
    BY <1>6 DEF Resolved
  <2>2. Line(f, s, k) = Fallback(k)
    BY <1>1, <1>6 DEF Line, Value
  <2> QED BY <1>1, <1>2, <2>1, <2>2 DEF Resolved
<1> QED BY <1>4, <1>5, <1>6

\* A rendered file has all the headers.
LEMMA RenderedShown ==
    ASSUME NEW f, NEW k \in Settings
    PROVE  ~Hidden(Rendered(f), k)
BY SettingFacts, RenderedParts DEF Hidden

\* A line the operator or a tool writes.
LEMMA WithWellFormed ==
    ASSUME NEW f, WellFormed(f), NEW s \in Sections, NEW k \in Keys,
           NEW v \in Values(k)
    PROVE  WellFormed(With(f, s, k, v))
<1> DEFINE value == [f.value EXCEPT ![s][k] = v]
           heads == f.heads \cup {s}
<1>1. v \in AllValues
  BY DEF AllValues
<1>2. value \in [Sections -> [Keys -> AllValues \cup {None}]]
  BY <1>1, FileParts
<1>3. \A t \in Sections, j \in Keys :
         value[t][j] = IF t = s /\ j = k THEN v ELSE f.value[t][j]
  BY FileParts
<1>4. heads \in SUBSET Sections
  BY FileParts
<1>5. With(f, s, k, v) = [heads |-> heads, value |-> value]
  BY DEF With
<1>6. LineOK(k, v)
  BY DEF LineOK
<1>7. \A t \in Sections, j \in Keys :
         LineOK(j, f.value[t][j]) /\ (f.value[t][j] # None => t \in f.heads)
  BY FileParts
<1>8. \A t \in Sections, j \in Keys :
         LineOK(j, value[t][j]) /\ (value[t][j] # None => t \in heads)
  BY <1>3, <1>6, <1>7
<1> HIDE DEF value, heads
<1> QED BY <1>2, <1>4, <1>5, <1>8, Assembled

\* set-host writes a host, which may be an empty one when setup.sh is asked
\* to keep it.
LEMMA HostWellFormed ==
    ASSUME NEW f, WellFormed(f), NEW host \in Values("Host")
    PROVE  /\ WellFormed(With(f, "ONPREMISE", "Host", host))
           /\ WellFormed(HostSet(f, host))
<1>1. "ONPREMISE" \in Sections /\ "Host" \in Keys
  BY DEF Sections, Keys
<1>2. WellFormed(With(f, "ONPREMISE", "Host", host))
  BY <1>1, WithWellFormed
<1> QED BY <1>2, RenderedWellFormed DEF HostSet

\* The file that set-tunnel renders.
Tunnelled(f, enabled, ip) ==
    [heads |-> f.heads \cup {"VRM_TUNNEL"},
     value |-> [f.value EXCEPT !["VRM_TUNNEL"] = TunnelSection(enabled, ip)]]

\* A section and two lines more: the file stays one.
LEMMA TunnelledParts ==
    ASSUME NEW f, WellFormed(f),
           NEW enabled \in Values("Enabled"), NEW ip \in Values("AdvertiseIp")
    PROVE  /\ WellFormed(Tunnelled(f, enabled, ip))
           /\ Tunnelled(f, enabled, ip).heads = f.heads \cup {"VRM_TUNNEL"}
           /\ \A s \in Sections \ {"VRM_TUNNEL"} :
                 Tunnelled(f, enabled, ip).value[s] = f.value[s]
           /\ Tunnelled(f, enabled, ip).value["VRM_TUNNEL"]["Enabled"] = enabled
           /\ Tunnelled(f, enabled, ip).value["VRM_TUNNEL"]["AdvertiseIp"] = ip
           /\ enabled # None /\ ip # None
           /\ WellFormed(TunnelSet(f, enabled, ip))
<1> DEFINE line == TunnelSection(enabled, ip)
           heads == f.heads \cup {"VRM_TUNNEL"}
           value == [f.value EXCEPT !["VRM_TUNNEL"] = line]
<1>1. /\ "VRM_TUNNEL" \in Sections
      /\ "Enabled" \in Keys /\ "AdvertiseIp" \in Keys
  BY DEF Sections, Keys
<1>2. \A k \in Keys : LineOK(k, line[k])
  BY DEF TunnelSection, LineOK
<1>3. line["Enabled"] = enabled /\ line["AdvertiseIp"] = ip
  BY <1>1 DEF TunnelSection
<1>4. line \in [Keys -> AllValues \cup {None}]
  <2>1. line = [k \in Keys |-> line[k]]
    BY DEF TunnelSection
  <2>2. \A k \in Keys : line[k] \in AllValues \cup {None}
    BY <1>2 DEF LineOK, AllValues
  <2> HIDE DEF line
  <2> QED BY <2>1, <2>2
<1> HIDE DEF line
<1>5. value \in [Sections -> [Keys -> AllValues \cup {None}]]
  BY <1>4, FileParts
<1>6. /\ \A s \in Sections \ {"VRM_TUNNEL"} : value[s] = f.value[s]
      /\ value["VRM_TUNNEL"] = line
  BY <1>1, FileParts
<1>7. heads \in SUBSET Sections
  BY <1>1, FileParts
<1>8. \A s \in Sections, k \in Keys :
         LineOK(k, value[s][k]) /\ (value[s][k] # None => s \in heads)
  <2>1. \A s \in Sections, k \in Keys :
           LineOK(k, f.value[s][k]) /\ (f.value[s][k] # None => s \in f.heads)
    BY FileParts
  <2> QED BY <1>2, <1>6, <2>1
<1>9. Tunnelled(f, enabled, ip) = [heads |-> heads, value |-> value]
  BY DEF Tunnelled, line
<1>10. WellFormed(Tunnelled(f, enabled, ip))
  <2> HIDE DEF heads, value
  <2> QED BY <1>5, <1>7, <1>8, <1>9, Assembled
<1>11. /\ Tunnelled(f, enabled, ip).heads = heads
       /\ Tunnelled(f, enabled, ip).value = value
  BY <1>9
<1>12. enabled # None /\ ip # None
  BY <1>1, ConfigAssumption
<1>13. TunnelSet(f, enabled, ip) = Rendered(Tunnelled(f, enabled, ip))
  BY DEF TunnelSet, Tunnelled
<1> QED BY <1>3, <1>6, <1>10, <1>11, <1>12, <1>13, RenderedWellFormed

\* What a setting resolves to depends on its line, the line of [DEFAULT] and
\* the header.
LEMMA ResolvedLocal ==
    ASSUME NEW f, NEW g, NEW k,
           TemplateSection(k) \in g.heads <=> TemplateSection(k) \in f.heads,
           g.value[TemplateSection(k)][k] = f.value[TemplateSection(k)][k],
           g.value["DEFAULT"][k] = f.value["DEFAULT"][k]
    PROVE  /\ Resolved(g, k) = Resolved(f, k)
           /\ Hidden(g, k) <=> Hidden(f, k)
BY DEF Resolved, Hidden

\* What a setting resolves to is a value of it.
LEMMA ResolvedValue ==
    ASSUME NEW f, WellFormed(f), NEW k \in Settings
    PROVE  Resolved(f, k) \in Values(k)
<1> DEFINE s == TemplateSection(k)
<1>1. s \in Sections /\ "DEFAULT" \in Sections /\ k \in Keys
      /\ Fallback(k) \in Values(k)
  BY SettingFacts DEF Sections
<1>2. LineOK(k, f.value[s][k]) /\ LineOK(k, f.value["DEFAULT"][k])
  BY <1>1, FileParts
<1> QED BY <1>1, <1>2 DEF Resolved, LineOK

-------------------------------------------------------------------------------
\* What each tool keeps of the settings.

\* The boot sync answers every key that is not hidden as before.
LEMMA SyncedKeeps ==
    ASSUME NEW f, WellFormed(f)
    PROVE  /\ WellFormed(Synced(f))
           /\ \A k \in Settings : ~Hidden(f, k) =>
                 ~Hidden(Synced(f), k) /\ Resolved(Synced(f), k) = Resolved(f, k)
BY RenderedWellFormed, RenderedSame, RenderedShown DEF Synced

\* Setting the host sets it, and answers the other keys as before.
LEMMA HostKeeps ==
    ASSUME NEW f, WellFormed(f), NEW host \in Values("Host")
    PROVE  /\ Resolved(HostSet(f, host), "Host") = host
           /\ \A k \in Settings : ~Hidden(HostSet(f, host), k)
           /\ \A k \in Settings \ {"Host"} : ~Hidden(f, k) =>
                 Resolved(HostSet(f, host), k) = Resolved(f, k)
<1> DEFINE g == With(f, "ONPREMISE", "Host", host)
<1>1. WellFormed(g)
  BY HostWellFormed
<1>2. /\ "ONPREMISE" \in Sections /\ "DEFAULT" \in Sections
      /\ "Host" \in Keys /\ "Host" \in Settings
      /\ TemplateSection("Host") = "ONPREMISE"
  BY DEF Sections, Keys, Settings, TemplateSection
<1>3. /\ g.heads = f.heads \cup {"ONPREMISE"}
      /\ \A t \in Sections, j \in Keys : g.value[t][j] =
            IF t = "ONPREMISE" /\ j = "Host" THEN host ELSE f.value[t][j]
  BY <1>2, FileParts DEF With
<1>4. host # None
  BY <1>2, ConfigAssumption
<1> HIDE DEF g
<1>5. Resolved(g, "Host") = host /\ ~Hidden(g, "Host")
  BY <1>2, <1>3, <1>4 DEF Resolved, Hidden
<1>6. ASSUME NEW k \in Settings \ {"Host"}, ~Hidden(f, k)
      PROVE  Resolved(g, k) = Resolved(f, k) /\ ~Hidden(g, k)
  <2>1. TemplateSection(k) # "ONPREMISE"
    BY DEF Settings, Keys, TemplateSection
  <2>2. TemplateSection(k) \in Sections /\ k \in Keys
    BY SettingFacts
  <2> QED BY <1>2, <1>3, <1>6, <2>1, <2>2, ResolvedLocal
<1>7. HostSet(f, host) = Rendered(g)
  BY DEF HostSet, g
<1> QED BY <1>1, <1>2, <1>5, <1>6, <1>7, RenderedSame, RenderedShown

\* Setting the tunnel sets its two keys, and answers the others as before.
LEMMA TunnelKeeps ==
    ASSUME NEW f, WellFormed(f),
           NEW enabled \in Values("Enabled"), NEW ip \in Values("AdvertiseIp")
    PROVE  /\ Resolved(TunnelSet(f, enabled, ip), "Enabled") = enabled
           /\ Resolved(TunnelSet(f, enabled, ip), "AdvertiseIp") = ip
           /\ \A k \in Settings \ {"Enabled", "AdvertiseIp"} : ~Hidden(f, k) =>
                 Resolved(TunnelSet(f, enabled, ip), k) = Resolved(f, k)
<1> DEFINE g == Tunnelled(f, enabled, ip)
<1>1. /\ WellFormed(g)
      /\ g.heads = f.heads \cup {"VRM_TUNNEL"}
      /\ \A s \in Sections \ {"VRM_TUNNEL"} : g.value[s] = f.value[s]
      /\ g.value["VRM_TUNNEL"]["Enabled"] = enabled
      /\ g.value["VRM_TUNNEL"]["AdvertiseIp"] = ip
      /\ enabled # None /\ ip # None
  BY TunnelledParts
<1>2. /\ "DEFAULT" \in Sections \ {"VRM_TUNNEL"}
      /\ "Enabled" \in Settings /\ "AdvertiseIp" \in Settings
      /\ TemplateSection("Enabled") = "VRM_TUNNEL"
      /\ TemplateSection("AdvertiseIp") = "VRM_TUNNEL"
  BY DEF Sections, Keys, Settings, TemplateSection
<1>3. TunnelSet(f, enabled, ip) = Rendered(g)
  BY DEF TunnelSet, Tunnelled
<1> HIDE DEF g
<1>4. /\ Resolved(g, "Enabled") = enabled /\ ~Hidden(g, "Enabled")
      /\ Resolved(g, "AdvertiseIp") = ip /\ ~Hidden(g, "AdvertiseIp")
  BY <1>1, <1>2 DEF Resolved, Hidden
<1>5. ASSUME NEW k \in Settings \ {"Enabled", "AdvertiseIp"}, ~Hidden(f, k)
      PROVE  Resolved(g, k) = Resolved(f, k) /\ ~Hidden(g, k)
  <2>1. TemplateSection(k) \in Sections \ {"VRM_TUNNEL"}
    BY DEF Settings, Keys, TemplateSection, Sections
  <2> QED BY <1>1, <1>2, <1>5, <2>1, ResolvedLocal
<1> QED BY <1>1, <1>2, <1>3, <1>4, <1>5, RenderedSame

\* Enter at the tunnel's questions: its settings stay if they are valid and
\* the tunnel is off if they are not.
LEMMA EnterKeeps ==
    ASSUME NEW f, WellFormed(f)
    PROVE  /\ WellFormed(EnterAtTunnel(f))
           /\ TunnelValid(EnterAtTunnel(f))
           /\ \A k \in Settings \ {"Enabled", "AdvertiseIp"} : ~Hidden(f, k) =>
                 Resolved(EnterAtTunnel(f), k) = Resolved(f, k)
           /\ TunnelValid(f) =>
                 \A k \in {"Enabled", "AdvertiseIp"} :
                     Resolved(EnterAtTunnel(f), k) = Resolved(f, k)
<1>1. "Enabled" \in Settings /\ "AdvertiseIp" \in Settings
  BY DEF Settings, Keys
<1>2. "false" \in Values("Enabled") /\ "" \in Values("AdvertiseIp")
  BY DEF Values
<1>3. /\ Resolved(f, "Enabled") \in Values("Enabled")
      /\ Resolved(f, "AdvertiseIp") \in Values("AdvertiseIp")
  BY <1>1, ResolvedValue
<1>4. CASE TunnelValid(f)
  <2>1. EnterAtTunnel(f) =
           TunnelSet(f, Resolved(f, "Enabled"), Resolved(f, "AdvertiseIp"))
    BY <1>4 DEF EnterAtTunnel
  <2> QED BY <1>3, <1>4, <2>1, TunnelKeeps, TunnelledParts DEF TunnelValid
<1>5. CASE ~TunnelValid(f)
  <2>1. EnterAtTunnel(f) = TunnelSet(f, "false", "")
    BY <1>5 DEF EnterAtTunnel
  <2>2. ASSUME NEW enabled \in Values("Enabled"), enabled = "false",
               NEW ip \in Values("AdvertiseIp")
        PROVE  /\ TunnelValid(TunnelSet(f, enabled, ip))
               /\ WellFormed(TunnelSet(f, enabled, ip))
               /\ \A k \in Settings \ {"Enabled", "AdvertiseIp"} : ~Hidden(f, k) =>
                     Resolved(TunnelSet(f, enabled, ip), k) = Resolved(f, k)
    <3>1. Resolved(TunnelSet(f, enabled, ip), "Enabled") # "true"
      BY <2>2, TunnelKeeps
    <3> QED BY <3>1, TunnelKeeps, TunnelledParts DEF TunnelValid
  <2> QED BY <1>2, <1>5, <2>1, <2>2
<1> QED BY <1>4, <1>5

\* setup.sh with every default taken writes a file again.
LEMMA AfterEnterWellFormed ==
    ASSUME NEW f, WellFormed(f)
    PROVE  /\ Resolved(Synced(f), "Host") \in Values("Host")
           /\ WellFormed(HostSet(Synced(f), Resolved(Synced(f), "Host")))
           /\ WellFormed(AfterEnter(f))
           /\ TunnelValid(AfterEnter(f))
<1>1. WellFormed(Synced(f))
  BY SyncedKeeps
<1>2. Resolved(Synced(f), "Host") \in Values("Host")
  BY <1>1, ResolvedValue DEF Settings, Keys
<1>3. WellFormed(HostSet(Synced(f), Resolved(Synced(f), "Host")))
  BY <1>1, <1>2, HostWellFormed
<1> QED BY <1>2, <1>3, EnterKeeps DEF AfterEnter

-------------------------------------------------------------------------------
\* Every step, of a tool or of the operator, keeps the file well formed.

\* What the operator starts from is a file.
LEMMA InitWellFormed ==
    ASSUME Init
    PROVE  WellFormed(file)
<1> DEFINE value == [s \in Sections |-> [k \in Keys |-> None]]
<1>1. value \in [Sections -> [Keys -> AllValues \cup {None}]]
  OBVIOUS
<1>2. \A s \in Sections, k \in Keys : LineOK(k, value[s][k]) /\ value[s][k] = None
  BY DEF LineOK
<1>3. EmptyFile = [heads |-> {}, value |-> value]
  BY DEF EmptyFile
<1> HIDE DEF value
<1>4. WellFormed(EmptyFile)
  BY <1>1, <1>2, <1>3, Assembled
<1> QED BY <1>4, RenderedWellFormed DEF Init

\* The operator's edits leave a file.
LEMMA OperatorWellFormed ==
    ASSUME WellFormed(file), Operator
    PROVE  WellFormed(file')
<1>1. ASSUME NEW e \in Edits, NEW v \in Values(e[2]), EditLine(e[1], e[2], v)
      PROVE  WellFormed(file')
  <2>1. e[1] \in Sections /\ e[2] \in Keys
    BY ConfigAssumption
  <2> QED BY <1>1, <2>1, WithWellFormed DEF EditLine
<1>2. ASSUME NEW e \in Edits, DropLine(e[1], e[2])
      PROVE  WellFormed(file')
  <2> DEFINE value == [file.value EXCEPT ![e[1]][e[2]] = None]
  <2>1. e[1] \in Sections /\ e[2] \in Keys
    BY ConfigAssumption
  <2>2. value \in [Sections -> [Keys -> AllValues \cup {None}]]
    BY <2>1, FileParts
  <2>3. \A s \in Sections, k \in Keys :
           value[s][k] = None \/ value[s][k] = file.value[s][k]
    BY FileParts
  <2>4. file' = [heads |-> file.heads, value |-> value]
    <3>1. file = [heads |-> file.heads, value |-> file.value]
      BY FileParts
    <3>2. file' = [file EXCEPT !.value = value]
      BY <1>2 DEF DropLine
    <3> HIDE DEF value
    <3> QED BY <3>1, <3>2
  <2>5. \A s \in Sections, k \in Keys :
           LineOK(k, value[s][k]) /\ (value[s][k] # None => s \in file.heads)
    <3> HIDE DEF value
    <3> QED BY <2>3, FileParts DEF LineOK
  <2>6. file.heads \in SUBSET Sections
    BY FileParts
  <2> HIDE DEF value
  <2> QED BY <2>2, <2>4, <2>5, <2>6, Assembled
<1>3. ASSUME NEW t \in Sections, DropSection(t)
      PROVE  WellFormed(file')
  <2> DEFINE value == [file.value EXCEPT ![t] = [k \in Keys |-> None]]
             heads == file.heads \ {t}
  <2>1. value \in [Sections -> [Keys -> AllValues \cup {None}]]
    BY FileParts
  <2>2. \A s \in Sections, k \in Keys :
           value[s][k] = IF s = t THEN None ELSE file.value[s][k]
    BY FileParts
  <2>3. file' = [heads |-> heads, value |-> value]
    BY <1>3 DEF DropSection
  <2>4. \A s \in Sections, k \in Keys :
           LineOK(k, value[s][k]) /\ (value[s][k] # None => s \in heads)
    <3>1. \A s \in Sections, k \in Keys :
             LineOK(k, file.value[s][k])
             /\ (file.value[s][k] # None => s \in file.heads)
      BY FileParts
    <3> HIDE DEF value
    <3> QED BY <2>2, <3>1 DEF LineOK
  <2>5. heads \in SUBSET Sections
    BY FileParts
  <2> HIDE DEF value, heads
  <2> QED BY <2>1, <2>3, <2>4, <2>5, Assembled
<1> QED BY <1>1, <1>2, <1>3 DEF Operator

\* So does every run of the tools.
LEMMA ToolWellFormed ==
    ASSUME WellFormed(file), Tool
    PROVE  WellFormed(file')
<1>1. CASE SyncExample
  BY <1>1, SyncedKeeps DEF SyncExample
<1>2. ASSUME NEW host \in Hosts, SetHost(host)
      PROVE  WellFormed(file')
  <2>1. host \in Values("Host")
    BY DEF Values
  <2> QED BY <1>2, <2>1, HostWellFormed DEF SetHost
<1>3. ASSUME NEW enabled \in Values("Enabled"), NEW ip \in Values("AdvertiseIp"),
             SetTunnel(enabled, ip)
      PROVE  WellFormed(file')
  BY <1>3, TunnelledParts DEF SetTunnel
<1>4. CASE SetupWithEnter
  BY <1>4, AfterEnterWellFormed DEF SetupWithEnter
<1> QED BY <1>1, <1>2, <1>3, <1>4 DEF Tool

\* config.ini stays a file whose every line stands under its header and has a
\* value of its key, whatever the tools and the operator do.
THEOREM ConfigTyped == Spec => []ConfigTypeOK
<1>1. Init => ConfigTypeOK
  BY InitWellFormed DEF WellFormed, ConfigTypeOK
<1>2. ConfigTypeOK /\ [Next]_file => ConfigTypeOK'
  <2> SUFFICES ASSUME ConfigTypeOK, [Next]_file PROVE ConfigTypeOK'
    OBVIOUS
  <2>1. WellFormed(file)
    BY DEF WellFormed, ConfigTypeOK
  <2>2. WellFormed(file')
    BY <2>1, OperatorWellFormed, ToolWellFormed DEF Next
  <2> QED BY <2>2 DEF WellFormed, ConfigTypeOK
<1> QED BY <1>1, <1>2, PTL DEF Spec

-------------------------------------------------------------------------------
\* Rendering keeps the lines there are.
LEMMA RenderedLines ==
    ASSUME NEW f, NEW s \in Sections, NEW k \in Keys, f.value[s][k] # None
    PROVE  Rendered(f).value[s][k] = f.value[s][k]
BY RenderedParts DEF Line

\* Where the section [VRM_TUNNEL] has its header, the boot sync and set-host
\* leave the tunnel's settings.
LEMMA HostKeepsTunnel ==
    ASSUME NEW f, WellFormed(f), "VRM_TUNNEL" \in f.heads,
           NEW host \in Values("Host"), TunnelValid(f)
    PROVE  TunnelValid(HostSet(f, host))
<1>1. \A k \in {"Enabled", "AdvertiseIp"} :
         k \in Settings \ {"Host"} /\ TemplateSection(k) = "VRM_TUNNEL"
  BY DEF Settings, Keys, TemplateSection
<1>2. \A k \in {"Enabled", "AdvertiseIp"} :
         Resolved(HostSet(f, host), k) = Resolved(f, k)
  BY <1>1, HostKeeps DEF Hidden
<1> QED BY <1>2 DEF TunnelValid

\* setup.sh with Enter changes no line of a valid file but the operator's own
\* in [VRM_TUNNEL].
LEMMA EnterKeepsLines ==
    ASSUME NEW f, WellFormed(f), TunnelValid(Synced(f))
    PROVE  Keeps(f, AfterEnter(f), Others)
<1> DEFINE f1 == Synced(f)
           host == Resolved(f1, "Host")
           f2 == HostSet(f1, host)
<1> SUFFICES ASSUME NEW s \in Sections, NEW k \in Keys, f.value[s][k] # None,
                    <<s, k>> \notin Others
             PROVE  AfterEnter(f).value[s][k] = f.value[s][k]
  BY DEF Keeps
<1>1. WellFormed(f1) /\ WellFormed(f2) /\ host \in Values("Host")
  BY SyncedKeeps, AfterEnterWellFormed
<1>2. f1.value[s][k] = f.value[s][k] /\ s \in f1.heads
  BY <1>1, RenderedLines, FileParts DEF Synced
<1>3. f2.value[s][k] = f.value[s][k] /\ s \in f2.heads
  <2> HIDE DEF f1
  <2> DEFINE g == With(f1, "ONPREMISE", "Host", host)
  <2>1. g.value[s][k] = IF s = "ONPREMISE" /\ k = "Host" THEN host
                        ELSE f1.value[s][k]
    BY <1>1, FileParts DEF With
  <2>2. s = "ONPREMISE" /\ k = "Host" => host = f1.value[s][k]
    BY <1>2 DEF Resolved, TemplateSection
  <2>3. g.value[s][k] = f.value[s][k]
    BY <1>2, <2>1, <2>2
  <2>4. f2 = Rendered(g)
    BY DEF HostSet
  <2>5. f2.value[s][k] = f.value[s][k]
    <3> HIDE DEF g, f2
    <3> QED BY <2>3, <2>4, RenderedLines
  <2> HIDE DEF g, f2
  <2> QED BY <1>1, <2>5, FileParts
<1>4. AfterEnter(f) = EnterAtTunnel(f2)
  BY DEF AfterEnter
<1>5. s = "VRM_TUNNEL" => k \in {"Enabled", "AdvertiseIp"} /\ TunnelValid(f2)
  <2>1. s = "VRM_TUNNEL" => k \in {"Enabled", "AdvertiseIp"}
    BY DEF Others
  <2>2. TunnelValid(f1)
    OBVIOUS
  <2> HIDE DEF f1
  <2> QED BY <1>1, <1>2, <2>1, <2>2, HostKeepsTunnel
<1> HIDE DEF f1, host, f2
<1>6. ASSUME NEW enabled \in Values("Enabled"), NEW ip \in Values("AdvertiseIp"),
             s = "VRM_TUNNEL" => /\ enabled = Resolved(f2, "Enabled")
                                 /\ ip = Resolved(f2, "AdvertiseIp")
      PROVE  TunnelSet(f2, enabled, ip).value[s][k] = f.value[s][k]
  <2> DEFINE g == Tunnelled(f2, enabled, ip)
  <2>1. /\ s # "VRM_TUNNEL" => g.value[s] = f2.value[s]
        /\ g.value["VRM_TUNNEL"]["Enabled"] = enabled
        /\ g.value["VRM_TUNNEL"]["AdvertiseIp"] = ip
    BY <1>1, TunnelledParts
  <2>2. TunnelSet(f2, enabled, ip) = Rendered(g)
    BY DEF TunnelSet, Tunnelled
  <2> HIDE DEF g
  <2>3. ASSUME s = "VRM_TUNNEL"
        PROVE  Resolved(f2, k) = f2.value[s][k]
    BY <1>3, <1>5, <2>3 DEF Resolved, TemplateSection
  <2>4. g.value[s][k] = f.value[s][k]
    BY <1>3, <1>5, <1>6, <2>1, <2>3
  <2> QED BY <2>2, <2>4, RenderedLines
<1>7. /\ Resolved(f2, "Enabled") \in Values("Enabled")
      /\ Resolved(f2, "AdvertiseIp") \in Values("AdvertiseIp")
  BY <1>1, ResolvedValue DEF Settings, Keys
<1>8. "false" \in Values("Enabled") /\ "" \in Values("AdvertiseIp")
  BY DEF Values
<1>9. CASE TunnelValid(f2)
  BY <1>4, <1>6, <1>7, <1>9 DEF EnterAtTunnel
<1>10. CASE ~TunnelValid(f2)
  BY <1>4, <1>5, <1>6, <1>8, <1>10 DEF EnterAtTunnel
<1> QED BY <1>9, <1>10

\* sync-example, set-host and setup.sh answered with Enter keep every line they
\* are not asked to change, in the operator's own sections too; so does
\* set-tunnel outside its section, and of that section's lines Enter loses
\* only those the template does not know.
THEOREM ToolsKeepLines == Spec => []ValuesKept
<1>1. ConfigTypeOK => ValuesKept
  <2> SUFFICES ASSUME ConfigTypeOK PROVE ValuesKept
    OBVIOUS
  <2>1. WellFormed(file)
    BY DEF WellFormed, ConfigTypeOK
  <2>2. Keeps(file, Synced(file), {})
    BY RenderedLines DEF Keeps, Synced
  <2>3. ASSUME NEW host \in Hosts
        PROVE  Keeps(file, HostSet(file, host), {<<"ONPREMISE", "Host">>})
    <3> DEFINE g == With(file, "ONPREMISE", "Host", host)
    <3>1. ASSUME NEW s \in Sections, NEW k \in Keys,
                 <<s, k>> # <<"ONPREMISE", "Host">>
          PROVE  g.value[s][k] = file.value[s][k]
      <4>1. s # "ONPREMISE" \/ k # "Host"
        BY <3>1
      <4> QED BY <2>1, <4>1, FileParts DEF With
    <3> HIDE DEF g
    <3>2. HostSet(file, host) = Rendered(g)
      BY DEF HostSet, g
    <3> QED BY <3>1, <3>2, RenderedLines DEF Keeps
  <2>4. ASSUME NEW enabled \in Values("Enabled"), NEW ip \in Values("AdvertiseIp")
        PROVE  Keeps(file, TunnelSet(file, enabled, ip), Asked \cup Others)
    <3>0. \A s \in Sections, k \in Keys :
             <<s, k>> \notin Asked \cup Others => s # "VRM_TUNNEL"
      BY DEF Asked, Others
    <3>1. \A s \in Sections \ {"VRM_TUNNEL"} :
             Tunnelled(file, enabled, ip).value[s] = file.value[s]
      BY <2>1, TunnelledParts
    <3>2. TunnelSet(file, enabled, ip) = Rendered(Tunnelled(file, enabled, ip))
      BY DEF TunnelSet, Tunnelled
    <3> QED BY <3>0, <3>1, <3>2, RenderedLines DEF Keeps
  <2> QED BY <2>1, <2>2, <2>3, <2>4, EnterKeepsLines DEF ValuesKept
<1> QED BY <1>1, ConfigTyped, PTL

\* Completing the file at boot changes no setting the programs resolve.
THEOREM BootIsNeutral == Spec => []BootChangesNothing
<1>1. ConfigTypeOK => BootChangesNothing
  BY SyncedKeeps DEF ConfigTypeOK, WellFormed, BootChangesNothing, SameSettings
<1> QED BY <1>1, ConfigTyped, PTL

\* Where the section [VRM_TUNNEL] is missing after sync-example, all its keys
\* are in [DEFAULT].
LEMMA NoTunnelSection ==
    ASSUME NEW f, WellFormed(f), "VRM_TUNNEL" \notin Synced(f).heads,
           NEW k \in {"Enabled", "AdvertiseIp"}
    PROVE  Hidden(f, k)
<1>1. "VRM_TUNNEL" \in TemplateSections /\ "VRM_TUNNEL" \in Sections
  BY DEF TemplateSections, Sections
<1>2. Synced(f) = f /\ Missing(f) = {}
  BY <1>1, RenderedParts DEF Synced
<1>3. k \in Settings /\ k \in Keys /\ TemplateSection(k) = "VRM_TUNNEL"
  BY DEF Settings, Keys, TemplateSection
<1>4. Value(f, "VRM_TUNNEL", k) # None
  BY <1>2, <1>3 DEF Missing
<1>5. f.value["VRM_TUNNEL"][k] = None
  BY <1>1, <1>2, <1>3, FileParts
<1> QED BY <1>2, <1>3, <1>4, <1>5 DEF Value, Hidden

\* A re-run of setup.sh in which the operator only presses Enter changes
\* nothing the programs resolve.
THEOREM EnterIsNeutral == Spec => []EnterChangesNothing
<1>1. ASSUME ConfigTypeOK, TunnelValid(Synced(file))
      PROVE  SameSettings(file, AfterEnter(file))
  <2> DEFINE f1 == Synced(file)
             f2 == HostSet(f1, Resolved(f1, "Host"))
  <2>1. WellFormed(file)
    BY <1>1 DEF WellFormed, ConfigTypeOK
  <2>2. WellFormed(f1) /\ WellFormed(f2) /\ Resolved(f1, "Host") \in Values("Host")
    BY <2>1, SyncedKeeps, AfterEnterWellFormed
  <2>3. \A k \in Settings : ~Hidden(file, k) =>
           ~Hidden(f1, k) /\ Resolved(f1, k) = Resolved(file, k)
    BY <2>1, SyncedKeeps
  <2>4. AfterEnter(file) = EnterAtTunnel(f2)
    BY DEF AfterEnter
  <2>5. \A k \in {"Enabled", "AdvertiseIp"} :
           "VRM_TUNNEL" \notin f1.heads => Hidden(file, k)
    BY <2>1, NoTunnelSection
  <2>6. \A k \in {"Enabled", "AdvertiseIp"} :
           k \in Settings /\ k # "Host" /\ TemplateSection(k) = "VRM_TUNNEL"
    BY DEF Settings, Keys, TemplateSection
  <2>7. TunnelValid(f1)
    BY <1>1
  <2> HIDE DEF f1
  <2>8. /\ Resolved(f2, "Host") = Resolved(f1, "Host")
        /\ \A k \in Settings : ~Hidden(f2, k)
        /\ \A k \in Settings \ {"Host"} : ~Hidden(f1, k) =>
              Resolved(f2, k) = Resolved(f1, k)
    BY <2>2, HostKeeps
  <2> HIDE DEF f2
  <2>9. ASSUME NEW k \in Settings \ {"Enabled", "AdvertiseIp"}, ~Hidden(file, k)
        PROVE  Resolved(AfterEnter(file), k) = Resolved(file, k)
    <3>1. Resolved(f2, k) = Resolved(file, k)
      BY <2>3, <2>8, <2>9
    <3> QED BY <2>2, <2>4, <2>8, <3>1, EnterKeeps
  <2>10. ASSUME NEW k \in {"Enabled", "AdvertiseIp"}, ~Hidden(file, k)
         PROVE  Resolved(AfterEnter(file), k) = Resolved(file, k)
    <3>1. "VRM_TUNNEL" \in f1.heads
      BY <2>5, <2>10
    <3>2. \A j \in {"Enabled", "AdvertiseIp"} : Resolved(f2, j) = Resolved(f1, j)
      BY <2>6, <2>8, <3>1 DEF Hidden
    <3>3. TunnelValid(f2)
      BY <2>7, <3>2 DEF TunnelValid
    <3>4. Resolved(AfterEnter(file), k) = Resolved(f2, k)
      BY <2>2, <2>4, <3>3, EnterKeeps
    <3> QED BY <2>3, <2>6, <2>10, <3>2, <3>4
  <2> QED BY <2>9, <2>10 DEF SameSettings
<1>2. ConfigTypeOK => EnterChangesNothing
  BY <1>1 DEF EnterChangesNothing
<1> QED BY <1>2, ConfigTyped, PTL

\* No tool leaves an enabled tunnel that the programs refuse where there was
\* none.
THEOREM TunnelStaysValid == Spec => ToolsKeepTunnelValid
<1>1. ASSUME ConfigTypeOK, TunnelValid(file), \A k \in Settings : ~Hidden(file, k),
             Tool
      PROVE  TunnelValid(file')
  <2>1. WellFormed(file)
    BY <1>1 DEF WellFormed, ConfigTypeOK
  <2>2. {"Enabled", "AdvertiseIp"} \subseteq Settings \ {"Host"}
    BY DEF Settings, Keys
  <2>3. CASE SyncExample
    BY <1>1, <2>1, <2>2, <2>3, SyncedKeeps DEF SyncExample, TunnelValid
  <2>4. ASSUME NEW host \in Hosts, SetHost(host)
        PROVE  TunnelValid(file')
    <3>1. host \in Values("Host")
      BY DEF Values
    <3> QED BY <1>1, <2>1, <2>2, <2>4, <3>1, HostKeeps DEF SetHost, TunnelValid
  <2>5. ASSUME NEW enabled \in Values("Enabled"), NEW ip \in Values("AdvertiseIp"),
               SetTunnel(enabled, ip)
        PROVE  TunnelValid(file')
    BY <2>1, <2>5, TunnelKeeps DEF SetTunnel, TunnelAccepts, TunnelValid
  <2>6. CASE SetupWithEnter
    BY <2>1, <2>6, AfterEnterWellFormed DEF SetupWithEnter
  <2> QED BY <1>1, <2>3, <2>4, <2>5, <2>6 DEF Tool
<1>2. ConfigTypeOK
      => [/\ TunnelValid(file) /\ ~TunnelValid(file')
          /\ \A k \in Settings : ~Hidden(file, k)
          => ~Tool]_file
  BY <1>1
<1> QED BY <1>2, ConfigTyped, PTL DEF ToolsKeepTunnelValid
===============================================================================
