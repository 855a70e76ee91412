---------------------------- MODULE DeploymentProofs ----------------------------
(***************************************************************************)
(* The DNAT rules of the tunnel, for any number of ports it is configured  *)
(* for over the time, and what the order of the scripts' steps keeps from  *)
(* happening, under everything the device does: scripts, signals, kills    *)
(* and reboots.                                                            *)
(***************************************************************************)
EXTENDS Deployment, SequenceTheorems, TLAPS

\* The inductive invariant of the rules: only a process that lives owns one.
TunnelInv ==
    /\ TunnelTypeOK
    /\ NoRuleTwice
    /\ RulesAccountedFor
    /\ owned => tunnel # "dead"

-------------------------------------------------------------------------------
\* What -D leaves of a table in which no rule stands twice.
LEMMA RuleDeleted ==
    ASSUME NEW rules \in Seq(Dests), IsInjective(rules), NEW d \in Dests
    PROVE  /\ RemoveFirst(rules, d) \in Seq(Dests)
           /\ IsInjective(RemoveFirst(rules, d))
           /\ Range(RemoveFirst(rules, d)) = Range(rules) \ {d}
<1>1. CASE ~\E i \in 1..Len(rules) : rules[i] = d
  <2>1. RemoveFirst(rules, d) = rules
    BY <1>1 DEF RemoveFirst
  <2> QED BY <1>1, <2>1 DEF Range
<1>2. CASE \E i \in 1..Len(rules) : rules[i] = d
  <2>1. PICK i \in 1..Len(rules) : rules[i] = d
    BY <1>2
  <2>2. {j \in 1..Len(rules) : rules[j] = d} = {i}
    BY <2>1 DEF IsInjective
  <2>3. Min({i}) = i
    BY DEF Min
  <2>4. SelectInSeq(rules, LAMBDA v : v = d) = i
    BY <2>2, <2>3 DEF SelectInSeq
  <2> DEFINE left == SubSeq(rules, 1, i - 1)
             right == SubSeq(rules, i + 1, Len(rules))
             rest == left \o right
  <2>5. RemoveFirst(rules, d) = rest
    BY <1>2, <2>4 DEF RemoveFirst, RemoveAt
  <2>6L. /\ left \in Seq(Dests) /\ Len(left) = i - 1
         /\ \A j \in 1 .. i - 1 : left[j] = rules[j]
    BY <2>1
  <2>6R. /\ right \in Seq(Dests) /\ Len(right) = Len(rules) - i
         /\ \A j \in 1 .. Len(rules) - i : right[j] = rules[j + i]
    <3>1. \A j \in i + 1 .. Len(rules) : rules[j] \in Dests
      OBVIOUS
    <3>2. i + 1 \in Int /\ Len(rules) \in Int
      OBVIOUS
    <3>3. /\ right \in Seq(Dests)
          /\ Len(right) = IF i + 1 <= Len(rules) THEN Len(rules) - (i + 1) + 1 ELSE 0
          /\ \A j \in 1 .. Len(rules) - (i + 1) + 1 :
                right[j] = rules[(i + 1) + j - 1]
      BY <3>1, <3>2, SubSeqProperties
    <3> HIDE DEF right
    <3> QED BY <2>1, <3>2, <3>3
  <2> HIDE DEF left, right
  <2>6. rest \in Seq(Dests) /\ Len(rest) = Len(rules) - 1
    <3>1. Len(rest) = Len(left) + Len(right) /\ rest \in Seq(Dests)
      BY <2>6L, <2>6R, ConcatProperties
    <3> QED BY <2>1, <2>6L, <2>6R, <3>1
  <2>7. \A j \in 1..Len(rest) : rest[j] = rules[IF j < i THEN j ELSE j + 1]
    <3> SUFFICES ASSUME NEW j \in 1..Len(rest)
                 PROVE  rest[j] = rules[IF j < i THEN j ELSE j + 1]
      OBVIOUS
    <3>1. CASE j < i
      BY <2>1, <2>6L, <2>6R, <2>6, <3>1
    <3>2. CASE ~(j < i)
      <4>1. rest[j] = right[j - (i - 1)]
        BY <2>1, <2>6L, <2>6R, <2>6, <3>2
      <4>2. j - (i - 1) \in 1 .. Len(rules) - i /\ j - (i - 1) + i = j + 1
        BY <2>1, <2>6, <3>2
      <4> QED BY <2>6R, <3>2, <4>1, <4>2
    <3> QED BY <3>1, <3>2
  <2> HIDE DEF rest
  <2>8. IsInjective(rest)
    <3> SUFFICES ASSUME NEW j \in 1..Len(rest), NEW k \in 1..Len(rest),
                        rest[j] = rest[k]
                 PROVE  j = k
      BY <2>6 DEF IsInjective
    <3> DEFINE At(n) == IF n < i THEN n ELSE n + 1
    <3>1. At(j) \in DOMAIN rules /\ At(k) \in DOMAIN rules
      BY <2>1, <2>6
    <3>2. rules[At(j)] = rules[At(k)]
      BY <2>7
    <3>3. At(j) = At(k)
      BY <3>1, <3>2 DEF IsInjective
    <3> QED BY <2>1, <2>6, <3>3
  <2>9. Range(rest) = Range(rules) \ {d}
    <3>1. ASSUME NEW j \in 1..Len(rest) PROVE rest[j] \in Range(rules) \ {d}
      <4> DEFINE k == IF j < i THEN j ELSE j + 1
      <4>1. k \in 1..Len(rules) /\ k # i /\ rest[j] = rules[k]
        BY <2>1, <2>6, <2>7
      <4> QED BY <2>1, <4>1 DEF Range, IsInjective
    <3>2. ASSUME NEW j \in 1..Len(rules), rules[j] # d
          PROVE  \E k \in 1..Len(rest) : rest[k] = rules[j]
      <4>1. CASE j < i
        BY <2>1, <2>6, <2>7, <4>1
      <4>2. CASE j > i
        <5>1. j - 1 \in 1..Len(rest) /\ rest[j - 1] = rules[j]
          BY <2>1, <2>6, <2>7, <4>2
        <5> QED BY <5>1
      <4> QED BY <2>1, <3>2, <4>1, <4>2
    <3>3. Range(rest) \subseteq Range(rules) \ {d}
      BY <2>6, <3>1 DEF Range
    <3>4. ASSUME NEW x \in Range(rules) \ {d} PROVE x \in Range(rest)
      <4>1. PICK j \in 1..Len(rules) : rules[j] = x
        BY DEF Range
      <4>2. PICK k \in 1..Len(rest) : rest[k] = x
        BY <3>2, <4>1
      <4> QED BY <2>6, <4>2 DEF Range
    <3> QED BY <3>3, <3>4
  <2> QED BY <2>5, <2>6, <2>8, <2>9
<1> QED BY <1>1, <1>2

\* What -A makes of a table in which the rule does not stand.
LEMMA RuleAppended ==
    ASSUME NEW rules \in Seq(Dests), IsInjective(rules), NEW d \in Dests,
           d \notin Range(rules)
    PROVE  /\ Append(rules, d) \in Seq(Dests)
           /\ IsInjective(Append(rules, d))
           /\ Range(Append(rules, d)) = Range(rules) \cup {d}
<1> DEFINE longer == Append(rules, d)
<1>1. longer \in Seq(Dests) /\ Len(longer) = Len(rules) + 1
  OBVIOUS
<1>2. \A j \in 1..Len(longer) :
         longer[j] = IF j = Len(rules) + 1 THEN d ELSE rules[j]
  OBVIOUS
<1> HIDE DEF longer
<1>3. \A j \in 1..Len(rules) : rules[j] # d
  BY DEF Range
<1>4. IsInjective(longer)
  BY <1>1, <1>2, <1>3 DEF IsInjective
<1>5. Range(longer) = Range(rules) \cup {d}
  <2>1. longer[Len(rules) + 1] = d
    BY <1>1, <1>2
  <2>2. \A j \in 1..Len(rules) : longer[j] = rules[j]
    BY <1>1, <1>2
  <2>3. DOMAIN longer = 1..(Len(rules) + 1) /\ DOMAIN rules = 1..Len(rules)
    BY <1>1
  <2> QED BY <2>1, <2>2, <2>3, <1>2 DEF Range
<1> QED BY <1>1, <1>4, <1>5 DEF longer

-------------------------------------------------------------------------------
\* Each step of the process, and what ends it, keeps the rules accounted for.

\* A new tunnel process has added nothing.
LEMMA StartKeeps ==
    ASSUME TunnelInv, TunnelStarts
    PROVE  TunnelInv'
BY DestsAssumption DEF TunnelInv, TunnelTypeOK, NoRuleTwice, RulesAccountedFor,
   TunnelStarts, Enabled, Configs, Lines

\* The rule is inserted only where it is missing.
LEMMA AddKeeps ==
    ASSUME TunnelInv, AddRule
    PROVE  TunnelInv'
<1> USE DEF TunnelInv, TunnelTypeOK
<1>1. /\ tunnel = "add" /\ tunnel' = "handlers" /\ tunnel' \in Lines
      /\ UNCHANGED <<conf, dest, orphans>>
  BY DEF AddRule, Lines
<1>2. chain \in Seq(Dests) /\ IsInjective(chain) /\ dest \in Dests
  BY DEF NoRuleTwice
<1>3. CASE Adds(dest)
  <2>1. owned' \in BOOLEAN /\ chain' = IF owned' THEN Append(chain, dest) ELSE chain
    BY <1>3, TunnelAssumption DEF AddRule, IptablesResults
  <2>2. CASE owned'
    <3>1. chain' = Append(chain, dest) /\ dest \notin Range(chain)
      BY <1>3, <2>1, <2>2 DEF Adds
    <3>2. /\ chain' \in Seq(Dests) /\ IsInjective(chain')
          /\ Range(chain') = Range(chain) \cup {dest}
      BY <1>2, <3>1, RuleAppended
    <3>3. \A d \in Range(chain) : d \in orphans \/ d = dest
      BY DEF RulesAccountedFor
    <3>4. RulesAccountedFor'
      BY <1>1, <2>2, <3>2, <3>3 DEF RulesAccountedFor
    <3> QED BY <1>1, <2>1, <3>2, <3>4 DEF NoRuleTwice
  <2>3. CASE ~owned'
    <3>1. chain' = chain /\ dest \notin Range(chain)
      BY <1>3, <2>1, <2>3 DEF Adds
    <3>2. RulesAccountedFor'
      BY <1>1, <3>1 DEF RulesAccountedFor
    <3> QED BY <1>1, <2>1, <3>1, <3>2 DEF NoRuleTwice
  <2> QED BY <2>2, <2>3
<1>4. CASE ~Adds(dest)
  <2>1. UNCHANGED <<owned, chain>>
    BY <1>4 DEF AddRule
  <2>2. RulesAccountedFor'
    BY <1>1, <2>1 DEF RulesAccountedFor
  <2> QED BY <1>1, <2>1, <2>2 DEF NoRuleTwice
<1> QED BY <1>3, <1>4

\* Installing the handlers touches no rule.
LEMMA HandlersKeep ==
    ASSUME TunnelInv, InstallHandlers
    PROVE  TunnelInv'
BY DEF TunnelInv, TunnelTypeOK, NoRuleTwice, RulesAccountedFor,
   InstallHandlers, Lines

\* A process that dies leaves its rule as an orphan.
LEMMA DeathKeeps ==
    ASSUME TunnelInv, DieAt
    PROVE  TunnelInv'
BY DEF TunnelInv, TunnelTypeOK, NoRuleTwice, RulesAccountedFor, DieAt, Lines

\* A signal ends the loop, or the process by the default action.
LEMMA SignalKeeps ==
    ASSUME TunnelInv, Terminate
    PROVE  TunnelInv'
<1>1. CASE tunnel \in HandledAt
  BY <1>1 DEF Terminate, HandledAt, TunnelInv, TunnelTypeOK, NoRuleTwice,
     RulesAccountedFor, Lines
<1>2. CASE tunnel \notin HandledAt \cup {"dead"}
  BY <1>2, DeathKeeps DEF Terminate, HandledAt
<1>3. CASE tunnel = "dead"
  BY <1>3 DEF Terminate, HandledAt, tunnelVars, processVars, TunnelInv,
     TunnelTypeOK, NoRuleTwice, RulesAccountedFor
<1> QED BY <1>1, <1>2, <1>3

\* The process removes what it added, and no more.
LEMMA RemoveKeeps ==
    ASSUME TunnelInv, RemoveRule
    PROVE  TunnelInv'
<1> USE DEF TunnelInv, TunnelTypeOK
<1>1. /\ tunnel' = "dead" /\ tunnel' \in Lines /\ owned' = FALSE
      /\ UNCHANGED <<conf, dest>>
  BY DEF RemoveRule, Lines
<1>2. chain \in Seq(Dests) /\ IsInjective(chain) /\ dest \in Dests
  BY DEF NoRuleTwice
<1>3. CASE owned
  <2>1. PICK ok \in IptablesResults :
           /\ chain' = IF ok THEN Without(chain, dest) ELSE chain
           /\ orphans' = IF ok THEN orphans ELSE orphans \cup {dest}
    BY <1>3 DEF RemoveRule
  <2>2. CASE ok
    <3>1. /\ chain' \in Seq(Dests) /\ IsInjective(chain')
          /\ Range(chain') = Range(chain) \ {dest}
      BY <1>2, <2>1, <2>2, RuleDeleted DEF Without
    <3>2. orphans' = orphans
      BY <2>1, <2>2
    <3>3. RulesAccountedFor'
      BY <3>1, <3>2 DEF RulesAccountedFor
    <3> QED BY <1>1, <3>1, <3>2, <3>3 DEF NoRuleTwice
  <2>3. CASE ~ok
    <3>1. chain' = chain /\ orphans' = orphans \cup {dest}
      BY <2>1, <2>3
    <3>2. RulesAccountedFor'
      BY <3>1 DEF RulesAccountedFor
    <3> QED BY <1>1, <1>2, <3>1, <3>2 DEF NoRuleTwice
  <2> QED BY <2>2, <2>3
<1>4. CASE ~owned
  <2>1. UNCHANGED <<chain, orphans>>
    BY <1>4 DEF RemoveRule
  <2>2. RulesAccountedFor'
    BY <1>4, <2>1 DEF RulesAccountedFor
  <2> QED BY <1>1, <2>1, <2>2 DEF NoRuleTwice
<1> QED BY <1>3, <1>4

\* A reboot clears rules and processes together.
LEMMA RebootKeeps ==
    ASSUME TunnelInv, TunnelRebooted
    PROVE  TunnelInv'
<1>1. /\ chain' = <<>> /\ orphans' = {} /\ tunnel' = "dead" /\ owned' = FALSE
      /\ UNCHANGED <<conf, dest>>
  BY DEF TunnelRebooted
<1>2. DOMAIN chain' = {}
  BY <1>1
<1>3. IsInjective(chain') /\ Range(chain') = {} /\ chain' \in Seq(Dests)
  BY <1>1, <1>2 DEF IsInjective, Range
<1> QED BY <1>1, <1>3 DEF TunnelInv, TunnelTypeOK, NoRuleTwice,
        RulesAccountedFor, Lines

\* An edited port counts from the next start on.
LEMMA EditKeeps ==
    ASSUME TunnelInv, NEW c \in Configs, conf' = c,
           UNCHANGED <<processVars, chain, orphans>>
    PROVE  TunnelInv'
BY DEF TunnelInv, TunnelTypeOK, NoRuleTwice, RulesAccountedFor, processVars

\* Steps that concern no rule.
LEMMA ElsewhereKeeps ==
    ASSUME TunnelInv, UNCHANGED tunnelVars
    PROVE  TunnelInv'
BY DEF TunnelInv, TunnelTypeOK, NoRuleTwice, RulesAccountedFor, tunnelVars,
   processVars

-------------------------------------------------------------------------------
\* Every step of the device.

\* At first there is no rule.
LEMMA TunnelInvInit == Init => TunnelInv
<1> SUFFICES ASSUME Init PROVE TunnelInv
  OBVIOUS
<1>1. TunnelInit
  BY DEF Init
<1>2. DOMAIN chain = {} /\ chain \in Seq(Dests)
  BY <1>1 DEF TunnelInit
<1>3. IsInjective(chain) /\ Range(chain) = {}
  BY <1>2 DEF IsInjective, Range
<1> QED BY <1>1, <1>2, <1>3 DEF TunnelInit, TunnelInv, TunnelTypeOK, NoRuleTwice,
        RulesAccountedFor, Lines

\* The scripts reach rules only through the signal of svc -d.
LEMMA ScriptKeepsRules ==
    ASSUME TunnelInv, ScriptStep
    PROVE  TunnelInv'
<1>1. ASSUME NEW s \in Services,
             \/ Allow(s) \/ Mark(s) \/ Link(s) \/ CreateRc(s) \/ ChmodRc(s)
             \/ Persist(s) \/ Arm(s) \/ Up(s) \/ Unlink(s) \/ Forget(s)
      PROVE  UNCHANGED tunnelVars
  BY <1>1 DEF Allow, Mark, Link, CreateRc, ChmodRc, Persist, Arm, Up, Unlink,
     Forget, tunnelVars
<1>2. ASSUME NEW s \in Services, Restart(s) \/ Stop(s)
      PROVE  Terminate \/ UNCHANGED tunnelVars
  BY <1>2 DEF Restart, Stop, Signal
<1>3. ASSUME Record \/ KillStray \/ Disarm \/ Tidy \/ Erase \/ LegacyStarts
      PROVE  UNCHANGED tunnelVars
  BY <1>3 DEF Record, KillStray, Disarm, Tidy, Erase, LegacyStarts
<1>4. ASSUME NEW c \in Configs, Configure(c)
      PROVE  conf' = c /\ UNCHANGED <<processVars, chain, orphans>>
  BY <1>4 DEF Configure
<1> QED BY <1>1, <1>2, <1>3, <1>4, SignalKeeps, EditKeeps, ElsewhereKeeps
        DEF ScriptStep

\* So does the operator.
LEMMA OperatorKeepsRules ==
    ASSUME TunnelInv, Operator
    PROVE  TunnelInv'
<1>1. ASSUME NEW job \in Scripts, RunScript(job)
      PROVE  UNCHANGED tunnelVars
  BY <1>1 DEF RunScript
<1>2. ASSUME NEW s \in Services, SvcDown(s)
      PROVE  Terminate \/ UNCHANGED tunnelVars
  BY <1>2 DEF SvcDown, Signal
<1>3. ASSUME NEW c \in Configs, EditConf(c)
      PROVE  conf' = c /\ UNCHANGED <<processVars, chain, orphans>>
  BY <1>3 DEF EditConf
<1>4. ASSUME LegacyUninstalled \/ LeftoverRemoved
      PROVE  UNCHANGED tunnelVars
  BY <1>4 DEF LegacyUninstalled, LeftoverRemoved
<1> QED BY <1>1, <1>2, <1>3, <1>4, SignalKeeps, EditKeeps, ElsewhereKeeps
        DEF Operator

\* daemontools, the tunnel's own steps and the failures.
LEMMA RestKeepsRules ==
    ASSUME TunnelInv, Daemontools \/ TunnelRuns \/ Failures
    PROVE  TunnelInv'
<1>1. ASSUME NEW s \in Services, Scan(s)
      PROVE  UNCHANGED tunnelVars
  BY <1>1 DEF Scan
<1>2. ASSUME BridgeStarts \/ BackoffEnds \/ BridgeDies
      PROVE  UNCHANGED tunnelVars
  BY <1>2 DEF BridgeStarts, BackoffEnds, BridgeDies
<1>3. CASE TunnelSupervised
  BY <1>3, StartKeeps DEF TunnelSupervised
<1>4. CASE TunnelRuns
  BY <1>4, AddKeeps, HandlersKeep, RemoveKeeps DEF TunnelRuns
<1>5. CASE TunnelDies
  BY <1>5, DeathKeeps DEF TunnelDies, TunnelKilled
<1>6. CASE Reboot
  BY <1>6, RebootKeeps DEF Reboot
<1> QED BY <1>1, <1>2, <1>3, <1>4, <1>5, <1>6, ElsewhereKeeps
        DEF Daemontools, Failures

\* The three together, in every reachable state.
LEMMA TunnelInvariant == Spec => []TunnelInv
<1>1. TunnelInv /\ [Next]_vars => TunnelInv'
  <2> SUFFICES ASSUME TunnelInv, [Next]_vars PROVE TunnelInv'
    OBVIOUS
  <2>1. CASE UNCHANGED vars
    BY <2>1, ElsewhereKeeps DEF vars
  <2>2. CASE Next
    BY <2>2, ScriptKeepsRules, OperatorKeepsRules, RestKeepsRules DEF Next
  <2> QED BY <2>1, <2>2
<1> QED BY <1>1, TunnelInvInit, PTL DEF Spec

\* The table never holds a rule twice, whatever ports the tunnel is configured
\* for and however its processes end.
THEOREM NoRuleIsThereTwice == Spec => []NoRuleTwice
<1>1. TunnelInv => NoRuleTwice
  BY DEF TunnelInv
<1> QED BY <1>1, TunnelInvariant, PTL

\* A rule belongs to the process that runs and will remove it, or to one that
\* was never given the chance.
THEOREM EveryRuleIsAccountedFor == Spec => []RulesAccountedFor
<1>1. TunnelInv => RulesAccountedFor
  BY DEF TunnelInv
<1> QED BY <1>1, TunnelInvariant, PTL
-------------------------------------------------------------------------------
(***************************************************************************)
(* The tunnel waits for the operator, and what was uninstalled stays away. *)
(* Both rest on the order of the steps within a script, which is said of   *)
(* any list of steps and kept by its tails: each x comes after an e, or is *)
(* not there at all.                                                       *)
(***************************************************************************)
Preceded(q, x, e) ==
    \A i \in 1..Len(q) : q[i] = x => \E j \in 1..(i - 1) : q[j] = e

Absent(q, x) == \A i \in 1..Len(q) : q[i] # x

UsesOnly(q, steps) == \A i \in 1..Len(q) : q[i].step \in steps

BuildSteps  == {"allow", "mark", "link", "record", "create", "chmod", "persist",
                "arm", "up", "restart", "configure", "start"}
RemoveSteps == {"stop", "unlink", "kill", "disarm", "forget", "tidy", "erase"}

\* What every script is, and every rest of one.
Sensible(q) ==
    /\ UsesOnly(q, BuildSteps) \/ UsesOnly(q, RemoveSteps)
    /\ \A s \in Services : \A i \in 1..Len(q) : q[i] = Do("stop", s) => i = 1

\* A tunnel in /service keeps down, or was approved; the next one will be.
Held == "tunnel" \in down \cup approved

\* Since its svc -d, nothing that looks at /service brings the tunnel up.
Quiet == "tunnel" \in link => sup["tunnel"] = "down"

\* Why the tunnel waits.
WaitInv ==
    /\ tunnel \notin {"dead", "remove"} => sup["tunnel"] = "up"
    /\ sup["tunnel"] = "up" => "tunnel" \in link \cap approved
    /\ "tunnel" \in link => Held
    /\ "tunnel" \in approved \/ Preceded(script, Do("up", "tunnel"), Do("arm", "tunnel"))
    /\ Held \/ Preceded(script, Do("link", "tunnel"), Do("mark", "tunnel"))
    /\ ("tunnel" \in link => sup["tunnel"] # "none") \/ Absent(script, Do("stop", "tunnel"))
    /\ Quiet \/ Preceded(script, Do("unlink", "tunnel"), Do("stop", "tunnel"))
    /\ "tunnel" \notin link \/ Preceded(script, Do("forget", "tunnel"), Do("unlink", "tunnel"))

\* Why what was uninstalled stays away.
RetiredInv ==
    /\ retired \cap rclocal = {}
    /\ "tunnel" \in retired => "tunnel" \notin link
    /\ "bridge" \in retired => "bridge" \notin runnable
    /\ "bridge" \notin runnable \/ Preceded(script, Do("forget", "bridge"), Do("disarm", "bridge"))
    /\ \A s \in retired, step \in {"allow", "link", "persist"} :
          Absent(script, Do(step, s))

DeviceInv == DeploymentTypeOK /\ Sensible(script) /\ WaitInv /\ RetiredInv

\* The rest of a script: what is true of all its steps stays true, and what came
\* after the step that is done may be next.
LEMMA RestOfScript ==
    ASSUME NEW q \in Seq(Steps), q # <<>>
    PROVE  /\ Tail(q) \in Seq(Steps)
           /\ Head(q) = q[1] /\ Head(q) \in Steps
           /\ Len(q) \in Nat \ {0} /\ Len(Tail(q)) = Len(q) - 1
           /\ \A i \in 1..Len(Tail(q)) : Tail(q)[i] = q[i + 1]
OBVIOUS

\* A step that waits for another is not the first, and goes on waiting for it
\* until it is done.
LEMMA RestPreceded ==
    ASSUME NEW q \in Seq(Steps), q # <<>>, NEW x, NEW e, Preceded(q, x, e)
    PROVE  /\ Head(q) # x
           /\ Head(q) # e => Preceded(Tail(q), x, e)
<1>1. Head(q) # x
  BY RestOfScript DEF Preceded
<1>2. ASSUME Head(q) # e PROVE Preceded(Tail(q), x, e)
  <2> SUFFICES ASSUME NEW i \in 1..Len(Tail(q)), Tail(q)[i] = x
               PROVE  \E j \in 1..(i - 1) : Tail(q)[j] = e
    BY DEF Preceded
  <2>1. i + 1 \in 1..Len(q) /\ q[i + 1] = x
    BY RestOfScript
  <2>2. PICK j \in 1..i : q[j] = e
    BY <2>1 DEF Preceded
  <2>3. j # 1
    BY <1>2, <2>2, RestOfScript
  <2>4. j - 1 \in 1..(i - 1) /\ j - 1 \in 1..Len(Tail(q)) /\ (j - 1) + 1 = j
    BY <2>1, <2>2, <2>3, RestOfScript
  <2>5. Tail(q)[j - 1] = e
    BY <2>2, <2>4, RestOfScript
  <2> QED BY <2>4, <2>5
<1> QED BY <1>1, <1>2

\* What is not there does not come.
LEMMA RestAbsent ==
    ASSUME NEW q \in Seq(Steps), q # <<>>, NEW x, Absent(q, x)
    PROVE  Head(q) # x /\ Absent(Tail(q), x)
BY RestOfScript DEF Absent

\* A script that builds does not take down, and the other way round.
LEMMA RestSensible ==
    ASSUME NEW q \in Seq(Steps), q # <<>>, Sensible(q)
    PROVE  /\ Sensible(Tail(q))
           /\ Head(q).step \in BuildSteps =>
                 \A s, step : step \in RemoveSteps => Absent(Tail(q), Do(step, s))
           /\ Head(q).step \in RemoveSteps =>
                 \A s, step : step \in BuildSteps => Absent(Tail(q), Do(step, s))
           /\ \A s \in Services : Absent(Tail(q), Do("stop", s))
<1>1. ASSUME NEW steps, UsesOnly(q, steps)
      PROVE  UsesOnly(Tail(q), steps) /\ Head(q).step \in steps
  BY <1>1, RestOfScript DEF UsesOnly
<1>2. UsesOnly(Tail(q), BuildSteps) \/ UsesOnly(Tail(q), RemoveSteps)
  BY <1>1 DEF Sensible
<1>3. ASSUME NEW s \in Services, NEW i \in 1..Len(Tail(q))
      PROVE  Tail(q)[i] # Do("stop", s)
  <2> DEFINE g == Do("stop", s)
             r == Tail(q)
  <2>1. \A j \in 1..Len(q) : q[j] = g => j = 1
    BY DEF Sensible
  <2>2. /\ Len(q) \in Nat \ {0} /\ Len(r) = Len(q) - 1
        /\ r[i] = q[i + 1]
    BY RestOfScript
  <2> HIDE DEF g, r
  <2>3. i \in 1..Len(r)
    BY DEF r
  <2>4. i + 1 \in 1..Len(q) /\ i + 1 # 1
    BY <2>2, <2>3
  <2> QED BY <2>1, <2>2, <2>4 DEF g, r
<1>4. Sensible(Tail(q))
  BY <1>2, <1>3 DEF Sensible
<1>5. BuildSteps \cap RemoveSteps = {}
  BY DEF BuildSteps, RemoveSteps
<1>6. \A step, s : Do(step, s).step = step
  BY DEF Do
<1>7. ASSUME Head(q).step \in BuildSteps, NEW s, NEW step, step \in RemoveSteps
      PROVE  Absent(Tail(q), Do(step, s))
  <2>1. UsesOnly(Tail(q), BuildSteps)
    BY <1>1, <1>5, <1>7 DEF Sensible
  <2> QED BY <2>1, <1>5, <1>6, <1>7 DEF UsesOnly, Absent
<1>8. ASSUME Head(q).step \in RemoveSteps, NEW s, NEW step, step \in BuildSteps
      PROVE  Absent(Tail(q), Do(step, s))
  <2>1. UsesOnly(Tail(q), RemoveSteps)
    BY <1>1, <1>5, <1>8 DEF Sensible
  <2> QED BY <2>1, <1>5, <1>6, <1>8 DEF UsesOnly, Absent
<1> QED BY <1>3, <1>4, <1>7, <1>8 DEF Absent

\* What is not there waits for anything.
LEMMA AbsentWaits ==
    ASSUME NEW q, NEW x, NEW e, Absent(q, x)
    PROVE  Preceded(q, x, e)
BY DEF Absent, Preceded

\* Where the steps of two scripts are when one follows the other.
LEMMA Concatenated ==
    ASSUME NEW p \in Seq(Steps), NEW q \in Seq(Steps)
    PROVE  /\ p \o q \in Seq(Steps)
           /\ Len(p) \in Nat /\ Len(q) \in Nat /\ Len(p \o q) = Len(p) + Len(q)
           /\ \A i \in 1..Len(p) : (p \o q)[i] = p[i]
           /\ \A i \in 1..Len(q) : (p \o q)[Len(p) + i] = q[i]
OBVIOUS

\* Scripts one after the other.
LEMMA Joined ==
    ASSUME NEW p \in Seq(Steps), NEW q \in Seq(Steps)
    PROVE  /\ p \o q \in Seq(Steps)
           /\ \A x : Absent(p, x) /\ Absent(q, x) => Absent(p \o q, x)
           /\ \A x, e : Preceded(p, x, e) /\ Preceded(q, x, e) => Preceded(p \o q, x, e)
           /\ \A steps : UsesOnly(p, steps) /\ UsesOnly(q, steps)
                 => UsesOnly(p \o q, steps)
<1>1. /\ p \o q \in Seq(Steps)
      /\ Len(p) \in Nat /\ Len(q) \in Nat /\ Len(p \o q) = Len(p) + Len(q)
      /\ \A i \in 1..Len(p) : (p \o q)[i] = p[i]
      /\ \A i \in 1..Len(q) : (p \o q)[Len(p) + i] = q[i]
  BY Concatenated
<1> DEFINE r == p \o q
<1> HIDE DEF r
<1>2. ASSUME NEW i \in 1..Len(r), i \notin 1..Len(p)
      PROVE  /\ i - Len(p) \in 1..Len(q)
             /\ r[i] = q[i - Len(p)]
  <2>1. i - Len(p) \in 1..Len(q) /\ Len(p) + (i - Len(p)) = i
    BY <1>1, <1>2 DEF r
  <2> QED BY <1>1, <2>1 DEF r
<1>3. \A i \in 1..Len(p) : r[i] = p[i]
  BY <1>1 DEF r
<1>4. ASSUME NEW x, Absent(p, x), Absent(q, x) PROVE Absent(r, x)
  BY <1>2, <1>3, <1>4 DEF Absent
<1>5. ASSUME NEW steps, UsesOnly(p, steps), UsesOnly(q, steps)
      PROVE  UsesOnly(r, steps)
  BY <1>2, <1>3, <1>5 DEF UsesOnly
<1>6. ASSUME NEW x, NEW e, Preceded(p, x, e), Preceded(q, x, e)
      PROVE  Preceded(r, x, e)
  <2> SUFFICES ASSUME NEW i \in 1..Len(r), r[i] = x
               PROVE  \E j \in 1..(i - 1) : r[j] = e
    BY DEF Preceded
  <2>1. CASE i \in 1..Len(p)
    <3>1. PICK j \in 1..(i - 1) : p[j] = e
      BY <1>3, <1>6, <2>1 DEF Preceded
    <3>2. j \in 1..Len(p)
      BY <1>1, <2>1
    <3> QED BY <1>3, <3>1, <3>2
  <2>2. CASE i \notin 1..Len(p)
    <3>1. PICK j \in 1..((i - Len(p)) - 1) : q[j] = e
      BY <1>2, <1>6, <2>2 DEF Preceded
    <3>2. Len(p) + j \in 1..(i - 1) /\ j \in 1..Len(q)
      BY <1>1, <1>2, <2>2, <3>1
    <3>3. r[Len(p) + j] = e
      BY <1>1, <3>1, <3>2 DEF r
    <3> QED BY <3>2, <3>3
  <2> QED BY <2>1, <2>2
<1> QED BY <1>1, <1>4, <1>5, <1>6 DEF r

-------------------------------------------------------------------------------
\* The order of the steps in a script that starts.
Ordered(q) ==
    /\ Preceded(q, Do("up", "tunnel"), Do("arm", "tunnel"))
    /\ Preceded(q, Do("link", "tunnel"), Do("mark", "tunnel"))
    /\ \A s \in Services : \A step \in {"link", "persist"} :
          Preceded(q, Do(step, s), Do("allow", s))
    /\ Preceded(q, Do("unlink", "tunnel"), Do("stop", "tunnel"))
    /\ Preceded(q, Do("forget", "tunnel"), Do("unlink", "tunnel"))
    /\ Preceded(q, Do("forget", "bridge"), Do("disarm", "bridge"))

\* A script that builds has nothing to take down.
LEMMA BuildsOnly ==
    ASSUME NEW q \in Seq(Steps), UsesOnly(q, BuildSteps)
    PROVE  /\ Sensible(q)
           /\ \A s \in Services, step \in RemoveSteps : Absent(q, Do(step, s))
<1>1. ASSUME NEW s \in Services, NEW step \in RemoveSteps
      PROVE  Absent(q, Do(step, s))
  <2>1. Do(step, s).step \notin BuildSteps
    BY DEF Do, BuildSteps, RemoveSteps
  <2> QED BY <2>1 DEF UsesOnly, Absent
<1>2. "stop" \in RemoveSteps
  BY DEF RemoveSteps
<1> QED BY <1>1, <1>2 DEF Sensible, Absent

\* install.sh, in this order.
LEMMA InstallOrdered ==
    ASSUME NEW s \in Services
    PROVE  /\ Install(s) \in Seq(Steps) /\ UsesOnly(Install(s), BuildSteps)
           /\ Ordered(Install(s))
           /\ \A t \in Services \ {s} : \A step \in {"allow", "mark", "link", "persist"} :
                 Absent(Install(s), Do(step, t))
<1> DEFINE q == Install(s)
<1>1. /\ q \in Seq(Steps) /\ Len(q) \in {6, 7}
      /\ q[1] = Do("allow", s) /\ q[2] = Do("mark", s) /\ q[3] = Do("link", s)
      /\ \A i \in 4..Len(q) : q[i] \in {Do(step, s) : step \in
                                          {"record", "create", "chmod", "persist"}}
  <2>1. CASE s = "bridge"
    <3> DEFINE b == <<Do("allow", s), Do("mark", s), Do("link", s), Do("record", s),
                      Do("create", s), Do("chmod", s), Do("persist", s)>>
    <3>1. q = b
      BY <2>1 DEF Install
    <3>2. /\ b \in Seq(Steps) /\ Len(b) = 7
          /\ b[1] = Do("allow", s) /\ b[2] = Do("mark", s) /\ b[3] = Do("link", s)
          /\ b[4] = Do("record", s) /\ b[5] = Do("create", s)
          /\ b[6] = Do("chmod", s) /\ b[7] = Do("persist", s)
      BY DEF Do, Steps, Services
    <3> HIDE DEF b, q
    <3>3. \A i \in 4..7 : i = 4 \/ i = 5 \/ i = 6 \/ i = 7
      OBVIOUS
    <3> QED BY <3>1, <3>2, <3>3
  <2>2. CASE s = "tunnel"
    <3> DEFINE b == <<Do("allow", s), Do("mark", s), Do("link", s),
                      Do("create", s), Do("chmod", s), Do("persist", s)>>
    <3>1. q = b
      BY <2>2 DEF Install
    <3>2. /\ b \in Seq(Steps) /\ Len(b) = 6
          /\ b[1] = Do("allow", s) /\ b[2] = Do("mark", s) /\ b[3] = Do("link", s)
          /\ b[4] = Do("create", s) /\ b[5] = Do("chmod", s)
          /\ b[6] = Do("persist", s)
      BY DEF Do, Steps, Services
    <3> HIDE DEF b, q
    <3>3. \A i \in 4..6 : i = 4 \/ i = 5 \/ i = 6
      OBVIOUS
    <3> QED BY <3>1, <3>2, <3>3
  <2> QED BY <2>1, <2>2 DEF Services
<1> HIDE DEF q
<1>2. ASSUME NEW i \in 1..Len(q)
      PROVE  \E step : /\ q[i] = Do(step, s)
                       /\ i = 1 => step = "allow"
                       /\ i = 2 => step = "mark"
                       /\ i = 3 => step = "link"
                       /\ i > 3 => step \in {"record", "create", "chmod", "persist"}
  <2>1. i = 1 \/ i = 2 \/ i = 3 \/ i \in 4..Len(q)
    BY <1>1
  <2> QED BY <1>1, <2>1
<1>3. UsesOnly(q, BuildSteps)
  <2> SUFFICES ASSUME NEW i \in 1..Len(q) PROVE q[i].step \in BuildSteps
    BY DEF UsesOnly
  <2>1. PICK b : /\ q[i] = Do(b, s)
                 /\ b \in {"allow", "mark", "link", "record", "create", "chmod", "persist"}
    <3>1. i = 1 \/ i = 2 \/ i = 3 \/ i > 3
      BY <1>1
    <3> QED BY <1>2, <3>1
  <2> QED BY <2>1 DEF BuildSteps, Do
<1>4. ASSUME NEW t, NEW step, NEW i \in 1..Len(q), q[i] = Do(step, t)
      PROVE  /\ t = s
             /\ step = "link" => i = 3
             /\ step = "persist" => i > 3
             /\ step \notin {"up", "unlink", "forget"}
  <2>1. PICK b : /\ q[i] = Do(b, s)
                 /\ i = 1 => b = "allow"
                 /\ i = 2 => b = "mark"
                 /\ i = 3 => b = "link"
                 /\ i > 3 => b \in {"record", "create", "chmod", "persist"}
    BY <1>2
  <2>2. b = step /\ s = t
    BY <1>4, <2>1 DEF Do
  <2>3. i = 1 \/ i = 2 \/ i = 3 \/ i > 3
    BY <1>1
  <2> QED BY <2>1, <2>2, <2>3
<1>5. Ordered(q)
  <2>1. ASSUME NEW t \in Services, NEW step \in {"link", "persist"}
        PROVE  Preceded(q, Do(step, t), Do("allow", t))
    <3> SUFFICES ASSUME NEW i \in 1..Len(q), q[i] = Do(step, t)
                 PROVE  \E j \in 1..(i - 1) : q[j] = Do("allow", t)
      BY DEF Preceded
    <3>1. t = s /\ i >= 3
      BY <1>4
    <3>2. 1 \in 1..(i - 1)
      BY <3>1
    <3> QED BY <1>1, <3>1, <3>2
  <2>2. Preceded(q, Do("link", "tunnel"), Do("mark", "tunnel"))
    <3> SUFFICES ASSUME NEW i \in 1..Len(q), q[i] = Do("link", "tunnel")
                 PROVE  \E j \in 1..(i - 1) : q[j] = Do("mark", "tunnel")
      BY DEF Preceded
    <3>1. s = "tunnel" /\ i = 3
      BY <1>4
    <3>2. 2 \in 1..(i - 1)
      BY <3>1
    <3> QED BY <1>1, <3>1, <3>2
  <2>3. \A t, step : step \in {"up", "unlink", "forget"} => Absent(q, Do(step, t))
    BY <1>4 DEF Absent
  <2> QED BY <2>1, <2>2, <2>3, AbsentWaits DEF Ordered
<1>6. ASSUME NEW t \in Services \ {s}, NEW step \in {"allow", "mark", "link", "persist"}
      PROVE  Absent(q, Do(step, t))
  BY <1>4 DEF Absent
<1> QED BY <1>1, <1>3, <1>5, <1>6 DEF q

\* Scripts that build one after the other are one that builds.
LEMMA BuildJoined ==
    ASSUME NEW p \in Seq(Steps), UsesOnly(p, BuildSteps), Ordered(p),
           NEW q \in Seq(Steps), UsesOnly(q, BuildSteps), Ordered(q)
    PROVE  /\ p \o q \in Seq(Steps) /\ UsesOnly(p \o q, BuildSteps)
           /\ Ordered(p \o q)
BY Joined DEF Ordered

\* Activation: the down file goes before svc -u.
LEMMA ActivateOrdered ==
    ASSUME NEW s \in Services
    PROVE  /\ Activate(s) \in Seq(Steps) /\ UsesOnly(Activate(s), BuildSteps)
           /\ Ordered(Activate(s))
<1> DEFINE q == Activate(s)
<1>1. /\ q \in Seq(Steps) /\ Len(q) = 2
      /\ q[1] = Do("arm", s) /\ q[2] = Do("up", s)
  BY DEF Activate, Do, Steps, Services
<1> HIDE DEF q
<1>2. UsesOnly(q, BuildSteps)
  BY <1>1 DEF UsesOnly, BuildSteps, Do
<1>3. Preceded(q, Do("up", "tunnel"), Do("arm", "tunnel"))
  <2> SUFFICES ASSUME NEW i \in 1..Len(q), q[i] = Do("up", "tunnel")
               PROVE  \E j \in 1..(i - 1) : q[j] = Do("arm", "tunnel")
    BY DEF Preceded
  <2>1. i # 1 /\ s = "tunnel"
    BY <1>1 DEF Do
  <2>2. 1 \in 1..(i - 1)
    BY <1>1, <2>1
  <2> QED BY <1>1, <2>1, <2>2
<1>4. \A t \in Services, step \in {"link", "persist", "unlink", "forget"} :
         Absent(q, Do(step, t))
  BY <1>1 DEF Absent, Do
<1> QED BY <1>1, <1>2, <1>3, <1>4, AbsentWaits DEF q, Ordered, Services

\* setup.sh installs both, then starts both.
LEMMA SetupOrdered ==
    /\ Setup \in Seq(Steps) /\ UsesOnly(Setup, BuildSteps) /\ Ordered(Setup)
<1> DEFINE c == <<Do("configure", "tunnel")>>
           q == <<Do("arm", "bridge"), Do("arm", "tunnel"),
                  Do("up", "bridge"), Do("up", "tunnel"),
                  Do("restart", "bridge"), Do("restart", "tunnel")>>
<1>1. /\ c \in Seq(Steps) /\ Len(c) = 1
      /\ c[1] = Do("configure", "tunnel")
  BY DEF Do, Steps, Services
<1>2. /\ q \in Seq(Steps) /\ Len(q) = 6
      /\ q[1] = Do("arm", "bridge") /\ q[2] = Do("arm", "tunnel")
      /\ q[3] = Do("up", "bridge") /\ q[4] = Do("up", "tunnel")
      /\ q[5] = Do("restart", "bridge") /\ q[6] = Do("restart", "tunnel")
  BY DEF Do, Steps, Services
<1>3. Setup = Install("bridge") \o Install("tunnel") \o c \o q
  BY DEF Setup
<1> HIDE DEF c, q
<1>4. UsesOnly(c, BuildSteps) /\ UsesOnly(q, BuildSteps)
  BY <1>1, <1>2 DEF UsesOnly, BuildSteps, Do
<1>5. \A t \in Services, step \in {"link", "persist", "unlink", "forget"} :
         Absent(c, Do(step, t)) /\ Absent(q, Do(step, t))
  BY <1>1, <1>2 DEF Absent, Do
<1>6. Absent(c, Do("up", "tunnel"))
  BY <1>1 DEF Absent, Do
<1>7. Preceded(q, Do("up", "tunnel"), Do("arm", "tunnel"))
  <2> SUFFICES ASSUME NEW i \in 1..Len(q), q[i] = Do("up", "tunnel")
               PROVE  \E j \in 1..(i - 1) : q[j] = Do("arm", "tunnel")
    BY DEF Preceded
  <2>1. i # 1 /\ i # 2
    BY <1>2 DEF Do
  <2>2. 2 \in 1..(i - 1)
    BY <1>2, <2>1
  <2> QED BY <1>2, <2>2
<1>8. Ordered(c) /\ Ordered(q)
  BY <1>5, <1>6, <1>7, AbsentWaits DEF Ordered, Services
<1>9. /\ Install("bridge") \in Seq(Steps) /\ Install("tunnel") \in Seq(Steps)
      /\ UsesOnly(Install("bridge"), BuildSteps) /\ UsesOnly(Install("tunnel"), BuildSteps)
      /\ Ordered(Install("bridge")) /\ Ordered(Install("tunnel"))
  BY InstallOrdered DEF Services
<1> DEFINE two == Install("bridge") \o Install("tunnel")
<1>10. two \in Seq(Steps) /\ UsesOnly(two, BuildSteps) /\ Ordered(two)
  BY <1>9, BuildJoined
<1> HIDE DEF two
<1> DEFINE three == two \o c
<1>11. three \in Seq(Steps) /\ UsesOnly(three, BuildSteps) /\ Ordered(three)
  BY <1>1, <1>4, <1>8, <1>10, BuildJoined
<1> HIDE DEF three
<1>12. /\ three \o q \in Seq(Steps) /\ UsesOnly(three \o q, BuildSteps)
       /\ Ordered(three \o q)
  BY <1>2, <1>4, <1>8, <1>11, BuildJoined
<1> QED BY <1>3, <1>12 DEF three, two

\* uninstall.sh, both of them, step by step.
LEMMA UninstallSteps ==
    /\ Uninstall("tunnel") \in Seq(Steps) /\ Len(Uninstall("tunnel")) = 3
    /\ Uninstall("tunnel")[1] = Do("stop", "tunnel")
    /\ Uninstall("tunnel")[2] = Do("unlink", "tunnel")
    /\ Uninstall("tunnel")[3] = Do("forget", "tunnel")
    /\ Uninstall("bridge") \in Seq(Steps) /\ Len(Uninstall("bridge")) = 7
    /\ Uninstall("bridge")[1] = Do("stop", "bridge")
    /\ Uninstall("bridge")[2] = Do("unlink", "bridge")
    /\ Uninstall("bridge")[3] = Do("kill", "bridge")
    /\ Uninstall("bridge")[4] = Do("disarm", "bridge")
    /\ Uninstall("bridge")[5] = Do("forget", "bridge")
    /\ Uninstall("bridge")[6] = Do("tidy", "bridge")
    /\ Uninstall("bridge")[7] = Do("erase", "bridge")
BY DEF Uninstall, Do, Steps, Services

\* uninstall.sh: stopped, then out of /service, then forgotten.
LEMMA UninstallOrdered ==
    ASSUME NEW s \in Services
    PROVE  /\ Uninstall(s) \in Seq(Steps) /\ Sensible(Uninstall(s))
           /\ Ordered(Uninstall(s))
<1>1. CASE s = "tunnel"
  <2> DEFINE q == Uninstall("tunnel")
  <2>2. /\ q \in Seq(Steps) /\ Len(q) = 3
        /\ q[1] = Do("stop", "tunnel") /\ q[2] = Do("unlink", "tunnel")
        /\ q[3] = Do("forget", "tunnel")
    BY UninstallSteps
  <2> HIDE DEF q
  <2>3. UsesOnly(q, RemoveSteps)
    BY <2>2 DEF UsesOnly, RemoveSteps, Do
  <2>4. Sensible(q)
    BY <2>2, <2>3 DEF Sensible, Do
  <2>5. /\ Preceded(q, Do("unlink", "tunnel"), Do("stop", "tunnel"))
        /\ Preceded(q, Do("forget", "tunnel"), Do("unlink", "tunnel"))
    <3>1. ASSUME NEW i \in 1..Len(q), q[i] = Do("unlink", "tunnel")
          PROVE  i = 2 /\ 1 \in 1..(i - 1)
      BY <2>2, <3>1 DEF Do
    <3>2. ASSUME NEW i \in 1..Len(q), q[i] = Do("forget", "tunnel")
          PROVE  i = 3 /\ 2 \in 1..(i - 1)
      BY <2>2, <3>2 DEF Do
    <3> QED BY <2>2, <3>1, <3>2 DEF Preceded
  <2>6. /\ \A t \in Services, step \in {"up", "allow", "link", "persist"} : Absent(q, Do(step, t))
        /\ Absent(q, Do("forget", "bridge"))
    BY <2>2 DEF Absent, Do
  <2>7. Ordered(q)
    BY <2>5, <2>6, AbsentWaits DEF Ordered, Services
  <2> QED BY <1>1, <2>2, <2>4, <2>7 DEF q
<1>2. CASE s = "bridge"
  <2> DEFINE q == Uninstall("bridge")
  <2>2. /\ q \in Seq(Steps) /\ Len(q) = 7
        /\ q[1] = Do("stop", "bridge") /\ q[2] = Do("unlink", "bridge")
        /\ q[3] = Do("kill", "bridge") /\ q[4] = Do("disarm", "bridge")
        /\ q[5] = Do("forget", "bridge") /\ q[6] = Do("tidy", "bridge")
        /\ q[7] = Do("erase", "bridge")
    BY UninstallSteps
  <2> HIDE DEF q
  <2>3. UsesOnly(q, RemoveSteps)
    BY <2>2 DEF UsesOnly, RemoveSteps, Do
  <2>4. Sensible(q)
    BY <2>2, <2>3 DEF Sensible, Do
  <2>5. Preceded(q, Do("forget", "bridge"), Do("disarm", "bridge"))
    <3>1. ASSUME NEW i \in 1..Len(q), q[i] = Do("forget", "bridge")
          PROVE  i = 5 /\ 4 \in 1..(i - 1)
      BY <2>2, <3>1 DEF Do
    <3> QED BY <2>2, <3>1 DEF Preceded
  <2>6. /\ \A t \in Services, step \in {"up", "allow", "link", "persist"} : Absent(q, Do(step, t))
        /\ \A step \in {"unlink", "forget"} : Absent(q, Do(step, "tunnel"))
    BY <2>2 DEF Absent, Do
  <2>7. Ordered(q)
    BY <2>5, <2>6, AbsentWaits DEF Ordered, Services
  <2> QED BY <1>2, <2>2, <2>4, <2>7 DEF q
<1> QED BY <1>1, <1>2 DEF Services

\* What the operator may start.
LEMMA ScriptsOrdered ==
    ASSUME NEW job \in Scripts
    PROVE  job \in Seq(Steps) /\ Sensible(job) /\ Ordered(job)
BY InstallOrdered, ActivateOrdered, UninstallOrdered, SetupOrdered, BuildsOnly
   DEF Scripts

\* What a reboot starts: the install scripts of the lines that are there.
LEMMA BootOrdered ==
    /\ BootScript \in Seq(Steps) /\ UsesOnly(BootScript, BuildSteps)
    /\ Ordered(BootScript)
    /\ \A s \in Services \ rclocal : \A step \in {"allow", "link", "persist"} :
          Absent(BootScript, Do(step, s))
<1> DEFINE legacyLine == IF "legacy" \in rclocal THEN <<Do("start", "legacy")>> ELSE <<>>
           bridgeLine == IF "bridge" \in rclocal THEN Install("bridge") ELSE <<>>
           tunnelLine == IF "tunnel" \in rclocal THEN Install("tunnel") ELSE <<>>
           Fits(q) == /\ q \in Seq(Steps) /\ UsesOnly(q, BuildSteps) /\ Ordered(q)
                      /\ \A s \in Services \ rclocal :
                            \A step \in {"allow", "link", "persist"} :
                               Absent(q, Do(step, s))
<1>1. Fits(<<>>)
  BY DEF UsesOnly, Ordered, Preceded, Absent
<1>2. Fits(<<Do("start", "legacy")>>)
  <2> DEFINE q == <<Do("start", "legacy")>>
  <2>1. q \in Seq(Steps) /\ Len(q) = 1 /\ q[1] = Do("start", "legacy")
    BY DEF Do, Steps
  <2> HIDE DEF q
  <2>2. /\ UsesOnly(q, BuildSteps)
        /\ \A s \in Services, step \in {"allow", "link", "persist", "up", "unlink", "forget"} :
              Absent(q, Do(step, s))
    BY <2>1 DEF UsesOnly, BuildSteps, Absent, Do
  <2>3. Ordered(q)
    BY <2>2, AbsentWaits DEF Ordered, Services
  <2> QED BY <2>1, <2>2, <2>3 DEF q
<1>3. ASSUME NEW s \in Services, s \in rclocal PROVE Fits(Install(s))
  BY <1>3, InstallOrdered
<1>4. Fits(legacyLine) /\ Fits(bridgeLine) /\ Fits(tunnelLine)
  BY <1>1, <1>2, <1>3, Zenon DEF Services
<1>5. BootScript = legacyLine \o bridgeLine \o tunnelLine
  BY DEF BootScript
<1> HIDE DEF legacyLine, bridgeLine, tunnelLine
<1>6. ASSUME NEW p, NEW q, Fits(p), Fits(q) PROVE Fits(p \o q)
  BY <1>6, Joined, BuildJoined
<1>7. Fits(BootScript)
  BY <1>4, <1>5, <1>6
<1> QED BY <1>7

-------------------------------------------------------------------------------
\* A step is what it does and on what.
LEMMA StepsDiffer ==
    ASSUME NEW a, NEW s, NEW b, NEW t
    PROVE  Do(a, s) = Do(b, t) <=> a = b /\ s = t
BY DEF Do

\* What a step of the script leaves of it.
LEMMA Advance ==
    ASSUME script \in Seq(Steps), Sensible(script), NEW step, NEW s, Begins(step, s)
    PROVE  /\ script' \in Seq(Steps) /\ Sensible(script')
           /\ \A x, e : Preceded(script, x, e) =>
                 Do(step, s) # x /\ (Do(step, s) # e => Preceded(script', x, e))
           /\ \A x : Absent(script, x) => Do(step, s) # x /\ Absent(script', x)
           /\ step \in BuildSteps =>
                 \A r, t : r \in RemoveSteps =>
                    \A e : Preceded(script', Do(r, t), e)
           /\ step \in RemoveSteps =>
                 \A b, t : b \in BuildSteps =>
                    /\ Absent(script', Do(b, t))
                    /\ \A e : Preceded(script', Do(b, t), e)
           /\ \A t \in Services : Absent(script', Do("stop", t))
<1> USE DEF Begins
<1>1. script # <<>> /\ Head(script) = Do(step, s) /\ script' = Tail(script)
  OBVIOUS
<1>2. script' \in Seq(Steps) /\ Sensible(script')
  BY <1>1, RestOfScript, RestSensible
<1>3. ASSUME NEW x, NEW e, Preceded(script, x, e)
      PROVE  Do(step, s) # x /\ (Do(step, s) # e => Preceded(script', x, e))
  BY <1>1, <1>3, RestPreceded
<1>4. ASSUME NEW x, Absent(script, x)
      PROVE  Do(step, s) # x /\ Absent(script', x)
  BY <1>1, <1>4, RestAbsent
<1> HIDE DEF Begins
<1>5. Do(step, s).step = step
  BY DEF Do
<1>6. ASSUME step \in BuildSteps, NEW r, NEW t, r \in RemoveSteps, NEW e
      PROVE  Preceded(script', Do(r, t), e)
  BY <1>1, <1>5, <1>6, RestSensible, AbsentWaits
<1>8. ASSUME step \in RemoveSteps, NEW b, NEW t, b \in BuildSteps, NEW e
      PROVE  Absent(script', Do(b, t)) /\ Preceded(script', Do(b, t), e)
  BY <1>1, <1>5, <1>8, RestSensible, AbsentWaits
<1>7. \A t \in Services : Absent(script', Do("stop", t))
  BY <1>1, RestSensible
<1> QED BY <1>2, <1>3, <1>4, <1>6, <1>7, <1>8

\* Each step of a script keeps the tunnel waiting and the retired away.

\* What has been retired is not given its x bit again.
LEMMA AllowKeeps ==
    ASSUME DeviceInv, NEW s \in Services, Allow(s)
    PROVE  WaitInv' /\ RetiredInv'
<1>1. script \in Seq(Steps) /\ Sensible(script) /\ Begins("allow", s)
  BY DEF DeviceInv, DeploymentTypeOK, Allow
<1>2. WaitInv'
  BY <1>1, Advance, StepsDiffer
     DEF DeviceInv, WaitInv, Held, Quiet, Allow, Services, BuildSteps,
         RemoveSteps, tunnelVars, processVars, rcVars, liveVars, historyVars
<1>3. RetiredInv'
  BY <1>1, Advance, StepsDiffer
     DEF DeviceInv, RetiredInv, Allow, Services, BuildSteps, RemoveSteps,
         rcVars, historyVars
<1> QED BY <1>2, <1>3

\* install.sh leaves a down file.
LEMMA MarkKeeps ==
    ASSUME DeviceInv, NEW s \in Services, Mark(s)
    PROVE  WaitInv' /\ RetiredInv'
<1>1. script \in Seq(Steps) /\ Sensible(script) /\ Begins("mark", s)
  BY DEF DeviceInv, DeploymentTypeOK, Mark
<1>2. WaitInv'
  BY <1>1, Advance, StepsDiffer
     DEF DeviceInv, WaitInv, Held, Quiet, Mark, Rebooted, Services, BuildSteps,
         RemoveSteps, tunnelVars, processVars, rcVars, liveVars, historyVars
<1>3. RetiredInv'
  BY <1>1, Advance, StepsDiffer
     DEF DeviceInv, RetiredInv, Mark, Services, BuildSteps, RemoveSteps,
         rcVars, historyVars
<1> QED BY <1>2, <1>3

\* rc.local is created without a line.
LEMMA CreateKeeps ==
    ASSUME DeviceInv, NEW s \in Services, CreateRc(s)
    PROVE  WaitInv' /\ RetiredInv'
<1>1. script \in Seq(Steps) /\ Sensible(script) /\ Begins("create", s)
  BY DEF DeviceInv, DeploymentTypeOK, CreateRc
<1>2. WaitInv'
  BY <1>1, Advance, StepsDiffer
     DEF DeviceInv, WaitInv, Held, Quiet, CreateRc, Services, BuildSteps,
         RemoveSteps, tunnelVars, processVars, rcVars, liveVars, historyVars
<1>3. RetiredInv'
  BY <1>1, Advance, StepsDiffer
     DEF DeviceInv, RetiredInv, CreateRc, Services, BuildSteps, RemoveSteps,
         rcVars, historyVars
<1> QED BY <1>2, <1>3

\* Its mode is not what keeps a service away.
LEMMA ChmodKeeps ==
    ASSUME DeviceInv, NEW s \in Services, ChmodRc(s)
    PROVE  WaitInv' /\ RetiredInv'
<1>1. script \in Seq(Steps) /\ Sensible(script) /\ Begins("chmod", s)
  BY DEF DeviceInv, DeploymentTypeOK, ChmodRc
<1>2. WaitInv'
  BY <1>1, Advance, StepsDiffer
     DEF DeviceInv, WaitInv, Held, Quiet, ChmodRc, Services, BuildSteps,
         RemoveSteps, tunnelVars, processVars, rcVars, liveVars, historyVars
<1>3. RetiredInv'
  BY <1>1, Advance, StepsDiffer
     DEF DeviceInv, RetiredInv, ChmodRc, Services, BuildSteps, RemoveSteps,
         rcVars, historyVars
<1> QED BY <1>2, <1>3

\* The link comes after the down file.
LEMMA LinkKeeps ==
    ASSUME DeviceInv, NEW s \in Services, Link(s)
    PROVE  WaitInv' /\ RetiredInv'
<1>1. script \in Seq(Steps) /\ Sensible(script) /\ Begins("link", s)
  BY DEF DeviceInv, DeploymentTypeOK, Link
<1>2. WaitInv'
  BY <1>1, Advance, StepsDiffer
     DEF DeviceInv, WaitInv, Held, Quiet, Link, Services, BuildSteps,
         RemoveSteps, tunnelVars, processVars, rcVars, liveVars, historyVars
<1>3. RetiredInv'
  BY <1>1, Advance, StepsDiffer
     DEF DeviceInv, RetiredInv, Link, Services, BuildSteps, RemoveSteps, rcVars,
         historyVars
<1> QED BY <1>2, <1>3

\* The line in rc.local is that of a service that is installed.
LEMMA PersistKeeps ==
    ASSUME DeviceInv, NEW s \in Services, Persist(s)
    PROVE  WaitInv' /\ RetiredInv'
<1>1. script \in Seq(Steps) /\ Sensible(script) /\ Begins("persist", s)
  BY DEF DeviceInv, DeploymentTypeOK, Persist
<1>2. sup \in [Services -> {"none", "down", "up"}]
  BY DEF DeviceInv, DeploymentTypeOK
<1>3. WaitInv'
  BY <1>1, <1>2, Advance, StepsDiffer
     DEF DeviceInv, WaitInv, Held, Quiet, Persist, Services, BuildSteps,
         RemoveSteps, historyVars, tunnelVars, processVars, fileVars, rcVars, liveVars
<1>4. RetiredInv'
  BY <1>1, Advance, StepsDiffer
     DEF DeviceInv, WaitInv, RetiredInv, Persist, Services, BuildSteps,
         RemoveSteps, historyVars, tunnelVars, processVars, fileVars, rcVars, liveVars
<1> QED BY <1>3, <1>4

\* Only the operator takes the down file of the tunnel away.
LEMMA ArmKeeps ==
    ASSUME DeviceInv, NEW s \in Services, Arm(s)
    PROVE  WaitInv' /\ RetiredInv'
<1>1. script \in Seq(Steps) /\ Sensible(script) /\ Begins("arm", s)
  BY DEF DeviceInv, DeploymentTypeOK, Arm
<1>2. sup \in [Services -> {"none", "down", "up"}]
  BY DEF DeviceInv, DeploymentTypeOK
<1>3. WaitInv'
  BY <1>1, <1>2, Advance, StepsDiffer
     DEF DeviceInv, WaitInv, Held, Quiet, Arm, Services, BuildSteps,
         RemoveSteps, tunnelVars, processVars, fileVars, rcVars, liveVars
<1>4. RetiredInv'
  BY <1>1, Advance, StepsDiffer
     DEF DeviceInv, WaitInv, RetiredInv, Arm, Services, BuildSteps,
         RemoveSteps, tunnelVars, processVars, fileVars, rcVars, liveVars
<1> QED BY <1>3, <1>4

\* svc -u reaches the tunnel after its down file is gone.
LEMMA UpKeeps ==
    ASSUME DeviceInv, NEW s \in Services, Up(s)
    PROVE  WaitInv' /\ RetiredInv'
<1>1. script \in Seq(Steps) /\ Sensible(script) /\ Begins("up", s)
  BY DEF DeviceInv, DeploymentTypeOK, Up
<1>2. sup \in [Services -> {"none", "down", "up"}]
  BY DEF DeviceInv, DeploymentTypeOK
<1>3. WaitInv'
  BY <1>1, <1>2, Advance, StepsDiffer
     DEF DeviceInv, WaitInv, Held, Quiet, Up, Services, BuildSteps,
         RemoveSteps, historyVars, tunnelVars, processVars, fileVars, rcVars, liveVars,
         Reaches
<1>4. RetiredInv'
  BY <1>1, Advance, StepsDiffer
     DEF DeviceInv, WaitInv, RetiredInv, Up, Services, BuildSteps, RemoveSteps,
         historyVars, tunnelVars, processVars, fileVars, rcVars, liveVars, Reaches
<1> QED BY <1>3, <1>4

\* A restarted tunnel ends; supervise goes on being told what it was told.
LEMMA RestartKeeps ==
    ASSUME DeviceInv, NEW s \in Services, Restart(s)
    PROVE  WaitInv' /\ RetiredInv'
<1>1. script \in Seq(Steps) /\ Sensible(script) /\ Begins("restart", s)
  BY DEF DeviceInv, DeploymentTypeOK, Restart
<1>2. sup \in [Services -> {"none", "down", "up"}]
  BY DEF DeviceInv, DeploymentTypeOK
<1>3. WaitInv'
  BY <1>1, <1>2, Advance, StepsDiffer
     DEF DeviceInv, WaitInv, Held, Quiet, Restart, Services, BuildSteps,
         RemoveSteps, historyVars, tunnelVars, processVars, fileVars, rcVars, liveVars,
         Reaches, Signal, Terminate, HandledAt, DieAt
<1>4. RetiredInv'
  BY <1>1, Advance, StepsDiffer
     DEF DeviceInv, WaitInv, RetiredInv, Restart, Services, BuildSteps,
         RemoveSteps, historyVars, tunnelVars, processVars, fileVars, rcVars, liveVars,
         Reaches, Signal, Terminate, HandledAt, DieAt
<1> QED BY <1>3, <1>4

\* svc -d ends the tunnel; svscan has seen it by now.
LEMMA StopKeeps ==
    ASSUME DeviceInv, NEW s \in Services, Stop(s)
    PROVE  WaitInv' /\ RetiredInv'
<1>1. script \in Seq(Steps) /\ Sensible(script) /\ Begins("stop", s)
  BY DEF DeviceInv, DeploymentTypeOK, Stop
<1>2. sup \in [Services -> {"none", "down", "up"}]
  BY DEF DeviceInv, DeploymentTypeOK
<1>3. WaitInv'
  BY <1>1, <1>2, Advance, StepsDiffer
     DEF DeviceInv, WaitInv, Held, Quiet, Stop, Services, BuildSteps,
         RemoveSteps, tunnelVars, processVars, fileVars, rcVars, liveVars, Reaches,
         Signal, Terminate, HandledAt, DieAt
<1>4. RetiredInv'
  BY <1>1, Advance, StepsDiffer
     DEF DeviceInv, WaitInv, RetiredInv, Stop, Services, BuildSteps,
         RemoveSteps, tunnelVars, processVars, fileVars, rcVars, liveVars, Reaches,
         Signal, Terminate, HandledAt, DieAt
<1> QED BY <1>3, <1>4

\* The link goes once supervise is told down.
LEMMA UnlinkKeeps ==
    ASSUME DeviceInv, NEW s \in Services, Unlink(s)
    PROVE  WaitInv' /\ RetiredInv'
<1>1. script \in Seq(Steps) /\ Sensible(script) /\ Begins("unlink", s)
  BY DEF DeviceInv, DeploymentTypeOK, Unlink
<1>2. sup \in [Services -> {"none", "down", "up"}]
  BY DEF DeviceInv, DeploymentTypeOK
<1>3. WaitInv'
  BY <1>1, <1>2, Advance, StepsDiffer
     DEF DeviceInv, WaitInv, Held, Quiet, Unlink, Services, BuildSteps,
         RemoveSteps, historyVars, tunnelVars, processVars, fileVars, rcVars, liveVars
<1>4. RetiredInv'
  BY <1>1, Advance, StepsDiffer
     DEF DeviceInv, WaitInv, RetiredInv, Unlink, Services, BuildSteps,
         RemoveSteps, historyVars, tunnelVars, processVars, fileVars, rcVars, liveVars
<1> QED BY <1>3, <1>4

\* A service is forgotten once its link is gone and its x bit with it.
LEMMA ForgetKeeps ==
    ASSUME DeviceInv, NEW s \in Services, Forget(s)
    PROVE  WaitInv' /\ RetiredInv'
<1>1. script \in Seq(Steps) /\ Sensible(script) /\ Begins("forget", s)
  BY DEF DeviceInv, DeploymentTypeOK, Forget
<1>2. sup \in [Services -> {"none", "down", "up"}]
  BY DEF DeviceInv, DeploymentTypeOK
<1>3. WaitInv'
  BY <1>1, <1>2, Advance, StepsDiffer
     DEF DeviceInv, WaitInv, Held, Quiet, Forget, Services, BuildSteps,
         RemoveSteps, tunnelVars, processVars, fileVars, rcVars, liveVars, LineRemoved
<1>4. RetiredInv'
  BY <1>1, Advance, StepsDiffer
     DEF DeviceInv, WaitInv, RetiredInv, Forget, Services, BuildSteps,
         RemoveSteps, tunnelVars, processVars, fileVars, rcVars, liveVars, LineRemoved
<1> QED BY <1>3, <1>4

\* The steps on one service only, and the start of a legacy bridge.
LEMMA SingleStepsKeep ==
    ASSUME DeviceInv,
           \/ Record \/ KillStray \/ Disarm \/ Tidy \/ Erase \/ LegacyStarts
           \/ \E c \in Configs : Configure(c)
    PROVE  WaitInv' /\ RetiredInv'
<1>1. script \in Seq(Steps) /\ Sensible(script)
  BY DEF DeviceInv, DeploymentTypeOK
<1> USE DEF DeviceInv, WaitInv, Held, Quiet, RetiredInv, Services, BuildSteps,
        RemoveSteps, tunnelVars, processVars, fileVars, rcVars, liveVars, historyVars
<1>2. CASE KillStray
  BY <1>1, <1>2, Advance, StepsDiffer DEF KillStray
<1>3. CASE Disarm
  BY <1>1, <1>3, Advance, StepsDiffer DEF Disarm
<1>4. CASE LegacyStarts
  BY <1>1, <1>4, Advance, StepsDiffer DEF LegacyStarts
<1>5. ASSUME NEW c \in Configs, Configure(c) PROVE WaitInv' /\ RetiredInv'
  BY <1>1, <1>5, Advance, StepsDiffer DEF Configure
<1>6. CASE Record
  BY <1>1, <1>6, Advance, StepsDiffer DEF Record
<1>7. CASE Tidy
  BY <1>1, <1>7, Advance, StepsDiffer DEF Tidy
<1>8. CASE Erase
  BY <1>1, <1>8, Advance, StepsDiffer DEF Erase
<1> QED BY <1>2, <1>3, <1>4, <1>5, <1>6, <1>7, <1>8

\* The operator's script starts in its own order; svc -d ends the tunnel.
LEMMA OperatorKeeps ==
    ASSUME DeviceInv, Operator
    PROVE  /\ WaitInv' /\ RetiredInv' /\ Sensible(script')
           /\ script' \in Seq(Steps)
<1> USE DEF DeviceInv, DeploymentTypeOK
<1>1. ASSUME NEW job \in Scripts, RunScript(job)
      PROVE  /\ WaitInv' /\ RetiredInv' /\ Sensible(script')
             /\ script' \in Seq(Steps)
  <2>1. /\ script' = job /\ retired' = retired \ Installed(job)
        /\ UNCHANGED <<tunnelVars, fileVars, liveVars, approved>>
        /\ "tunnel" \in link => sup["tunnel"] # "none"
    BY <1>1 DEF RunScript
  <2>2. script' \in Seq(Steps) /\ Sensible(script') /\ Ordered(script')
    BY <2>1, ScriptsOrdered
  <2>3. WaitInv'
    BY <2>1, <2>2 DEF WaitInv, Ordered, Held, Quiet, Services, tunnelVars,
       processVars, fileVars, rcVars, liveVars, historyVars
  <2>4. ASSUME NEW s \in retired', NEW step \in {"allow", "link", "persist"}
        PROVE  Absent(script', Do(step, s))
    <3>1. s \in Services /\ Do("allow", s) \notin Range(job)
      BY <2>1 DEF Installed
    <3>2. \A i \in 1..Len(job) : job[i] # Do("allow", s)
      BY <2>1, <2>2, <3>1 DEF Range
    <3>3. ASSUME NEW x, Preceded(job, x, Do("allow", s)) PROVE Absent(job, x)
      <4> SUFFICES ASSUME NEW i \in 1..Len(job), job[i] = x PROVE FALSE
        BY DEF Absent
      <4>1. PICK j \in 1..(i - 1) : job[j] = Do("allow", s)
        BY <3>3 DEF Preceded
      <4>2. j \in 1..Len(job)
        BY <2>1, <2>2
      <4> QED BY <3>2, <4>1, <4>2
    <3> QED BY <2>1, <2>2, <3>1, <3>2, <3>3 DEF Ordered, Absent
  <2>5. RetiredInv'
    BY <2>1, <2>2, <2>4 DEF RetiredInv, Ordered, fileVars, rcVars, liveVars
  <2> QED BY <2>2, <2>3, <2>5
<1>2. ASSUME NEW s \in Services, SvcDown(s)
      PROVE  /\ WaitInv' /\ RetiredInv' /\ Sensible(script')
             /\ script' \in Seq(Steps)
  BY <1>2 DEF SvcDown, WaitInv, RetiredInv, Held, Quiet, Reaches, Signal,
     Terminate, HandledAt, DieAt, Services, tunnelVars, processVars, fileVars, rcVars
<1>3. ASSUME NEW c \in Configs, EditConf(c)
      PROVE  /\ WaitInv' /\ RetiredInv' /\ Sensible(script')
             /\ script' \in Seq(Steps)
  BY <1>3 DEF EditConf, WaitInv, RetiredInv, Held, Quiet, processVars, fileVars, rcVars,
     liveVars, historyVars
<1>4. CASE LegacyUninstalled \/ LeftoverRemoved
  BY <1>4 DEF LegacyUninstalled, LeftoverRemoved, WaitInv, RetiredInv, Held,
     Quiet, tunnelVars, processVars, fileVars, rcVars, liveVars, historyVars
<1> QED BY <1>1, <1>2, <1>3, <1>4 DEF Operator

\* svscan starts a tunnel only without its down file.
LEMMA ScanKeeps ==
    ASSUME DeviceInv, NEW s \in Services, Scan(s)
    PROVE  WaitInv' /\ RetiredInv'
BY DEF DeviceInv, DeploymentTypeOK, Scan, WaitInv, RetiredInv, Held, Quiet,
   Services, tunnelVars, processVars, fileVars, rcVars, historyVars

\* Processes come and go as supervise is told.
LEMMA ProcessesKeep ==
    ASSUME DeviceInv,
           \/ BridgeStarts \/ BackoffEnds \/ TunnelSupervised \/ TunnelRuns
           \/ BridgeDies \/ TunnelDies
    PROVE  WaitInv' /\ RetiredInv'
<1> USE DEF DeviceInv, WaitInv, RetiredInv, Held, Quiet, tunnelVars, processVars,
        fileVars, rcVars, liveVars, historyVars
<1>1. CASE BridgeStarts \/ BackoffEnds \/ BridgeDies
  BY <1>1 DEF BridgeStarts, BackoffEnds, BridgeDies
<1>2. CASE TunnelSupervised
  BY <1>2 DEF TunnelSupervised, TunnelStarts
<1>3. CASE TunnelRuns
  BY <1>3 DEF TunnelRuns, AddRule, InstallHandlers, RemoveRule
<1>4. CASE TunnelDies
  BY <1>4 DEF TunnelDies, TunnelKilled, DieAt
<1> QED BY <1>1, <1>2, <1>3, <1>4

\* A reboot empties /service and runs install.sh of what has a line.
LEMMA RebootOrdered ==
    ASSUME DeviceInv, Reboot
    PROVE  /\ WaitInv' /\ RetiredInv' /\ Sensible(script')
           /\ script' \in Seq(Steps)
<1>1. /\ link' = {} /\ sup' = [s \in Services |-> "none"] /\ tunnel' = "dead"
      /\ script' = (IF rcMode = "on" THEN BootScript ELSE <<>>)
      /\ UNCHANGED <<rclocal, runnable, retired>>
  BY DEF Reboot, TunnelRebooted
<1>2. /\ script' \in Seq(Steps) /\ UsesOnly(script', BuildSteps) /\ Ordered(script')
      /\ \A s \in Services \ rclocal : \A step \in {"allow", "link", "persist"} :
            Absent(script', Do(step, s))
  <2>1. CASE rcMode = "on"
    BY <1>1, <2>1, BootOrdered
  <2>2. CASE rcMode # "on"
    BY <1>1, <2>2 DEF UsesOnly, Ordered, Preceded, Absent
  <2> QED BY <2>1, <2>2
<1>3. Sensible(script') /\ Absent(script', Do("stop", "tunnel"))
  BY <1>2, BuildsOnly DEF RemoveSteps, Services
<1>4. WaitInv'
  BY <1>1, <1>2, <1>3 DEF WaitInv, Ordered, Held, Quiet, Services
<1>5. RetiredInv'
  <2>1. retired \subseteq Services /\ retired \cap rclocal = {}
        /\ ("bridge" \in retired => "bridge" \notin runnable)
    BY DEF DeviceInv, DeploymentTypeOK, RetiredInv
  <2> QED BY <1>1, <1>2, <2>1 DEF RetiredInv, Ordered
<1> QED BY <1>1, <1>2, <1>3, <1>4, <1>5

-------------------------------------------------------------------------------
\* Types.  The tunnel's are part of TunnelInv.

\* The steps of a script.
LEMMA ScriptTypes ==
    ASSUME DeploymentTypeOK, ScriptStep, TunnelTypeOK', Sensible(script)
    PROVE  DeploymentTypeOK' /\ Sensible(script')
<1> USE DEF DeploymentTypeOK, Services, tunnelVars, processVars, fileVars, rcVars,
        liveVars, historyVars
<1>1. ASSUME NEW step, NEW s, Begins(step, s)
      PROVE  script' \in Seq(Steps) /\ Sensible(script')
  BY <1>1, Advance
<1>2. ASSUME NEW s \in Services,
             Allow(s) \/ Mark(s) \/ Link(s) \/ Persist(s) \/ Arm(s)
      PROVE  DeploymentTypeOK' /\ Sensible(script')
  BY <1>1, <1>2, ZenonT(60) DEF Allow, Mark, Link, Persist, Arm
<1>7. ASSUME NEW s \in Services, CreateRc(s) \/ ChmodRc(s)
      PROVE  DeploymentTypeOK' /\ Sensible(script')
  BY <1>1, <1>7 DEF CreateRc, ChmodRc
<1>3. ASSUME NEW s \in Services, Up(s) \/ Restart(s) \/ Stop(s)
      PROVE  DeploymentTypeOK' /\ Sensible(script')
  BY <1>1, <1>3, ZenonT(60) DEF Up, Restart, Stop, Signal
<1>4. ASSUME NEW s \in Services, Unlink(s) \/ Forget(s)
      PROVE  DeploymentTypeOK' /\ Sensible(script')
  BY <1>1, <1>4 DEF Unlink, Forget, LineRemoved
<1>5. ASSUME Record \/ KillStray \/ Disarm \/ Tidy \/ Erase \/ LegacyStarts
      PROVE  DeploymentTypeOK' /\ Sensible(script')
  BY <1>1, <1>5 DEF Record, KillStray, Disarm, Tidy, Erase, LegacyStarts
<1>6. ASSUME NEW c \in Configs, Configure(c)
      PROVE  DeploymentTypeOK' /\ Sensible(script')
  BY <1>1, <1>6 DEF Configure
<1> QED BY <1>2, <1>3, <1>4, <1>5, <1>6, <1>7 DEF ScriptStep

\* The steps of everybody else.
LEMMA OtherTypes ==
    ASSUME DeviceInv, TunnelTypeOK', Operator \/ Daemontools \/ TunnelRuns \/ Failures
    PROVE  DeploymentTypeOK' /\ Sensible(script')
<1>1. DeploymentTypeOK /\ Sensible(script)
  BY DEF DeviceInv
<1> USE DEF DeploymentTypeOK, Services, tunnelVars, processVars, fileVars, rcVars,
        liveVars, historyVars
<1>2. CASE Operator
  <2>1. script' \in Seq(Steps) /\ Sensible(script')
    BY <1>2, OperatorKeeps
  <2>2. ASSUME NEW job \in Scripts, RunScript(job) PROVE DeploymentTypeOK'
    BY <1>1, <2>1, <2>2 DEF RunScript
  <2>3. ASSUME NEW s \in Services, SvcDown(s) PROVE DeploymentTypeOK'
    BY <1>1, <2>1, <2>3 DEF SvcDown, Signal
  <2>4. ASSUME NEW c \in Configs, EditConf(c) PROVE DeploymentTypeOK'
    BY <1>1, <2>1, <2>4 DEF EditConf
  <2>5. ASSUME LegacyUninstalled \/ LeftoverRemoved PROVE DeploymentTypeOK'
    BY <1>1, <2>1, <2>5 DEF LegacyUninstalled, LeftoverRemoved
  <2> QED BY <1>2, <2>1, <2>2, <2>3, <2>4, <2>5 DEF Operator
<1>3. CASE Daemontools
  <2>1. ASSUME NEW s \in Services, Scan(s)
        PROVE  DeploymentTypeOK' /\ Sensible(script')
    BY <1>1, <2>1 DEF Scan
  <2>2. ASSUME BridgeStarts \/ BackoffEnds \/ TunnelSupervised
        PROVE  DeploymentTypeOK' /\ Sensible(script')
    BY <1>1, <2>2 DEF BridgeStarts, BackoffEnds, TunnelSupervised
  <2> QED BY <1>3, <2>1, <2>2 DEF Daemontools
<1>4. CASE TunnelRuns \/ BridgeDies \/ TunnelDies
  BY <1>1, <1>4 DEF TunnelRuns, BridgeDies, TunnelDies
<1>5. CASE Reboot
  <2>1. script' \in Seq(Steps) /\ Sensible(script')
    BY <1>5, RebootOrdered
  <2> QED BY <1>1, <1>5, <2>1 DEF Reboot
<1> QED BY <1>2, <1>3, <1>4, <1>5 DEF Failures

\* A device that has never seen the bridge.
LEMMA DeviceInvInit == Init => DeviceInv
<1> SUFFICES ASSUME Init PROVE DeviceInv
  OBVIOUS
<1>1. TunnelTypeOK
  BY TunnelInvInit DEF TunnelInv
<1>2. script = <<>> /\ tunnel = "dead"
  BY DEF Init, TunnelInit
<1>3. DeploymentTypeOK
  <2>1. <<>> \in Seq(Steps)
    OBVIOUS
  <2>2. /\ sup = [s \in Services |-> "none"]
        /\ rclocal \in {{}, {"legacy"}} /\ rcMode \in {"absent", "off", "on"}
        /\ legacy \in {"stopped", "running"}
    BY DEF Init
  <2> QED BY <1>1, <1>2, <2>1, <2>2 DEF Init, DeploymentTypeOK
<1>4. Sensible(script)
  BY <1>2 DEF Sensible, UsesOnly
<1>5. WaitInv
  BY <1>2 DEF Init, WaitInv, Held, Quiet, Services, Preceded, Absent
<1>6. RetiredInv
  BY <1>2 DEF Init, RetiredInv, Preceded
<1> QED BY <1>3, <1>4, <1>5, <1>6 DEF DeviceInv

\* Every step keeps it; the types of the tunnel are known from its rules.
LEMMA DeviceInvariant == Spec => []DeviceInv
<1>1. DeviceInv /\ TunnelInv' /\ [Next]_vars => DeviceInv'
  <2> SUFFICES ASSUME DeviceInv, TunnelTypeOK', [Next]_vars PROVE DeviceInv'
    BY DEF TunnelInv
  <2>0. DeploymentTypeOK /\ Sensible(script)
    BY DEF DeviceInv
  <2>1. CASE ScriptStep
    <3>1. DeploymentTypeOK' /\ Sensible(script')
      BY <2>0, <2>1, ScriptTypes
    <3>2. WaitInv' /\ RetiredInv'
      BY <2>1, AllowKeeps, MarkKeeps, LinkKeeps, CreateKeeps, ChmodKeeps,
         PersistKeeps, ArmKeeps, UpKeeps,
         RestartKeeps, StopKeeps, UnlinkKeeps, ForgetKeeps, SingleStepsKeep
         DEF ScriptStep
    <3> QED BY <3>1, <3>2 DEF DeviceInv
  <2>2. CASE Operator
    BY <2>2, OperatorKeeps, OtherTypes DEF DeviceInv
  <2>3. CASE Daemontools \/ TunnelRuns \/ BridgeDies \/ TunnelDies
    <3>1. DeploymentTypeOK' /\ Sensible(script')
      BY <2>3, OtherTypes DEF Failures
    <3>2. WaitInv' /\ RetiredInv'
      BY <2>3, ScanKeeps, ProcessesKeep DEF Daemontools
    <3> QED BY <3>1, <3>2 DEF DeviceInv
  <2>4. CASE Reboot
    BY <2>4, RebootOrdered, OtherTypes DEF DeviceInv, Failures
  <2>5. CASE UNCHANGED vars
    BY <2>5 DEF vars, tunnelVars, processVars, fileVars, rcVars, liveVars,
       historyVars, DeviceInv, DeploymentTypeOK, TunnelTypeOK, WaitInv,
       RetiredInv, Held, Quiet
  <2> QED BY <2>1, <2>2, <2>3, <2>4, <2>5 DEF Next, Failures
<1> QED BY <1>1, DeviceInvInit, TunnelInvariant, PTL DEF Spec

\* The state of the device keeps its types.
THEOREM DeploymentTyped == Spec => []DeploymentTypeOK
<1>1. DeviceInv => DeploymentTypeOK
  BY DEF DeviceInv
<1> QED BY <1>1, DeviceInvariant, PTL

\* The tunnel redirects nothing before the operator asked for it, since its
\* install or the last boot.
THEOREM TunnelWaits == Spec => []TunnelWaitsForOperator
<1>1. DeviceInv => TunnelWaitsForOperator
  BY DEF DeviceInv, WaitInv, TunnelWaitsForOperator
<1> QED BY <1>1, DeviceInvariant, PTL

\* Only daemontools starts a process, and only one it may run.
LEMMA OnlySupervisedStart ==
    ASSUME Next
    PROVE  /\ bridge = "dead" /\ bridge' # "dead"
                 => "bridge" \in runnable /\ UNCHANGED retired
           /\ tunnel = "dead" /\ tunnel' # "dead"
                 => sup["tunnel"] = "up" /\ UNCHANGED retired
<1> USE DEF tunnelVars, processVars, fileVars, rcVars, liveVars, historyVars
<1>1. ASSUME NEW s \in Services,
             \/ Allow(s) \/ Mark(s) \/ Link(s) \/ CreateRc(s) \/ ChmodRc(s)
             \/ Persist(s) \/ Arm(s) \/ Up(s) \/ Unlink(s) \/ Forget(s) \/ Scan(s)
      PROVE  UNCHANGED <<bridge, tunnel>>
  BY <1>1 DEF Allow, Mark, Link, CreateRc, ChmodRc, Persist, Arm, Up, Unlink,
     Forget, Scan
<1>2. ASSUME NEW s \in Services, Restart(s) \/ Stop(s) \/ SvcDown(s)
      PROVE  /\ bridge = "dead" => bridge' = "dead"
             /\ tunnel = "dead" => tunnel' = "dead"
  BY <1>2 DEF Restart, Stop, SvcDown, Signal, Terminate, HandledAt, DieAt
<1>3. ASSUME \/ Record \/ KillStray \/ Disarm \/ Tidy \/ Erase
             \/ LegacyStarts \/ BackoffEnds \/ BridgeDies
      PROVE  bridge' \in {"dead", bridge} /\ UNCHANGED tunnel
  BY <1>3 DEF Record, KillStray, Disarm, Tidy, Erase, LegacyStarts, BackoffEnds,
     BridgeDies
<1>4. ASSUME NEW c \in Configs, Configure(c) \/ EditConf(c)
      PROVE  UNCHANGED <<bridge, tunnel>>
  BY <1>4 DEF Configure, EditConf
<1>5. ASSUME \/ \E job \in Scripts : RunScript(job)
             \/ LegacyUninstalled \/ LeftoverRemoved
      PROVE  UNCHANGED <<bridge, tunnel>>
  BY <1>5 DEF RunScript, LegacyUninstalled, LeftoverRemoved
<1>6. ASSUME TunnelRuns \/ TunnelDies
      PROVE  UNCHANGED bridge /\ tunnel # "dead"
  BY <1>6 DEF TunnelRuns, TunnelDies, AddRule, InstallHandlers, RemoveRule,
     TunnelKilled
<1>7. CASE Reboot
  BY <1>7 DEF Reboot, TunnelRebooted
<1>8. CASE BridgeStarts
  BY <1>8 DEF BridgeStarts
<1>9. CASE TunnelSupervised
  BY <1>9 DEF TunnelSupervised
<1> QED BY <1>1, <1>2, <1>3, <1>4, <1>5, <1>6, <1>7, <1>8, <1>9
        DEF Next, ScriptStep, Operator, Daemontools, Failures

\* What was uninstalled does not come back, whatever the order of scripts,
\* reboots and supervise.
THEOREM UninstalledStaysAway == Spec => NeverRevived
<1> DEFINE Away == /\ bridge = "dead" /\ bridge' # "dead" => "bridge" \notin retired
                   /\ tunnel = "dead" /\ tunnel' # "dead" => "tunnel" \notin retired
<1>1. DeviceInv /\ [Next]_vars => [Away]_vars
  BY OnlySupervisedStart DEF DeviceInv, WaitInv, RetiredInv
<1> QED BY <1>1, DeviceInvariant, PTL DEF Spec, NeverRevived
===============================================================================
