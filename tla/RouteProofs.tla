----------------------------- MODULE RouteProofs -----------------------------
(***************************************************************************)
(* The tun inbound, for any first rule, and any number of starts and of    *)
(* failures: a run that ends by a signal with no command failing restores  *)
(* the host; resolv.conf survives every crash of a run that found it       *)
(* intact; and the DNS filters are there all or not at all.                *)
(*                                                                         *)
(* What is left to do is a suffix of a script, so what the host and the    *)
(* process hold is a function of how many commands are left of it.  Each   *)
(* promise has a shape: resolv.conf is written by the last four commands   *)
(* of Setup and the last three of Cleanup, the filters are added by the    *)
(* last ten of Setup, and while Cleanup runs each rule still on the host   *)
(* has its command left: but for the last rule, whose command may have     *)
(* taken another one away.                                                 *)
(***************************************************************************)
EXTENDS RouteManager, SequenceTheorems, TLAPS

RuleSet  == ToSet(BuildRules)
RestRule == Rule(7, 6, "rest")

\* A list of rules, none twice.
RuleSeqs == {s \in Seq(RuleSet) : \A i, j \in 1 .. Len(s) : s[i] = s[j] => i = j}

Routes   == {"endpoint"} \cup ToSet(Halves) \cup ToSet(Defaults)
AllFilters == ToSet(BlockDNSExcept)
Contents == {"orig", "tunnel", "empty", "none"}

FileOps     == {"trunc", "fill", "remove"}
FirewallOps == {"begin", "filter", "commit"}

FirewallCmds ==
    {Cmd("begin", "", "abort"), Cmd("commit", "", "abort")}
        \cup {Cmd("filter", f, "abort") : f \in AllFilters}

WriteCmds == {Cmd(op, file, "warn") : op \in {"trunc", "fill"}, file \in {"bak", "conf"}}

\* The commands of Setup on each platform.
RoutesOf(p) == IF p = "linux" THEN Routes \ {"endpoint"} ELSE Routes

RouteCmds(p) == {Cmd("addRoute", r, fail) : r \in RoutesOf(p), fail \in {"warn", "fatal"}}
RuleCmds(p)  == IF p = "linux" THEN {Cmd("addRule", r, "undo") : r \in RuleSet} ELSE {}
ToolCmds(p)  == IF p = "darwin" THEN {Cmd("service", "on", "file")} ELSE {}
LastCmds(p)  == IF p = "windows" THEN FirewallCmds ELSE WriteCmds

SetupCmds(p) ==
    {Cmd("find", "", "fatal"), Cmd("setRoutes", Defaults, "fatal"), Cmd("linkDNS", "on", "warn")}
        \cup RouteCmds(p) \cup RuleCmds(p) \cup ToolCmds(p) \cup LastCmds(p)

\* The commands of Cleanup and of a roll-back.
CleanupCmds ==
    {Cmd("linkDNS", "off", "warn"), Cmd("service", "empty", "warn"), Cmd("remove", "bak", "warn"),
     Cmd("trunc", "restored", "warn"), Cmd("fill", "restored", "warn"),
     Cmd("flushRoutes", "", "warn"), Cmd("firewall", "off", "warn")}
        \cup {Cmd("delRule", r, "warn") : r \in RuleSet}
        \cup {Cmd("delRoute", r, "warn") : r \in Routes}

Hosts == [routes : SUBSET Routes, rules : RuleSeqs, conf : Contents, bak : Contents,
          link : BOOLEAN, service : {"manual", "tunnel", "empty"},
          filters : {{}, AllFilters}]

Memories == [bak : BOOLEAN, tool : BOOLEAN, read : Contents, txn : BOOLEAN,
             staged : SUBSET AllFilters]

RouteTypeOK ==
    /\ platform \in Platforms /\ tool \in Tools /\ proc \in Phases
    /\ todo \in Seq(IF proc = "setup" THEN SetupCmds(platform) ELSE CleanupCmds)
    /\ mem \in Memories /\ host \in Hosts /\ found \in Contents
    /\ failures \in Nat /\ starts \in Nat /\ overTrace \in BOOLEAN

\* s ends with what is left of script, and no command before it is one of ops.
EndsWith(s, script, ops) ==
    \A i \in DOMAIN s :
        IF Len(s) - i < Len(script) THEN s[i] = script[Len(script) - (Len(s) - i)]
                                    ELSE s[i].op \notin ops

Phased ==
    /\ proc \in {"down", "exited", "up"} => todo = <<>>
    /\ proc = "undo" => failures > 0
    /\ platform # "linux" => host.rules = <<>>
    /\ platform = "linux" => "endpoint" \notin host.routes
    /\ platform # "windows" => host.filters = {}

\* The filters staged in the transaction when n commands of Setup are left.
StagedAt(n) ==
    0 < n /\ n < 10 => mem.txn /\ mem.staged = {BlockDNSExcept[i] : i \in 1 .. 9 - n}

FirewallShape ==
    platform = "windows" =>
        /\ proc = "setup" => EndsWith(todo, EnableFirewall, FirewallOps) /\ StagedAt(Len(todo))
        /\ failures = 0 /\ (proc = "up" \/ (proc = "setup" /\ todo = <<>>)) =>
              host.filters = AllFilters

UsesFile == platform = "freebsd" \/ (platform \in {"linux", "darwin"} /\ tool = "file")

\* resolv.conf and its backup when n commands of SetupResolvConf are left.
ConfAt(n) ==
    IF n >= 4 THEN host.conf = found /\ ~mem.bak
    ELSE CASE n = 3 -> host.conf = found
           [] n = 2 -> host.conf = found /\ host.bak = found /\ mem.bak
           [] n = 1 -> host.bak = found /\ mem.bak
           [] n = 0 -> host.bak = found /\ mem.bak

\* The same when n commands of RestoreConf are left.
RestoredAt(n) ==
    IF n >= 3 THEN host.bak = found
    ELSE CASE n = 2 -> host.bak = found /\ mem.read = found
           [] n = 1 -> host.conf = found
           [] n = 0 -> host.conf = found

Restoring == WriteFile("restored") \o <<Cmd("remove", "bak", "warn")>>

FileShape ==
    failures = 0 =>
        /\ proc = "setup" /\ UsesFile =>
              /\ EndsWith(todo, SetupResolvConf, FileOps \cup {"linkDNS"})
              /\ ConfAt(Len(todo)) /\ (platform = "linux" => ~mem.tool)
        /\ proc = "up" /\ UsesFile => ConfAt(0) /\ (platform = "linux" => ~mem.tool)
        /\ proc \in {"setup", "up"} /\ ~UsesFile =>
              /\ \A i \in DOMAIN todo : todo[i].op \notin FileOps
              /\ host.conf = found /\ ~mem.bak
        /\ proc = "cleanup" =>
              IF mem.bak THEN EndsWith(todo, Restoring, FileOps) /\ RestoredAt(Len(todo))
              ELSE host.conf = found /\ \A i \in DOMAIN todo : todo[i].op \notin FileOps
        /\ proc = "exited" => host.conf = found
        /\ host.conf = found \/ host.bak = found

\* What is on the host has its command left, or goes with the device.
Leftovers ==
    failures = 0 =>
        /\ proc = "cleanup" =>
              /\ \A r \in ToSet(host.rules) \ {RestRule} :
                    \E i \in DOMAIN todo : todo[i] = Cmd("delRule", r, "warn")
              /\ "endpoint" \in host.routes =>
                    \E i \in DOMAIN todo : todo[i] = Cmd("delRoute", "endpoint", "warn")
        /\ proc = "exited" =>
              host.routes = {} /\ ToSet(host.rules) \subseteq {RestRule} /\ host.filters = {}

Traces ==
    /\ ~overTrace => found = "orig"
    /\ starts = 0 => proc = "down" /\ host.conf = "orig" /\ found = "orig"

RouteInv ==
    RouteTypeOK /\ Phased /\ FirewallShape /\ FileShape /\ Leftovers /\ Traces

-------------------------------------------------------------------------------
(* Scripts.                                                                *)

\* A script that is a concatenation ends with its last part.
LEMMA ConcatEnds ==
    ASSUME NEW S, NEW T, NEW s \in Seq(S), NEW t \in Seq(T), NEW ops,
           \A i \in 1 .. Len(s) : s[i].op \notin ops
    PROVE  EndsWith(s \o t, t, ops)
  <1>1. /\ DOMAIN (s \o t) = 1 .. Len(s) + Len(t) /\ Len(s \o t) = Len(s) + Len(t)
        /\ Len(s) \in Nat /\ Len(t) \in Nat
    OBVIOUS
  <1>2. ASSUME NEW i \in 1 .. Len(s) + Len(t)
        PROVE  IF Len(s) + Len(t) - i < Len(t)
                 THEN (s \o t)[i] = t[Len(t) - (Len(s) + Len(t) - i)]
                 ELSE (s \o t)[i].op \notin ops
    <2>1. CASE i > Len(s)
      <3>1. (s \o t)[i] = t[i - Len(s)]
        BY <1>1, <2>1
      <3>2. Len(t) - (Len(s) + Len(t) - i) = i - Len(s)
        BY <1>1
      <3> QED
        BY <1>1, <2>1, <3>1, <3>2
    <2>2. CASE i =< Len(s)
      <3>1. (s \o t)[i] = s[i]
        BY <1>1, <2>2
      <3> QED
        BY <1>1, <2>2, <3>1
    <2> QED
      BY <1>1, <2>1, <2>2
  <1> QED
    BY <1>1, <1>2 DEF EndsWith

\* What is left after a command ends with the same script.
LEMMA TailEnds ==
    ASSUME NEW S, NEW s \in Seq(S), s # <<>>, NEW script, Len(script) \in Nat, NEW ops,
           EndsWith(s, script, ops)
    PROVE  EndsWith(Tail(s), script, ops)
  <1>1. /\ Len(s) \in Nat \ {0} /\ DOMAIN s = 1 .. Len(s)
        /\ Len(Tail(s)) = Len(s) - 1 /\ DOMAIN Tail(s) = 1 .. Len(s) - 1
        /\ \A i \in 1 .. Len(s) - 1 : Tail(s)[i] = s[i + 1]
    OBVIOUS
  <1>2. ASSUME NEW i \in 1 .. Len(s) - 1
        PROVE  IF Len(s) - 1 - i < Len(script)
                 THEN Tail(s)[i] = script[Len(script) - (Len(s) - 1 - i)]
                 ELSE Tail(s)[i].op \notin ops
    <2>1. i + 1 \in DOMAIN s /\ Len(s) - (i + 1) = Len(s) - 1 - i
      BY <1>1
    <2> QED
      BY <1>1, <2>1 DEF EndsWith
  <1> QED
    BY <1>1, <1>2 DEF EndsWith

\* The next command, by how many are left.
LEMMA HeadEnds ==
    ASSUME NEW S, NEW s \in Seq(S), s # <<>>, NEW n, n = Len(s),
           NEW script, NEW k \in Nat, k = Len(script), NEW ops, EndsWith(s, script, ops)
    PROVE  /\ n =< k => Head(s) = script[k - n + 1]
           /\ n > k => Head(s).op \notin ops
  <1>1. n \in Nat \ {0} /\ 1 \in DOMAIN s /\ Head(s) = s[1]
    OBVIOUS
  <1>2. k - (n - 1) = k - n + 1
    BY <1>1
  <1> QED
    BY <1>1, <1>2 DEF EndsWith

\* The same command for each element of a sequence is a sequence of commands.
LEMMA EachIs ==
    ASSUME NEW S, NEW args \in Seq(S), NEW op, NEW fail
    PROVE  /\ Each(op, args, fail) = [i \in 1 .. Len(args) |-> Cmd(op, args[i], fail)]
           /\ Len(Each(op, args, fail)) = Len(args)
           /\ \A i \in 1 .. Len(args) : Each(op, args, fail)[i] = Cmd(op, args[i], fail)
           /\ \A i \in 1 .. Len(args) : args[i] \in S
  <1>1. DOMAIN args = 1 .. Len(args) /\ Len(args) \in Nat /\ \A i \in 1 .. Len(args) : args[i] \in S
    OBVIOUS
  <1>2. Each(op, args, fail) = [i \in 1 .. Len(args) |-> Cmd(op, args[i], fail)]
    BY <1>1 DEF Each
  <1> QED
    BY <1>1, <1>2

LEMMA EachTyped ==
    ASSUME NEW S, NEW args \in Seq(S), NEW op, NEW fail, NEW T,
           \A x \in S : Cmd(op, x, fail) \in T
    PROVE  Each(op, args, fail) \in Seq(T)
  BY EachIs

\* The rules, routes and filters are what their sequences list.
LEMMA Lists ==
    /\ BuildRules \in Seq(RuleSet)
    /\ Halves \in Seq(Routes \ {"endpoint"}) /\ Defaults \in Seq(Routes \ {"endpoint"})
    /\ RuleSet = {BuildRules[i] : i \in 1 .. Len(BuildRules)}
    /\ ToSet(Defaults) \subseteq Routes
  <1>1. DOMAIN BuildRules = 1 .. Len(BuildRules)
    BY DEF BuildRules
  <1>2. BuildRules \in Seq(RuleSet) /\ RuleSet = {BuildRules[i] : i \in 1 .. Len(BuildRules)}
    <2>1. BuildRules \in Seq({Rule(0, 4, "all"), Rule(1, 4, "fromTun"), Rule(2, 4, "notLo"),
           Rule(3, 4, "loAny"), Rule(3, 4, "loOwn"),
           Rule(4, 6, "all"), Rule(5, 6, "fromTun"), Rule(6, 6, "loLow"), Rule(6, 6, "loHigh"),
           Rule(7, 6, "loOwn"), Rule(7, 6, "rest")})
      BY DEF BuildRules
    <2>2. RuleSet = {BuildRules[i] : i \in 1 .. Len(BuildRules)}
      BY <1>1 DEF RuleSet, ToSet
    <2> QED
      BY <2>1, <2>2, SeqOfRange
  <1>3. Halves \in Seq(Routes \ {"endpoint"})
    BY DEF Halves, Routes, ToSet
  <1>4. Defaults \in Seq(Routes \ {"endpoint"}) /\ ToSet(Defaults) \subseteq Routes
    BY DEF Defaults, Routes, ToSet
  <1> QED
    BY <1>2, <1>3, <1>4

-------------------------------------------------------------------------------
(* The list of rules.                                                     *)

\* The rules, one by one.
LEMMA RuleList ==
    \A r \in RuleSet :
        r \in {Rule(0, 4, "all"), Rule(1, 4, "fromTun"), Rule(2, 4, "notLo"),
              Rule(3, 4, "loAny"), Rule(3, 4, "loOwn"),
              Rule(4, 6, "all"), Rule(5, 6, "fromTun"), Rule(6, 6, "loLow"),
              Rule(6, 6, "loHigh"), Rule(7, 6, "loOwn"), Rule(7, 6, "rest")}
  BY DEF RuleSet, ToSet, BuildRules

\* Only the last rule names another one too.
LEMMA RuleMatches ==
    ASSUME NEW r \in RuleSet, NEW x \in RuleSet, Matches(r, x), r # RestRule
    PROVE  x = r
  <1>1. RuleIndex \in Nat
    BY RouteAssumption
  <1>3. CASE r.selector = "all"
    BY <1>1, <1>3, RuleList DEF Matches, Rule
  <1>4. CASE r.selector # "all"
    <2>1. r.selector # "rest" /\ x.selector = r.selector /\ x.prio = r.prio /\ x.family = r.family
      BY <1>4, RuleList DEF Matches, Rule, RestRule
    <2> QED
      BY <2>1, RuleList DEF Rule
  <1> QED
    BY <1>3, <1>4

\* What is left after a place of a sequence is removed.
LEMMA Removed ==
    ASSUME NEW S, NEW s \in Seq(S), NEW i \in 1 .. Len(s)
    PROVE  /\ RemoveAt(s, i) \in Seq(S) /\ Len(RemoveAt(s, i)) = Len(s) - 1
           /\ \A j \in 1 .. Len(s) - 1 : RemoveAt(s, i)[j] = IF j < i THEN s[j] ELSE s[j + 1]
  <1> DEFINE n == Len(s)
             a == SubSeq(s, 1, i - 1)
             b == SubSeq(s, i + 1, n)
  <1>1. /\ a \in Seq(S) /\ Len(a) = i - 1
        /\ \A j \in 1 .. i - 1 : a[j] = s[j]
    <2>1. /\ 1 \in Int /\ i - 1 \in Int /\ \A j \in 1 .. i - 1 : s[j] \in S
      OBVIOUS
    <2>2. /\ a \in Seq(S) /\ Len(a) = IF 1 =< i - 1 THEN i - 1 - 1 + 1 ELSE 0
          /\ \A j \in 1 .. i - 1 - 1 + 1 : a[j] = s[1 + j - 1]
      BY <2>1, SubSeqProperties
    <2>3. /\ (IF 1 =< i - 1 THEN i - 1 - 1 + 1 ELSE 0) = i - 1 /\ i - 1 - 1 + 1 = i - 1
          /\ \A j \in Int : 1 + j - 1 = j
      OBVIOUS
    <2> HIDE DEF a
    <2> QED
      BY <2>2, <2>3
  <1>2. /\ b \in Seq(S) /\ Len(b) = n - i
        /\ \A j \in 1 .. n - i : b[j] = s[i + j]
    <2>1. /\ i + 1 \in Int /\ n \in Int /\ \A j \in i + 1 .. n : s[j] \in S
      OBVIOUS
    <2>2. /\ b \in Seq(S) /\ Len(b) = IF i + 1 =< n THEN n - (i + 1) + 1 ELSE 0
          /\ \A j \in 1 .. n - (i + 1) + 1 : b[j] = s[i + 1 + j - 1]
      BY <2>1, SubSeqProperties
    <2> HIDE DEF b
    <2> QED
      BY <2>2
  <1>3. RemoveAt(s, i) = a \o b /\ n \in Nat
    BY DEF RemoveAt
  <1> HIDE DEF a, b
  <1>4. /\ a \o b \in Seq(S) /\ Len(a \o b) = Len(a) + Len(b)
        /\ \A j \in 1 .. Len(a) + Len(b) : (a \o b)[j] = IF j =< Len(a) THEN a[j] ELSE b[j - Len(a)]
    BY <1>1, <1>2, ConcatProperties
  <1>5. ASSUME NEW j \in 1 .. n - 1
        PROVE  (a \o b)[j] = IF j < i THEN s[j] ELSE s[j + 1]
    <2>1. CASE j < i
      <3>1. j =< Len(a) /\ j \in 1 .. Len(a) + Len(b) /\ j \in 1 .. i - 1
        BY <1>1, <1>2, <2>1
      <3> QED
        BY <1>1, <1>4, <2>1, <3>1
    <2>2. CASE ~(j < i)
      <3>1. /\ ~(j =< Len(a)) /\ j \in 1 .. Len(a) + Len(b) /\ j - Len(a) \in 1 .. n - i
            /\ i + (j - Len(a)) = j + 1
        BY <1>1, <1>2, <2>2
      <3> QED
        BY <1>2, <1>4, <2>2, <3>1
    <2> QED
      BY <2>1, <2>2
  <1>6. Len(a) + Len(b) = n - 1
    BY <1>1, <1>2
  <1> QED
    BY <1>3, <1>4, <1>5, <1>6

\* The last rule names the one before it as well.
LEMMA RestMatches ==
    ASSUME NEW x \in RuleSet, Matches(RestRule, x)
    PROVE  x = RestRule \/ x = Rule(7, 6, "loOwn")
  <1>1. RuleIndex \in Nat
    BY RouteAssumption
  <1> QED
    BY <1>1, RuleList DEF Matches, Rule, RestRule

\* At most two rules match.
LEMMA TwoMatch ==
    ASSUME NEW s \in RuleSeqs, NEW r \in RuleSet,
           NEW i \in 1 .. Len(s), NEW j \in 1 .. Len(s), NEW k \in 1 .. Len(s),
           Matches(r, s[i]), Matches(r, s[j]), Matches(r, s[k])
    PROVE  i = j \/ j = k \/ i = k
  <1>1. s[i] \in RuleSet /\ s[j] \in RuleSet /\ s[k] \in RuleSet
    BY DEF RuleSeqs
  <1>2. s[i] = s[j] \/ s[j] = s[k] \/ s[i] = s[k]
    <2>1. CASE r = RestRule
      BY <1>1, <2>1, RestMatches
    <2>2. CASE r # RestRule
      BY <1>1, <2>2, RuleMatches
    <2> QED
      BY <2>1, <2>2
  <1> QED
    BY <1>2 DEF RuleSeqs

\* Deleting a rule takes one that it matches away, if there is one.
LEMMA DelRuleRemoves ==
    ASSUME NEW s \in RuleSeqs, NEW r \in RuleSet
    PROVE  \/ DelRule(s, r) = s /\ \A i \in 1 .. Len(s) : ~Matches(r, s[i])
           \/ \E i \in 1 .. Len(s) : DelRule(s, r) = RemoveAt(s, i) /\ Matches(r, s[i])
  <1> DEFINE match == {i \in 1 .. Len(s) : Matches(r, s[i])}
  <1>1. CASE match = {}
    BY <1>1 DEF DelRule, RemoveFirstMatch
  <1>2. CASE match # {}
    <2>1. DelRule(s, r) = RemoveAt(s, Min(match))
      BY <1>2 DEF DelRule, RemoveFirstMatch, SelectInSeq
    <2>2. \E i \in match : \A j \in match : i =< j
      <3>1. PICK i \in match : TRUE
        BY <1>2
      <3>2. CASE \A j \in match : i =< j
        BY <3>1, <3>2
      <3>3. CASE ~\A j \in match : i =< j
        <4>1. PICK j \in match : ~(i =< j)
          BY <3>3
        <4>2. \A k \in match : k = i \/ k = j
          <5>1. i # j /\ i \in 1 .. Len(s) /\ j \in 1 .. Len(s) /\ Matches(r, s[i]) /\ Matches(r, s[j])
            BY <4>1
          <5> QED
            BY <5>1, TwoMatch
        <4>3. i \in Int /\ j \in Int
          OBVIOUS
        <4> HIDE DEF match
        <4> QED
          BY <4>1, <4>2, <4>3
      <3> QED
        BY <3>2, <3>3
    <2>3. Min(match) \in match
      BY <2>2 DEF Min
    <2> QED
      BY <2>1, <2>3
  <1> QED
    BY <1>1, <1>2

\* The list keeps its rules distinct; a rule but the last is gone when it was named,
\* and none comes.
LEMMA DelRuleFacts ==
    ASSUME NEW s \in RuleSeqs, NEW r \in RuleSet
    PROVE  /\ DelRule(s, r) \in RuleSeqs /\ ToSet(DelRule(s, r)) \subseteq ToSet(s)
           /\ r # RestRule => r \notin ToSet(DelRule(s, r))
  <1> DEFINE n == Len(s)
  <1>1. /\ s \in Seq(RuleSet) /\ n \in Nat /\ DOMAIN s = 1 .. n
        /\ \A i, j \in 1 .. n : s[i] = s[j] => i = j
    BY DEF RuleSeqs
  <1>2. ASSUME DelRule(s, r) = s, \A i \in 1 .. n : ~Matches(r, s[i])
        PROVE  r # RestRule => r \notin ToSet(s)
    <2>1. Matches(r, r)
      BY DEF Matches
    <2> QED
      BY <1>1, <1>2, <2>1 DEF ToSet
  <1>3. ASSUME NEW i \in 1 .. n, DelRule(s, r) = RemoveAt(s, i), Matches(r, s[i])
        PROVE  /\ DelRule(s, r) \in RuleSeqs /\ ToSet(DelRule(s, r)) \subseteq ToSet(s)
               /\ r # RestRule => r \notin ToSet(DelRule(s, r))
    <2> DEFINE t == RemoveAt(s, i)
    <2>1. /\ t \in Seq(RuleSet) /\ Len(t) = n - 1 /\ DOMAIN t = 1 .. n - 1
          /\ \A j \in 1 .. n - 1 : t[j] = IF j < i THEN s[j] ELSE s[j + 1]
      <3>1. s \in Seq(RuleSet) /\ i \in 1 .. Len(s)
        BY <1>1
      <3>2. /\ RemoveAt(s, i) \in Seq(RuleSet) /\ Len(RemoveAt(s, i)) = Len(s) - 1
            /\ \A j \in 1 .. Len(s) - 1 : RemoveAt(s, i)[j] = IF j < i THEN s[j] ELSE s[j + 1]
        BY ONLY <3>1, Removed
      <3>3. /\ t \in Seq(RuleSet) /\ Len(t) = n - 1
            /\ \A j \in 1 .. n - 1 : t[j] = IF j < i THEN s[j] ELSE s[j + 1]
        BY <3>2
      <3> HIDE DEF t
      <3> HIDE DEF n
      <3> QED
        BY <1>1, <3>3
    <2> HIDE DEF t, n
    <2>2. ASSUME NEW j \in 1 .. n - 1
          PROVE  \E k \in 1 .. n : k # i /\ t[j] = s[k] /\ k = IF j < i THEN j ELSE j + 1
      BY <1>1, <2>1
    <2>3. \A j, k \in 1 .. n - 1 : t[j] = t[k] => j = k
      <3>1. ASSUME NEW j \in 1 .. n - 1, NEW k \in 1 .. n - 1, t[j] = t[k] PROVE j = k
        <4>1. (IF j < i THEN j ELSE j + 1) = (IF k < i THEN k ELSE k + 1)
          BY <1>1, <2>2, <3>1
        <4> QED
          BY <1>1, <4>1
      <3> QED
        BY <3>1
    <2>4. t \in RuleSeqs
      BY <2>1, <2>3 DEF RuleSeqs
    <2>5. \A x \in ToSet(t) : x \in ToSet(s) /\ x # s[i]
      <3>1. ASSUME NEW j \in 1 .. n - 1 PROVE t[j] \in ToSet(s) /\ t[j] # s[i]
        BY <1>1, <2>2 DEF ToSet
      <3> QED
        BY <2>1, <3>1 DEF ToSet
    <2>6. r # RestRule => s[i] = r
      BY <1>1, <1>3, RuleMatches
    <2> QED
      BY <1>3, <2>4, <2>5, <2>6 DEF t
  <1> QED
    BY <1>2, <1>3, DelRuleRemoves

\* With no rule on the host there is none to delete.
LEMMA NothingToDelete ==
    ASSUME NEW r
    PROVE  DelRule(<<>>, r) = <<>>
  BY DEF DelRule, RemoveFirstMatch

\* Adding one adds no other.
LEMMA AddRuleFacts ==
    ASSUME NEW s \in RuleSeqs, NEW r \in RuleSet
    PROVE  AddRule(s, r) \in RuleSeqs
  <1>1. s \in Seq(RuleSet) /\ Len(s) \in Nat /\ DOMAIN s = 1 .. Len(s)
    BY DEF RuleSeqs
  <1>2. CASE r \in ToSet(s)
    BY <1>2 DEF AddRule
  <1>3. CASE r \notin ToSet(s)
    <2>1. /\ Append(s, r) \in Seq(RuleSet) /\ Len(Append(s, r)) = Len(s) + 1
          /\ \A i \in 1 .. Len(s) + 1 : Append(s, r)[i] = IF i = Len(s) + 1 THEN r ELSE s[i]
      BY <1>1
    <2>2. \A i \in 1 .. Len(s) : s[i] # r
      BY <1>1, <1>3 DEF ToSet
    <2> DEFINE t == Append(s, r)
    <2> HIDE DEF t
    <2>3. \A i, j \in 1 .. Len(s) + 1 : t[i] = t[j] => i = j
      <3>1. \A i \in 1 .. Len(s) + 1 : i = Len(s) + 1 \/ i \in 1 .. Len(s)
        BY <1>1
      <3> QED
        BY <2>1, <2>2, <3>1 DEF RuleSeqs, t
    <2>4. t \in RuleSeqs
      BY <2>1, <2>3 DEF RuleSeqs, t
    <2> QED
      BY <1>3, <2>4 DEF AddRule, t
  <1> QED
    BY <1>2, <1>3

-------------------------------------------------------------------------------
(* The firewall.                                                           *)

\* The filters: each blocks port 53 or lets one server of the tunnel through.
LEMMA FilterFacts ==
    /\ BlockDNSExcept \in Seq(AllFilters) /\ Len(BlockDNSExcept) = 8
    /\ AllFilters = {BlockDNSExcept[i] : i \in 1 .. 8}
    /\ \A way \in {"connect", "accept"}, i \in 1 .. 2 :
          /\ Block(<<way, Servers[i].family>>) \in AllFilters
          /\ Permit(way, Servers[i]) \in AllFilters
    /\ \A f \in AllFilters :
          \/ f.weight = 10 /\ f.action = "block" /\ f.ip = "any"
          \/ f.weight = 11 /\ f.action = "permit" /\ f.ip \in {"dns4", "dns6"}
  <1> DEFINE Eight == {Block(Layers[1]), Block(Layers[2]), Block(Layers[3]), Block(Layers[4]),
                        Permit("connect", Servers[1]), Permit("accept", Servers[1]),
                        Permit("connect", Servers[2]), Permit("accept", Servers[2])}
  <1>4. BlockDNSExcept \in Seq(Eight) /\ Len(BlockDNSExcept) = 8
    BY DEF BlockDNSExcept
  <1>5. AllFilters = {BlockDNSExcept[i] : i \in 1 .. 8}
    <2>1. DOMAIN BlockDNSExcept = 1 .. 8
      BY <1>4
    <2> QED
      BY <2>1 DEF AllFilters, ToSet
  <1>7. AllFilters = Eight
    BY <1>5 DEF BlockDNSExcept
  <1>6. BlockDNSExcept \in Seq(AllFilters)
    BY <1>4, <1>7
  <1>8. ASSUME NEW way \in {"connect", "accept"}, NEW i \in 1 .. 2
        PROVE  /\ Block(<<way, Servers[i].family>>) \in AllFilters
               /\ Permit(way, Servers[i]) \in AllFilters
    <2>1. i = 1 \/ i = 2
      OBVIOUS
    <2>2. /\ Servers[1].family = 4 /\ Servers[2].family = 6
          /\ Layers[1] = <<"connect", 4>> /\ Layers[2] = <<"accept", 4>>
          /\ Layers[3] = <<"connect", 6>> /\ Layers[4] = <<"accept", 6>>
      BY DEF Servers, Layers
    <2> QED
      BY <1>7, <2>1, <2>2 DEF Eight
  <1>9. \A f \in AllFilters :
          \/ f.weight = 10 /\ f.action = "block" /\ f.ip = "any"
          \/ f.weight = 11 /\ f.action = "permit" /\ f.ip \in {"dns4", "dns6"}
    BY <1>7 DEF Eight, Block, Permit, Servers
  <1> QED
    BY <1>4, <1>5, <1>6, <1>8, <1>9

\* With every filter in place the servers of the tunnel can be asked, others not.
LEMMA AllFiltersDecide ==
    ASSUME host.filters = AllFilters, NEW way \in {"connect", "accept"}, NEW i \in 1 .. 2
    PROVE  /\ Verdict(way, Servers[i].family, Servers[i].ip) = "permit"
           /\ Verdict(way, Servers[i].family, "other") = "block"
  <1> DEFINE family == Servers[i].family
             match(ip) == {f \in host.filters : f.layer = <<way, family>> /\ f.ip \in {"any", ip}}
             best(ip) == CHOOSE f \in match(ip) : \A g \in match(ip) : g.weight =< f.weight
  <1>1. Servers[i].ip \in {"dns4", "dns6"}
    BY DEF Servers
  <1>2. Block(<<way, family>>) \in match("other") /\ Block(<<way, family>>).weight = 10
    BY FilterFacts DEF Block
  <1>3. /\ Permit(way, Servers[i]) \in match(Servers[i].ip)
        /\ Permit(way, Servers[i]).weight = 11
    BY FilterFacts DEF Permit
  <1>4. Verdict(way, family, Servers[i].ip) = "permit"
    <2>1. /\ best(Servers[i].ip) \in match(Servers[i].ip)
          /\ \A g \in match(Servers[i].ip) : g.weight =< best(Servers[i].ip).weight
      <3>1. \A g \in match(Servers[i].ip) : g.weight =< Permit(way, Servers[i]).weight
        BY <1>3, FilterFacts
      <3> QED
        BY <1>3, <3>1
    <2>2. best(Servers[i].ip).weight >= 11
      <3>1. Permit(way, Servers[i]).weight =< best(Servers[i].ip).weight
        BY <1>3, <2>1
      <3>2. best(Servers[i].ip).weight \in {10, 11}
        BY <2>1, FilterFacts
      <3> QED
        BY <1>3, <3>1, <3>2
    <2>3. best(Servers[i].ip).action = "permit"
      <3>1. best(Servers[i].ip) \in AllFilters
        BY <2>1
      <3>2. best(Servers[i].ip).weight # 10
        BY <2>2
      <3> QED
        BY <3>1, <3>2, FilterFacts
    <2> QED
      BY <1>3, <2>3 DEF Verdict
  <1>5. Verdict(way, family, "other") = "block"
    <2>1. \A g \in match("other") : g.weight = 10 /\ g.action = "block"
      BY FilterFacts
    <2>2. best("other") \in match("other")
      BY <1>2, <2>1
    <2> QED
      BY <1>2, <2>1, <2>2 DEF Verdict
  <1> QED
    BY <1>4, <1>5

\* The commands that enable the firewall.
LEMMA FirewallFacts ==
    /\ EnableFirewall \in Seq(FirewallCmds) /\ Len(EnableFirewall) = 10
    /\ EnableFirewall[1] = Cmd("begin", "", "abort")
    /\ EnableFirewall[10] = Cmd("commit", "", "abort")
    /\ \A i \in 2 .. 9 : EnableFirewall[i] = Cmd("filter", BlockDNSExcept[i - 1], "abort")
  <1> DEFINE filters == Each("filter", BlockDNSExcept, "abort")
             begin == Cmd("begin", "", "abort")
             commit == Cmd("commit", "", "abort")
  <1>1. BlockDNSExcept \in Seq(AllFilters) /\ Len(BlockDNSExcept) = 8
    BY FilterFacts
  <1>2. /\ Len(filters) = 8
        /\ \A i \in 1 .. 8 : filters[i] = Cmd("filter", BlockDNSExcept[i], "abort")
    BY <1>1, EachIs
  <1>3. \A f \in AllFilters : Cmd("filter", f, "abort") \in FirewallCmds
    BY DEF FirewallCmds
  <1>4. filters \in Seq(FirewallCmds)
    BY <1>1, <1>3, EachTyped
  <1>5. begin \in FirewallCmds /\ commit \in FirewallCmds
    BY DEF FirewallCmds
  <1>6. EnableFirewall = <<begin>> \o filters \o <<commit>>
    BY DEF EnableFirewall
  <1> HIDE DEF filters, begin, commit
  <1>7. <<begin>> \in Seq(FirewallCmds) /\ Len(<<begin>>) = 1 /\ <<begin>>[1] = begin
    BY <1>5
  <1>8. <<commit>> \in Seq(FirewallCmds) /\ Len(<<commit>>) = 1 /\ <<commit>>[1] = commit
    BY <1>5
  <1> DEFINE nine == <<begin>> \o filters
  <1>9. nine \in Seq(FirewallCmds) /\ Len(nine) = 9 /\ nine[1] = begin
        /\ \A i \in 2 .. 9 : nine[i] = filters[i - 1]
    <2>1. nine \in Seq(FirewallCmds) /\ Len(nine) = Len(<<begin>>) + Len(filters)
      BY <1>4, <1>7, ConcatProperties
    <2>2. \A i \in 1 .. Len(<<begin>>) + Len(filters) :
             nine[i] = IF i =< Len(<<begin>>) THEN <<begin>>[i] ELSE filters[i - Len(<<begin>>)]
      BY <1>4, <1>7, ConcatProperties
    <2> QED
      BY <1>2, <1>7, <2>1, <2>2
  <1>10. EnableFirewall = nine \o <<commit>>
    BY <1>6
  <1> HIDE DEF nine
  <1>11. /\ EnableFirewall \in Seq(FirewallCmds) /\ Len(EnableFirewall) = 10
         /\ EnableFirewall[10] = commit /\ \A i \in 1 .. 9 : EnableFirewall[i] = nine[i]
    <2>1. /\ EnableFirewall \in Seq(FirewallCmds)
          /\ Len(EnableFirewall) = Len(nine) + Len(<<commit>>)
      BY <1>8, <1>9, <1>10, ConcatProperties
    <2>2. \A i \in 1 .. Len(nine) + Len(<<commit>>) :
             EnableFirewall[i] = IF i =< Len(nine) THEN nine[i] ELSE <<commit>>[i - Len(nine)]
      BY <1>8, <1>9, <1>10, ConcatProperties
    <2> QED
      BY <1>8, <1>9, <2>1, <2>2
  <1>12. \A i \in 2 .. 9 : EnableFirewall[i] = Cmd("filter", BlockDNSExcept[i - 1], "abort")
    BY <1>2, <1>9, <1>11
  <1>13. EnableFirewall[1] = begin
    BY <1>9, <1>11
  <1> QED
    BY <1>11, <1>12, <1>13 DEF begin, commit

-------------------------------------------------------------------------------
(* resolv.conf.                                                            *)

\* The commands that write resolv.conf, and those that restore it.
LEMMA FileFacts ==
    /\ SetupResolvConf \in Seq(WriteCmds) /\ Len(SetupResolvConf) = 4
    /\ SetupResolvConf[1] = Cmd("trunc", "bak", "warn")
    /\ SetupResolvConf[2] = Cmd("fill", "bak", "warn")
    /\ SetupResolvConf[3] = Cmd("trunc", "conf", "warn")
    /\ SetupResolvConf[4] = Cmd("fill", "conf", "warn")
    /\ Restoring \in Seq(CleanupCmds) /\ Len(Restoring) = 3
    /\ Restoring[1] = Cmd("trunc", "restored", "warn")
    /\ Restoring[2] = Cmd("fill", "restored", "warn")
    /\ Restoring[3] = Cmd("remove", "bak", "warn")
  <1> DEFINE a == Cmd("trunc", "bak", "warn")
             b == Cmd("fill", "bak", "warn")
             c == Cmd("trunc", "conf", "warn")
             d == Cmd("fill", "conf", "warn")
             e == Cmd("trunc", "restored", "warn")
             f == Cmd("fill", "restored", "warn")
             g == Cmd("remove", "bak", "warn")
  <1>1. {a, b, c, d} \subseteq WriteCmds /\ {e, f, g} \subseteq CleanupCmds
    BY DEF WriteCmds, CleanupCmds
  <1>2. SetupResolvConf = <<a, b>> \o <<c, d>> /\ Restoring = <<e, f>> \o <<g>>
    BY DEF SetupResolvConf, Restoring, WriteFile
  <1> HIDE DEF a, b, c, d, e, f, g
  <1>3. ASSUME NEW S, NEW s \in Seq(S), NEW t \in Seq(S), Len(s) = 2, Len(t) \in 1 .. 2
        PROVE  /\ s \o t \in Seq(S) /\ Len(s \o t) = 2 + Len(t)
               /\ (s \o t)[1] = s[1] /\ (s \o t)[2] = s[2] /\ (s \o t)[3] = t[1]
               /\ Len(t) = 2 => (s \o t)[4] = t[2]
    <2>1. s \o t \in Seq(S) /\ Len(s \o t) = Len(s) + Len(t)
      BY ConcatProperties
    <2>2. \A i \in 1 .. Len(s) + Len(t) : (s \o t)[i] = IF i =< Len(s) THEN s[i] ELSE t[i - Len(s)]
      BY ConcatProperties
    <2> QED
      BY <1>3, <2>1, <2>2
  <1>4. /\ <<a, b>> \in Seq(WriteCmds) /\ Len(<<a, b>>) = 2 /\ <<a, b>>[1] = a /\ <<a, b>>[2] = b
        /\ <<c, d>> \in Seq(WriteCmds) /\ Len(<<c, d>>) = 2 /\ <<c, d>>[1] = c /\ <<c, d>>[2] = d
        /\ <<e, f>> \in Seq(CleanupCmds) /\ Len(<<e, f>>) = 2 /\ <<e, f>>[1] = e /\ <<e, f>>[2] = f
        /\ <<g>> \in Seq(CleanupCmds) /\ Len(<<g>>) = 1 /\ <<g>>[1] = g
    BY <1>1
  <1>5. /\ SetupResolvConf \in Seq(WriteCmds) /\ Len(SetupResolvConf) = 4
        /\ SetupResolvConf[1] = a /\ SetupResolvConf[2] = b
        /\ SetupResolvConf[3] = c /\ SetupResolvConf[4] = d
    BY <1>2, <1>3, <1>4
  <1>6. /\ Restoring \in Seq(CleanupCmds) /\ Len(Restoring) = 3
        /\ Restoring[1] = e /\ Restoring[2] = f /\ Restoring[3] = g
    BY <1>2, <1>3, <1>4
  <1> QED
    BY <1>5, <1>6 DEF a, b, c, d, e, f, g

-------------------------------------------------------------------------------
(* The scripts of Setup and Cleanup.                                       *)

\* The commands of Setup before it comes to DNS.
PlainCmds(p) == {c \in SetupCmds(p) : c.op \in {"find", "addRoute", "setRoutes", "addRule"}}

LEMMA PlainParts ==
    ASSUME NEW p \in Platforms
    PROVE  /\ Find \in Seq(PlainCmds(p))
           /\ Each("addRoute", Defaults, "fatal") \in Seq(PlainCmds(p))
           /\ Each("addRoute", Halves, "fatal") \in Seq(PlainCmds(p))
           /\ p # "linux" => /\ <<Cmd("addRoute", "endpoint", "warn")>> \in Seq(PlainCmds(p))
                            /\ <<Cmd("addRoute", "endpoint", "fatal")>> \in Seq(PlainCmds(p))
           /\ p = "linux" => Each("addRule", BuildRules, "undo") \in Seq(PlainCmds(p))
           /\ <<Cmd("setRoutes", Defaults, "fatal")>> \in Seq(PlainCmds(p))
  <1> DEFINE ops == {"find", "addRoute", "setRoutes", "addRule"}
  <1>0. \A op, arg, fail : op \in ops /\ Cmd(op, arg, fail) \in SetupCmds(p)
                             => Cmd(op, arg, fail) \in PlainCmds(p)
    BY DEF PlainCmds, Cmd
  <1>1. Cmd("find", "", "fatal") \in PlainCmds(p) /\ Cmd("setRoutes", Defaults, "fatal") \in PlainCmds(p)
    <2>1. Cmd("find", "", "fatal") \in SetupCmds(p) /\ Cmd("setRoutes", Defaults, "fatal") \in SetupCmds(p)
      BY DEF SetupCmds
    <2> QED
      BY <1>0, <2>1
  <1>2. \A r \in Routes \ {"endpoint"} : Cmd("addRoute", r, "fatal") \in PlainCmds(p)
    <2>1. \A r \in Routes \ {"endpoint"} : Cmd("addRoute", r, "fatal") \in SetupCmds(p)
      <3>1. \A r \in Routes \ {"endpoint"} : Cmd("addRoute", r, "fatal") \in RouteCmds(p)
        BY DEF RouteCmds, RoutesOf
      <3> QED
        BY <3>1 DEF SetupCmds
    <2> QED
      BY <1>0, <2>1
  <1>3. Each("addRoute", Defaults, "fatal") \in Seq(PlainCmds(p))
    BY <1>2, Lists, EachTyped
  <1>4. Each("addRoute", Halves, "fatal") \in Seq(PlainCmds(p))
    BY <1>2, Lists, EachTyped
  <1>5. ASSUME p # "linux"
        PROVE  /\ Cmd("addRoute", "endpoint", "warn") \in PlainCmds(p)
               /\ Cmd("addRoute", "endpoint", "fatal") \in PlainCmds(p)
    <2>1. /\ Cmd("addRoute", "endpoint", "warn") \in SetupCmds(p)
          /\ Cmd("addRoute", "endpoint", "fatal") \in SetupCmds(p)
      <3>1. "endpoint" \in RoutesOf(p)
        BY <1>5 DEF RoutesOf, Routes
      <3>2. /\ Cmd("addRoute", "endpoint", "warn") \in RouteCmds(p)
            /\ Cmd("addRoute", "endpoint", "fatal") \in RouteCmds(p)
        BY <3>1 DEF RouteCmds
      <3> QED
        BY <3>2 DEF SetupCmds
    <2> QED
      BY <1>0, <2>1
  <1>6. ASSUME p = "linux" PROVE Each("addRule", BuildRules, "undo") \in Seq(PlainCmds(p))
    <2>1. \A r \in RuleSet : Cmd("addRule", r, "undo") \in SetupCmds(p)
      <3>1. \A r \in RuleSet : Cmd("addRule", r, "undo") \in RuleCmds(p)
        BY <1>6 DEF RuleCmds
      <3> QED
        BY <3>1 DEF SetupCmds
    <2>2. \A r \in RuleSet : Cmd("addRule", r, "undo") \in PlainCmds(p)
      BY <1>0, <2>1
    <2> QED
      BY <2>2, Lists, EachTyped
  <1>7. Find \in Seq(PlainCmds(p)) /\ <<Cmd("setRoutes", Defaults, "fatal")>> \in Seq(PlainCmds(p))
    <2>1. \A x \in PlainCmds(p) : <<x>> \in Seq(PlainCmds(p))
      OBVIOUS
    <2> QED
      BY <1>1, <2>1 DEF Find
  <1>8. ASSUME p # "linux"
        PROVE  /\ <<Cmd("addRoute", "endpoint", "warn")>> \in Seq(PlainCmds(p))
               /\ <<Cmd("addRoute", "endpoint", "fatal")>> \in Seq(PlainCmds(p))
    BY <1>5, <1>8
  <1> QED
    BY <1>3, <1>4, <1>6, <1>7, <1>8

\* A script of commands before DNS followed by what sets DNS up.
LEMMA PlainThen ==
    ASSUME NEW p \in Platforms, NEW s \in Seq(PlainCmds(p)), NEW t \in Seq(SetupCmds(p))
    PROVE  /\ s \o t \in Seq(SetupCmds(p)) /\ Len(s \o t) = Len(s) + Len(t)
           /\ EndsWith(s \o t, t, FileOps \cup {"linkDNS"}) /\ EndsWith(s \o t, t, FirewallOps)
           /\ (\A i \in 1 .. Len(t) : t[i].op \notin FileOps)
                 => \A i \in DOMAIN (s \o t) : (s \o t)[i].op \notin FileOps
  <1>1. s \in Seq(SetupCmds(p))
    BY SeqMonotonic DEF PlainCmds
  <1>2. \A i \in 1 .. Len(s) : s[i] \in PlainCmds(p)
    BY ElementOfSeq
  <1>3. \A i \in 1 .. Len(s) : s[i].op \notin FileOps \cup {"linkDNS"} /\ s[i].op \notin FirewallOps
    BY <1>2 DEF PlainCmds, FileOps, FirewallOps
  <1>4. EndsWith(s \o t, t, FileOps \cup {"linkDNS"})
    BY <1>1, <1>3, ConcatEnds
  <1>5. EndsWith(s \o t, t, FirewallOps)
    BY <1>1, <1>3, ConcatEnds
  <1>6. /\ s \o t \in Seq(SetupCmds(p)) /\ Len(s \o t) = Len(s) + Len(t)
        /\ DOMAIN (s \o t) = 1 .. Len(s) + Len(t)
    BY <1>1
  <1>7. ASSUME \A i \in 1 .. Len(t) : t[i].op \notin FileOps,
               NEW i \in DOMAIN (s \o t)
        PROVE  (s \o t)[i].op \notin FileOps
    <2>1. i \in 1 .. Len(s) + Len(t) /\ Len(s) \in Nat /\ Len(t) \in Nat
      BY <1>6
    <2>2. (s \o t)[i] = IF i =< Len(s) THEN s[i] ELSE t[i - Len(s)]
      BY <1>1, <2>1, ConcatProperties
    <2>3. CASE i =< Len(s)
      BY <1>3, <2>1, <2>2, <2>3
    <2>4. CASE i > Len(s)
      <3>1. i - Len(s) \in 1 .. Len(t)
        BY <2>1, <2>4
      <3> QED
        BY <1>7, <2>1, <2>2, <2>4, <3>1
    <2> QED
      BY <2>1, <2>3, <2>4
  <1> QED
    BY <1>4, <1>5, <1>6, <1>7

\* Setup: its commands, and how it ends.
LEMMA SetupShape ==
    ASSUME platform \in Platforms, tool \in Tools, NEW s, s = Setup(platform, tool)
    PROVE  /\ s \in Seq(SetupCmds(platform))
           /\ platform = "windows" => EndsWith(s, EnableFirewall, FirewallOps) /\ Len(s) >= 10
           /\ UsesFile => /\ EndsWith(s, SetupResolvConf, FileOps \cup {"linkDNS"})
                         /\ Len(s) >= 4
           /\ ~UsesFile => \A i \in DOMAIN s : s[i].op \notin FileOps
  <1> DEFINE Cmds == SetupCmds(platform)
             Plain == PlainCmds(platform)
             addDefaults == Each("addRoute", Defaults, "fatal")
             addHalves == Each("addRoute", Halves, "fatal")
             addRules == Each("addRule", BuildRules, "undo")
  <1>1. \A u, v \in Seq(Plain) : u \o v \in Seq(Plain)
    OBVIOUS
  <1>2. Cmd("linkDNS", "on", "warn") \in Cmds /\ Cmd("linkDNS", "on", "warn").op \notin FileOps
    BY DEF SetupCmds, Cmd, FileOps
  <1>3. ASSUME platform # "windows"
        PROVE  SetupResolvConf \in Seq(Cmds)
    <2>1. WriteCmds \subseteq Cmds
      BY <1>3 DEF SetupCmds, LastCmds
    <2> QED
      BY <2>1, FileFacts, SeqMonotonic
  <1>4. CASE platform = "linux"
    <2> DEFINE pre == Find \o addDefaults \o addRules
    <2>1. pre \in Seq(Plain)
      BY <1>1, <1>4, PlainParts
    <2>2. s = pre \o SetupDNSLinux(tool)
      BY <1>4 DEF Setup, SetupLinux
    <2> HIDE DEF pre
    <2>3. CASE tool = "tool"
      <3> DEFINE dns == <<Cmd("linkDNS", "on", "warn")>>
      <3>1. /\ dns \in Seq(Cmds) /\ Len(dns) = 1 /\ dns[1] = Cmd("linkDNS", "on", "warn")
            /\ s = pre \o dns
        BY <1>2, <2>2, <2>3 DEF SetupDNSLinux
      <3>2. \A i \in 1 .. Len(dns) : dns[i].op \notin FileOps
        BY <1>2, <3>1
      <3> HIDE DEF dns
      <3> QED
        BY <1>4, <2>1, <2>3, <3>1, <3>2, PlainThen DEF UsesFile
    <2>4. CASE tool = "file"
      <3>1. s = pre \o SetupResolvConf
        BY <2>2, <2>4 DEF SetupDNSLinux
      <3>2. SetupResolvConf \in Seq(Cmds) /\ Len(SetupResolvConf) = 4 /\ Len(pre) \in Nat
        BY <1>3, <1>4, <2>1, FileFacts
      <3>3. /\ s \in Seq(Cmds) /\ Len(s) = Len(pre) + Len(SetupResolvConf)
            /\ EndsWith(s, SetupResolvConf, FileOps \cup {"linkDNS"})
        BY <2>1, <3>1, <3>2, PlainThen
      <3> QED
        BY <1>4, <2>4, <3>2, <3>3 DEF UsesFile
    <2> QED
      BY <2>3, <2>4 DEF Tools
  <1>5. CASE platform = "darwin"
    <2> DEFINE pre == Find \o <<Cmd("addRoute", "endpoint", "fatal")>> \o addHalves
    <2>1. pre \in Seq(Plain)
      BY <1>1, <1>5, PlainParts
    <2>2. s = pre \o SetupDNSDarwin(tool)
      BY <1>5 DEF Setup, SetupDarwin
    <2> HIDE DEF pre
    <2>3. CASE tool = "tool"
      <3> DEFINE c == Cmd("service", "on", "file")
                 dns == <<c>>
      <3>0. c \in Cmds /\ c.op \notin FileOps
        BY <1>5 DEF SetupCmds, ToolCmds, Cmd, FileOps
      <3> HIDE DEF c
      <3>1. /\ dns \in Seq(Cmds) /\ Len(dns) = 1 /\ dns[1] = c
        BY <3>0
      <3>2. s = pre \o dns
        BY <2>2, <2>3 DEF SetupDNSDarwin, c
      <3>3. \A i \in 1 .. Len(dns) : dns[i].op \notin FileOps
        BY <3>0, <3>1
      <3> HIDE DEF dns
      <3> QED
        BY <1>5, <2>1, <2>3, <3>1, <3>2, <3>3, PlainThen DEF UsesFile
    <2>4. CASE tool = "file"
      <3>1. s = pre \o SetupResolvConf
        BY <2>2, <2>4 DEF SetupDNSDarwin
      <3>2. SetupResolvConf \in Seq(Cmds) /\ Len(SetupResolvConf) = 4 /\ Len(pre) \in Nat
        BY <1>3, <1>5, <2>1, FileFacts
      <3>3. /\ s \in Seq(Cmds) /\ Len(s) = Len(pre) + Len(SetupResolvConf)
            /\ EndsWith(s, SetupResolvConf, FileOps \cup {"linkDNS"})
        BY <2>1, <3>1, <3>2, PlainThen
      <3> QED
        BY <1>5, <2>4, <3>2, <3>3 DEF UsesFile
    <2> QED
      BY <2>3, <2>4 DEF Tools
  <1>6. CASE platform = "freebsd"
    <2> DEFINE pre == Find \o <<Cmd("addRoute", "endpoint", "warn")>> \o addHalves
    <2>1. pre \in Seq(Plain)
      BY <1>1, <1>6, PlainParts
    <2>2. s = pre \o SetupResolvConf
      BY <1>6 DEF Setup, SetupFreeBSD
    <2> HIDE DEF pre
    <2>3. SetupResolvConf \in Seq(Cmds) /\ Len(SetupResolvConf) = 4 /\ Len(pre) \in Nat
      BY <1>3, <1>6, <2>1, FileFacts
    <2>4. /\ s \in Seq(Cmds) /\ Len(s) = Len(pre) + Len(SetupResolvConf)
          /\ EndsWith(s, SetupResolvConf, FileOps \cup {"linkDNS"})
      BY <2>1, <2>2, <2>3, PlainThen
    <2> QED
      BY <1>6, <2>3, <2>4 DEF UsesFile
  <1>7. CASE platform = "windows"
    <2> DEFINE a == Cmd("addRoute", "endpoint", "warn")
               b == Cmd("setRoutes", Defaults, "fatal")
               c == Cmd("linkDNS", "on", "warn")
               pre == <<a, b, c>>
    <2>1. a \in Cmds /\ b \in Cmds /\ c \in Cmds
      <3>1. "endpoint" \in RoutesOf(platform)
        BY <1>7 DEF RoutesOf, Routes
      <3>2. a \in RouteCmds(platform)
        BY <3>1 DEF RouteCmds
      <3> QED
        BY <3>2 DEF SetupCmds
    <2>2. /\ a.op \notin FirewallOps \cup FileOps /\ b.op \notin FirewallOps \cup FileOps
          /\ c.op \notin FirewallOps \cup FileOps
      BY DEF Cmd, FirewallOps, FileOps
    <2>3. s = <<a, b, c>> \o EnableFirewall
      BY <1>7 DEF Setup, SetupWindows
    <2> HIDE DEF a, b, c
    <2>4. /\ pre \in Seq(Cmds) /\ Len(pre) = 3
          /\ \A i \in 1 .. Len(pre) : pre[i].op \notin FirewallOps \cup FileOps
      BY <2>1, <2>2
    <2>5. EnableFirewall \in Seq(Cmds) /\ Len(EnableFirewall) = 10
      <3>1. FirewallCmds \subseteq Cmds
        BY <1>7 DEF SetupCmds, LastCmds
      <3> QED
        BY <3>1, FirewallFacts, SeqMonotonic
    <2>6. s = pre \o EnableFirewall
      BY <2>3
    <2> HIDE DEF pre
    <2>7. /\ s \in Seq(Cmds) /\ Len(s) = Len(pre) + Len(EnableFirewall)
          /\ EndsWith(s, EnableFirewall, FirewallOps)
          /\ \A i \in 1 .. Len(pre) + Len(EnableFirewall) :
               s[i] = IF i =< Len(pre) THEN pre[i] ELSE EnableFirewall[i - Len(pre)]
      <3>1. pre \in Seq(Cmds) /\ EnableFirewall \in Seq(Cmds)
        BY <2>4, <2>5
      <3>2. s \in Seq(Cmds) /\ Len(s) = Len(pre) + Len(EnableFirewall)
        BY <2>6, <3>1, ConcatProperties
      <3>3. \A i \in 1 .. Len(pre) + Len(EnableFirewall) :
               s[i] = IF i =< Len(pre) THEN pre[i] ELSE EnableFirewall[i - Len(pre)]
        BY <2>6, <3>1, ConcatProperties
      <3>4. \A i \in 1 .. Len(pre) : pre[i].op \notin FirewallOps
        BY <2>4
      <3>5. EndsWith(s, EnableFirewall, FirewallOps)
        BY <2>6, <3>1, <3>4, ConcatEnds
      <3> QED
        BY <3>2, <3>3, <3>5
    <2>8. \A i \in 1 .. Len(EnableFirewall) : EnableFirewall[i].op \notin FileOps
      <3>1. \A x \in FirewallCmds : x.op \notin FileOps
        <4>1. \A op, arg, fail : Cmd(op, arg, fail).op = op
          BY DEF Cmd
        <4>2. \A x \in FirewallCmds : x.op \in FirewallOps
          <5> TAKE x \in FirewallCmds
          <5>1. \E op \in FirewallOps : \E arg : x = Cmd(op, arg, "abort")
            BY DEF FirewallCmds, FirewallOps
          <5> QED
            BY <4>1, <5>1
        <4> QED
          BY <4>2 DEF FirewallOps, FileOps
      <3> QED
        BY <3>1, FirewallFacts, ElementOfSeq
    <2>9. \A i \in DOMAIN s : s[i].op \notin FileOps
      <3>1. DOMAIN s = 1 .. Len(pre) + Len(EnableFirewall)
        BY <2>7
      <3> QED
        BY <2>4, <2>5, <2>7, <2>8, <3>1
    <2> QED
      BY <1>7, <2>4, <2>5, <2>7, <2>9 DEF UsesFile
  <1> QED
    BY <1>4, <1>5, <1>6, <1>7 DEF Platforms

\* The commands of Cleanup that leave resolv.conf alone.
BareCmds == {c \in CleanupCmds : c.op \notin FileOps}

Has(s, c) == \E i \in DOMAIN s : s[i] = c

\* What either part of a script has, the script has.
LEMMA ConcatHas ==
    ASSUME NEW S, NEW s \in Seq(S), NEW t \in Seq(S), NEW c, Has(s, c) \/ Has(t, c)
    PROVE  Has(s \o t, c)
  <1>1. /\ Len(s) \in Nat /\ Len(t) \in Nat /\ DOMAIN s = 1 .. Len(s) /\ DOMAIN t = 1 .. Len(t)
        /\ DOMAIN (s \o t) = 1 .. Len(s) + Len(t)
    OBVIOUS
  <1>2. \A i \in 1 .. Len(s) + Len(t) : (s \o t)[i] = IF i =< Len(s) THEN s[i] ELSE t[i - Len(s)]
    BY ConcatProperties
  <1>3. ASSUME NEW i \in DOMAIN s PROVE i \in DOMAIN (s \o t) /\ (s \o t)[i] = s[i]
    BY <1>1, <1>2
  <1>4. ASSUME NEW i \in DOMAIN t
        PROVE  Len(s) + i \in DOMAIN (s \o t) /\ (s \o t)[Len(s) + i] = t[i]
    BY <1>1, <1>2
  <1> QED
    BY <1>3, <1>4 DEF Has

\* A script that leaves resolv.conf alone followed by one that need not.
LEMMA BareThen ==
    ASSUME NEW s \in Seq(BareCmds), NEW t \in Seq(CleanupCmds)
    PROVE  /\ s \o t \in Seq(CleanupCmds) /\ Len(s \o t) = Len(s) + Len(t)
           /\ EndsWith(s \o t, t, FileOps)
           /\ \A c : Has(s, c) => Has(s \o t, c)
           /\ t \in Seq(BareCmds) => \A i \in DOMAIN (s \o t) : (s \o t)[i].op \notin FileOps
  <1>1. s \in Seq(CleanupCmds)
    BY SeqMonotonic DEF BareCmds
  <1>2. \A i \in 1 .. Len(s) : s[i] \in BareCmds
    BY ElementOfSeq
  <1>3. \A i \in 1 .. Len(s) : s[i].op \notin FileOps
    BY <1>2 DEF BareCmds
  <1>4. EndsWith(s \o t, t, FileOps)
    BY <1>1, <1>3, ConcatEnds
  <1>5. s \o t \in Seq(CleanupCmds) /\ Len(s \o t) = Len(s) + Len(t)
    BY <1>1, ConcatProperties
  <1>6. ASSUME t \in Seq(BareCmds) PROVE \A i \in DOMAIN (s \o t) : (s \o t)[i].op \notin FileOps
    <2>1. s \o t \in Seq(BareCmds)
      BY <1>6, ConcatProperties
    <2>2. \A i \in DOMAIN (s \o t) : (s \o t)[i] \in BareCmds
      BY <2>1
    <2> QED
      BY <2>2 DEF BareCmds
  <1>7. \A c : Has(s, c) => Has(s \o t, c)
    BY <1>1, ConcatHas
  <1> QED
    BY <1>4, <1>5, <1>6, <1>7

\* What Cleanup is put together from.
LEMMA BareParts ==
    /\ \A u, v \in Seq(BareCmds) : u \o v \in Seq(BareCmds)
    /\ \A c \in BareCmds : <<c>> \in Seq(BareCmds)
    /\ Cmd("linkDNS", "off", "warn") \in BareCmds /\ Cmd("service", "empty", "warn") \in BareCmds
    /\ Cmd("flushRoutes", "", "warn") \in BareCmds /\ Cmd("firewall", "off", "warn") \in BareCmds
    /\ CleanupRules \in Seq(BareCmds)
    /\ \A r \in RuleSet : Has(CleanupRules, Cmd("delRule", r, "warn"))
    /\ Each("delRoute", Halves, "warn") \in Seq(BareCmds)
    /\ CleanupBypass \in Seq(BareCmds)
    /\ Has(CleanupBypass, Cmd("delRoute", "endpoint", "warn"))
    /\ BareCmds \subseteq CleanupCmds
  <1> DEFINE plain == {"linkDNS", "service", "flushRoutes", "firewall", "delRule", "delRoute"}
  <1>1. \A op, arg, fail : op \in plain /\ Cmd(op, arg, fail) \in CleanupCmds
                              => Cmd(op, arg, fail) \in BareCmds
    BY DEF BareCmds, FileOps, Cmd
  <1>2. /\ Cmd("linkDNS", "off", "warn") \in BareCmds /\ Cmd("service", "empty", "warn") \in BareCmds
        /\ Cmd("flushRoutes", "", "warn") \in BareCmds /\ Cmd("firewall", "off", "warn") \in BareCmds
    <2>1. /\ Cmd("linkDNS", "off", "warn") \in CleanupCmds
          /\ Cmd("service", "empty", "warn") \in CleanupCmds
          /\ Cmd("flushRoutes", "", "warn") \in CleanupCmds
          /\ Cmd("firewall", "off", "warn") \in CleanupCmds
      BY DEF CleanupCmds
    <2> QED
      BY <1>1, <2>1
  <1>3. \A r \in RuleSet : Cmd("delRule", r, "warn") \in BareCmds
    <2>1. \A r \in RuleSet : Cmd("delRule", r, "warn") \in CleanupCmds
      BY DEF CleanupCmds
    <2> QED
      BY <1>1, <2>1
  <1>4. \A r \in Routes : Cmd("delRoute", r, "warn") \in BareCmds
    <2>1. \A r \in Routes : Cmd("delRoute", r, "warn") \in CleanupCmds
      BY DEF CleanupCmds
    <2> QED
      BY <1>1, <2>1
  <1>5. /\ CleanupRules \in Seq(BareCmds)
        /\ \A r \in RuleSet : Has(CleanupRules, Cmd("delRule", r, "warn"))
    <2> DEFINE n == Len(BuildRules)
    <2>1. n \in Nat /\ \A i \in 1 .. n : BuildRules[i] \in RuleSet
      BY Lists
    <2>2. Reverse(BuildRules) = [i \in 1 .. n |-> BuildRules[(n - i) + 1]]
      BY DEF Reverse
    <2>3. Reverse(BuildRules) \in Seq(RuleSet) /\ Len(Reverse(BuildRules)) = n
      <3>1. \A i \in 1 .. n : BuildRules[(n - i) + 1] \in RuleSet
        BY <2>1
      <3> QED
        BY <2>1, <2>2, <3>1
    <2>4. CleanupRules \in Seq(BareCmds)
      BY <1>3, <2>3, EachTyped DEF CleanupRules
    <2>5. /\ CleanupRules = [i \in 1 .. n |-> Cmd("delRule", Reverse(BuildRules)[i], "warn")]
      BY <2>3, EachIs DEF CleanupRules
    <2>6. ASSUME NEW r \in RuleSet PROVE Has(CleanupRules, Cmd("delRule", r, "warn"))
      <3>1. PICK i \in 1 .. n : BuildRules[i] = r
        BY Lists
      <3>2. (n - i) + 1 \in 1 .. n /\ (n - ((n - i) + 1)) + 1 = i
        BY <2>1
      <3>3. Reverse(BuildRules)[(n - i) + 1] = r
        BY <2>2, <3>1, <3>2
      <3>4. (n - i) + 1 \in DOMAIN CleanupRules
             /\ CleanupRules[(n - i) + 1] = Cmd("delRule", r, "warn")
        BY <2>5, <3>2, <3>3
      <3> QED
        BY <3>4 DEF Has
    <2> QED
      BY <2>4, <2>6
  <1>6. Each("delRoute", Halves, "warn") \in Seq(BareCmds)
    BY <1>4, Lists, EachTyped
  <1>7. CleanupBypass \in Seq(BareCmds) /\ Has(CleanupBypass, Cmd("delRoute", "endpoint", "warn"))
    <2>1. "endpoint" \in Routes
      BY DEF Routes
    <2> DEFINE c == Cmd("delRoute", "endpoint", "warn")
    <2>2. c \in BareCmds /\ CleanupBypass = <<c>>
      BY <1>4, <2>1 DEF CleanupBypass
    <2> HIDE DEF c
    <2>3. CleanupBypass \in Seq(BareCmds) /\ Has(CleanupBypass, c)
      BY <2>2 DEF Has
    <2> QED
      BY <2>3 DEF c
  <1>8. \A u, v \in Seq(BareCmds) : u \o v \in Seq(BareCmds)
    OBVIOUS
  <1>9. \A c \in BareCmds : <<c>> \in Seq(BareCmds)
    OBVIOUS
  <1> QED
    BY <1>2, <1>5, <1>6, <1>7, <1>8, <1>9 DEF BareCmds

\* Cleanup: its commands, how it ends, and what it has a command for.
LEMMA CleanupShape ==
    ASSUME platform \in Platforms, NEW m, NEW s, s = Cleanup(platform, m),
           m.bak \in BOOLEAN, m.tool \in BOOLEAN
    PROVE  /\ s \in Seq(CleanupCmds)
           /\ m.bak /\ platform # "windows" /\ (platform = "linux" => ~m.tool) =>
                 EndsWith(s, Restoring, FileOps) /\ Len(s) >= 3
           /\ ~m.bak => \A i \in DOMAIN s : s[i].op \notin FileOps
           /\ platform = "linux" => \A r \in RuleSet : Has(s, Cmd("delRule", r, "warn"))
           /\ platform # "linux" => Has(s, Cmd("delRoute", "endpoint", "warn"))
  <1> DEFINE rest == RestoreConf(m)
             last == IF m.bak THEN Restoring ELSE <<>>
             flush == <<Cmd("flushRoutes", "", "warn")>>
             bypass == Cmd("delRoute", "endpoint", "warn")
  <1>1. /\ rest = last /\ last \in Seq(CleanupCmds)
        /\ m.bak => last = Restoring /\ Len(last) = 3
        /\ ~m.bak => last \in Seq(BareCmds)
    BY FileFacts DEF RestoreConf, Restoring
  <1> HIDE DEF last
  <1>2. flush \in Seq(BareCmds)
    BY BareParts
  <1>3. \A u \in Seq(BareCmds) : u \in Seq(CleanupCmds)
    BY BareParts, SeqMonotonic
  <1>4. ASSUME NEW pre \in Seq(BareCmds), s = pre \o last
        PROVE  /\ s \in Seq(CleanupCmds)
               /\ m.bak => EndsWith(s, Restoring, FileOps) /\ Len(s) >= 3
               /\ ~m.bak => \A i \in DOMAIN s : s[i].op \notin FileOps
               /\ \A c : Has(pre, c) => Has(s, c)
    <2>1. /\ s \in Seq(CleanupCmds) /\ Len(s) = Len(pre) + Len(last)
          /\ EndsWith(s, last, FileOps) /\ \A c : Has(pre, c) => Has(s, c)
          /\ last \in Seq(BareCmds) => \A i \in DOMAIN s : s[i].op \notin FileOps
      BY <1>1, <1>4, BareThen
    <2>2. ASSUME m.bak PROVE EndsWith(s, Restoring, FileOps) /\ Len(s) >= 3
      <3>1. last = Restoring /\ Len(last) = 3 /\ Len(pre) \in Nat
        BY <1>1, <2>2
      <3> QED
        BY <2>1, <3>1
    <2>3. ~m.bak => \A i \in DOMAIN s : s[i].op \notin FileOps
      BY <1>1, <2>1
    <2> QED
      BY <2>1, <2>2, <2>3
  <1>5. CASE platform = "linux"
    <2> DEFINE pre == CleanupRules \o flush
    <2>1. pre \in Seq(BareCmds) /\ \A r \in RuleSet : Has(pre, Cmd("delRule", r, "warn"))
      <3>1. pre \in Seq(BareCmds)
        BY <1>2, BareParts
      <3>2. \A r \in RuleSet : Has(CleanupRules, Cmd("delRule", r, "warn"))
        BY BareParts
      <3>3. \A c : Has(CleanupRules, c) => Has(pre, c)
        BY <1>2, BareParts, ConcatHas
      <3> QED
        BY <3>1, <3>2, <3>3
    <2>2. s = pre \o CleanupDNSLinux(m)
      BY <1>5 DEF Cleanup, CleanupLinux
    <2> HIDE DEF pre, flush
    <2>3. CASE m.tool
      <3> DEFINE off == <<Cmd("linkDNS", "off", "warn")>>
      <3>1. off \in Seq(BareCmds)
        BY BareParts
      <3>2. s = pre \o off
        BY <2>2, <2>3 DEF CleanupDNSLinux
      <3> HIDE DEF off
      <3>3. /\ s \in Seq(CleanupCmds) /\ \A c : Has(pre, c) => Has(s, c)
            /\ \A i \in DOMAIN s : s[i].op \notin FileOps
        BY <1>3, <2>1, <3>1, <3>2, BareThen
      <3> QED
        BY <1>5, <2>1, <2>3, <3>3
    <2>4. CASE ~m.tool
      <3>1. s = pre \o last
        BY <1>1, <2>2, <2>4 DEF CleanupDNSLinux
      <3> QED
        BY <1>4, <1>5, <2>1, <3>1
    <2> QED
      BY <2>3, <2>4
  <1>6. CASE platform = "darwin"
    <2> DEFINE routes == CleanupBypass \o Each("delRoute", Halves, "warn")
               off == IF m.tool THEN <<Cmd("service", "empty", "warn")>> ELSE <<>>
               pre == routes \o off
    <2>1. routes \in Seq(BareCmds) /\ Has(routes, bypass)
      BY BareParts, ConcatHas
    <2>2. off \in Seq(BareCmds)
      <3>1. <<Cmd("service", "empty", "warn")>> \in Seq(BareCmds)
        BY BareParts
      <3>2. <<>> \in Seq(BareCmds)
        OBVIOUS
      <3> QED
        BY <3>1, <3>2
    <2>3. s = routes \o (off \o last)
      BY <1>1, <1>6 DEF Cleanup, CleanupDarwin, CleanupDNSDarwin
    <2> HIDE DEF routes, off
    <2>4. pre \in Seq(BareCmds) /\ Has(pre, bypass)
      BY <2>1, <2>2, BareParts, ConcatHas
    <2>5. s = pre \o last
      <3>1. /\ routes \in Seq(CleanupCmds) /\ off \in Seq(CleanupCmds)
            /\ last \in Seq(CleanupCmds)
        BY <1>1, <1>3, <2>1, <2>2
      <3>2. (routes \o off) \o last = routes \o (off \o last)
        <4> HIDE DEF last
        <4> QED
          BY <3>1, ConcatAssociative
      <3> QED
        BY <2>3, <3>2
    <2> HIDE DEF pre
    <2> QED
      BY <1>4, <1>6, <2>4, <2>5
  <1>7. CASE platform = "freebsd"
    <2> DEFINE pre == CleanupBypass \o Each("delRoute", Halves, "warn")
    <2>1. pre \in Seq(BareCmds) /\ Has(pre, bypass)
      BY BareParts, ConcatHas
    <2>2. s = pre \o last
      BY <1>1, <1>7 DEF Cleanup, CleanupFreeBSD
    <2> HIDE DEF pre
    <2> QED
      BY <1>4, <1>7, <2>1, <2>2
  <1>8. CASE platform = "windows"
    <2> DEFINE off == <<Cmd("firewall", "off", "warn")>>
               pre == off \o CleanupBypass
    <2>1. off \in Seq(BareCmds)
      BY BareParts
    <2>2. s = pre \o flush
      BY <1>8 DEF Cleanup, CleanupWindows
    <2> HIDE DEF off, flush
    <2>3. pre \in Seq(BareCmds) /\ Has(pre, bypass)
      BY <2>1, BareParts, ConcatHas
    <2> HIDE DEF pre
    <2>4. /\ s \in Seq(CleanupCmds) /\ \A c : Has(pre, c) => Has(s, c)
          /\ \A i \in DOMAIN s : s[i].op \notin FileOps
      BY <1>2, <1>3, <2>2, <2>3, BareThen
    <2> QED
      BY <1>8, <2>3, <2>4
  <1> QED
    BY <1>5, <1>6, <1>7, <1>8 DEF Platforms

-------------------------------------------------------------------------------
(* Single commands.                                                        *)

LEMMA CmdFields == \A op, arg, fail : /\ Cmd(op, arg, fail).op = op /\ Cmd(op, arg, fail).arg = arg
                                     /\ Cmd(op, arg, fail).fail = fail
  BY DEF Cmd

\* What a command of Setup can be, and what follows its failure.
LEMMA SetupCmdKinds ==
    ASSUME NEW p \in Platforms, NEW c \in SetupCmds(p)
    PROVE  \/ c.op = "find" /\ c.fail = "fatal"
           \/ c.op = "setRoutes" /\ c.arg = Defaults /\ c.fail = "fatal"
           \/ c.op = "linkDNS" /\ c.arg = "on" /\ c.fail = "warn"
           \/ c.op = "addRoute" /\ c.arg \in RoutesOf(p) /\ c.fail \in {"warn", "fatal"}
           \/ c.op = "addRule" /\ c.arg \in RuleSet /\ c.fail = "undo" /\ p = "linux"
           \/ c.op = "service" /\ c.arg = "on" /\ c.fail = "file" /\ p = "darwin"
           \/ c.op \in {"trunc", "fill"} /\ c.arg \in {"bak", "conf"} /\ c.fail = "warn" /\ p # "windows"
           \/ c.op \in {"begin", "commit"} /\ c.fail = "abort" /\ p = "windows"
           \/ c.op = "filter" /\ c.arg \in AllFilters /\ c.fail = "abort" /\ p = "windows"
  <1>1. CASE c \in {Cmd("find", "", "fatal"), Cmd("setRoutes", Defaults, "fatal"),
                    Cmd("linkDNS", "on", "warn")}
    <2>1. CASE \E arg : c = Cmd("find", arg, "fatal")
      BY <2>1, CmdFields
    <2>2. CASE c = Cmd("setRoutes", Defaults, "fatal")
      BY <2>2, CmdFields
    <2>3. CASE c = Cmd("linkDNS", "on", "warn")
      BY <2>3, CmdFields
    <2> QED
      BY <1>1, <2>1, <2>2, <2>3
  <1>2. CASE c \in RouteCmds(p)
    <2>1. PICK r \in RoutesOf(p), fail \in {"warn", "fatal"} : c = Cmd("addRoute", r, fail)
      BY <1>2 DEF RouteCmds
    <2> QED
      BY <2>1, CmdFields
  <1>3. CASE c \in RuleCmds(p)
    <2>1. p = "linux" /\ \E r \in RuleSet : c = Cmd("addRule", r, "undo")
      BY <1>3 DEF RuleCmds
    <2> QED
      BY <2>1, CmdFields
  <1>4. CASE c \in ToolCmds(p)
    <2>1. p = "darwin" /\ c = Cmd("service", "on", "file")
      BY <1>4 DEF ToolCmds
    <2> QED
      BY <2>1, CmdFields
  <1>5. CASE p = "windows" /\ c \in FirewallCmds
    <2>1. CASE \E op \in {"begin", "commit"} : \E arg : c = Cmd(op, arg, "abort")
      BY <1>5, <2>1, CmdFields
    <2>3. CASE \E f \in AllFilters : c = Cmd("filter", f, "abort")
      BY <1>5, <2>3, CmdFields
    <2> QED
      BY <1>5, <2>1, <2>3 DEF FirewallCmds
  <1>6. CASE p # "windows" /\ c \in WriteCmds
    <2>1. PICK op \in {"trunc", "fill"}, file \in {"bak", "conf"} : c = Cmd(op, file, "warn")
      BY <1>6 DEF WriteCmds
    <2> QED
      BY <1>6, <2>1, CmdFields
  <1> QED
    BY <1>1, <1>2, <1>3, <1>4, <1>5, <1>6 DEF SetupCmds, LastCmds

\* What a command of Cleanup or of a roll-back can be: a failure of it is a warning.
LEMMA CleanupCmdKinds ==
    ASSUME NEW c \in CleanupCmds
    PROVE  /\ c.fail = "warn"
           /\ \/ c.op \in {"flushRoutes", "firewall", "remove"}
              \/ c.op = "linkDNS" /\ c.arg = "off"
              \/ c.op = "service" /\ c.arg = "empty"
              \/ c.op \in {"trunc", "fill"} /\ c.arg = "restored"
              \/ c.op = "delRule" /\ c.arg \in RuleSet /\ c = Cmd("delRule", c.arg, "warn")
              \/ c.op = "delRoute" /\ c = Cmd("delRoute", c.arg, "warn")
  <1>1. CASE \E op \in {"flushRoutes", "firewall"} : \E arg : c = Cmd(op, arg, "warn")
    BY <1>1, CmdFields
  <1>2. CASE c = Cmd("remove", "bak", "warn")
    BY <1>2, CmdFields
  <1>3. CASE c = Cmd("linkDNS", "off", "warn")
    BY <1>3, CmdFields
  <1>4. CASE c = Cmd("service", "empty", "warn")
    BY <1>4, CmdFields
  <1>5. CASE c = Cmd("trunc", "restored", "warn") \/ c = Cmd("fill", "restored", "warn")
    BY <1>5, CmdFields
  <1>6. CASE \E r \in RuleSet : c = Cmd("delRule", r, "warn")
    BY <1>6, CmdFields
  <1>7. CASE \E r \in Routes : c = Cmd("delRoute", r, "warn")
    BY <1>7, CmdFields
  <1> QED
    BY <1>1, <1>2, <1>3, <1>4, <1>5, <1>6, <1>7 DEF CleanupCmds

\* A roll-back deletes rules and routes only.
LEMMA UndoTyped ==
    ASSUME NEW r \in RuleSet
    PROVE  Undo(CHOOSE i \in DOMAIN BuildRules : BuildRules[i] = r) \in Seq(CleanupCmds)
  <1> DEFINE n == CHOOSE i \in DOMAIN BuildRules : BuildRules[i] = r
             before == SubSeq(BuildRules, 1, n - 1)
  <1>1. DOMAIN BuildRules = 1 .. Len(BuildRules) /\ Len(BuildRules) \in Nat
        /\ \A i \in 1 .. Len(BuildRules) : BuildRules[i] \in RuleSet
    BY Lists
  <1>2. n \in 1 .. Len(BuildRules)
    <2>1. \E i \in DOMAIN BuildRules : BuildRules[i] = r
      BY <1>1, Lists
    <2> QED
      BY <1>1, <2>1
  <1> HIDE DEF n
  <1>3. before \in Seq(RuleSet)
    <2>1. 1 \in Int /\ n - 1 \in Int /\ \A i \in 1 .. n - 1 : BuildRules[i] \in RuleSet
      BY <1>1, <1>2
    <2> QED
      BY <2>1, SubSeqProperties
  <1> HIDE DEF before
  <1>4. \A x \in RuleSet : Cmd("delRule", x, "warn") \in CleanupCmds
    BY DEF CleanupCmds
  <1>5. Each("delRule", before, "warn") \in Seq(CleanupCmds)
    BY <1>3, <1>4, EachTyped
  <1>6. <<Cmd("flushRoutes", "", "warn")>> \in Seq(CleanupCmds)
    BY BareParts, SeqMonotonic
  <1> QED
    BY <1>5, <1>6, ConcatProperties DEF Undo, before, n

\* A command that succeeds leaves a host and a memory, if a filter is added in the
\* transaction and all of them are committed.
LEMMA EffectTyped ==
    ASSUME NEW h \in Hosts, NEW m \in Memories, NEW p \in Platforms, NEW c,
           c \in SetupCmds(p) \/ c \in CleanupCmds,
           c.op = "filter" => m.txn, c.op = "commit" => m.staged = AllFilters
    PROVE  Effect(c, h, m) \in Hosts /\ Remembered(c, h, m) \in Memories
  <1>1. /\ \A x \in SUBSET Routes : [h EXCEPT !.routes = x] \in Hosts
        /\ \A x \in RuleSeqs : [h EXCEPT !.rules = x] \in Hosts
        /\ \A x \in Contents : [h EXCEPT !.conf = x] \in Hosts /\ [h EXCEPT !.bak = x] \in Hosts
        /\ \A x \in BOOLEAN : [h EXCEPT !.link = x] \in Hosts
        /\ \A x \in {"tunnel", "empty"} : [h EXCEPT !.service = x] \in Hosts
        /\ \A x \in {{}, AllFilters} : [h EXCEPT !.filters = x] \in Hosts
    BY DEF Hosts
  <1>2. /\ \A x \in Contents : [m EXCEPT !.read = x] \in Memories
        /\ [m EXCEPT !.bak = TRUE] \in Memories /\ [m EXCEPT !.tool = TRUE] \in Memories
        /\ \A x \in BOOLEAN, y \in SUBSET AllFilters :
              [m EXCEPT !.txn = x, !.staged = y] \in Memories
        /\ \A y \in SUBSET AllFilters : [m EXCEPT !.staged = y] \in Memories
    BY DEF Memories
  <1>3. /\ h.routes \in SUBSET Routes /\ h.rules \in RuleSeqs
        /\ h.conf \in Contents /\ h.bak \in Contents /\ m.read \in Contents
        /\ m.staged \in SUBSET AllFilters
        /\ "empty" \in Contents /\ "tunnel" \in Contents /\ "none" \in Contents
    BY DEF Hosts, Memories, Contents
  <1>4. \A r \in RoutesOf(p) : r \in Routes
    BY DEF RoutesOf
  <1>5. ASSUME c \in SetupCmds(p)
        PROVE  Effect(c, h, m) \in Hosts /\ Remembered(c, h, m) \in Memories
    <2>1. CASE c.op = "find"
      BY <2>1 DEF Effect, Remembered
    <2>2. CASE c.op = "setRoutes" /\ c.arg = Defaults
      <3>1. h.routes \cup ToSet(c.arg) \in SUBSET Routes
        BY <1>3, <2>2, Lists
      <3> QED
        BY <1>1, <2>2, <3>1 DEF Effect, Remembered
    <2>3. CASE c.op = "linkDNS"
      BY <1>1, <1>2, <2>3 DEF Effect, Remembered
    <2>4. CASE c.op = "addRoute" /\ c.arg \in RoutesOf(p)
      <3>1. h.routes \cup {c.arg} \in SUBSET Routes
        BY <1>3, <1>4, <2>4
      <3> QED
        BY <1>1, <2>4, <3>1 DEF Effect, Remembered
    <2>5. CASE c.op = "addRule" /\ c.arg \in RuleSet
      <3>1. AddRule(h.rules, c.arg) \in RuleSeqs
        BY <1>3, <2>5, AddRuleFacts
      <3> QED
        BY <1>1, <2>5, <3>1 DEF Effect, Remembered
    <2>6. CASE c.op = "service"
      BY <1>1, <1>2, <2>6 DEF Effect, Remembered
    <2>7. CASE c.op = "trunc" /\ c.arg \in {"bak", "conf"}
      BY <1>1, <1>3, <2>7 DEF Effect, Remembered
    <2>8. CASE c.op = "fill" /\ c.arg = "bak"
      BY <1>1, <1>2, <1>3, <2>8 DEF Effect, Remembered
    <2>9. CASE c.op = "fill" /\ c.arg = "conf"
      BY <1>1, <1>3, <2>9 DEF Effect, Remembered
    <2>10. CASE c.op = "begin"
      BY <1>2, <2>10 DEF Effect, Remembered
    <2>11. CASE c.op = "commit"
      BY <1>1, <1>2, <2>11 DEF Effect, Remembered
    <2>12. CASE c.op = "filter" /\ c.arg \in AllFilters
      <3>1. m.staged \cup {c.arg} \in SUBSET AllFilters
        BY <1>3, <2>12
      <3> QED
        BY <1>2, <2>12, <3>1 DEF Effect, Remembered
    <2> QED
      BY <1>5, <2>1, <2>2, <2>3, <2>4, <2>5, <2>6, <2>7, <2>8, <2>9, <2>10, <2>11, <2>12, SetupCmdKinds
  <1>6. ASSUME c \in CleanupCmds
        PROVE  Effect(c, h, m) \in Hosts /\ Remembered(c, h, m) \in Memories
    <2>1. CASE c.op = "flushRoutes"
      <3>1. h.routes \cap {"endpoint"} \in SUBSET Routes
        BY <1>3
      <3> QED
        BY <1>1, <2>1, <3>1 DEF Effect, Remembered
    <2>2. CASE c.op = "firewall"
      BY <1>1, <2>2 DEF Effect, Remembered
    <2>3. CASE c.op = "remove"
      BY <1>1, <1>3, <2>3 DEF Effect, Remembered
    <2>4. CASE c.op = "linkDNS"
      BY <1>1, <1>2, <2>4 DEF Effect, Remembered
    <2>5. CASE c.op = "service"
      BY <1>1, <1>2, <2>5 DEF Effect, Remembered
    <2>6. CASE c.op = "trunc" /\ c.arg = "restored"
      BY <1>1, <1>2, <1>3, <2>6 DEF Effect, Remembered
    <2>7. CASE c.op = "fill" /\ c.arg = "restored"
      BY <1>1, <1>3, <2>7 DEF Effect, Remembered
    <2>8. CASE c.op = "delRule" /\ c.arg \in RuleSet
      <3>1. DelRule(h.rules, c.arg) \in RuleSeqs
        BY <1>3, <2>8, DelRuleFacts
      <3> QED
        BY <1>1, <2>8, <3>1 DEF Effect, Remembered
    <2>9. CASE c.op = "delRoute"
      <3>1. h.routes \ {c.arg} \in SUBSET Routes
        BY <1>3
      <3> QED
        BY <1>1, <2>9, <3>1 DEF Effect, Remembered
    <2> QED
      BY <1>6, <2>1, <2>2, <2>3, <2>4, <2>5, <2>6, <2>7, <2>8, <2>9, CleanupCmdKinds
  <1> QED
    BY <1>5, <1>6

\* What a command leaves alone, by its name.
LEMMA EffectKeeps ==
    ASSUME NEW h \in Hosts, NEW m \in Memories, NEW c, NEW e, e = Effect(c, h, m),
           NEW r, r = Remembered(c, h, m)
    PROVE  /\ c.op \notin FileOps => e.conf = h.conf /\ e.bak = h.bak /\ r.bak = m.bak /\ r.read = m.read
           /\ c.op \notin FirewallOps \cup {"firewall"} =>
                 e.filters = h.filters /\ r.txn = m.txn /\ r.staged = m.staged
           /\ c.op \notin {"addRule", "delRule"} => e.rules = h.rules
           /\ c.op = "delRule" => e.rules = DelRule(h.rules, c.arg)
           /\ c.op \notin {"addRoute", "setRoutes", "delRoute"} => e.routes \subseteq h.routes
           /\ c.op = "delRoute" => e.routes = h.routes \ {c.arg}
           /\ c.op = "addRoute" => e.routes = h.routes \cup {c.arg}
           /\ c.op = "setRoutes" => e.routes = h.routes \cup ToSet(c.arg)
           /\ c.op \notin {"linkDNS", "service"} => r.tool = m.tool
  <1>1. c.op \notin FileOps => e.conf = h.conf /\ e.bak = h.bak /\ r.bak = m.bak /\ r.read = m.read
    BY DEF Effect, Remembered, Hosts, Memories, FileOps
  <1>2. c.op \notin FirewallOps \cup {"firewall"} =>
           e.filters = h.filters /\ r.txn = m.txn /\ r.staged = m.staged
    BY DEF Effect, Remembered, Hosts, Memories, FirewallOps
  <1>3. /\ c.op \notin {"addRule", "delRule"} => e.rules = h.rules
        /\ c.op = "delRule" => e.rules = DelRule(h.rules, c.arg)
    BY DEF Effect, Hosts
  <1>4. /\ c.op \notin {"addRoute", "setRoutes", "delRoute"} => e.routes \subseteq h.routes
        /\ c.op = "delRoute" => e.routes = h.routes \ {c.arg}
        /\ c.op = "addRoute" => e.routes = h.routes \cup {c.arg}
        /\ c.op = "setRoutes" => e.routes = h.routes \cup ToSet(c.arg)
    BY DEF Effect, Hosts
  <1>5. c.op \notin {"linkDNS", "service"} => r.tool = m.tool
    BY DEF Remembered, Memories
  <1> QED
    BY <1>1, <1>2, <1>3, <1>4, <1>5

\* What the commands of resolv.conf do.
LEMMA FileEffects ==
    ASSUME NEW h \in Hosts, NEW m \in Memories, NEW c, NEW e, e = Effect(c, h, m),
           NEW r, r = Remembered(c, h, m)
    PROVE  /\ c = Cmd("trunc", "bak", "warn") => e.conf = h.conf /\ r = m
           /\ c = Cmd("fill", "bak", "warn") => e.conf = h.conf /\ e.bak = h.conf /\ r.bak
           /\ c = Cmd("trunc", "conf", "warn") => e.bak = h.bak /\ r = m
           /\ c = Cmd("fill", "conf", "warn") => e.bak = h.bak /\ r = m
           /\ c = Cmd("trunc", "restored", "warn") => e.bak = h.bak /\ r.read = h.bak /\ r.bak = m.bak
           /\ c = Cmd("fill", "restored", "warn") => e.conf = m.read /\ e.bak = h.bak /\ r = m
           /\ c = Cmd("remove", "bak", "warn") => e.conf = h.conf /\ r = m
  <1>1. /\ c.op = "trunc" /\ c.arg = "bak" => e.conf = h.conf /\ r = m
        /\ c.op = "fill" /\ c.arg = "bak" => e.conf = h.conf /\ e.bak = h.conf /\ r.bak
    BY DEF Effect, Remembered, Hosts, Memories
  <1>2. /\ c.op = "trunc" /\ c.arg = "conf" => e.bak = h.bak /\ r = m
        /\ c.op = "fill" /\ c.arg = "conf" => e.bak = h.bak /\ r = m
    BY DEF Effect, Remembered, Hosts, Memories
  <1>3. /\ c.op = "trunc" /\ c.arg = "restored" => e.bak = h.bak /\ r.read = h.bak /\ r.bak = m.bak
        /\ c.op = "fill" /\ c.arg = "restored" => e.conf = m.read /\ e.bak = h.bak /\ r = m
        /\ c.op = "remove" => e.conf = h.conf /\ r = m
    BY DEF Effect, Remembered, Hosts, Memories
  <1> QED
    BY <1>1, <1>2, <1>3, CmdFields

\* What the commands of the firewall do.
LEMMA FirewallEffects ==
    ASSUME NEW h \in Hosts, NEW m \in Memories, NEW c, NEW e, e = Effect(c, h, m),
           NEW r, r = Remembered(c, h, m)
    PROVE  /\ c.op = "begin" => e.filters = h.filters /\ r.txn /\ r.staged = {}
           /\ c.op = "filter" /\ m.txn =>
                 e.filters = h.filters /\ r.txn /\ r.staged = m.staged \cup {c.arg}
           /\ c.op = "commit" => e.filters = m.staged
           /\ c.op = "firewall" => e.filters = {}
  BY DEF Effect, Remembered, Hosts, Memories

-------------------------------------------------------------------------------
(* The next command.                                                       *)

LEMMA HeadTyped ==
    ASSUME RouteTypeOK, todo # <<>>
    PROVE  /\ proc = "setup" => /\ Head(todo) \in SetupCmds(platform)
                               /\ Tail(todo) \in Seq(SetupCmds(platform))
           /\ proc # "setup" => Head(todo) \in CleanupCmds /\ Tail(todo) \in Seq(CleanupCmds)
           /\ Len(todo) \in Nat \ {0} /\ Len(Tail(todo)) = Len(todo) - 1
  <1>1. \A S : todo \in Seq(S) => /\ Head(todo) \in S /\ Tail(todo) \in Seq(S)
                                  /\ Len(todo) \in Nat \ {0} /\ Len(Tail(todo)) = Len(todo) - 1
    OBVIOUS
  <1> QED
    BY <1>1 DEF RouteTypeOK

\* On Windows, by how many commands of Setup are left.
LEMMA FirewallHead ==
    ASSUME NEW S, NEW s \in Seq(S), s # <<>>,
           EndsWith(s, EnableFirewall, FirewallOps)
    PROVE  \A n \in Nat \ {0} : n = Len(s) =>
           /\ n > 10 => Head(s).op \notin FirewallOps
           /\ n = 10 => Head(s).op = "begin"
           /\ n \in 2 .. 9 => Head(s).op = "filter" /\ Head(s).arg = BlockDNSExcept[10 - n]
           /\ n = 1 => Head(s).op = "commit"
           /\ n =< 10 => Head(s).fail = "abort"
  <1>0. SUFFICES ASSUME NEW n \in Nat \ {0}, n = Len(s)
        PROVE  /\ n > 10 => Head(s).op \notin FirewallOps
               /\ n = 10 => Head(s).op = "begin"
               /\ n \in 2 .. 9 => Head(s).op = "filter" /\ Head(s).arg = BlockDNSExcept[10 - n]
               /\ n = 1 => Head(s).op = "commit"
               /\ n =< 10 => Head(s).fail = "abort"
    OBVIOUS
  <1>1. 10 = Len(EnableFirewall)
    BY FirewallFacts
  <1>2. /\ n =< 10 => Head(s) = EnableFirewall[10 - n + 1]
        /\ n > 10 => Head(s).op \notin FirewallOps
    <2>1. 10 \in Nat
      OBVIOUS
    <2> QED
      BY <1>0, <1>1, <2>1, HeadEnds, ZenonT(30)
  <1> DEFINE c == Head(s)
  <1> HIDE DEF c
  <1>3. ASSUME n = 10 PROVE c.op = "begin" /\ c.fail = "abort"
    <2>1. c = EnableFirewall[1]
      BY <1>2, <1>3 DEF c
    <2>2. \E arg : c = Cmd("begin", arg, "abort")
      BY <2>1, FirewallFacts
    <2> QED
      BY <2>2, CmdFields
  <1>4. ASSUME n \in 2 .. 9 PROVE c.op = "filter" /\ c.arg = BlockDNSExcept[10 - n] /\ c.fail = "abort"
    <2>1. \A i \in 2 .. 9 : EnableFirewall[i] = Cmd("filter", BlockDNSExcept[i - 1], "abort")
      BY FirewallFacts
    <2>2. 10 - n + 1 \in 2 .. 9 /\ (10 - n + 1) - 1 = 10 - n /\ n =< 10
      BY <1>4
    <2>3. c = Cmd("filter", BlockDNSExcept[(10 - n + 1) - 1], "abort")
      BY <1>2, <2>1, <2>2 DEF c
    <2>4. c = Cmd("filter", BlockDNSExcept[10 - n], "abort")
      BY <2>2, <2>3
    <2> QED
      BY <2>4, CmdFields
  <1>5. ASSUME n = 1 PROVE c.op = "commit" /\ c.fail = "abort"
    <2>1. c = EnableFirewall[10]
      BY <1>2, <1>5 DEF c
    <2>2. \E arg : c = Cmd("commit", arg, "abort")
      BY <2>1, FirewallFacts
    <2> QED
      BY <2>2, CmdFields
  <1>6. n > 10 \/ n = 10 \/ n \in 2 .. 9 \/ n = 1
    OBVIOUS
  <1> QED
    BY <1>2, <1>3, <1>4, <1>5, <1>6 DEF c

\* Where resolv.conf is written, by how many commands of Setup are left.
LEMMA FileHead ==
    ASSUME NEW S, NEW s \in Seq(S), s # <<>>,
           EndsWith(s, SetupResolvConf, FileOps \cup {"linkDNS"})
    PROVE  \A n \in Nat \ {0} : n = Len(s) =>
           /\ n > 4 => Head(s).op \notin FileOps \cup {"linkDNS"}
           /\ n = 4 => Head(s) = Cmd("trunc", "bak", "warn")
           /\ n = 3 => Head(s) = Cmd("fill", "bak", "warn")
           /\ n = 2 => Head(s) = Cmd("trunc", "conf", "warn")
           /\ n = 1 => Head(s) = Cmd("fill", "conf", "warn")
  <1>0. SUFFICES ASSUME NEW n \in Nat \ {0}, n = Len(s)
        PROVE  /\ n > 4 => Head(s).op \notin FileOps \cup {"linkDNS"}
               /\ n = 4 => Head(s) = Cmd("trunc", "bak", "warn")
               /\ n = 3 => Head(s) = Cmd("fill", "bak", "warn")
               /\ n = 2 => Head(s) = Cmd("trunc", "conf", "warn")
               /\ n = 1 => Head(s) = Cmd("fill", "conf", "warn")
    OBVIOUS
  <1>1. 4 = Len(SetupResolvConf)
    BY FileFacts
  <1>2. /\ n =< 4 => Head(s) = SetupResolvConf[4 - n + 1]
        /\ n > 4 => Head(s).op \notin FileOps \cup {"linkDNS"}
    <2>1. 4 \in Nat
      OBVIOUS
    <2> QED
      BY <1>0, <1>1, <2>1, HeadEnds, ZenonT(30)
  <1> DEFINE c == Head(s)
  <1> HIDE DEF c
  <1>3. /\ n = 4 => c = SetupResolvConf[1]
        /\ n = 3 => c = SetupResolvConf[2]
        /\ n = 2 => c = SetupResolvConf[3]
        /\ n = 1 => c = SetupResolvConf[4]
    BY <1>2 DEF c
  <1> QED
    BY <1>2, <1>3, FileFacts DEF c

\* Where it is restored, by how many commands of Cleanup are left.
LEMMA RestoreHead ==
    ASSUME NEW S, NEW s \in Seq(S), s # <<>>,
           EndsWith(s, Restoring, FileOps)
    PROVE  \A n \in Nat \ {0} : n = Len(s) =>
           /\ n > 3 => Head(s).op \notin FileOps
           /\ n = 3 => Head(s) = Cmd("trunc", "restored", "warn")
           /\ n = 2 => Head(s) = Cmd("fill", "restored", "warn")
           /\ n = 1 => Head(s) = Cmd("remove", "bak", "warn")
  <1>0. SUFFICES ASSUME NEW n \in Nat \ {0}, n = Len(s)
        PROVE  /\ n > 3 => Head(s).op \notin FileOps
               /\ n = 3 => Head(s) = Cmd("trunc", "restored", "warn")
               /\ n = 2 => Head(s) = Cmd("fill", "restored", "warn")
               /\ n = 1 => Head(s) = Cmd("remove", "bak", "warn")
    OBVIOUS
  <1>1. 3 = Len(Restoring)
    BY FileFacts
  <1>2. /\ n =< 3 => Head(s) = Restoring[3 - n + 1]
        /\ n > 3 => Head(s).op \notin FileOps
    BY <1>0, <1>1, HeadEnds
  <1> DEFINE c == Head(s)
  <1> HIDE DEF c
  <1>3. /\ n = 3 => c = Restoring[1]
        /\ n = 2 => c = Restoring[2]
        /\ n = 1 => c = Restoring[3]
    BY <1>2 DEF c
  <1> QED
    BY <1>2, <1>3, FileFacts DEF c

-------------------------------------------------------------------------------
(* A command that succeeds.                                                *)

\* What the firewall's next command finds in the transaction.
LEMMA TransactionReady ==
    ASSUME RouteTypeOK, FirewallShape, todo # <<>>, NEW c, c = Head(todo)
    PROVE  /\ c.op = "filter" => mem.txn
           /\ c.op = "commit" => mem.staged = AllFilters
           /\ c.op \in FirewallOps => proc = "setup" /\ platform = "windows"
  <1>1. proc # "setup" => c.op \notin FirewallOps
    BY HeadTyped, CleanupCmdKinds DEF FirewallOps
  <1>2. proc = "setup" /\ c.op \in FirewallOps => platform = "windows"
    BY HeadTyped, SetupCmdKinds DEF FirewallOps, RouteTypeOK
  <1>3. ASSUME proc = "setup", platform = "windows", c.op \in {"filter", "commit"}
        PROVE  /\ c.op = "filter" => mem.txn
               /\ c.op = "commit" => mem.staged = AllFilters
    <2>1. PICK n \in Nat \ {0} : n = Len(todo)
      BY HeadTyped
    <2>2. /\ todo \in Seq(SetupCmds(platform)) /\ EndsWith(todo, EnableFirewall, FirewallOps)
          /\ StagedAt(n)
      BY <1>3, <2>1 DEF RouteTypeOK, FirewallShape
    <2>3. /\ n > 10 => c.op \notin FirewallOps
          /\ n = 10 => c.op = "begin"
          /\ n \in 2 .. 9 => c.op = "filter"
          /\ n = 1 => c.op = "commit"
      BY <2>1, <2>2, FirewallHead
    <2>4. CASE n \in 2 .. 9
      BY <2>2, <2>3, <2>4 DEF StagedAt
    <2>5. CASE n = 1
      <3>1. 9 - n = 8
        BY <2>5
      <3>2. mem.staged = {BlockDNSExcept[i] : i \in 1 .. 8}
        BY <2>2, <2>5, <3>1 DEF StagedAt
      <3> QED
        BY <2>3, <2>5, <3>2, FilterFacts
    <2>6. n > 10 \/ n = 10 \/ n \in 2 .. 9 \/ n = 1
      OBVIOUS
    <2> QED
      BY <1>3, <2>3, <2>4, <2>5, <2>6 DEF FirewallOps
  <1> QED
    BY <1>1, <1>2, <1>3 DEF FirewallOps

LEMMA SucceedsTyped ==
    ASSUME RouteTypeOK, FirewallShape, Succeeds
    PROVE  RouteTypeOK'
  <1> DEFINE c == Head(todo)
  <1>1. todo # <<>> /\ host' = Effect(c, host, mem) /\ mem' = Remembered(c, host, mem)
        /\ todo' = Tail(todo)
        /\ UNCHANGED <<platform, tool, proc, found, failures, starts, overTrace>>
    BY DEF Succeeds
  <1>2. c \in SetupCmds(platform) \/ c \in CleanupCmds
    BY <1>1, HeadTyped
  <1>3. (c.op = "filter" => mem.txn) /\ (c.op = "commit" => mem.staged = AllFilters)
    BY <1>1, TransactionReady
  <1> HIDE DEF c
  <1>4. host' \in Hosts /\ mem' \in Memories
    <2>1. host \in Hosts /\ mem \in Memories /\ platform \in Platforms
      BY DEF RouteTypeOK
    <2> QED
      BY <1>1, <1>2, <1>3, <2>1, EffectTyped
  <1>5. todo' \in Seq(IF proc' = "setup" THEN SetupCmds(platform') ELSE CleanupCmds)
    BY <1>1, HeadTyped
  <1> QED
    BY <1>1, <1>4, <1>5 DEF RouteTypeOK

LEMMA SucceedsPhased ==
    ASSUME RouteTypeOK, Phased, FirewallShape, Succeeds
    PROVE  Phased'
  <1> DEFINE c == Head(todo)
  <1>1. todo # <<>> /\ host' = Effect(c, host, mem) /\ mem' = Remembered(c, host, mem)
        /\ UNCHANGED <<platform, tool, proc, found, failures, starts, overTrace>>
    BY DEF Succeeds
  <1>2. host \in Hosts /\ mem \in Memories /\ platform \in Platforms
    BY DEF RouteTypeOK
  <1>3. c.op \in FirewallOps => platform = "windows"
    BY <1>1, TransactionReady
  <1>4. ASSUME platform # "linux" PROVE c.op # "addRule"
    <2>1. CASE proc = "setup"
      BY <1>1, <1>2, <1>4, <2>1, HeadTyped, SetupCmdKinds
    <2>2. CASE proc # "setup"
      BY <1>1, <2>2, HeadTyped, CleanupCmdKinds
    <2> QED
      BY <2>1, <2>2
  <1>5. ASSUME platform = "linux"
        PROVE  /\ c.op = "addRoute" => c.arg # "endpoint"
               /\ c.op = "setRoutes" => "endpoint" \notin ToSet(c.arg)
    <2>1. CASE proc = "setup"
      <3>1. "endpoint" \notin RoutesOf(platform)
        BY <1>5 DEF RoutesOf
      <3>2. "endpoint" \notin ToSet(Defaults)
        BY DEF Defaults, ToSet
      <3> QED
        BY <1>1, <1>2, <2>1, <3>1, <3>2, HeadTyped, SetupCmdKinds
    <2>2. CASE proc # "setup"
      BY <1>1, <2>2, HeadTyped, CleanupCmdKinds
    <2> QED
      BY <2>1, <2>2
  <1> HIDE DEF c
  <1>6. /\ c.op \notin {"addRule", "delRule"} => host'.rules = host.rules
        /\ c.op = "delRule" => host'.rules = DelRule(host.rules, c.arg)
        /\ c.op \notin {"addRoute", "setRoutes"} => host'.routes \subseteq host.routes
        /\ c.op = "addRoute" => host'.routes = host.routes \cup {c.arg}
        /\ c.op = "setRoutes" => host'.routes = host.routes \cup ToSet(c.arg)
    BY <1>1, <1>2, EffectKeeps
  <1>7. c.op \notin FirewallOps => host'.filters \in {host.filters, {}}
    BY <1>1, <1>2, EffectKeeps, FirewallEffects
  <1>8. platform # "linux" => host'.rules = <<>>
    <2>1. DelRule(<<>>, c.arg) = <<>>
      BY NothingToDelete
    <2> QED
      BY <1>4, <1>6, <2>1 DEF Phased
  <1>9. platform = "linux" => "endpoint" \notin host'.routes
    BY <1>5, <1>6 DEF Phased
  <1>10. platform # "windows" => host'.filters = {}
    BY <1>3, <1>7 DEF Phased
  <1>11. proc \notin {"down", "exited", "up"}
    BY <1>1 DEF Phased
  <1> QED
    BY <1>1, <1>8, <1>9, <1>10, <1>11 DEF Phased

LEMMA SucceedsFirewall ==
    ASSUME RouteTypeOK, Phased, FirewallShape, Succeeds
    PROVE  FirewallShape'
  <1> DEFINE c == Head(todo)
  <1>1. todo # <<>> /\ host' = Effect(c, host, mem) /\ mem' = Remembered(c, host, mem)
        /\ todo' = Tail(todo)
        /\ UNCHANGED <<platform, tool, proc, found, failures, starts, overTrace>>
    BY DEF Succeeds
  <1>2. host \in Hosts /\ mem \in Memories /\ proc # "up"
    BY <1>1 DEF RouteTypeOK, Phased
  <1>3. ASSUME platform = "windows", proc = "setup"
        PROVE  /\ EndsWith(todo', EnableFirewall, FirewallOps)
               /\ StagedAt(Len(todo))' /\ (todo' = <<>> => host'.filters = AllFilters)
    <2>1. PICK n \in Nat \ {0} : n = Len(todo)
      BY <1>1, HeadTyped
    <2>2. /\ todo \in Seq(SetupCmds(platform)) /\ EndsWith(todo, EnableFirewall, FirewallOps)
          /\ StagedAt(n) /\ Len(EnableFirewall) = 10
      BY <1>3, <2>1, FirewallFacts DEF RouteTypeOK, FirewallShape
    <2>3. Len(todo') = n - 1
      BY <1>1, <2>1, HeadTyped
    <2>4. /\ n > 10 => c.op \notin FirewallOps
          /\ n = 10 => c.op = "begin"
          /\ n \in 2 .. 9 => c.op = "filter" /\ c.arg = BlockDNSExcept[10 - n]
          /\ n = 1 => c.op = "commit"
      BY <1>1, <2>1, <2>2, FirewallHead
    <2>5. EndsWith(todo', EnableFirewall, FirewallOps)
      BY <1>1, <2>2, TailEnds
    <2> HIDE DEF c
    <2>6. CASE n > 10
      <3>1. StagedAt(n - 1)'
        BY <2>6 DEF StagedAt
      <3>2. todo' # <<>>
        BY <2>3, <2>6
      <3> QED
        BY <2>3, <2>5, <3>1, <3>2
    <2>7. CASE n = 10
      <3>1. mem'.txn /\ mem'.staged = {}
        BY <1>1, <1>2, <2>4, <2>7, FirewallEffects
      <3>2. {BlockDNSExcept[i] : i \in 1 .. 9 - (n - 1)} = {}
        BY <2>7
      <3>3. StagedAt(n - 1)'
        BY <3>1, <3>2 DEF StagedAt
      <3>4. todo' # <<>>
        BY <2>3, <2>7
      <3> QED
        BY <2>3, <2>5, <3>3, <3>4
    <2>8. CASE n \in 2 .. 9
      <3>1. mem.txn /\ mem.staged = {BlockDNSExcept[i] : i \in 1 .. 9 - n}
        BY <2>2, <2>8 DEF StagedAt
      <3>2. mem'.txn /\ mem'.staged = mem.staged \cup {BlockDNSExcept[10 - n]}
        BY <1>1, <1>2, <2>4, <2>8, <3>1, FirewallEffects
      <3>3. 1 .. 9 - (n - 1) = (1 .. 9 - n) \cup {10 - n}
        BY <2>8
      <3>4. mem'.staged = {BlockDNSExcept[i] : i \in 1 .. 9 - (n - 1)}
        BY <3>1, <3>2, <3>3
      <3>5. StagedAt(n - 1)'
        BY <3>2, <3>4 DEF StagedAt
      <3>6. todo' # <<>>
        BY <2>3, <2>8
      <3> QED
        BY <2>3, <2>5, <3>5, <3>6
    <2>9. CASE n = 1
      <3>1. mem.staged = {BlockDNSExcept[i] : i \in 1 .. 9 - n} /\ 9 - n = 8
        BY <2>2, <2>9 DEF StagedAt
      <3>2. host'.filters = AllFilters
        <4>1. mem.staged = AllFilters
          BY <3>1, FilterFacts
        <4> QED
          BY <1>1, <1>2, <2>4, <2>9, <4>1, FirewallEffects
      <3>3. StagedAt(n - 1)'
        BY <2>9 DEF StagedAt
      <3> QED
        BY <2>3, <2>5, <3>2, <3>3
    <2>10. n > 10 \/ n = 10 \/ n \in 2 .. 9 \/ n = 1
      OBVIOUS
    <2> QED
      BY <2>6, <2>7, <2>8, <2>9, <2>10
  <1> QED
    BY <1>1, <1>2, <1>3 DEF FirewallShape

\* resolv.conf follows the scripts.
LEMMA SucceedsFile ==
    ASSUME RouteTypeOK, Phased, FileShape, Succeeds
    PROVE  FileShape'
  <1> DEFINE c == Head(todo)
  <1>1. todo # <<>> /\ host' = Effect(c, host, mem) /\ mem' = Remembered(c, host, mem)
        /\ todo' = Tail(todo)
        /\ UNCHANGED <<platform, tool, proc, found, failures, starts, overTrace>>
    BY DEF Succeeds
  <1>2. /\ host \in Hosts /\ mem \in Memories /\ platform \in Platforms
        /\ proc \in Phases /\ proc \notin {"down", "exited", "up"}
    BY <1>1 DEF RouteTypeOK, Phased
  <1>3. PICK n \in Nat \ {0} : n = Len(todo)
    BY <1>1, HeadTyped
  <1>4. Len(todo') = n - 1
    BY <1>1, <1>3, HeadTyped
  <1>5. UsesFile' <=> UsesFile
    BY <1>1 DEF UsesFile
  <1>6. \A S : todo \in Seq(S) =>
           \A i \in DOMAIN todo' : \E j \in DOMAIN todo : todo'[i] = todo[j]
    <2>1. \A S : todo \in Seq(S) => \A i \in DOMAIN Tail(todo) :
             i + 1 \in DOMAIN todo /\ Tail(todo)[i] = todo[i + 1]
      BY <1>1
    <2> QED
      BY <1>1, <2>1
  <1>7. (\A i \in DOMAIN todo : todo[i].op \notin FileOps) =>
           c.op \notin FileOps /\ \A i \in DOMAIN todo' : todo'[i].op \notin FileOps
    <2>1. \E S : todo \in Seq(S)
      BY DEF RouteTypeOK
    <2>2. 1 \in DOMAIN todo /\ c = todo[1]
      BY <1>1, <2>1
    <2> QED
      BY <1>6, <2>1, <2>2
  <1>8. ASSUME failures = 0, proc = "setup", UsesFile
        PROVE  /\ EndsWith(todo', SetupResolvConf, FileOps \cup {"linkDNS"})
               /\ ConfAt(n - 1)' /\ (platform = "linux" => ~mem'.tool)
               /\ (host'.conf = found \/ host'.bak = found)
    <2>1. /\ todo \in Seq(SetupCmds(platform)) /\ Len(SetupResolvConf) = 4
          /\ EndsWith(todo, SetupResolvConf, FileOps \cup {"linkDNS"})
          /\ ConfAt(n) /\ (platform = "linux" => ~mem.tool)
      BY <1>3, <1>8, FileFacts DEF RouteTypeOK, FileShape
    <2>2. /\ n > 4 => c.op \notin FileOps \cup {"linkDNS"}
          /\ n = 4 => c = Cmd("trunc", "bak", "warn")
          /\ n = 3 => c = Cmd("fill", "bak", "warn")
          /\ n = 2 => c = Cmd("trunc", "conf", "warn")
          /\ n = 1 => c = Cmd("fill", "conf", "warn")
      BY <1>1, <1>3, <2>1, FileHead
    <2>3. EndsWith(todo', SetupResolvConf, FileOps \cup {"linkDNS"})
      BY <1>1, <2>1, TailEnds
    <2>4. platform = "linux" => c.op # "service"
      BY <1>1, <1>2, <1>8, HeadTyped, SetupCmdKinds
    <2> HIDE DEF c
    <2>5. CASE n > 4
      <3>1. /\ host'.conf = host.conf /\ mem'.bak = mem.bak
            /\ (platform = "linux" => mem'.tool = mem.tool)
        BY <1>1, <1>2, <2>2, <2>4, <2>5, EffectKeeps
      <3>0. n >= 4 /\ n - 1 >= 4
        BY <2>5
      <3>2. host.conf = found /\ ~mem.bak
        BY <2>1, <3>0 DEF ConfAt
      <3>3. host'.conf = found /\ ~mem'.bak
        BY <3>1, <3>2
      <3>4. ConfAt(n - 1)'
        BY <1>1, <3>0, <3>3 DEF ConfAt
      <3> QED
        BY <2>1, <2>3, <3>1, <3>3, <3>4
    <2>6. CASE n = 4
      <3>1. host'.conf = found /\ mem' = mem
        BY <1>1, <1>2, <2>1, <2>2, <2>6, FileEffects DEF ConfAt
      <3>2. ConfAt(n - 1)'
        BY <1>1, <2>6, <3>1 DEF ConfAt
      <3> QED
        BY <2>1, <2>3, <3>1, <3>2
    <2>7. CASE n = 3
      <3>1. host.conf = found
        BY <2>1, <2>7 DEF ConfAt
      <3>2. host'.conf = found /\ host'.bak = found /\ mem'.bak
        BY <1>1, <1>2, <2>2, <2>7, <3>1, FileEffects
      <3>3. mem'.tool = mem.tool
        BY <1>1, <1>2, <2>2, <2>7, EffectKeeps, CmdFields
      <3>4. ConfAt(n - 1)'
        BY <1>1, <2>7, <3>2 DEF ConfAt
      <3> QED
        BY <2>1, <2>3, <3>2, <3>3, <3>4
    <2>8. CASE n = 2
      <3>1. host'.bak = found /\ mem' = mem /\ mem.bak
        BY <1>1, <1>2, <2>1, <2>2, <2>8, FileEffects DEF ConfAt
      <3>2. ConfAt(n - 1)'
        BY <1>1, <2>8, <3>1 DEF ConfAt
      <3> QED
        BY <2>1, <2>3, <3>1, <3>2
    <2>9. CASE n = 1
      <3>1. host'.bak = found /\ mem' = mem /\ mem.bak
        BY <1>1, <1>2, <2>1, <2>2, <2>9, FileEffects DEF ConfAt
      <3>2. ConfAt(n - 1)'
        BY <1>1, <2>9, <3>1 DEF ConfAt
      <3> QED
        BY <2>1, <2>3, <3>1, <3>2
    <2>10. n > 4 \/ n = 4 \/ n = 3 \/ n = 2 \/ n = 1
      OBVIOUS
    <2> QED
      BY <2>5, <2>6, <2>7, <2>8, <2>9, <2>10
  <1>9. ASSUME failures = 0, proc = "setup", ~UsesFile
        PROVE  /\ \A i \in DOMAIN todo' : todo'[i].op \notin FileOps
               /\ host'.conf = found /\ ~mem'.bak
    <2>1. (\A i \in DOMAIN todo : todo[i].op \notin FileOps) /\ host.conf = found /\ ~mem.bak
      BY <1>9 DEF FileShape
    <2> HIDE DEF c
    <2> QED
      BY <1>1, <1>2, <1>7, <2>1, EffectKeeps
  <1>10. ASSUME failures = 0, proc = "cleanup", mem.bak
        PROVE  /\ EndsWith(todo', Restoring, FileOps) /\ RestoredAt(n - 1)' /\ mem'.bak
               /\ (host'.conf = found \/ host'.bak = found)
    <2>1. /\ todo \in Seq(CleanupCmds) /\ Len(Restoring) = 3
          /\ EndsWith(todo, Restoring, FileOps) /\ RestoredAt(n)
      BY <1>3, <1>10, FileFacts DEF RouteTypeOK, FileShape
    <2>2. /\ n > 3 => c.op \notin FileOps
          /\ n = 3 => c = Cmd("trunc", "restored", "warn")
          /\ n = 2 => c = Cmd("fill", "restored", "warn")
          /\ n = 1 => c = Cmd("remove", "bak", "warn")
      BY <1>1, <1>3, <2>1, RestoreHead
    <2>3. EndsWith(todo', Restoring, FileOps)
      BY <1>1, <2>1, TailEnds
    <2> HIDE DEF c
    <2>5. CASE n > 3
      <3>0. n >= 3 /\ n - 1 >= 3
        BY <2>5
      <3>1. host'.bak = found /\ mem'.bak
        <4>1. host.bak = found
          BY <2>1, <3>0 DEF RestoredAt
        <4> QED
          BY <1>1, <1>2, <1>10, <2>2, <2>5, <4>1, EffectKeeps
      <3>2. RestoredAt(n - 1)'
        BY <1>1, <3>0, <3>1 DEF RestoredAt
      <3> QED
        BY <2>3, <3>1, <3>2
    <2>6. CASE n = 3
      <3>1. host'.bak = found /\ mem'.bak /\ mem'.read = found
        BY <1>1, <1>2, <1>10, <2>1, <2>2, <2>6, FileEffects DEF RestoredAt
      <3>2. RestoredAt(n - 1)'
        BY <1>1, <2>6, <3>1 DEF RestoredAt
      <3> QED
        BY <2>3, <3>1, <3>2
    <2>7. CASE n = 2
      <3>1. host'.conf = found /\ mem'.bak
        BY <1>1, <1>2, <1>10, <2>1, <2>2, <2>7, FileEffects DEF RestoredAt
      <3>2. RestoredAt(n - 1)'
        BY <1>1, <2>7, <3>1 DEF RestoredAt
      <3> QED
        BY <2>3, <3>1, <3>2
    <2>8. CASE n = 1
      <3>1. host'.conf = found /\ mem'.bak
        BY <1>1, <1>2, <1>10, <2>1, <2>2, <2>8, FileEffects DEF RestoredAt
      <3>2. RestoredAt(n - 1)'
        BY <1>1, <2>8, <3>1 DEF RestoredAt
      <3> QED
        BY <2>3, <3>1, <3>2
    <2>9. n > 3 \/ n = 3 \/ n = 2 \/ n = 1
      OBVIOUS
    <2> QED
      BY <2>5, <2>6, <2>7, <2>8, <2>9
  <1>11. ASSUME failures = 0, proc = "cleanup", ~mem.bak
        PROVE  /\ \A i \in DOMAIN todo' : todo'[i].op \notin FileOps
               /\ host'.conf = found /\ ~mem'.bak
    <2>1. (\A i \in DOMAIN todo : todo[i].op \notin FileOps) /\ host.conf = found
      BY <1>11 DEF FileShape
    <2> HIDE DEF c
    <2> QED
      BY <1>1, <1>2, <1>7, <1>11, <2>1, EffectKeeps
  <1>12. failures = 0 => proc # "undo"
    BY DEF Phased
  <1>13. CASE failures # 0
    BY <1>1, <1>13 DEF FileShape
  <1>14. CASE failures = 0 /\ proc = "setup" /\ UsesFile
    BY <1>1, <1>4, <1>5, <1>8, <1>14 DEF FileShape
  <1>15. CASE failures = 0 /\ proc = "setup" /\ ~UsesFile
    BY <1>1, <1>5, <1>9, <1>15 DEF FileShape
  <1>16. CASE failures = 0 /\ proc = "cleanup" /\ mem.bak
    BY <1>1, <1>4, <1>10, <1>16 DEF FileShape
  <1>17. CASE failures = 0 /\ proc = "cleanup" /\ ~mem.bak
    BY <1>1, <1>11, <1>17 DEF FileShape
  <1> QED
    BY <1>2, <1>12, <1>13, <1>14, <1>15, <1>16, <1>17 DEF Phases

\* A rule or a route whose command has run is gone.
LEMMA SucceedsLeftovers ==
    ASSUME RouteTypeOK, Phased, Leftovers, Succeeds
    PROVE  Leftovers'
  <1> DEFINE c == Head(todo)
  <1>1. todo # <<>> /\ host' = Effect(c, host, mem) /\ mem' = Remembered(c, host, mem)
        /\ todo' = Tail(todo)
        /\ UNCHANGED <<platform, tool, proc, found, failures, starts, overTrace>>
    BY DEF Succeeds
  <1>2. host \in Hosts /\ mem \in Memories /\ proc # "exited"
    BY <1>1 DEF RouteTypeOK, Phased
  <1>3. ASSUME failures = 0, proc = "cleanup"
        PROVE  /\ \A r \in ToSet(host'.rules) \ {RestRule} :
                     \E i \in DOMAIN todo' : todo'[i] = Cmd("delRule", r, "warn")
               /\ "endpoint" \in host'.routes =>
                     \E i \in DOMAIN todo' : todo'[i] = Cmd("delRoute", "endpoint", "warn")
    <2>1. /\ todo \in Seq(CleanupCmds) /\ c \in CleanupCmds
      BY <1>1, <1>3, HeadTyped DEF RouteTypeOK
    <2>2. \A i \in DOMAIN todo : c = todo[i] \/ \E j \in DOMAIN todo' : todo'[j] = todo[i]
      <3>1. \A i \in DOMAIN todo : i = 1 \/ (i - 1 \in DOMAIN Tail(todo) /\ Tail(todo)[i - 1] = todo[i])
        BY <1>1, <2>1
      <3>2. c = todo[1]
        BY <1>1, <2>1
      <3> QED
        BY <1>1, <3>1, <3>2
    <2> HIDE DEF c
    <2>3. c.op \notin {"addRule", "addRoute", "setRoutes"}
      BY <2>1, CleanupCmdKinds
    <2>4. ASSUME NEW r \in ToSet(host'.rules) \ {RestRule}
          PROVE  \E i \in DOMAIN todo' : todo'[i] = Cmd("delRule", r, "warn")
      <3>1. r \in ToSet(host.rules) /\ c # Cmd("delRule", r, "warn")
        <4>1. c.op # "delRule" => host'.rules = host.rules
          BY <1>1, <1>2, <2>3, EffectKeeps
        <4>2. ASSUME c.op = "delRule"
              PROVE  /\ ToSet(host'.rules) \subseteq ToSet(host.rules)
                     /\ c.arg # RestRule => c.arg \notin ToSet(host'.rules)
          <5>1. c.arg \in RuleSet /\ host.rules \in RuleSeqs
            BY <1>2, <2>1, <4>2, CleanupCmdKinds DEF Hosts
          <5>2. host'.rules = DelRule(host.rules, c.arg)
            BY <1>1, <1>2, <4>2, EffectKeeps
          <5> QED
            BY <5>1, <5>2, DelRuleFacts
        <4>3. c = Cmd("delRule", r, "warn") => c.op = "delRule" /\ c.arg = r
          BY CmdFields
        <4> QED
          BY <2>4, <4>1, <4>2, <4>3
      <3>2. PICK i \in DOMAIN todo : todo[i] = Cmd("delRule", r, "warn")
        BY <1>3, <3>1 DEF Leftovers
      <3> QED
        BY <2>2, <3>1, <3>2
    <2>5. ASSUME "endpoint" \in host'.routes
          PROVE  \E i \in DOMAIN todo' : todo'[i] = Cmd("delRoute", "endpoint", "warn")
      <3>1. "endpoint" \in host.routes /\ c # Cmd("delRoute", "endpoint", "warn")
        <4>1. c.op # "delRoute" => host'.routes \subseteq host.routes
          BY <1>1, <1>2, <2>3, EffectKeeps
        <4>2. c.op = "delRoute" => host'.routes = host.routes \ {c.arg}
          BY <1>1, <1>2, EffectKeeps
        <4> QED
          BY <2>5, <4>1, <4>2, CmdFields
      <3>2. PICK i \in DOMAIN todo : todo[i] = Cmd("delRoute", "endpoint", "warn")
        BY <1>3, <3>1 DEF Leftovers
      <3> QED
        BY <2>2, <3>1, <3>2
    <2> QED
      BY <2>4, <2>5
  <1> QED
    BY <1>1, <1>2, <1>3 DEF Leftovers

-------------------------------------------------------------------------------
(* The other actions.                                                      *)

LEMMA RouteStart ==
    ASSUME RouteInit
    PROVE  RouteInv
  <1>1. /\ platform \in Platforms /\ tool \in Tools /\ proc = "down" /\ todo = <<>> /\ mem = Nothing
        /\ host = [routes |-> {}, rules |-> <<>>, conf |-> "orig", bak |-> "none",
                   link |-> FALSE, service |-> "manual", filters |-> {}]
        /\ found = "orig" /\ failures = 0 /\ starts = 0 /\ overTrace = FALSE
    BY DEF RouteInit, Tools
  <1>2. RouteTypeOK
    <2>1. mem \in Memories /\ host \in Hosts /\ found \in Contents
      <3>1. <<>> \in RuleSeqs
        BY DEF RuleSeqs
      <3> QED
        BY <1>1, <3>1 DEF Memories, Hosts, Contents, Nothing
    <2>2. todo \in Seq(IF proc = "setup" THEN SetupCmds(platform) ELSE CleanupCmds)
      BY <1>1
    <2> QED
      BY <1>1, <2>1, <2>2 DEF RouteTypeOK, Phases
  <1>3. Phased /\ FirewallShape /\ Leftovers /\ Traces
    BY <1>1 DEF Phased, FirewallShape, Leftovers, Traces
  <1>4. FileShape
    BY <1>1 DEF FileShape
  <1> QED
    BY <1>2, <1>3, <1>4 DEF RouteInv

LEMMA BeginKeeps ==
    ASSUME RouteInv, Begin
    PROVE  RouteInv'
  <1>1. /\ proc \in {"down", "exited"} /\ proc' = "setup" /\ todo' = Setup(platform, tool)
        /\ mem' = Nothing /\ found' = host.conf /\ failures' = 0 /\ starts' = starts + 1
        /\ overTrace' = (overTrace \/ failures > 0 \/ (proc = "down" /\ starts > 0))
        /\ UNCHANGED <<platform, tool, host>>
    BY DEF Begin
  <1>2. RouteTypeOK /\ Phased /\ FileShape /\ Traces
    BY DEF RouteInv
  <1>3. /\ todo' \in Seq(SetupCmds(platform))
        /\ platform = "windows" => EndsWith(todo', EnableFirewall, FirewallOps) /\ Len(todo') >= 10
        /\ UsesFile => EndsWith(todo', SetupResolvConf, FileOps \cup {"linkDNS"}) /\ Len(todo') >= 4
        /\ ~UsesFile => \A i \in DOMAIN todo' : todo'[i].op \notin FileOps
    BY <1>1, <1>2, SetupShape DEF RouteTypeOK
  <1>4. Len(todo') \in Nat
    BY <1>3
  <1>5. RouteTypeOK'
    <2>1. mem' \in Memories /\ found' \in Contents
      BY <1>1, <1>2 DEF RouteTypeOK, Memories, Hosts, Contents, Nothing
    <2>2. failures' \in Nat /\ starts' \in Nat /\ overTrace' \in BOOLEAN
      BY <1>1, <1>2 DEF RouteTypeOK
    <2> QED
      BY <1>1, <1>2, <1>3, <2>1, <2>2 DEF RouteTypeOK, Phases
  <1>6. Phased'
    BY <1>1, <1>2 DEF Phased
  <1>7. FirewallShape'
    <2>1. platform = "windows" => StagedAt(Len(todo))' /\ todo' # <<>>
      <3>1. \A k \in Nat : k >= 10 => ~(k < 10)
        OBVIOUS
      <3>2. platform = "windows" => ~(Len(todo') < 10) /\ Len(todo') # 0
        BY <1>3, <1>4
      <3> QED
        BY <1>3, <3>2 DEF StagedAt
    <2> QED
      BY <1>1, <1>3, <2>1 DEF FirewallShape
  <1>8. FileShape'
    <2>1. UsesFile' <=> UsesFile
      BY <1>1 DEF UsesFile
    <2>2. UsesFile => ConfAt(Len(todo))'
      BY <1>1, <1>3 DEF ConfAt, Nothing
    <2> QED
      BY <1>1, <1>3, <2>1, <2>2 DEF FileShape, Nothing
  <1>9. Leftovers'
    BY <1>1 DEF Leftovers
  <1>10. Traces'
    <2>1. starts' # 0 /\ failures \in Nat /\ starts \in Nat
      BY <1>1, <1>2 DEF RouteTypeOK
    <2>2. ASSUME ~overTrace' PROVE found' = "orig"
      <3>1. ~overTrace /\ failures = 0 /\ (proc = "exited" \/ starts = 0)
        <4>1. ~overTrace /\ ~(failures > 0) /\ ~(proc = "down" /\ starts > 0)
          BY <1>1, <2>2, Zenon
        <4> QED
          BY <1>1, <2>1, <4>1
      <3>2. CASE proc = "exited"
        BY <1>1, <1>2, <3>1, <3>2 DEF FileShape, Traces
      <3>3. CASE starts = 0
        BY <1>1, <1>2, <3>3 DEF Traces
      <3> QED
        BY <3>1, <3>2, <3>3
    <2> QED
      BY <2>1, <2>2 DEF Traces
  <1> QED
    BY <1>5, <1>6, <1>7, <1>8, <1>9, <1>10 DEF RouteInv

LEMMA SucceedsKeeps ==
    ASSUME RouteInv, Succeeds
    PROVE  RouteInv'
  <1>1. RouteTypeOK /\ Phased /\ FirewallShape /\ FileShape /\ Leftovers /\ Traces
    BY DEF RouteInv
  <1>2. RouteTypeOK' /\ Phased' /\ FirewallShape' /\ FileShape' /\ Leftovers'
    BY <1>1, SucceedsTyped, SucceedsPhased, SucceedsFirewall, SucceedsFile, SucceedsLeftovers
  <1>3. Traces'
    <2>1. proc # "down" /\ UNCHANGED <<found, starts, overTrace>>
      BY <1>1 DEF Succeeds, Phased
    <2> QED
      BY <1>1, <2>1 DEF Traces
  <1> QED
    BY <1>2, <1>3 DEF RouteInv

\* What the host loses with the device and the process.
LEMMA GoneKeeps ==
    ASSUME NEW h \in Hosts
    PROVE  /\ Gone(h) \in Hosts
           /\ Gone(h).routes = h.routes \cap {"endpoint"} /\ Gone(h).rules = h.rules
           /\ Gone(h).filters = {} /\ Gone(h).conf = h.conf /\ Gone(h).bak = h.bak
  BY DEF Gone, Hosts

LEMMA CrashKeeps ==
    ASSUME RouteInv, Crash
    PROVE  RouteInv'
  <1>1. /\ proc # "down" /\ proc' = "down" /\ todo' = <<>> /\ host' = Gone(host)
        /\ UNCHANGED <<platform, tool, mem, found, failures, starts, overTrace>>
    BY DEF Crash
  <1>2. RouteTypeOK /\ Phased /\ FileShape /\ Traces
    BY DEF RouteInv
  <1>3. /\ host' \in Hosts /\ host'.routes \subseteq host.routes /\ host'.rules = host.rules
        /\ host'.filters = {} /\ host'.conf = host.conf /\ host'.bak = host.bak
    BY <1>1, <1>2, GoneKeeps DEF RouteTypeOK
  <1>4. RouteTypeOK'
    BY <1>1, <1>2, <1>3 DEF RouteTypeOK, Phases
  <1>5. Phased' /\ Leftovers' /\ Traces'
    BY <1>1, <1>2, <1>3 DEF Phased, Leftovers, Traces
  <1>6. FirewallShape'
    BY <1>1 DEF FirewallShape
  <1>7. FileShape'
    BY <1>1, <1>2, <1>3 DEF FileShape
  <1> QED
    BY <1>4, <1>5, <1>6, <1>7 DEF RouteInv

LEMMA ExitKeeps ==
    ASSUME RouteInv, Exit
    PROVE  RouteInv'
  <1>1. /\ proc \in {"cleanup", "undo"} /\ todo = <<>> /\ host' = Gone(host)
        /\ proc' = IF proc = "cleanup" THEN "exited" ELSE "down"
        /\ UNCHANGED <<platform, tool, todo, mem, found, failures, starts, overTrace>>
    BY DEF Exit
  <1>2. RouteTypeOK /\ Phased /\ FileShape /\ Leftovers /\ Traces
    BY DEF RouteInv
  <1>3. /\ host' \in Hosts /\ host'.routes = host.routes \cap {"endpoint"} /\ host'.rules = host.rules
        /\ host'.filters = {} /\ host'.conf = host.conf /\ host'.bak = host.bak
    BY <1>1, <1>2, GoneKeeps DEF RouteTypeOK
  <1>4. RouteTypeOK'
    BY <1>1, <1>2, <1>3 DEF RouteTypeOK, Phases
  <1>5. Phased'
    BY <1>1, <1>2, <1>3 DEF Phased
  <1>6. FirewallShape'
    BY <1>1 DEF FirewallShape
  <1>7. failures = 0 => proc = "cleanup"
    BY <1>1, <1>2 DEF Phased
  <1>8. FileShape'
    <2>1. failures = 0 => host.conf = found
      <3>1. Len(todo) = 0
        BY <1>1
      <3> QED
        BY <1>2, <1>7, <3>1 DEF FileShape, RestoredAt
    <2> QED
      BY <1>1, <1>3, <1>7, <2>1 DEF FileShape
  <1>9. Leftovers'
    <2>1. ASSUME failures = 0 PROVE ToSet(host.rules) \subseteq {RestRule} /\ "endpoint" \notin host.routes
      <3>1. DOMAIN todo = {}
        BY <1>1
      <3> QED
        BY <1>2, <1>7, <2>1, <3>1 DEF Leftovers
    <2> QED
      BY <1>1, <1>3, <2>1 DEF Leftovers
  <1>10. Traces'
    BY <1>1, <1>2, <1>3 DEF Traces
  <1> QED
    BY <1>4, <1>5, <1>6, <1>8, <1>9, <1>10 DEF RouteInv

LEMMA ReadyKeeps ==
    ASSUME RouteInv, Ready
    PROVE  RouteInv'
  <1>1. /\ proc = "setup" /\ todo = <<>> /\ proc' = "up"
        /\ UNCHANGED <<platform, tool, todo, mem, host, found, failures, starts, overTrace>>
    BY DEF Ready
  <1>2. RouteTypeOK /\ Phased /\ FirewallShape /\ FileShape /\ Traces
    BY DEF RouteInv
  <1>3. RouteTypeOK'
    BY <1>1, <1>2 DEF RouteTypeOK, Phases
  <1>4. Phased' /\ Leftovers' /\ Traces'
    BY <1>1, <1>2 DEF Phased, Leftovers, Traces
  <1>5. FirewallShape'
    BY <1>1, <1>2 DEF FirewallShape
  <1>6. FileShape'
    <2>1. UsesFile' <=> UsesFile
      BY <1>1 DEF UsesFile
    <2>2. ConfAt(Len(todo)) => ConfAt(0)'
      <3>1. Len(todo) = 0
        BY <1>1
      <3> QED
        BY <1>1, <3>1 DEF ConfAt
    <2> QED
      BY <1>1, <1>2, <2>1, <2>2 DEF FileShape
  <1> QED
    BY <1>3, <1>4, <1>5, <1>6 DEF RouteInv

LEMMA SignalKeeps ==
    ASSUME RouteInv, Signal
    PROVE  RouteInv'
  <1>1. /\ proc = "up" /\ proc' = "cleanup" /\ todo' = Cleanup(platform, mem)
        /\ UNCHANGED <<platform, tool, mem, host, found, failures, starts, overTrace>>
    BY DEF Signal
  <1>2. RouteTypeOK /\ Phased /\ FirewallShape /\ FileShape /\ Traces
    BY DEF RouteInv
  <1>3. /\ todo' \in Seq(CleanupCmds)
        /\ mem.bak /\ platform # "windows" /\ (platform = "linux" => ~mem.tool) =>
              EndsWith(todo', Restoring, FileOps) /\ Len(todo') >= 3
        /\ ~mem.bak => \A i \in DOMAIN todo' : todo'[i].op \notin FileOps
        /\ platform = "linux" => \A r \in RuleSet : Has(todo', Cmd("delRule", r, "warn"))
        /\ platform # "linux" => Has(todo', Cmd("delRoute", "endpoint", "warn"))
    <2>1. platform \in Platforms /\ mem.bak \in BOOLEAN /\ mem.tool \in BOOLEAN
      BY <1>2 DEF RouteTypeOK, Memories
    <2> QED
      BY <1>1, <2>1, CleanupShape
  <1>4. RouteTypeOK'
    BY <1>1, <1>2, <1>3 DEF RouteTypeOK, Phases
  <1>5. Phased' /\ Traces'
    BY <1>1, <1>2 DEF Phased, Traces
  <1>6. FirewallShape'
    BY <1>1 DEF FirewallShape
  <1>7. FileShape'
    <2>1. ASSUME failures = 0, UsesFile
          PROVE  /\ mem.bak /\ host.bak = found
                 /\ platform # "windows" /\ (platform = "linux" => ~mem.tool)
      BY <1>1, <1>2, <2>1 DEF FileShape, ConfAt, UsesFile
    <2>2. ASSUME failures = 0, ~UsesFile PROVE host.conf = found /\ ~mem.bak
      BY <1>1, <1>2, <2>2 DEF FileShape
    <2>3. ASSUME failures = 0, UsesFile PROVE EndsWith(todo', Restoring, FileOps) /\ RestoredAt(Len(todo))'
      <3>1. EndsWith(todo', Restoring, FileOps) /\ Len(todo') >= 3
        BY <1>3, <2>1, <2>3
      <3> QED
        BY <1>1, <2>1, <2>3, <3>1 DEF RestoredAt
    <2> QED
      BY <1>1, <1>3, <2>1, <2>2, <2>3 DEF FileShape
  <1>8. Leftovers'
    <2>1. ASSUME NEW r \in ToSet(host.rules) PROVE Has(todo', Cmd("delRule", r, "warn"))
      <3>1. r \in RuleSet /\ host.rules # <<>>
        BY <1>2 DEF RouteTypeOK, Hosts, RuleSeqs, ToSet
      <3> QED
        BY <1>2, <1>3, <3>1 DEF Phased
    <2>2. "endpoint" \in host.routes => Has(todo', Cmd("delRoute", "endpoint", "warn"))
      BY <1>2, <1>3 DEF Phased
    <2> QED
      BY <1>1, <2>1, <2>2 DEF Leftovers, Has
  <1> QED
    BY <1>4, <1>5, <1>6, <1>7, <1>8 DEF RouteInv

\* A roll-back and a return to resolv.conf leave scripts; a failed command that is
\* not rolled back leaves the rest, less its second half when a file was not opened.
LEMMA FailsTyped ==
    ASSUME RouteTypeOK, Fails
    PROVE  RouteTypeOK'
  <1> DEFINE c == Head(todo)
  <1>1. /\ todo # <<>> /\ failures' = failures + 1
        /\ mem' = IF c.op = "linkDNS" THEN [mem EXCEPT !.tool = TRUE] ELSE mem
        /\ UNCHANGED <<platform, tool, found, starts, overTrace>>
    BY DEF Fails
  <1>2. /\ CASE c.fail = "warn" ->
                 /\ todo' = IF c.op = "trunc" THEN SubSeq(todo, 3, Len(todo)) ELSE Tail(todo)
                 /\ UNCHANGED <<proc, host>>
            [] c.fail = "abort" ->
                 /\ todo' = <<>>
                 /\ host' = [host EXCEPT !.filters = {}] /\ UNCHANGED proc
            [] c.fail = "file" -> todo' = SetupResolvConf \o Tail(todo) /\ UNCHANGED <<proc, host>>
            [] c.fail = "fatal" -> todo' = <<>> /\ proc' = "down" /\ host' = Gone(host)
            [] c.fail = "undo" ->
                 /\ todo' = Undo(CHOOSE i \in DOMAIN BuildRules : BuildRules[i] = c.arg)
                 /\ proc' = "undo" /\ UNCHANGED host
    BY DEF Fails
  <1>3. /\ host \in Hosts /\ mem \in Memories /\ platform \in Platforms /\ proc \in Phases
        /\ failures \in Nat
    BY DEF RouteTypeOK
  <1>4. mem' \in Memories
    BY <1>1, <1>3 DEF Memories
  <1> DEFINE Cmds == IF proc = "setup" THEN SetupCmds(platform) ELSE CleanupCmds
  <1>5. todo \in Seq(Cmds) /\ Tail(todo) \in Seq(Cmds) /\ Len(todo) \in Nat
    <2>1. todo \in Seq(Cmds)
      BY DEF RouteTypeOK
    <2> QED
      BY <1>1, <2>1
  <1>6. proc # "setup" => c.fail = "warn"
    BY <1>1, HeadTyped, CleanupCmdKinds
  <1>7. proc = "setup" =>
           /\ c.fail \in {"warn", "abort", "file", "fatal", "undo"}
           /\ c.fail = "undo" => c.arg \in RuleSet
           /\ c.fail = "file" => platform = "darwin"
    BY <1>1, <1>3, HeadTyped, SetupCmdKinds
  <1> HIDE DEF c
  <1>8. CASE c.fail = "warn"
    <2>1. todo' \in {SubSeq(todo, 3, Len(todo)), Tail(todo)} /\ proc' = proc /\ host' = host
      BY <1>2, <1>8
    <2>2. SubSeq(todo, 3, Len(todo)) \in Seq(Cmds)
      <3>1. \A i \in 3 .. Len(todo) : todo[i] \in Cmds
        BY <1>5
      <3>2. 3 \in Int /\ Len(todo) \in Int
        BY <1>5
      <3> QED
        BY <3>1, <3>2, SubSeqProperties
    <2> HIDE DEF Cmds
    <2>3. todo' \in Seq(Cmds)
      BY <1>5, <2>1, <2>2
    <2> QED
      BY <1>1, <1>3, <1>4, <2>1, <2>3 DEF RouteTypeOK, Cmds
  <1>9. CASE c.fail = "abort"
    <2>1. todo' = <<>> /\ host' = [host EXCEPT !.filters = {}] /\ proc' = proc
      BY <1>2, <1>9
    <2>2. host' \in Hosts
      BY <1>3, <2>1 DEF Hosts
    <2>3. \A S : todo' \in Seq(S)
      BY <2>1
    <2> QED
      BY <1>1, <1>3, <1>4, <2>1, <2>2, <2>3 DEF RouteTypeOK
  <1>10. CASE c.fail = "file"
    <2>1. todo' = SetupResolvConf \o Tail(todo) /\ proc' = proc /\ host' = host
      BY <1>2, <1>10
    <2>2. proc = "setup" /\ platform = "darwin"
      BY <1>6, <1>7, <1>10
    <2>3. SetupResolvConf \in Seq(SetupCmds(platform))
      <3>1. WriteCmds \subseteq SetupCmds(platform)
        BY <2>2 DEF SetupCmds, LastCmds
      <3> QED
        BY <3>1, FileFacts, SeqMonotonic
    <2>4. todo' \in Seq(SetupCmds(platform))
      <3>1. Tail(todo) \in Seq(SetupCmds(platform))
        BY <1>5, <2>2
      <3> QED
        BY <2>1, <2>3, <3>1, ConcatProperties
    <2> QED
      BY <1>1, <1>3, <1>4, <2>1, <2>2, <2>4 DEF RouteTypeOK
  <1>11. CASE c.fail = "fatal"
    <2>1. todo' = <<>> /\ host' \in Hosts /\ proc' = "down"
      BY <1>2, <1>3, <1>11, GoneKeeps
    <2>2. \A S : todo' \in Seq(S)
      BY <2>1
    <2> QED
      BY <1>1, <1>3, <1>4, <2>1, <2>2 DEF RouteTypeOK, Phases
  <1>12. CASE c.fail = "undo"
    <2>1. /\ todo' = Undo(CHOOSE i \in DOMAIN BuildRules : BuildRules[i] = c.arg)
          /\ proc' = "undo" /\ host' = host
      BY <1>2, <1>12
    <2>2. c.arg \in RuleSet
      BY <1>6, <1>7, <1>12
    <2>3. todo' \in Seq(CleanupCmds)
      BY <2>1, <2>2, UndoTyped
    <2> QED
      BY <1>1, <1>3, <1>4, <2>1, <2>3 DEF RouteTypeOK, Phases
  <1> QED
    BY <1>6, <1>7, <1>8, <1>9, <1>10, <1>11, <1>12

LEMMA FailsKeeps ==
    ASSUME RouteInv, Fails
    PROVE  RouteInv'
  <1> DEFINE c == Head(todo)
  <1>1. /\ todo # <<>> /\ failures' = failures + 1
        /\ UNCHANGED <<platform, tool, found, starts, overTrace>>
    BY DEF Fails
  <1>2. RouteTypeOK /\ Phased /\ FirewallShape /\ FileShape /\ Traces
    BY DEF RouteInv
  <1>3. RouteTypeOK' /\ failures' > 0
    BY <1>1, <1>2, FailsTyped DEF RouteTypeOK
  <1>4. /\ host \in Hosts /\ proc \in Phases /\ proc \notin {"down", "exited", "up"}
        /\ platform \in Platforms
    BY <1>1, <1>2 DEF Phased, RouteTypeOK
  <1>5. proc # "setup" => c.fail = "warn"
    BY <1>1, <1>2, HeadTyped, CleanupCmdKinds
  <1>6. proc = "setup" =>
           /\ c.fail \in {"warn", "abort", "file", "fatal", "undo"}
           /\ platform = "windows" => c.op # "trunc" /\ c.fail \notin {"file", "undo"}
    BY <1>1, <1>2, <1>4, HeadTyped, SetupCmdKinds
  <1>7. /\ c.fail \in {"warn", "file", "undo"} => host' = host
        /\ c.fail = "abort" => host' = [host EXCEPT !.filters = {}]
        /\ c.fail = "fatal" => host' = Gone(host)
    BY DEF Fails
  <1>8. /\ c.fail \in {"warn", "abort", "file"} => proc' = proc
        /\ c.fail = "fatal" => proc' = "down" /\ todo' = <<>>
        /\ c.fail = "abort" => todo' = <<>>
        /\ c.fail = "undo" => proc' = "undo"
        /\ c.fail = "warn" /\ c.op # "trunc" => todo' = Tail(todo)
    BY DEF Fails
  <1>9. c.fail \in {"warn", "abort", "file", "fatal", "undo"}
    BY <1>5, <1>6
  <1>10. /\ c.op # "linkDNS" => mem' = mem
         /\ c.op = "linkDNS" => mem' = [mem EXCEPT !.tool = TRUE]
    BY DEF Fails
  <1>11. /\ host'.rules = host.rules /\ host'.routes \subseteq host.routes
         /\ host'.filters \in {host.filters, {}}
         /\ host'.conf = host.conf /\ host'.bak = host.bak
    <2>1. CASE host' = host
      BY <2>1
    <2>2. CASE host' = [host EXCEPT !.filters = {}]
      BY <1>4, <2>2 DEF Hosts
    <2>3. CASE host' = Gone(host)
      BY <1>4, <2>3, GoneKeeps
    <2> HIDE DEF c
    <2> QED
      BY <1>7, <1>9, <2>1, <2>2, <2>3
  <1>12. Phased'
    <2> HIDE DEF c
    <2>1. proc' \in {"down", "exited", "up"} => todo' = <<>>
      BY <1>4, <1>8, <1>9
    <2> QED
      BY <1>1, <1>2, <1>3, <1>11, <2>1 DEF Phased
  <1>13. FirewallShape'
    <2>1. ASSUME platform = "windows", proc' = "setup"
          PROVE  EndsWith(todo', EnableFirewall, FirewallOps) /\ StagedAt(Len(todo))'
      <3>1. proc = "setup" /\ (todo' = <<>> \/ (c.fail = "warn" /\ todo' = Tail(todo)))
        <4> HIDE DEF c
        <4>1. proc = "setup"
          BY <1>4, <1>8, <1>9, <2>1
        <4> QED
          BY <1>6, <1>8, <2>1, <4>1
      <3>2. CASE todo' = <<>>
        <4>1. Len(todo') = 0 /\ DOMAIN todo' = {}
          BY <3>2
        <4> QED
          BY <4>1 DEF EndsWith, StagedAt
      <3>3. CASE c.fail = "warn" /\ todo' = Tail(todo)
        <4>1. PICK n \in Nat \ {0} : n = Len(todo)
          BY <1>1, <1>2, HeadTyped
        <4>2. /\ todo \in Seq(SetupCmds(platform)) /\ Len(EnableFirewall) = 10
              /\ EndsWith(todo, EnableFirewall, FirewallOps)
          BY <1>2, <2>1, <3>1, FirewallFacts DEF RouteTypeOK, FirewallShape
        <4>3. n =< 10 => c.fail = "abort"
          BY <1>1, <4>1, <4>2, FirewallHead
        <4>4. Len(todo') = n - 1
          BY <1>1, <1>2, <3>3, <4>1, HeadTyped
        <4>5. EndsWith(todo', EnableFirewall, FirewallOps)
          BY <1>1, <3>3, <4>2, TailEnds
        <4> HIDE DEF c
        <4>6. ~(n - 1 < 10)
          BY <3>3, <4>3
        <4> QED
          BY <4>4, <4>5, <4>6 DEF StagedAt
      <3> QED
        BY <3>1, <3>2, <3>3
    <2> QED
      BY <1>1, <1>3, <2>1 DEF FirewallShape
  <1>14. FileShape' /\ Leftovers'
    BY <1>3 DEF FileShape, Leftovers
  <1>15. Traces'
    BY <1>1, <1>2, <1>4 DEF Traces
  <1> QED
    BY <1>3, <1>12, <1>13, <1>14, <1>15 DEF RouteInv

-------------------------------------------------------------------------------
(* Theorems.                                                               *)

\* The shapes hold throughout.
THEOREM RouteInvHolds == RouteSpec => []RouteInv
  <1>1. RouteInit => RouteInv
    BY RouteStart
  <1>2. RouteInv /\ [RouteNext]_routeVars => RouteInv'
    <2> SUFFICES ASSUME RouteInv, [RouteNext]_routeVars PROVE RouteInv'
      OBVIOUS
    <2>1. CASE RouteNext
      BY <2>1, BeginKeeps, SucceedsKeeps, FailsKeeps, ReadyKeeps, SignalKeeps, ExitKeeps,
         CrashKeeps DEF RouteNext
    <2>2. CASE UNCHANGED routeVars
      <3>1. RouteTypeOK' /\ Phased' /\ Traces'
        BY <2>2 DEF routeVars, RouteInv, RouteTypeOK, Phased, Traces
      <3>2. FirewallShape' /\ Leftovers'
        BY <2>2 DEF routeVars, RouteInv, FirewallShape, StagedAt, Leftovers
      <3>3. FileShape'
        BY <2>2 DEF routeVars, RouteInv, FileShape, ConfAt, RestoredAt, UsesFile
      <3> QED
        BY <3>1, <3>2, <3>3 DEF RouteInv
    <2> QED
      BY <2>1, <2>2
  <1> QED
    BY <1>1, <1>2, PTL DEF RouteSpec

\* A run that ends by a signal, with no command failing, leaves no route or filter
\* behind, of the rules at most the last, and resolv.conf as it found it.
THEOREM CleanExits == RouteSpec => []CleanExitRestores
  <1>1. RouteInv => CleanExitRestores
    BY DEF RouteInv, FileShape, Leftovers, CleanExitRestores, RestRule
  <1> QED
    BY <1>1, RouteInvHolds, PTL

\* Wherever a run that found resolv.conf intact is cut off, the user's file is in
\* place or in the backup.
THEOREM OriginalIsKept == RouteSpec => []OriginalSurvives
  <1>1. RouteInv => OriginalSurvives
    BY DEF RouteInv, FileShape, Traces, OriginalSurvives
  <1> QED
    BY <1>1, RouteInvHolds, PTL

\* The filters are all there or not at all, so the tunnel's own servers are never
\* cut off, and no other is reachable once the host is set up.
THEOREM OnlyTheTunnelAnswers == RouteSpec => []OnlyTunnelDNS
  <1>1. ASSUME RouteInv, NEW way \in {"connect", "accept"}, NEW i \in DOMAIN Servers
        PROVE  /\ Verdict(way, Servers[i].family, Servers[i].ip) = "permit"
               /\ platform = "windows" /\ proc = "up" /\ failures = 0 =>
                     Verdict(way, Servers[i].family, "other") = "block"
    <2>1. i \in 1 .. 2
      BY DEF Servers
    <2>2. host.filters \in {{}, AllFilters}
      BY <1>1 DEF RouteInv, RouteTypeOK, Hosts
    <2>3. platform = "windows" /\ proc = "up" /\ failures = 0 => host.filters = AllFilters
      BY <1>1 DEF RouteInv, FirewallShape
    <2>4. CASE host.filters = AllFilters
      BY <2>1, <2>4, AllFiltersDecide
    <2>5. CASE host.filters = {} /\ ~(platform = "windows" /\ proc = "up" /\ failures = 0)
      BY <2>5 DEF Verdict
    <2> QED
      BY <2>2, <2>3, <2>4, <2>5
  <1>2. RouteInv => OnlyTunnelDNS
    BY <1>1 DEF OnlyTunnelDNS
  <1> QED
    BY <1>2, RouteInvHolds, PTL
===============================================================================
