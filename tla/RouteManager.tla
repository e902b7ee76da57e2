----------------------------- MODULE RouteManager -----------------------------
(***************************************************************************)
(* The tun inbound of "usque run" and the host it reconfigures:            *)
(* cmd/run_inbound_tun.go around the route managers cmd/route_linux.go,    *)
(* route_darwin.go, route_freebsd.go, route_windows.go with                *)
(* dns_firewall_windows.go.                                                *)
(*                                                                         *)
(* Setup and Cleanup of each platform are lists of commands to the host,   *)
(* run one by one; what the code does when a command fails is part of the  *)
(* command.  The process may crash between any two commands and be started *)
(* again: what the host keeps then, and what vanishes with the TUN device  *)
(* or with the process, is the point of the module.  The persist option    *)
(* of the device, which is off by default, is left out.                    *)
(***************************************************************************)
EXTENDS Naturals, Sequences, SequencesExt

CONSTANTS
    RuleIndex,    \* cfg.RuleIndex: the priority of the first policy rule
    MaxStarts,    \* bound: starts of the process
    MaxFailures   \* bound: commands that fail in one start

ASSUME RouteAssumption == RuleIndex \in Nat /\ MaxStarts \in Nat /\ MaxFailures \in Nat

VARIABLES
    platform,  \* the build, and the DNS tool it finds on the host
    tool,
    proc,      \* phase of the process
    todo,      \* commands of the phase that are still to run
    mem,       \* what the process remembers: dnsBackup (bak), usedResolved or
               \* usedNetworksetup (tool), the open transaction, the bytes it read
    host,      \* the host's configuration
    found,     \* the content of resolv.conf this process found
    failures,  \* commands of this process that failed
    starts,    \* starts so far
    overTrace  \* an earlier process crashed, or a command of it failed

routeVars == <<platform, tool, proc, todo, mem, host, found, failures, starts, overTrace>>

Platforms == {"linux", "darwin", "freebsd", "windows"}
\* resolvectl on Linux, networksetup with a service that has DNS servers on macOS
Tools  == {"tool", "file"}
Phases == {"down", "exited", "setup", "up", "undo", "cleanup"}

-------------------------------------------------------------------------------
(* Commands.  fail: "warn" go on, "fatal" exit at once, "undo" roll back    *)
(* and exit, "file" go on with resolv.conf, "abort" give the firewall up.  *)

Cmd(op, arg, fail) == [op |-> op, arg |-> arg, fail |-> fail]

\* The same command for each element of a sequence.
Each(op, args, fail) == [i \in DOMAIN args |-> Cmd(op, args[i], fail)]

Rule(offset, family, selector) ==
    [prio |-> RuleIndex + offset, family |-> family, selector |-> selector]

\* buildRules, with an address of both families.
BuildRules ==
    << Rule(0, 4, "all"), Rule(1, 4, "fromTun"), Rule(2, 4, "notLo"),
       Rule(3, 4, "loAny"), Rule(3, 4, "loOwn"),
       Rule(4, 6, "all"), Rule(5, 6, "fromTun"), Rule(6, 6, "loLow"), Rule(6, 6, "loHigh"),
       Rule(7, 6, "loOwn"), Rule(7, 6, "rest") >>

\* os.WriteFile truncates the file before it writes.
WriteFile(file) == <<Cmd("trunc", file, "warn"), Cmd("fill", file, "warn")>>

\* Variant: resolv.conf is written before it is copied.
SetupResolvConfCopyingLast == WriteFile("conf") \o WriteFile("bak")

SetupResolvConf == WriteFile("bak") \o WriteFile("conf")

Halves == <<"0.0.0.0/1", "128.0.0.0/1", "::/1", "8000::/1">>
Defaults == <<"0.0.0.0/0", "::/0">>

\* The default route's link, the gateway or the physical interface.
Find == <<Cmd("find", "", "fatal")>>

SetupDNSLinux(t) == IF t = "tool" THEN <<Cmd("linkDNS", "on", "warn")>> ELSE SetupResolvConf

SetupDNSDarwin(t) == IF t = "tool" THEN <<Cmd("service", "on", "file")>> ELSE SetupResolvConf

\* No bypass route: the outbound socket is bound to its interface.
SetupLinux(t) ==
    Find \o Each("addRoute", Defaults, "fatal") \o Each("addRule", BuildRules, "undo")
    \o SetupDNSLinux(t)

SetupDarwin(t) ==
    Find \o <<Cmd("addRoute", "endpoint", "fatal")>> \o Each("addRoute", Halves, "fatal")
    \o SetupDNSDarwin(t)

SetupFreeBSD ==
    Find \o <<Cmd("addRoute", "endpoint", "warn")>> \o Each("addRoute", Halves, "fatal")
    \o SetupResolvConf

\* The filters, in the order they are added: block port 53 at each layer, then let
\* the tunnel's own servers through at the layers of their family.
Servers == <<[ip |-> "dns4", family |-> 4], [ip |-> "dns6", family |-> 6]>>
Layers == <<<<"connect", 4>>, <<"accept", 4>>, <<"connect", 6>>, <<"accept", 6>>>>

Block(layer) == [layer |-> layer, weight |-> 10, action |-> "block", ip |-> "any"]
Permit(way, server) ==
    [layer |-> <<way, server.family>>, weight |-> 11, action |-> "permit", ip |-> server.ip]

BlockDNSExcept ==
    << Block(Layers[1]), Block(Layers[2]), Block(Layers[3]), Block(Layers[4]),
       Permit("connect", Servers[1]), Permit("accept", Servers[1]),
       Permit("connect", Servers[2]), Permit("accept", Servers[2]) >>

\* Variant: no transaction, each filter takes effect when it is added.
EnableFirewallBare == Each("filter", BlockDNSExcept, "abort")

\* One transaction of a dynamic session.
EnableFirewall ==
    <<Cmd("begin", "", "abort")>> \o Each("filter", BlockDNSExcept, "abort") \o <<Cmd("commit", "", "abort")>>

SetupWindows ==
    <<Cmd("addRoute", "endpoint", "warn"), Cmd("setRoutes", Defaults, "fatal"),
      Cmd("linkDNS", "on", "warn")>> \o EnableFirewall

Setup(p, t) ==
    CASE p = "linux"   -> SetupLinux(t)  [] p = "darwin"  -> SetupDarwin(t)
      [] p = "freebsd" -> SetupFreeBSD   [] p = "windows" -> SetupWindows

\* setupRules on a failure: the rules before the i-th are deleted, were they
\* there before or not, then the routes.
Undo(i) == Each("delRule", SubSeq(BuildRules, 1, i - 1), "warn") \o <<Cmd("flushRoutes", "", "warn")>>

\* What is read from the backup is written back; it is removed even when that fails.
RestoreConf(m) ==
    IF m.bak THEN WriteFile("restored") \o <<Cmd("remove", "bak", "warn")>> ELSE <<>>

CleanupDNSLinux(m) == IF m.tool THEN <<Cmd("linkDNS", "off", "warn")>> ELSE RestoreConf(m)

\* The service gets no server back, whichever it had.
CleanupDNSDarwin(m) ==
    (IF m.tool THEN <<Cmd("service", "empty", "warn")>> ELSE <<>>) \o RestoreConf(m)

\* Variant: the loop stops one rule early.
CleanupRulesShort == Each("delRule", Reverse(Tail(BuildRules)), "warn")

CleanupRules == Each("delRule", Reverse(BuildRules), "warn")

CleanupLinux(m) == CleanupRules \o <<Cmd("flushRoutes", "", "warn")>> \o CleanupDNSLinux(m)

CleanupBypass == <<Cmd("delRoute", "endpoint", "warn")>>

CleanupDarwin(m) == CleanupBypass \o Each("delRoute", Halves, "warn") \o CleanupDNSDarwin(m)

CleanupFreeBSD(m) == CleanupBypass \o Each("delRoute", Halves, "warn") \o RestoreConf(m)

CleanupWindows ==
    <<Cmd("firewall", "off", "warn")>> \o CleanupBypass \o <<Cmd("flushRoutes", "", "warn")>>

Cleanup(p, m) ==
    CASE p = "linux"   -> CleanupLinux(m)    [] p = "darwin"  -> CleanupDarwin(m)
      [] p = "freebsd" -> CleanupFreeBSD(m)  [] p = "windows" -> CleanupWindows

\* A delete request carries the attributes that are set; of the others the kernel
\* compares nothing: the rules "all" and "rest" set neither interface nor source.
Matches(named, r) ==
    r.prio = named.prio /\ r.family = named.family /\ named.selector \in {r.selector, "all", "rest"}

\* The kernel's list, in the order of insertion: a rule it holds is not added again,
\* and the first that matches is deleted.  That none does is only logged.
AddRule(rules, r) == IF r \in ToSet(rules) THEN rules ELSE Append(rules, r)

DelRule(rules, named) == RemoveFirstMatch(rules, LAMBDA r : Matches(named, r))

\* What a command does to the host.
Effect(c, h, m) ==
    CASE c.op = "addRoute"    -> [h EXCEPT !.routes = @ \cup {c.arg}]
      [] c.op = "setRoutes"   -> [h EXCEPT !.routes = @ \cup ToSet(c.arg)]
      [] c.op = "delRoute"    -> [h EXCEPT !.routes = @ \ {c.arg}]
      [] c.op = "flushRoutes" -> [h EXCEPT !.routes = @ \cap {"endpoint"}]
      [] c.op = "addRule"     -> [h EXCEPT !.rules = AddRule(@, c.arg)]
      [] c.op = "delRule"     -> [h EXCEPT !.rules = DelRule(@, c.arg)]
      [] c.op = "linkDNS"     -> [h EXCEPT !.link = (c.arg = "on")]
      [] c.op = "service"     -> [h EXCEPT !.service = IF c.arg = "on" THEN "tunnel" ELSE "empty"]
      [] c.op = "filter" /\ ~m.txn -> [h EXCEPT !.filters = @ \cup {c.arg}]
      [] c.op = "commit"      -> [h EXCEPT !.filters = m.staged]
      [] c.op = "firewall"    -> [h EXCEPT !.filters = {}]
      [] c.op = "trunc"       -> IF c.arg = "bak" THEN [h EXCEPT !.bak = "empty"]
                                                  ELSE [h EXCEPT !.conf = "empty"]
      [] c.op = "fill" /\ c.arg = "bak"  -> [h EXCEPT !.bak = h.conf]
      [] c.op = "fill" /\ c.arg = "conf" -> [h EXCEPT !.conf = "tunnel"]
      [] c.op = "fill" /\ c.arg = "restored" -> [h EXCEPT !.conf = m.read]
      [] c.op = "remove"      -> [h EXCEPT !.bak = "none"]
      [] OTHER -> h

\* What the process remembers of a command that succeeded.
Remembered(c, h, m) ==
    CASE c.op = "fill" /\ c.arg = "bak" -> [m EXCEPT !.bak = TRUE]
      [] c.op = "trunc" /\ c.arg = "restored" -> [m EXCEPT !.read = h.bak]
      [] c.op \in {"linkDNS", "service"} -> [m EXCEPT !.tool = TRUE]
      [] c.op = "begin"  -> [m EXCEPT !.txn = TRUE, !.staged = {}]
      [] c.op = "filter" -> [m EXCEPT !.staged = @ \cup {c.arg}]
      [] c.op = "commit" -> [m EXCEPT !.txn = FALSE, !.staged = {}]
      [] OTHER -> m

Nothing == [bak |-> FALSE, tool |-> FALSE, read |-> "none", txn |-> FALSE, staged |-> {}]

RouteInit ==
    /\ platform \in Platforms
    /\ tool \in IF platform \in {"linux", "darwin"} THEN Tools ELSE {"file"}
    /\ proc = "down" /\ todo = <<>> /\ mem = Nothing
    /\ host = [routes |-> {}, rules |-> <<>>, conf |-> "orig", bak |-> "none",
               link |-> FALSE, service |-> "manual", filters |-> {}]
    /\ found = "orig" /\ failures = 0 /\ starts = 0 /\ overTrace = FALSE

-------------------------------------------------------------------------------
\* The device is created, Setup begins.
Begin ==
    /\ proc \in {"down", "exited"} /\ starts < MaxStarts
    /\ proc' = "setup" /\ todo' = Setup(platform, tool)
    /\ mem' = Nothing /\ found' = host.conf /\ failures' = 0 /\ starts' = starts + 1
    /\ overTrace' = (overTrace \/ failures > 0 \/ (proc = "down" /\ starts > 0))
    /\ UNCHANGED <<platform, tool, host>>

Succeeds ==
    /\ todo # <<>>
    /\ host' = Effect(Head(todo), host, mem)
    /\ mem' = Remembered(Head(todo), host, mem)
    /\ todo' = Tail(todo)
    /\ UNCHANGED <<platform, tool, proc, found, failures, starts, overTrace>>

\* What vanishes with the TUN device and with the process.
Gone(h) == [h EXCEPT !.routes = @ \cap {"endpoint"}, !.link = FALSE, !.filters = {}]

\* usedResolved is set before resolvectl is run; of Setup nothing is left after
\* the firewall, which gives its session up.
Fails ==
    /\ todo # <<>> /\ failures < MaxFailures
    /\ failures' = failures + 1
    /\ LET c == Head(todo) IN
       /\ mem' = IF c.op = "linkDNS" THEN [mem EXCEPT !.tool = TRUE] ELSE mem
       /\ CASE c.fail = "warn" ->
                 /\ todo' = IF c.op = "trunc" THEN SubSeq(todo, 3, Len(todo)) ELSE Tail(todo)
                 /\ UNCHANGED <<proc, host>>
            [] c.fail = "abort" ->
                 /\ todo' = <<>>
                 /\ host' = [host EXCEPT !.filters = {}] /\ UNCHANGED proc
            [] c.fail = "file" -> todo' = SetupResolvConf \o Tail(todo) /\ UNCHANGED <<proc, host>>
            [] c.fail = "fatal" -> todo' = <<>> /\ proc' = "down" /\ host' = Gone(host)
            [] c.fail = "undo" ->
                 /\ todo' = Undo(CHOOSE i \in DOMAIN BuildRules : BuildRules[i] = c.arg)
                 /\ proc' = "undo" /\ UNCHANGED host
    /\ UNCHANGED <<platform, tool, found, starts, overTrace>>

\* Setup is done; the tunnel is started and the process waits for a signal.
Ready ==
    /\ proc = "setup" /\ todo = <<>>
    /\ proc' = "up"
    /\ UNCHANGED <<platform, tool, todo, mem, host, found, failures, starts, overTrace>>

\* The tunnel is cancelled, not waited for, and Cleanup begins.
Signal ==
    /\ proc = "up"
    /\ proc' = "cleanup" /\ todo' = Cleanup(platform, mem)
    /\ UNCHANGED <<platform, tool, mem, host, found, failures, starts, overTrace>>

\* The process ends after Cleanup, or by log.Fatalf after a roll-back.
Exit ==
    /\ proc \in {"cleanup", "undo"} /\ todo = <<>>
    /\ proc' = IF proc = "cleanup" THEN "exited" ELSE "down"
    /\ host' = Gone(host)
    /\ UNCHANGED <<platform, tool, todo, mem, found, failures, starts, overTrace>>

Crash ==
    /\ proc \notin {"down", "exited"}
    /\ proc' = "down" /\ todo' = <<>> /\ host' = Gone(host)
    /\ UNCHANGED <<platform, tool, mem, found, failures, starts, overTrace>>

RouteNext == Begin \/ Succeeds \/ Fails \/ Ready \/ Signal \/ Exit \/ Crash

RouteSpec == RouteInit /\ [][RouteNext]_routeVars

-------------------------------------------------------------------------------
(* Properties.                                                             *)

\* A run that ends by a signal, with no command failing, leaves no route or filter
\* behind, those of crashed runs before it included, and resolv.conf as it found it.
\* Of the rules it may leave the last: to delete that rule takes the one before it,
\* which it matches too, and the request for that one then finds nothing.  The next
\* run adds them the other way round and deletes both.
CleanExitRestores ==
    proc = "exited" /\ failures = 0 =>
        /\ host.routes = {} /\ host.filters = {}
        /\ ToSet(host.rules) \subseteq {Rule(7, 6, "rest")}
        /\ host.conf = found

\* However Setup or Cleanup is interrupted, the user's resolv.conf is still in
\* place or in the backup, whole: unless a write failed, or the process was started
\* on what a crash had left (its backup is then a copy of the tunnel's file).
OriginalSurvives ==
    failures = 0 /\ ~overTrace => host.conf = "orig" \/ host.bak = "orig"

\* The filter of the highest weight that matches decides.
Verdict(way, family, ip) ==
    LET match == {f \in host.filters : f.layer = <<way, family>> /\ f.ip \in {"any", ip}}
    IN  IF match = {} THEN "permit"
        ELSE (CHOOSE f \in match : \A g \in match : g.weight <= f.weight).action

\* At no moment is a DNS server of the tunnel blocked on port 53; and once the host
\* is set up, no other server can be asked or can answer, unless a command failed.
OnlyTunnelDNS ==
    \A way \in {"connect", "accept"}, i \in DOMAIN Servers :
        /\ Verdict(way, Servers[i].family, Servers[i].ip) = "permit"
        /\ platform = "windows" /\ proc = "up" /\ failures = 0 =>
               Verdict(way, Servers[i].family, "other") = "block"
===============================================================================
