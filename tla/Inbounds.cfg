SPECIFICATION Spec
CONSTANTS
 Flows = {f1, f2}
 ClientHandlers = {h1, h2}
 RelayHandlers = {r1}
 UDPTimeout = 500
 NoConn = NoConn
 NoFlow = NoFlow
 RuleIndex = 9000
 MaxStarts = 2
 MaxFailures = 2
INVARIANTS
 ExchangesSound
 CleanExitRestores
 OriginalSurvives
 OnlyTunnelDNS
PROPERTIES
 HandlersEnd
 TornDown
CHECK_DEADLOCK FALSE
