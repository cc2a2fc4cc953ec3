----------------------------- MODULE Connections -----------------------------
(***************************************************************************)
(* The connections of one server: acceptLoop and handleConnection          *)
(* (internal/server), the limits of internal/connection/manager.go, and    *)
(* the graceful Stop, which waits for the handlers the wait group knows.   *)
(***************************************************************************)
EXTENDS Integers, FiniteSets

CONSTANTS
    Clients,         \* connections clients make
    Address,         \* the IP each comes from
    MaxConnections,  \* the limits of connection.NewManager
    MaxPerIP,
    RateLimit        \* connections of an IP in a minute; 0 is no limit

ASSUME ConnectionsAssumption ==
    /\ {MaxConnections, MaxPerIP, RateLimit} \subseteq Nat
    /\ DOMAIN Address = Clients

ASSUME ClientsAssumption == IsFiniteSet(Clients)

VARIABLES
    phase,             \* where each connection is
    totalConnections,  \* Manager.totalConnections
    connectionsByIP,   \* Manager.connectionsByIP, 0 for an IP it does not have
    connectionRates,   \* per IP the entries of the last minute
    stopping,          \* how far Server.Stop is
    burst              \* history: a connection was let in while another was not counted

vars == <<phase, totalConnections, connectionsByIP, connectionRates, stopping, burst>>

IPs == {Address[c] : c \in Clients}

Init ==
    /\ phase = [c \in Clients |-> "away"]
    /\ totalConnections = 0
    /\ connectionsByIP = [ip \in IPs |-> 0]
    /\ connectionRates = [ip \in IPs |-> 0]
    /\ stopping = "no" /\ burst = FALSE

In(p) == {c \in Clients : phase[c] = p}

Goes(c, p) == phase' = [phase EXCEPT ![c] = p]

\* Mistake: a handler counts itself, once it runs.
WaitingServing == In("serving")

\* The wait group counts the handlers acceptLoop started.
Waiting == In("admitted") \cup In("serving")

\* Accept returns a connection; the listener is open until Stop closes it.
Accept(c) ==
    /\ stopping = "no"
    /\ phase[c] = "away" /\ In("arrived") = {}
    /\ Goes(c, "arrived")
    /\ UNCHANGED <<totalConnections, connectionsByIP, connectionRates, stopping, burst>>

\* Mistake: one more than the limit.
HasRoomForOneMore(ip) ==
    /\ totalConnections <= MaxConnections
    /\ connectionsByIP[ip] < MaxPerIP
    /\ RateLimit > 0 => connectionRates[ip] < RateLimit

CanAcceptConnection(ip) ==
    /\ totalConnections < MaxConnections
    /\ connectionsByIP[ip] < MaxPerIP
    /\ RateLimit > 0 => connectionRates[ip] < RateLimit

\* acceptLoop, with the connection Accept gave it, also if Stop came meanwhile.
Admit(c) ==
    /\ phase[c] = "arrived"
    /\ Goes(c, IF CanAcceptConnection(Address[c]) THEN "admitted" ELSE "gone")
    /\ burst' = (burst \/ (CanAcceptConnection(Address[c]) /\ In("admitted") # {}))
    /\ UNCHANGED <<totalConnections, connectionsByIP, connectionRates, stopping>>

\* handleConnection, in a goroutine of its own, starts with AddConnection.
AddConnection(c) ==
    /\ phase[c] = "admitted"
    /\ Goes(c, "serving")
    /\ totalConnections' = totalConnections + 1
    /\ connectionsByIP' = [connectionsByIP EXCEPT ![Address[c]] = @ + 1]
    /\ connectionRates' = [connectionRates EXCEPT ![Address[c]] = @ + 1]
    /\ UNCHANGED <<stopping, burst>>

\* Mistake: the count of the address stays.
PerIPLess(ip) == connectionsByIP

\* Mistake: handler and goroutine both give the address back, without the clamp.
PerIPBelow(ip) == [connectionsByIP EXCEPT ![ip] = @ - 2]

PerIP(ip) == [connectionsByIP EXCEPT ![ip] = IF @ <= 1 THEN 0 ELSE @ - 1]

\* RemoveConnection, deferred: a client that leaves, an error, a panic.
RemoveConnection(c) ==
    /\ phase[c] = "serving"
    /\ Goes(c, "gone")
    /\ totalConnections' = IF totalConnections = 0 THEN 0 ELSE totalConnections - 1
    /\ connectionsByIP' = PerIP(Address[c])
    /\ UNCHANGED <<connectionRates, stopping, burst>>

\* A minute after it was made an entry counts no more.
RateExpires(ip) ==
    /\ connectionRates[ip] > 0
    /\ connectionRates' = [connectionRates EXCEPT ![ip] = @ - 1]
    /\ UNCHANGED <<phase, totalConnections, connectionsByIP, stopping, burst>>

\* Stop closes the listener and waits.
CloseListener ==
    /\ stopping = "no"
    /\ stopping' = "waiting"
    /\ UNCHANGED <<phase, totalConnections, connectionsByIP, connectionRates, burst>>

\* "All connections closed gracefully"
ClosedGracefully ==
    /\ stopping = "waiting" /\ Waiting = {}
    /\ stopping' = "graceful"
    /\ UNCHANGED <<phase, totalConnections, connectionsByIP, connectionRates, burst>>

\* "Timeout waiting for connections to close"
TimesOut ==
    /\ stopping = "waiting"
    /\ stopping' = "timeout"
    /\ UNCHANGED <<phase, totalConnections, connectionsByIP, connectionRates, burst>>

Next ==
    \/ \E c \in Clients : Accept(c) \/ Admit(c) \/ AddConnection(c) \/ RemoveConnection(c)
    \/ \E ip \in IPs : RateExpires(ip)
    \/ CloseListener \/ ClosedGracefully \/ TimesOut

Spec == Init /\ [][Next]_vars

-----------------------------------------------------------------------------
TypeOK ==
    /\ phase \in [Clients -> {"away", "arrived", "admitted", "serving", "gone"}]
    /\ totalConnections \in Nat /\ connectionsByIP \in [IPs -> Nat]
    /\ connectionRates \in [IPs -> Nat]
    /\ stopping \in {"no", "waiting", "graceful", "timeout"} /\ burst \in BOOLEAN

(***************************************************************************)
(* The counts are those of the connections served, whatever the order of   *)
(* the goroutines: the clamps at zero in RemoveConnection never hide a     *)
(* count that went wrong.                                                  *)
(***************************************************************************)
CountsAreHonest ==
    /\ totalConnections = Cardinality(In("serving"))
    /\ \A ip \in IPs :
          connectionsByIP[ip] = Cardinality({c \in In("serving") : Address[c] = ip})

(***************************************************************************)
(* "Manager tracks and limits client connections" (manager.go:8).  The     *)
(* check and the count are apart, in two goroutines: the limits hold as    *)
(* long as no connection is let in before the last one is counted.         *)
(***************************************************************************)
LimitsHoldUnlessBurst ==
    ~burst => /\ totalConnections <= MaxConnections
              /\ \A ip \in IPs : connectionsByIP[ip] <= MaxPerIP

(***************************************************************************)
(* After "All connections closed gracefully" (server.go:318) at most one   *)
(* connection is served still: the one acceptLoop had in hand, which the   *)
(* wait group did not know yet.                                            *)
(***************************************************************************)
OneLateConnection == stopping = "graceful" => Cardinality(Waiting) <= 1

=============================================================================
