------------------------- MODULE ConnectionsProofs -------------------------
(***************************************************************************)
(* The counts of the connection manager and its limits, for any number of  *)
(* connections, addresses and limits.                                      *)
(***************************************************************************)
EXTENDS Connections, FiniteSetTheorems, TLAPS

\* The connections of an address that are served.
From(ip) == {c \in In("serving") : Address[c] = ip}

(***************************************************************************)
(* Why the limits hold without a burst: at most one connection is admitted *)
(* and not counted yet, and for that one there still is room.              *)
(***************************************************************************)
RoomForTheAdmitted ==
    ~burst => \A c \in In("admitted") :
                 /\ totalConnections < MaxConnections
                 /\ connectionsByIP[Address[c]] < MaxPerIP
                 /\ \A d \in In("admitted") : c = d

\* Connections the accept loop may have in hand, and those Stop missed.
Unseen == In("arrived") \cup (IF stopping = "graceful" THEN Waiting ELSE {})

OneUnseen == \A c, d \in Unseen : c = d

IInv == /\ TypeOK /\ CountsAreHonest
        /\ LimitsHoldUnlessBurst /\ RoomForTheAdmitted
        /\ OneUnseen

-----------------------------------------------------------------------------
\* A phase is held by finitely many connections, of an address too.
LEMMA InIsFinite ==
    ASSUME NEW p
    PROVE  /\ IsFiniteSet(In(p)) /\ In(p) \subseteq Clients
           /\ \A ip : IsFiniteSet({c \in In(p) : Address[c] = ip})
  <1>1. In(p) \subseteq Clients
    BY DEF In
  <1>2. IsFiniteSet(In(p))
    BY <1>1, ClientsAssumption, FS_Subset
  <1>3. ASSUME NEW ip PROVE IsFiniteSet({c \in In(p) : Address[c] = ip})
    BY <1>2, FS_Subset
  <1> QED BY <1>1, <1>2, <1>3

\* Each connection comes from one of the addresses.
LEMMA AddressIsIP == ASSUME NEW c \in Clients PROVE Address[c] \in IPs
  BY DEF IPs

\* A set whose members are all the same has at most one.
LEMMA AtMostOne ==
    ASSUME NEW S, \A x, y \in S : x = y
    PROVE  IsFiniteSet(S) /\ Cardinality(S) <= 1
  <1>1. CASE S = {}
    BY <1>1, FS_EmptySet
  <1>2. CASE S # {}
    <2>1. PICK x \in S : TRUE
      BY <1>2
    <2>2. S = {x}
      BY <2>1
    <2>3. IsFiniteSet({x}) /\ Cardinality({x}) = 1
      BY FS_Singleton
    <2> QED BY <2>2, <2>3
  <1> QED BY <1>1, <1>2

(***************************************************************************)
(* What a change of phase does to the sets of connections.                 *)
(***************************************************************************)
LEMMA Moved ==
    ASSUME TypeOK, NEW c \in Clients, NEW q, Goes(c, q)
    PROVE  \A p : In(p)' = IF p = q THEN In(p) \cup {c} ELSE In(p) \ {c}
  BY DEF TypeOK, Goes, In

\* Nothing in a phase changes when no connection moves.
LEMMA Unmoved == UNCHANGED phase => \A p : In(p)' = In(p)
  BY DEF In

-----------------------------------------------------------------------------
\* The accept loop takes a connection from the listener.
LEMMA AcceptIInv ==
    ASSUME IInv, NEW c \in Clients, Accept(c)
    PROVE  IInv'
  <1> USE DEF IInv
  <1>1. /\ In("serving")' = In("serving") /\ In("admitted")' = In("admitted")
        /\ In("arrived")' = {c}
    <2>1. phase[c] = "away" /\ In("arrived") = {} /\ Goes(c, "arrived")
      BY DEF Accept
    <2>2. c \notin In("serving") /\ c \notin In("admitted")
      BY <2>1 DEF In
    <2> QED BY <2>1, <2>2, Moved
  <1>2. TypeOK'
    BY DEF Accept, Goes, TypeOK
  <1>3. (CountsAreHonest /\ LimitsHoldUnlessBurst /\ RoomForTheAdmitted)'
    BY <1>1 DEF Accept, CountsAreHonest, LimitsHoldUnlessBurst, RoomForTheAdmitted
  <1>4. OneUnseen'
    BY <1>1 DEF Accept, OneUnseen, Unseen
  <1> QED BY <1>2, <1>3, <1>4

\* It lets the connection in or closes it.
LEMMA AdmitIInv ==
    ASSUME IInv, NEW c \in Clients, Admit(c)
    PROVE  IInv'
  <1> USE DEF IInv
  <1>1. phase[c] = "arrived" /\ c \in In("arrived") /\ c \notin In("serving")
    BY DEF Admit, In
  <1>2. /\ In("serving")' = In("serving")
        /\ In("arrived")' = In("arrived") \ {c}
        /\ In("admitted")' \subseteq In("admitted") \cup {c}
        /\ c \in In("admitted")' => CanAcceptConnection(Address[c])
    <2>1. CASE CanAcceptConnection(Address[c])
      <3>1. Goes(c, "admitted")
        BY <2>1 DEF Admit
      <3> QED BY <1>1, <2>1, <3>1, Moved
    <2>2. CASE ~CanAcceptConnection(Address[c])
      <3>1. Goes(c, "gone")
        BY <2>2 DEF Admit
      <3>2. c \notin In("admitted")'
        BY <3>1, Moved
      <3> QED BY <1>1, <3>1, <3>2, Moved
    <2> QED BY <2>1, <2>2
  <1>3. TypeOK'
    BY DEF Admit, Goes, TypeOK
  <1>4. (CountsAreHonest /\ LimitsHoldUnlessBurst)'
    BY <1>2 DEF Admit, CountsAreHonest, LimitsHoldUnlessBurst
  <1>5. RoomForTheAdmitted'
    <2> SUFFICES ASSUME ~burst', NEW x \in In("admitted")'
                 PROVE  /\ totalConnections' < MaxConnections
                        /\ connectionsByIP'[Address[x]] < MaxPerIP
                        /\ \A y \in In("admitted")' : x = y
      BY DEF RoomForTheAdmitted
    <2>1. ~burst /\ (CanAcceptConnection(Address[c]) => In("admitted") = {})
      BY DEF Admit
    <2>2. UNCHANGED <<totalConnections, connectionsByIP>>
      BY DEF Admit
    <2>3. CASE c \in In("admitted")'
      BY <1>2, <2>1, <2>2, <2>3 DEF CanAcceptConnection
    <2>4. CASE c \notin In("admitted")'
      BY <1>2, <2>1, <2>2, <2>4 DEF RoomForTheAdmitted
    <2> QED BY <2>3, <2>4
  <1>6. OneUnseen'
    BY <1>1, <1>2 DEF Admit, OneUnseen, Unseen, Waiting
  <1> QED BY <1>3, <1>4, <1>5, <1>6

\* The handler counts its connection.
LEMMA AddConnectionIInv ==
    ASSUME IInv, NEW c \in Clients, AddConnection(c)
    PROVE  IInv'
  <1> USE DEF IInv
  <1>1. /\ phase[c] = "admitted" /\ c \in In("admitted") /\ c \notin In("serving")
        /\ c \notin In("arrived") /\ Goes(c, "serving")
    BY DEF AddConnection, In
  <1>2. /\ In("serving")' = In("serving") \cup {c}
        /\ In("arrived")' = In("arrived")
        /\ In("admitted")' = In("admitted") \ {c}
    BY <1>1, Moved
  <1>3. /\ totalConnections' = totalConnections + 1
        /\ \A ip \in IPs : connectionsByIP'[ip] =
              IF ip = Address[c] THEN connectionsByIP[ip] + 1 ELSE connectionsByIP[ip]
    BY DEF AddConnection, TypeOK
  <1>4. TypeOK'
    BY AddressIsIP DEF AddConnection, Goes, TypeOK
  <1>5. CountsAreHonest'
    <2>1. totalConnections' = Cardinality(In("serving")')
      BY <1>1, <1>2, <1>3, InIsFinite, FS_AddElement DEF CountsAreHonest
    <2>2. ASSUME NEW ip \in IPs
          PROVE  connectionsByIP'[ip] = Cardinality(From(ip)')
      <3>1. connectionsByIP[ip] = Cardinality(From(ip)) /\ IsFiniteSet(From(ip))
        BY InIsFinite DEF CountsAreHonest, From
      <3>2. CASE ip = Address[c]
        <4>1. From(ip)' = From(ip) \cup {c} /\ c \notin From(ip)
          BY <1>1, <1>2, <3>2 DEF From
        <4> QED BY <1>3, <3>1, <3>2, <4>1, FS_AddElement
      <3>3. CASE ip # Address[c]
        <4>1. From(ip)' = From(ip)
          BY <1>2, <3>3 DEF From
        <4> QED BY <1>3, <3>1, <3>3, <4>1
      <3> QED BY <3>2, <3>3
    <2> QED BY <2>1, <2>2 DEF CountsAreHonest, From
  <1>6. (LimitsHoldUnlessBurst /\ RoomForTheAdmitted)'
    <2> SUFFICES ASSUME ~burst'
                 PROVE  /\ totalConnections' <= MaxConnections
                        /\ \A ip \in IPs : connectionsByIP'[ip] <= MaxPerIP
                        /\ In("admitted")' = {}
      BY DEF LimitsHoldUnlessBurst, RoomForTheAdmitted
    <2>1. ~burst
      BY DEF AddConnection
    <2>2. /\ totalConnections < MaxConnections
          /\ connectionsByIP[Address[c]] < MaxPerIP
          /\ In("admitted")' = {}
      BY <1>1, <1>2, <2>1 DEF RoomForTheAdmitted
    <2>3. /\ totalConnections \in Nat /\ MaxConnections \in Nat /\ MaxPerIP \in Nat
          /\ \A ip \in IPs : connectionsByIP[ip] \in Nat /\ connectionsByIP[ip] <= MaxPerIP
      BY <2>1, ConnectionsAssumption DEF TypeOK, LimitsHoldUnlessBurst
    <2>4. ASSUME NEW ip \in IPs PROVE connectionsByIP'[ip] <= MaxPerIP
      BY <1>3, <2>2, <2>3
    <2> QED BY <1>3, <2>2, <2>3, <2>4
  <1>7. OneUnseen'
    BY <1>1, <1>2 DEF AddConnection, OneUnseen, Unseen, Waiting
  <1> QED BY <1>4, <1>5, <1>6, <1>7

\* The handler gives back what it counted, and the clamps do nothing.
LEMMA RemoveConnectionIInv ==
    ASSUME IInv, NEW c \in Clients, RemoveConnection(c)
    PROVE  IInv'
  <1> USE DEF IInv
  <1>1. /\ phase[c] = "serving" /\ c \in In("serving") /\ c \notin In("admitted")
        /\ c \notin In("arrived") /\ Goes(c, "gone")
    BY DEF RemoveConnection, In
  <1>2. /\ In("serving")' = In("serving") \ {c}
        /\ In("arrived")' = In("arrived")
        /\ In("admitted")' = In("admitted")
    BY <1>1, Moved
  <1>3. /\ Cardinality(In("serving")') = totalConnections - 1
        /\ totalConnections' = totalConnections - 1
        /\ totalConnections \in Nat /\ totalConnections # 0
    <2>1. Cardinality(In("serving")') = Cardinality(In("serving")) - 1
      BY <1>1, <1>2, InIsFinite, FS_RemoveElement
    <2>2. Cardinality(In("serving")) # 0
      BY <1>1, InIsFinite, FS_EmptySet
    <2> QED BY <2>1, <2>2 DEF CountsAreHonest, RemoveConnection, TypeOK
  <1>4. ASSUME NEW ip \in IPs
        PROVE  /\ connectionsByIP'[ip] = Cardinality(From(ip)')
               /\ connectionsByIP'[ip] \in Nat /\ connectionsByIP[ip] \in Nat
               /\ connectionsByIP'[ip] <= connectionsByIP[ip]
    <2>1. /\ connectionsByIP[ip] = Cardinality(From(ip)) /\ IsFiniteSet(From(ip))
          /\ connectionsByIP[ip] \in Nat
      BY InIsFinite DEF CountsAreHonest, From, TypeOK
    <2>2. connectionsByIP' = PerIP(Address[c]) /\ Address[c] \in IPs
      BY AddressIsIP DEF RemoveConnection
    <2>3. CASE ip = Address[c]
      <3>1. From(ip)' = From(ip) \ {c} /\ c \in From(ip)
        BY <1>1, <1>2, <2>3 DEF From
      <3>2. Cardinality(From(ip)') = connectionsByIP[ip] - 1
        BY <2>1, <3>1, FS_RemoveElement
      <3>3. connectionsByIP[ip] # 0
        BY <2>1, <3>1, FS_EmptySet
      <3>4. connectionsByIP'[ip] =
               IF connectionsByIP[ip] <= 1 THEN 0 ELSE connectionsByIP[ip] - 1
        BY <2>2, <2>3 DEF PerIP, TypeOK
      <3> QED BY <2>1, <3>2, <3>3, <3>4
    <2>4. CASE ip # Address[c]
      <3>1. From(ip)' = From(ip)
        BY <1>2, <2>4 DEF From
      <3>2. connectionsByIP'[ip] = connectionsByIP[ip]
        BY <2>2, <2>4 DEF PerIP, TypeOK
      <3> QED BY <2>1, <3>1, <3>2
    <2> QED BY <2>3, <2>4
  <1>5. TypeOK'
    <2>1. connectionsByIP' \in [IPs -> Nat]
      <3>1. connectionsByIP' = PerIP(Address[c])
        BY DEF RemoveConnection
      <3>2. DOMAIN connectionsByIP' = IPs
        BY <3>1 DEF PerIP, TypeOK
      <3>3. connectionsByIP' = [ip \in IPs |-> connectionsByIP'[ip]]
        BY <3>1, <3>2 DEF PerIP, TypeOK
      <3> QED BY <1>4, <3>3
    <2> QED BY <1>3, <2>1 DEF RemoveConnection, Goes, TypeOK
  <1>6. CountsAreHonest'
    BY <1>3, <1>4 DEF CountsAreHonest, From
  <1>7. (LimitsHoldUnlessBurst /\ RoomForTheAdmitted)'
    <2> SUFFICES ASSUME ~burst'
                 PROVE  /\ totalConnections' <= MaxConnections
                        /\ \A ip \in IPs : connectionsByIP'[ip] <= MaxPerIP
                        /\ \A x \in In("admitted") :
                              /\ totalConnections' < MaxConnections
                              /\ connectionsByIP'[Address[x]] < MaxPerIP
                              /\ \A y \in In("admitted") : x = y
      BY <1>2 DEF LimitsHoldUnlessBurst, RoomForTheAdmitted
    <2>1. ~burst /\ MaxConnections \in Nat /\ MaxPerIP \in Nat
      BY ConnectionsAssumption DEF RemoveConnection
    <2>2. totalConnections <= MaxConnections
      BY <2>1 DEF LimitsHoldUnlessBurst
    <2>3. ASSUME NEW ip \in IPs PROVE connectionsByIP'[ip] <= MaxPerIP
      <3>1. connectionsByIP[ip] <= MaxPerIP
        BY <2>1 DEF LimitsHoldUnlessBurst
      <3> QED BY <1>4, <2>1, <3>1
    <2>4. ASSUME NEW x \in In("admitted")
          PROVE  /\ totalConnections' < MaxConnections
                 /\ connectionsByIP'[Address[x]] < MaxPerIP
                 /\ \A y \in In("admitted") : x = y
      <3>1. /\ totalConnections < MaxConnections
            /\ connectionsByIP[Address[x]] < MaxPerIP
            /\ \A y \in In("admitted") : x = y
        BY <2>1 DEF RoomForTheAdmitted
      <3>2. Address[x] \in IPs
        BY AddressIsIP DEF In
      <3> QED BY <1>3, <1>4, <2>1, <3>1, <3>2
    <2> QED BY <1>3, <2>1, <2>2, <2>3, <2>4
  <1>8. OneUnseen'
    BY <1>1, <1>2 DEF RemoveConnection, OneUnseen, Unseen, Waiting
  <1> QED BY <1>5, <1>6, <1>7, <1>8

\* Entries of the rate, and Stop, touch neither counts nor connections.
LEMMA OthersIInv ==
    ASSUME IInv,
           \/ \E ip \in IPs : RateExpires(ip)
           \/ CloseListener \/ ClosedGracefully \/ TimesOut
           \/ UNCHANGED vars
    PROVE  IInv'
  <1> USE DEF IInv
  <1>1. UNCHANGED <<phase, totalConnections, connectionsByIP, burst>>
    BY DEF RateExpires, CloseListener, ClosedGracefully, TimesOut, vars
  <1>2. \A p : In(p)' = In(p)
    BY <1>1, Unmoved
  <1>3. TypeOK'
    <2>1. ASSUME NEW ip \in IPs, RateExpires(ip) PROVE TypeOK'
      <3>1. connectionRates[ip] - 1 \in Nat
        BY <2>1 DEF RateExpires, TypeOK
      <3> QED BY <1>1, <2>1, <3>1 DEF RateExpires, TypeOK
    <2>2. ASSUME CloseListener \/ ClosedGracefully \/ TimesOut \/ UNCHANGED vars
          PROVE  TypeOK'
      BY <2>2 DEF CloseListener, ClosedGracefully, TimesOut, vars, TypeOK
    <2> QED BY <2>1, <2>2
  <1>4. (CountsAreHonest /\ LimitsHoldUnlessBurst /\ RoomForTheAdmitted)'
    BY <1>1, <1>2 DEF CountsAreHonest, LimitsHoldUnlessBurst, RoomForTheAdmitted
  <1>5. OneUnseen'
    BY <1>2 DEF OneUnseen, Unseen, Waiting, RateExpires, CloseListener,
                ClosedGracefully, TimesOut, vars
  <1> QED BY <1>3, <1>4, <1>5

-----------------------------------------------------------------------------
\* Nothing is counted at the start.
LEMMA InitIInv == Init => IInv
  <1> SUFFICES ASSUME Init PROVE IInv
    OBVIOUS
  <1>1. \A p : p # "away" => In(p) = {}
    BY DEF Init, In
  <1>2. TypeOK
    BY DEF Init, TypeOK
  <1>3. CountsAreHonest
    BY <1>1, FS_EmptySet DEF Init, CountsAreHonest
  <1>4. LimitsHoldUnlessBurst
    BY ConnectionsAssumption DEF Init, LimitsHoldUnlessBurst
  <1>5. RoomForTheAdmitted /\ OneUnseen
    BY <1>1 DEF Init, RoomForTheAdmitted, OneUnseen, Unseen
  <1> QED BY <1>2, <1>3, <1>4, <1>5 DEF IInv

(***************************************************************************)
(* The invariant holds in every state of the server.                       *)
(***************************************************************************)
THEOREM Invariance == Spec => []IInv
  <1>1. IInv /\ [Next]_vars => IInv'
    <2> SUFFICES ASSUME IInv, [Next]_vars PROVE IInv'
      OBVIOUS
    <2>1. ASSUME NEW c \in Clients, Accept(c) PROVE IInv'
      BY <2>1, AcceptIInv
    <2>2. ASSUME NEW c \in Clients, Admit(c) PROVE IInv'
      BY <2>2, AdmitIInv
    <2>3. ASSUME NEW c \in Clients, AddConnection(c) PROVE IInv'
      BY <2>3, AddConnectionIInv
    <2>4. ASSUME NEW c \in Clients, RemoveConnection(c) PROVE IInv'
      BY <2>4, RemoveConnectionIInv
    <2> QED BY <2>1, <2>2, <2>3, <2>4, OthersIInv DEF Next
  <1> QED BY <1>1, InitIInv, PTL DEF Spec

(***************************************************************************)
(* Every connection is in one of its phases and no count falls below zero  *)
(* (manager.go:116-143).                                                   *)
(***************************************************************************)
THEOREM TypeCorrect == Spec => []TypeOK
  <1>1. IInv => TypeOK
    BY DEF IInv
  <1> QED BY <1>1, Invariance, PTL

(***************************************************************************)
(* The counts are those of the connections served (manager.go:116-143):    *)
(* no order of the goroutines makes a clamp at zero hide an error.         *)
(***************************************************************************)
THEOREM HonestCounts == Spec => []CountsAreHonest
  <1>1. IInv => CountsAreHonest
    BY DEF IInv
  <1> QED BY <1>1, Invariance, PTL

(***************************************************************************)
(* The limits hold for as long as no connection is let in before the one   *)
(* before it is counted (manager.go:77-114, server.go:381-391).            *)
(***************************************************************************)
THEOREM LimitsHold == Spec => []LimitsHoldUnlessBurst
  <1>1. IInv => LimitsHoldUnlessBurst
    BY DEF IInv
  <1> QED BY <1>1, Invariance, PTL

(***************************************************************************)
(* A graceful Stop leaves at most one connection behind, however many      *)
(* there were (server.go:309-318).                                         *)
(***************************************************************************)
THEOREM OneIsLate == Spec => []OneLateConnection
  <1>1. IInv => OneLateConnection
    <2> SUFFICES ASSUME OneUnseen, stopping = "graceful"
                 PROVE  Cardinality(Waiting) <= 1
      BY DEF IInv, OneLateConnection
    <2>1. \A x, y \in Waiting : x = y
      BY DEF OneUnseen, Unseen
    <2> QED BY <2>1, AtMostOne
  <1> QED BY <1>1, Invariance, PTL

=============================================================================
