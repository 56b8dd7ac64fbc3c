----------------------- MODULE GatewaySessionsProofs -----------------------
(***************************************************************************)
(* Theorems about GatewaySessions, for any number of nodes, sockets,       *)
(* crashes, stops and disablings.                                          *)
(***************************************************************************)
EXTENDS GatewaySessions, TLAPS

-----------------------------------------------------------------------------
(* Type correctness. *)

\* A handler moving on.
LEMMA MovedType ==
    ASSUME TypeOK, NEW c \in Conns, NEW to \in Phase
    PROVE  Moved(c, to) \in [Conns -> Conn]
BY DEF TypeOK, Moved, Conn, Status

\* Closing the current socket of a node.
LEMMA ClosedType ==
    ASSUME TypeOK, NEW n
    PROVE  CurrentClosed(n) \in [Conns -> {"none", "up", "down"}]
BY DEF TypeOK, CurrentClosed

\* The death of a process.
LEMMA DeadType ==
    ASSUME TypeOK, NEW n
    PROVE  /\ Dead(n) \in [Conns -> Conn]
           /\ Quiet(n) \in [Conns -> {"none", "flushed", "checked"}]
<1>1. "gone" \in Phase
  BY DEF Phase
<1>2. ASSUME NEW c \in Conns PROVE Moved(c, "gone")[c] \in Conn
  BY <1>1, MovedType
<1>3. ASSUME NEW c \in Conns PROVE conn[c] \in Conn
  BY DEF TypeOK
<1> QED
  BY <1>2, <1>3 DEF TypeOK, Dead, Quiet

\* Giving the phones of a node back.
LEMMA ReleasedType ==
    ASSUME TypeOK, NEW n
    PROVE  Released(n) \in Gateway
BY DEF TypeOK, Released, Gateway, Status

\* Every step keeps the types.
LEMMA TypeStep == TypeOK /\ [Next]_vars => TypeOK'
<1> SUFFICES ASSUME TypeOK, [Next]_vars PROVE TypeOK'
  OBVIOUS
<1> USE SessionsAssumption
<1>1. ASSUME NEW c \in Conns, NEW n \in Nodes, Accept(c, n) PROVE TypeOK'
  BY <1>1 DEF TypeOK, Accept, Gateway, Conn, Phase
<1>2. ASSUME NEW c \in Conns, SaveOnline(c) PROVE TypeOK'
  <2>1. Moved(c, "saved") \in [Conns -> Conn]
    BY MovedType DEF Phase
  <2>2. gateway' \in Gateway
    BY <1>2 DEF TypeOK, SaveOnline, Gateway, Conn, Column, Status
  <2> QED
    BY <1>2, <2>1, <2>2 DEF TypeOK, SaveOnline
<1>3. ASSUME NEW c \in Conns, Register(c) PROVE TypeOK'
  <2>1. conn' \in [Conns -> Conn]
    BY <1>3 DEF TypeOK, Register, Conn, Phase
  <2>2. link' \in [Conns -> {"none", "up", "down"}]
    BY <1>3, ClosedType DEF Register
  <2> QED
    BY <1>3, <2>1, <2>2 DEF TypeOK, Register
<1>4. ASSUME NEW c \in Conns, OnClose(c) PROVE TypeOK'
  <2>1. registry' \in [Nodes -> Conns \union {NoConn}]
    BY <1>4 DEF TypeOK, OnClose, Removed
  <2>2. conn' \in [Conns -> Conn]
    BY <1>4 DEF TypeOK, OnClose, Conn, Phase
  <2>3. session' \in [Conns -> {"none", "open", "closed"}]
    BY <1>4 DEF TypeOK, OnClose
  <2> QED
    BY <1>4, <2>1, <2>2, <2>3 DEF TypeOK, OnClose
<1>5. ASSUME NEW c \in Conns, Flush(c) PROVE TypeOK'
  BY <1>5 DEF TypeOK, Flush, Gateway, Conn, Phase
<1>6. ASSUME NEW c \in Conns, FindOwned(c) PROVE TypeOK'
  <2>1. Moved(c, "ended") \in [Conns -> Conn]
    BY MovedType DEF Phase
  <2>2. gateway.status \in Status /\ gateway.node \in Nodes \union {NoNode}
    BY DEF TypeOK, Gateway
  <2>3. conn' \in [Conns -> Conn]
    <3>1. CASE gateway.node = conn[c].on
      <4> DEFINE copy == [phase |-> "found", on |-> conn[c].on,
                          status |-> gateway.status, from |-> gateway.node]
      <4>1. copy \in Conn
        BY <2>2 DEF TypeOK, Conn, Phase
      <4>2. conn' = [conn EXCEPT ![c] = copy]
        BY <1>6, <3>1 DEF FindOwned
      <4> QED
        BY <4>1, <4>2 DEF TypeOK
    <3>2. CASE gateway.node # conn[c].on
      BY <1>6, <2>1, <3>2 DEF FindOwned
    <3> QED
      BY <3>1, <3>2
  <2> QED
    BY <1>6, <2>3 DEF TypeOK, FindOwned
<1>7. ASSUME NEW c \in Conns, SaveOffline(c) PROVE TypeOK'
  <2>1. Moved(c, "ended") \in [Conns -> Conn]
    BY MovedType DEF Phase
  <2>2. gateway' \in Gateway
    BY <1>7 DEF TypeOK, SaveOffline, Gateway, Conn, Column, Status
  <2> QED
    BY <1>7, <2>1, <2>2 DEF TypeOK, SaveOffline
<1>8. ASSUME NEW c \in Conns, Heartbeat(c) PROVE TypeOK'
  BY <1>8 DEF TypeOK, Heartbeat, Gateway
<1>9. ASSUME NEW c \in Conns, CheckCurrent(c) PROVE TypeOK'
  BY <1>9 DEF TypeOK, CheckCurrent
<1>10. ASSUME NEW c \in Conns, Reassert(c) PROVE TypeOK'
  BY <1>10 DEF TypeOK, Reassert, WronglyOffline, Gateway, Conn, Status
<1>11. ASSUME NEW c \in Conns, Notice(c) PROVE TypeOK'
  BY <1>11 DEF TypeOK, Notice
<1>12. ASSUME MarkStaleOffline PROVE TypeOK'
  BY <1>12 DEF TypeOK, MarkStaleOffline, Gateway, Status
<1>13. ASSUME TimePasses PROVE TypeOK'
  BY <1>13 DEF TypeOK, TimePasses, Gateway
<1>14. ASSUME PhoneLost \/ PhoneNotices PROVE TypeOK'
  BY <1>14 DEF TypeOK, PhoneLost, PhoneNotices
<1>15. ASSUME NEW n \in Nodes, NEW to \in {"disabled", "enabled"}, SwitchRead(n, to)
       PROVE  TypeOK'
  BY <1>15 DEF TypeOK, SwitchRead, Switch, Gateway
<1>16. ASSUME Disable PROVE TypeOK'
  <2>1. link' \in [Conns -> {"none", "up", "down"}]
    BY <1>16, ClosedType DEF Disable
  <2>2. gateway' \in Gateway
    BY <1>16 DEF TypeOK, Disable, Switched, Column, Gateway, Status, Switch
  <2> QED
    BY <1>16, <2>1, <2>2 DEF TypeOK, Disable, NoSwitch, Switch, Status
<1>17. ASSUME Enable PROVE TypeOK'
  <2>1. gateway' \in Gateway
    BY <1>17 DEF TypeOK, Enable, Switched, Column, Gateway, Status, Switch
  <2> QED
    BY <1>17, <2>1 DEF TypeOK, Enable, NoSwitch, Switch, Status
<1>18. ASSUME NEW n \in Nodes, Crash(n) PROVE TypeOK'
  BY <1>18, DeadType DEF TypeOK, Crash, NoSwitch, Switch, Status
<1>19. ASSUME NEW n \in Nodes, Stop(n) PROVE TypeOK'
  BY <1>19, ClosedType DEF TypeOK, Stop
<1>20. ASSUME NEW n \in Nodes, Exit(n) PROVE TypeOK'
  BY <1>20, DeadType, ReleasedType DEF TypeOK, Exit, NoSwitch, Switch, Status
<1>21. ASSUME NEW n \in Nodes, Start(n) PROVE TypeOK'
  BY <1>21, ReleasedType DEF TypeOK, Start
<1>22. ASSUME UNCHANGED vars PROVE TypeOK'
  BY <1>22 DEF TypeOK, vars
<1> QED
  BY <1>1, <1>2, <1>3, <1>4, <1>5, <1>6, <1>7, <1>8, <1>9, <1>10, <1>11, <1>12, <1>13,
     <1>14, <1>15, <1>16, <1>17, <1>18, <1>19, <1>20, <1>21, <1>22 DEF Next

\* Every state the handlers reach has the types its variables are meant to have.
THEOREM TypeCorrect == Spec => []TypeOK
<1>1. Init => TypeOK
  BY SessionsAssumption DEF Init, TypeOK, Gateway, Status, Conn, Phase, NoSwitch, Switch
<1> QED
  BY <1>1, TypeStep, PTL DEF Spec

-----------------------------------------------------------------------------
(* The registry. *)

\* A socket that was used has a node.
Placed == \A c \in Conns : conn[c].phase # "unused" => conn[c].on \in Nodes

\* Only Accept makes a socket used, and it gives it a node.
LEMMA PlacedStep == TypeOK /\ Placed /\ [Next]_vars => Placed'
<1> SUFFICES ASSUME TypeOK, Placed, [Next]_vars, NEW d \in Conns, conn'[d].phase # "unused"
             PROVE  conn'[d].on \in Nodes
  BY DEF Placed
\* A step that leaves the sockets alone.
<1>2. ASSUME UNCHANGED conn PROVE conn'[d].on \in Nodes
  BY <1>2 DEF Placed
<1>3. ASSUME NEW c \in Conns, NEW n \in Nodes, Accept(c, n) PROVE conn'[d].on \in Nodes
  BY <1>3 DEF Placed, Accept, TypeOK
\* A handler moves a socket that is in use on, and leaves it where it is.
<1>a. ASSUME NEW c \in Conns, conn[c].phase # "unused", NEW to,
             conn' = [conn EXCEPT ![c].phase = to] \/ conn' = Moved(c, to)
      PROVE  conn'[d].on \in Nodes
  <2>1. CASE d = c
    <3>1. conn'[c].on = conn[c].on
      <4>1. CASE conn' = [conn EXCEPT ![c].phase = to]
        BY <4>1 DEF TypeOK, Conn
      <4>2. CASE conn' = Moved(c, to)
        BY <4>2 DEF TypeOK, Moved
      <4> QED
        BY <1>a, <4>1, <4>2
    <3> QED
      BY <1>a, <2>1, <3>1 DEF Placed
  <2>2. CASE d # c
    <3>1. conn'[d] = conn[d]
      <4>1. CASE conn' = [conn EXCEPT ![c].phase = to]
        BY <2>2, <4>1 DEF TypeOK
      <4>2. CASE conn' = Moved(c, to)
        BY <2>2, <4>2 DEF TypeOK, Moved
      <4> QED
        BY <1>a, <4>1, <4>2
    <3> QED
      BY <3>1 DEF Placed
  <2> QED
    BY <2>1, <2>2
<1>4. ASSUME NEW c \in Conns, SaveOnline(c) PROVE conn'[d].on \in Nodes
  <2>1. conn[c].phase # "unused" /\ conn' = Moved(c, "saved")
    BY <1>4 DEF SaveOnline
  <2> QED
    BY <1>a, <2>1
<1>5. ASSUME NEW c \in Conns, Register(c) PROVE conn'[d].on \in Nodes
  <2>1. /\ conn[c].phase # "unused"
        /\ conn' = [conn EXCEPT ![c].phase = IF link[c] = "up" THEN "live" ELSE "deaf"]
    BY <1>5 DEF Register
  <2> QED
    BY <1>a, <2>1
<1>6. ASSUME NEW c \in Conns, OnClose(c) PROVE conn'[d].on \in Nodes
  <2>1. /\ conn[c].phase # "unused"
        /\ \/ conn' = [conn EXCEPT ![c].phase = "leaving"]
           \/ conn' = [conn EXCEPT ![c].phase = "ended"]
    BY <1>6 DEF OnClose
  <2> QED
    BY <1>a, <2>1
<1>7. ASSUME NEW c \in Conns, Flush(c) PROVE conn'[d].on \in Nodes
  <2>1. conn[c].phase # "unused" /\ conn' = [conn EXCEPT ![c].phase = "flushed"]
    BY <1>7 DEF Flush
  <2> QED
    BY <1>a, <2>1
<1>8. ASSUME NEW c \in Conns, FindOwned(c) PROVE conn'[d].on \in Nodes
  <2>1. conn[c].phase # "unused"
    BY <1>8 DEF FindOwned
  <2>2. CASE gateway.node = conn[c].on
    <3>1. conn' = [conn EXCEPT ![c] = [phase |-> "found", on |-> conn[c].on,
                                       status |-> gateway.status, from |-> gateway.node]]
      BY <1>8, <2>2 DEF FindOwned
    <3>2. conn'[d].on = conn[d].on /\ (d # c => conn'[d] = conn[d])
      BY <3>1 DEF TypeOK
    <3> QED
      BY <2>1, <3>2 DEF Placed
  <2>3. CASE gateway.node # conn[c].on
    <3>1. conn' = Moved(c, "ended")
      BY <1>8, <2>3 DEF FindOwned
    <3> QED
      BY <1>a, <2>1, <3>1
  <2> QED
    BY <2>2, <2>3
<1>9. ASSUME NEW c \in Conns, SaveOffline(c) PROVE conn'[d].on \in Nodes
  <2>1. conn[c].phase # "unused" /\ conn' = Moved(c, "ended")
    BY <1>9 DEF SaveOffline
  <2> QED
    BY <1>a, <2>1
<1>10. ASSUME NEW n \in Nodes, Crash(n) \/ Exit(n) PROVE conn'[d].on \in Nodes
  <2>1. conn' = Dead(n)
    BY <1>10 DEF Crash, Exit
  <2>2. CASE conn[d].on = n
    BY <2>1, <2>2 DEF Dead, Moved, TypeOK
  <2>3. CASE conn[d].on # n
    <3>1. conn'[d] = conn[d]
      BY <2>1, <2>3 DEF Dead
    <3> QED
      BY <3>1 DEF Placed
  <2> QED
    BY <2>2, <2>3
<1>11. ASSUME NEW c \in Conns, Heartbeat(c) \/ CheckCurrent(c) \/ Reassert(c) \/ Notice(c)
       PROVE  conn'[d].on \in Nodes
  BY <1>2, <1>11 DEF Heartbeat, CheckCurrent, Reassert, Notice
<1>12. ASSUME MarkStaleOffline \/ TimePasses \/ PhoneLost \/ PhoneNotices
       PROVE  conn'[d].on \in Nodes
  BY <1>2, <1>12 DEF MarkStaleOffline, TimePasses, PhoneLost, PhoneNotices
<1>13. ASSUME NEW n \in Nodes, NEW to \in {"disabled", "enabled"}, SwitchRead(n, to)
       PROVE  conn'[d].on \in Nodes
  BY <1>2, <1>13 DEF SwitchRead
<1>14. ASSUME Disable \/ Enable PROVE conn'[d].on \in Nodes
  BY <1>2, <1>14 DEF Disable, Enable
<1>15. ASSUME NEW n \in Nodes, Stop(n) \/ Start(n) PROVE conn'[d].on \in Nodes
  BY <1>2, <1>15 DEF Stop, Start
<1>16. ASSUME UNCHANGED vars PROVE conn'[d].on \in Nodes
  BY <1>2, <1>16 DEF vars
<1> QED
  BY <1>3, <1>4, <1>5, <1>6, <1>7, <1>8, <1>9, <1>10, <1>11, <1>12, <1>13, <1>14, <1>15,
     <1>16 DEF Next

\* A socket is opened before it is registered, registering closes its
\* predecessor, and a socket is dropped from the registry only once it is closed.
LEMMA RegisteredStep ==
    TypeOK /\ Placed /\ LiveIsRegistered /\ [Next]_vars => LiveIsRegistered'
<1> SUFFICES ASSUME TypeOK, Placed, LiveIsRegistered, [Next]_vars,
                    NEW d \in Conns, conn'[d].phase = "live", link'[d] = "up"
             PROVE  IsCurrent(d)'
  BY DEF LiveIsRegistered
<1>1. ASSUME conn[d].phase = "live", link[d] = "up"
      PROVE  conn[d].on \in Nodes /\ registry[conn[d].on] = d
  BY <1>1 DEF LiveIsRegistered, IsCurrent
\* A step that leaves the sockets and the registry alone.
<1>2. ASSUME UNCHANGED <<conn, link, registry>> PROVE IsCurrent(d)'
  BY <1>1, <1>2 DEF IsCurrent
\* A handler of some socket that moves on to something else than living.
<1>3. ASSUME NEW c \in Conns, NEW to \in Phase \ {"live"}, UNCHANGED <<link, registry>>,
             conn' = [conn EXCEPT ![c].phase = to] \/ conn' = Moved(c, to)
      PROVE  IsCurrent(d)'
  <2>1. d # c /\ conn'[d] = conn[d]
    BY <1>3 DEF TypeOK, Moved, Conn
  <2> QED
    BY <1>1, <1>3, <2>1 DEF IsCurrent
<1>4. ASSUME NEW c \in Conns, NEW n \in Nodes, Accept(c, n) PROVE IsCurrent(d)'
  <2>1. d # c /\ conn'[d] = conn[d] /\ link'[d] = link[d] /\ registry' = registry
    BY <1>4 DEF TypeOK, Accept
  <2> QED
    BY <1>1, <2>1 DEF IsCurrent
<1>5. ASSUME NEW c \in Conns, SaveOnline(c) PROVE IsCurrent(d)'
  BY <1>3, <1>5 DEF SaveOnline, Phase
<1>6. ASSUME NEW c \in Conns, Register(c) PROVE IsCurrent(d)'
  <2> DEFINE n == conn[c].on
  <2>1. registry' = [registry EXCEPT ![n] = c] /\ conn'[d].on = conn[d].on
    BY <1>6 DEF Register, TypeOK, Conn
  <2>2. n \in Nodes
    BY <1>6 DEF Register, Placed
  <2>3. CASE d = c
    BY <2>1, <2>2, <2>3 DEF IsCurrent, TypeOK
  <2>4. CASE d # c
    <3>1. conn'[d] = conn[d] /\ link[d] = "up" /\ d # registry[n]
      BY <1>6, <2>4 DEF Register, TypeOK, CurrentClosed
    <3>2. conn[d].on # n
      BY <1>1, <3>1
    <3> QED
      BY <1>1, <2>1, <3>1, <3>2 DEF IsCurrent, TypeOK
  <2> QED
    BY <2>3, <2>4
<1>7. ASSUME NEW c \in Conns, OnClose(c) PROVE IsCurrent(d)'
  <2>1. link[d] = "up" /\ d # c
    BY <1>7 DEF OnClose
  <2>2. conn'[d] = conn[d]
    BY <1>7, <2>1 DEF OnClose, TypeOK
  <2>3. registry'[conn[d].on] = registry[conn[d].on]
    BY <1>1, <1>7, <2>1, <2>2 DEF OnClose, Removed, IsCurrent, TypeOK
  <2> QED
    BY <1>1, <2>1, <2>2, <2>3 DEF IsCurrent
<1>8. ASSUME NEW c \in Conns, Flush(c) PROVE IsCurrent(d)'
  BY <1>3, <1>8 DEF Flush, Phase
<1>9. ASSUME NEW c \in Conns, FindOwned(c) PROVE IsCurrent(d)'
  <2>1. d # c /\ conn'[d] = conn[d]
    BY <1>9 DEF FindOwned, TypeOK, Moved, Conn
  <2> QED
    BY <1>1, <1>9, <2>1 DEF FindOwned, IsCurrent
<1>10. ASSUME NEW c \in Conns, SaveOffline(c) PROVE IsCurrent(d)'
  BY <1>3, <1>10 DEF SaveOffline, Phase
<1>11. ASSUME NEW c \in Conns, Heartbeat(c) \/ CheckCurrent(c) \/ Reassert(c)
       PROVE  IsCurrent(d)'
  BY <1>2, <1>11 DEF Heartbeat, CheckCurrent, Reassert
<1>12. ASSUME NEW c \in Conns, Notice(c) PROVE IsCurrent(d)'
  BY <1>1, <1>12 DEF Notice, TypeOK, IsCurrent
<1>13. ASSUME MarkStaleOffline \/ TimePasses \/ PhoneLost \/ PhoneNotices PROVE IsCurrent(d)'
  BY <1>2, <1>13 DEF MarkStaleOffline, TimePasses, PhoneLost, PhoneNotices
<1>14. ASSUME NEW n \in Nodes, NEW to \in {"disabled", "enabled"}, SwitchRead(n, to)
       PROVE  IsCurrent(d)'
  BY <1>2, <1>14 DEF SwitchRead
<1>15. ASSUME Disable PROVE IsCurrent(d)'
  BY <1>1, <1>15 DEF Disable, CurrentClosed, TypeOK, IsCurrent
<1>16. ASSUME Enable \/ \E n \in Nodes : Start(n) PROVE IsCurrent(d)'
  BY <1>2, <1>16 DEF Enable, Start
<1>17. ASSUME NEW n \in Nodes, Crash(n) \/ Exit(n) PROVE IsCurrent(d)'
  <2>1. link[d] = "up" /\ conn[d].on # n
    BY <1>17 DEF Crash, Exit, TypeOK
  <2>2. conn'[d] = conn[d] /\ registry' = [registry EXCEPT ![n] = NoConn]
    BY <1>17, <2>1 DEF Crash, Exit, Dead, TypeOK
  <2> QED
    BY <1>1, <2>1, <2>2 DEF IsCurrent, TypeOK
<1>18. ASSUME NEW n \in Nodes, Stop(n) PROVE IsCurrent(d)'
  <2>1. link[d] = "up" /\ d # registry[n] /\ conn'[d] = conn[d]
    BY <1>18 DEF Stop, CurrentClosed, TypeOK
  <2> QED
    BY <1>1, <1>18, <2>1 DEF Stop, IsCurrent, TypeOK
<1>19. ASSUME UNCHANGED vars PROVE IsCurrent(d)'
  BY <1>2, <1>19 DEF vars
<1> QED
  BY <1>4, <1>5, <1>6, <1>7, <1>8, <1>9, <1>10, <1>11, <1>12, <1>13, <1>14, <1>15, <1>16,
     <1>17, <1>18, <1>19 DEF Next

\* However handshakes, replacements, disablings and shutdowns interleave, an open
\* socket that is listened to is the one its node writes jobs to.
THEOREM AlwaysLiveIsRegistered == Spec => []LiveIsRegistered
<1>1. Init => Placed /\ LiveIsRegistered
  BY DEF Init, Placed, LiveIsRegistered
<1>2. TypeOK /\ Placed /\ LiveIsRegistered /\ [Next]_vars => (Placed /\ LiveIsRegistered)'
  BY PlacedStep, RegisteredStep
<1> QED
  BY <1>1, <1>2, TypeCorrect, PTL DEF Spec
=============================================================================
