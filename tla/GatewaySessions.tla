--------------------------- MODULE GatewaySessions ---------------------------
(***************************************************************************)
(* The sockets of one phone and what the database records of them: the     *)
(* status and node of its row in gateways, and one row of gateway_sessions *)
(* per socket.  Several server nodes share the database; each keeps its    *)
(* own registry of sockets in memory.                                      *)
(*                                                                         *)
(* A handler is cut into steps where it awaits the database.  A row read   *)
(* at one step and saved at a later one is saved the way the ORM does it:  *)
(* only the columns that differ from the values read are written.          *)
(*                                                                         *)
(* Time appears only as a last_seen_at that is fresh or stale.             *)
(***************************************************************************)
EXTENDS Naturals

CONSTANTS
    Nodes,        \* server processes
    Conns,        \* sockets the phone opens, in any order
    Faults,       \* which of "crash", "stop" and "early_loss" can happen
    MaxUpsets,    \* bound on crashes, stops and disablings, together
    NoNode, NoConn

ASSUME SessionsAssumption ==
    /\ MaxUpsets \in Nat
    /\ NoNode \notin Nodes
    /\ NoConn \notin Conns

VARIABLES
    gateway,    \* the row of the phone
    conn,       \* how far the handlers of a socket are
    link,       \* whether the server's end of a socket is open
    session,    \* gateway_sessions, by socket
    registry,   \* connectionManager of each node: the current socket
    beat,       \* how far the handling of a heartbeat is, by socket
    phone,      \* the socket the phone itself uses
    node,       \* whether a node runs, is stopping or is down
    switch,     \* an operator's request that has read the row
    upsets

vars == <<gateway, conn, link, session, registry, beat, phone, node, switch, upsets>>

-----------------------------------------------------------------------------
\* The statuses that are ever written to a row.
Status == {"offline", "online", "disabled"}

Gateway == [status : Status, node : Nodes \union {NoNode}, active : BOOLEAN,
            seen : {"fresh", "stale"}]

\* accepted: authenticated, row read.  saved: recorded as online.  live: its
\* frames and its end are listened to.  deaf: registered, but it ended before
\* anyone listened.  leaving, flushed, found: torn down as the current socket.
\* gone: its process died.
Phase == {"unused", "accepted", "saved", "live", "deaf", "leaving", "flushed", "found",
          "ended", "gone"}

\* status and from are the columns status and node_id as its handler read them.
Conn == [phase : Phase, on : Nodes \union {NoNode}, status : Status,
         from : Nodes \union {NoNode}]

Switch == [to : {"none", "disabled", "enabled"}, on : Nodes \union {NoNode},
           active : BOOLEAN, status : Status, from : Nodes \union {NoNode}]
NoSwitch == [to |-> "none", on |-> NoNode, active |-> TRUE, status |-> "offline",
             from |-> NoNode]

TypeOK ==
    /\ gateway \in Gateway
    /\ conn \in [Conns -> Conn]
    /\ link \in [Conns -> {"none", "up", "down"}]
    /\ session \in [Conns -> {"none", "open", "closed"}]
    /\ registry \in [Nodes -> Conns \union {NoConn}]
    /\ beat \in [Conns -> {"none", "flushed", "checked"}]
    /\ phone \in Conns \union {NoConn}
    /\ node \in [Nodes -> {"up", "stopping", "down"}]
    /\ switch \in Switch
    /\ upsets \in 0 .. MaxUpsets

Init ==
    /\ gateway = [status |-> "offline", node |-> NoNode, active |-> TRUE, seen |-> "stale"]
    /\ conn = [c \in Conns |-> [phase |-> "unused", on |-> NoNode, status |-> "offline",
                                from |-> NoNode]]
    /\ link = [c \in Conns |-> "none"]
    /\ session = [c \in Conns |-> "none"]
    /\ registry = [n \in Nodes |-> NoConn]
    /\ beat = [c \in Conns |-> "none"]
    /\ phone = NoConn
    /\ node = [n \in Nodes |-> "up"]
    /\ switch = NoSwitch
    /\ upsets = 0

\* A column saved from a copy of the row.
Column(now, read, new) == IF new = read THEN now ELSE new

\* connectionManager.get: the current socket of a node, if it is open.
IsCurrent(c) == conn[c].on \in Nodes /\ registry[conn[c].on] = c
Reachable(c) == IsCurrent(c) /\ link[c] = "up"

\* Mutant: the socket is forgotten and left open.
NothingClosed(n) == link

\* The server closes the current socket of a node, if there is one.
CurrentClosed(n) == [c \in Conns |-> IF c = registry[n] THEN "down" ELSE link[c]]

\* A handler moves on; the columns it read are of no further use to it.
Moved(c, to) == [conn EXCEPT ![c] = [phase |-> to, on |-> conn[c].on,
                                     status |-> "offline", from |-> NoNode]]

-----------------------------------------------------------------------------
(* A socket opens. *)

\* The phone opens a socket, whatever has become of its last one, and is
\* admitted on the strength of the row as it is now.
Accept(c, n) ==
    /\ conn[c].phase = "unused"
    /\ node[n] = "up"
    /\ gateway.active
    /\ gateway.status # "disabled"
    /\ conn' = [conn EXCEPT ![c] = [phase |-> "accepted", on |-> n,
                                    status |-> gateway.status, from |-> gateway.node]]
    /\ link' = [link EXCEPT ![c] = "up"]
    /\ phone' = c
    /\ UNCHANGED <<gateway, session, registry, beat, node, switch, upsets>>

\* markConnected saves the row it was given ...
SaveOnline(c) ==
    /\ conn[c].phase = "accepted"
    /\ gateway' = [gateway EXCEPT
                     !.status = Column(@, conn[c].status, "online"),
                     !.node = Column(@, conn[c].from, conn[c].on),
                     !.seen = "fresh"]
    /\ conn' = Moved(c, "saved")
    /\ UNCHANGED <<link, session, registry, beat, phone, node, switch, upsets>>

\* ... and creates the session.  Then the socket becomes the current one of its
\* node, an earlier one is closed, and only now does anyone listen to it.
Register(c) ==
    LET n == conn[c].on
    IN  /\ conn[c].phase = "saved"
        /\ conn' = [conn EXCEPT ![c].phase = IF link[c] = "up" THEN "live" ELSE "deaf"]
        /\ session' = [session EXCEPT ![c] = "open"]
        /\ registry' = [registry EXCEPT ![n] = c]
        /\ link' = CurrentClosed(n)
        /\ UNCHANGED <<gateway, beat, phone, node, switch, upsets>>

-----------------------------------------------------------------------------
(* A socket closes. *)

\* Mutant: remove() does not look at which socket it is asked to remove.
Unregistered(c) == [registry EXCEPT ![conn[c].on] = NoConn]

Removed(c) == IF IsCurrent(c) THEN [registry EXCEPT ![conn[c].on] = NoConn] ELSE registry

\* The close event: a socket that was replaced only ends its session, the
\* current one also takes the phone offline, in the steps that follow.
OnClose(c) ==
    /\ conn[c].phase = "live"
    /\ link[c] = "down"
    /\ registry' = Removed(c)
    /\ \/ /\ IsCurrent(c)
          /\ conn' = [conn EXCEPT ![c].phase = "leaving"]
          /\ UNCHANGED session
       \/ /\ ~IsCurrent(c)
          /\ conn' = [conn EXCEPT ![c].phase = "ended"]
          /\ session' = [session EXCEPT ![c] = "closed"]
    /\ UNCHANGED <<gateway, link, beat, phone, node, switch, upsets>>

\* flush writes the moment this socket was last heard, however long ago.
Flush(c) ==
    /\ conn[c].phase = "leaving"
    /\ \E heard \in {"fresh", "stale"} : gateway' = [gateway EXCEPT !.seen = heard]
    /\ conn' = [conn EXCEPT ![c].phase = "flushed"]
    /\ UNCHANGED <<link, session, registry, beat, phone, node, switch, upsets>>

\* markDisconnected ends the session, reads the row, and goes on only if the
\* row still names this node.
FindOwned(c) ==
    /\ conn[c].phase = "flushed"
    /\ session' = [session EXCEPT ![c] = "closed"]
    /\ conn' = IF gateway.node = conn[c].on
               THEN [conn EXCEPT ![c] = [phase |-> "found", on |-> conn[c].on,
                                         status |-> gateway.status, from |-> gateway.node]]
               ELSE Moved(c, "ended")
    /\ UNCHANGED <<gateway, link, registry, beat, phone, node, switch, upsets>>

SaveOffline(c) ==
    /\ conn[c].phase = "found"
    /\ gateway' = [gateway EXCEPT
                     !.status = Column(@, conn[c].status, "offline"),
                     !.node = Column(@, conn[c].from, NoNode)]
    /\ conn' = Moved(c, "ended")
    /\ UNCHANGED <<link, session, registry, beat, phone, node, switch, upsets>>

-----------------------------------------------------------------------------
(* Heartbeats of the phone, persisted at most every persistEverySeconds. *)

Heartbeat(c) ==
    /\ phone = c
    /\ conn[c].phase = "live"
    /\ link[c] = "up"
    /\ beat[c] = "none"
    /\ beat' = [beat EXCEPT ![c] = "flushed"]
    /\ gateway' = [gateway EXCEPT !.seen = "fresh"]
    /\ UNCHANGED <<conn, link, session, registry, phone, node, switch, upsets>>

\* reassertOnline: is this the current socket? ...
CheckCurrent(c) ==
    /\ beat[c] = "flushed"
    /\ beat' = [beat EXCEPT ![c] = IF Reachable(c) THEN "checked" ELSE "none"]
    /\ UNCHANGED <<gateway, conn, link, session, registry, phone, node, switch, upsets>>

\* Mutant: only a row that still names this node is put right.
WronglyOfflineHere(n) == gateway.status = "offline" /\ gateway.node = n

WronglyOffline(n) == gateway.status = "offline"

\* ... then the row is put right in one statement.
Reassert(c) ==
    LET n == conn[c].on
    IN  /\ beat[c] = "checked"
        /\ beat' = [beat EXCEPT ![c] = "none"]
        /\ gateway' = IF WronglyOffline(n)
                      THEN [gateway EXCEPT !.status = "online", !.node = n] ELSE gateway
        /\ UNCHANGED <<conn, link, session, registry, phone, node, switch, upsets>>

-----------------------------------------------------------------------------
(* The stale sweep, and the clock. *)

\* Mutant: a phone whose socket is registered is not silent.
SilentUnregistered == gateway.seen = "stale" /\ \A n \in Nodes : registry[n] = NoConn

Silent == gateway.seen = "stale"

MarkStaleOffline ==
    /\ \E n \in Nodes : node[n] = "up"
    /\ gateway.status = "online"
    /\ Silent
    /\ gateway' = [gateway EXCEPT !.status = "offline", !.node = NoNode]
    /\ UNCHANGED <<conn, link, session, registry, beat, phone, node, switch, upsets>>

TimePasses ==
    /\ gateway.seen = "fresh"
    /\ gateway' = [gateway EXCEPT !.seen = "stale"]
    /\ UNCHANGED <<conn, link, session, registry, beat, phone, node, switch, upsets>>

-----------------------------------------------------------------------------
(* The network and the phone. *)

\* The phone loses its link or is switched off; the server is not told.
PhoneLost ==
    /\ phone # NoConn
    /\ phone' = NoConn
    /\ UNCHANGED <<gateway, conn, link, session, registry, beat, node, switch, upsets>>

\* Only registered sockets are pinged, and only by a node that is up.
Pinged(c) == IsCurrent(c) /\ node[conn[c].on] = "up"

\* The server learns that nobody is at the other end, by a close or by a ping
\* that is not answered.  Early, this happens before anyone listens.
Notice(c) ==
    /\ phone # c
    /\ link[c] = "up"
    /\ \/ conn[c].phase = "live"
       \/ conn[c].phase \in {"accepted", "saved"} /\ "early_loss" \in Faults
    /\ link' = [link EXCEPT ![c] = "down"]
    /\ UNCHANGED <<gateway, conn, session, registry, beat, phone, node, switch, upsets>>

\* The phone sees that the server closed the socket it used.
PhoneNotices ==
    /\ phone # NoConn
    /\ link[phone] = "down" \/ conn[phone].phase = "gone"
    /\ phone' = NoConn
    /\ UNCHANGED <<gateway, conn, link, session, registry, beat, node, switch, upsets>>

-----------------------------------------------------------------------------
(* An operator, through the API of some node. *)

\* The row is read ...
SwitchRead(n, to) ==
    /\ switch = NoSwitch
    /\ node[n] = "up"
    /\ \/ to = "disabled" /\ gateway.active /\ upsets < MaxUpsets /\ upsets' = upsets + 1
       \/ to = "enabled" /\ ~gateway.active /\ UNCHANGED upsets
    /\ switch' = [to |-> to, on |-> n, active |-> gateway.active,
                  status |-> gateway.status, from |-> gateway.node]
    /\ UNCHANGED <<gateway, conn, link, session, registry, beat, phone, node>>

Switched(status, active) ==
    gateway' = [gateway EXCEPT
                  !.status = Column(@, switch.status, status),
                  !.node = Column(@, switch.from, NoNode),
                  !.active = Column(@, switch.active, active)]

\* ... and saved; disabling also closes the socket this node has.
Disable ==
    /\ switch.to = "disabled"
    /\ Switched("disabled", FALSE)
    /\ link' = CurrentClosed(switch.on)
    /\ switch' = NoSwitch
    /\ UNCHANGED <<conn, session, registry, beat, phone, node, upsets>>

Enable ==
    /\ switch.to = "enabled"
    /\ Switched("offline", TRUE)
    /\ switch' = NoSwitch
    /\ UNCHANGED <<conn, link, session, registry, beat, phone, node, upsets>>

-----------------------------------------------------------------------------
(* The life of a node. *)

Dead(n) == [c \in Conns |->
              IF conn[c].on = n /\ conn[c].phase # "ended"
              THEN Moved(c, "gone")[c] ELSE conn[c]]
Quiet(n) == [c \in Conns |-> IF conn[c].on = n THEN "none" ELSE beat[c]]

\* releaseOwnedGateways, one statement.
Released(n) ==
    IF gateway.node = n THEN [gateway EXCEPT !.status = "offline", !.node = NoNode] ELSE gateway

\* The process dies; what only it knew is gone.
Crash(n) ==
    /\ "crash" \in Faults
    /\ upsets < MaxUpsets
    /\ upsets' = upsets + 1
    /\ node[n] # "down"
    /\ node' = [node EXCEPT ![n] = "down"]
    /\ conn' = Dead(n)
    /\ beat' = Quiet(n)
    /\ link' = [c \in Conns |-> IF conn[c].on = n THEN "down" ELSE link[c]]
    /\ registry' = [registry EXCEPT ![n] = NoConn]
    /\ switch' = IF switch.on = n THEN NoSwitch ELSE switch
    /\ UNCHANGED <<gateway, session, phone>>

\* shutdown closes every registered socket and forgets them all at once, so
\* that each ends as if it had been replaced ...
Stop(n) ==
    /\ "stop" \in Faults
    /\ upsets < MaxUpsets
    /\ upsets' = upsets + 1
    /\ node[n] = "up"
    /\ node' = [node EXCEPT ![n] = "stopping"]
    /\ link' = CurrentClosed(n)
    /\ registry' = [registry EXCEPT ![n] = NoConn]
    /\ UNCHANGED <<gateway, conn, session, beat, phone, switch>>

\* ... and once every socket is closed and torn down, the node gives its phones
\* back and exits.
Exit(n) ==
    /\ node[n] = "stopping"
    /\ \A c \in Conns : conn[c].on = n =>
          link[c] = "down" /\ conn[c].phase \notin {"live", "leaving", "flushed", "found"}
    /\ node' = [node EXCEPT ![n] = "down"]
    /\ gateway' = Released(n)
    /\ conn' = Dead(n)
    /\ beat' = Quiet(n)
    /\ link' = [c \in Conns |-> IF conn[c].on = n THEN "down" ELSE link[c]]
    /\ registry' = [registry EXCEPT ![n] = NoConn]
    /\ switch' = IF switch.on = n THEN NoSwitch ELSE switch
    /\ UNCHANGED <<session, phone, upsets>>

Start(n) ==
    /\ node[n] = "down"
    /\ node' = [node EXCEPT ![n] = "up"]
    /\ gateway' = Released(n)
    /\ UNCHANGED <<conn, link, session, registry, beat, phone, switch, upsets>>

-----------------------------------------------------------------------------
Next ==
    \/ \E c \in Conns, n \in Nodes : Accept(c, n)
    \/ \E c \in Conns : \/ SaveOnline(c) \/ Register(c)
                        \/ OnClose(c) \/ Flush(c) \/ FindOwned(c) \/ SaveOffline(c)
                        \/ Heartbeat(c) \/ CheckCurrent(c) \/ Reassert(c)
                        \/ Notice(c)
    \/ MarkStaleOffline \/ TimePasses \/ PhoneLost \/ PhoneNotices
    \/ \E n \in Nodes, to \in {"disabled", "enabled"} : SwitchRead(n, to)
    \/ Disable \/ Enable
    \/ \E n \in Nodes : Crash(n) \/ Stop(n) \/ Exit(n) \/ Start(n)

Spec == Init /\ [][Next]_vars

\* Handlers go on, timers fire (pings, the stale sweep), nodes that are down
\* come back, and a phone with a working socket sends heartbeats.  Nothing makes the
\* phone connect, and nothing makes an operator act.
Fairness ==
    /\ \A c \in Conns : /\ WF_vars(SaveOnline(c)) /\ WF_vars(Register(c))
                        /\ WF_vars(OnClose(c)) /\ WF_vars(Flush(c))
                        /\ WF_vars(FindOwned(c)) /\ WF_vars(SaveOffline(c))
                        /\ WF_vars(Heartbeat(c)) /\ WF_vars(CheckCurrent(c))
                        /\ WF_vars(Reassert(c))
                        /\ WF_vars(Pinged(c) /\ Notice(c))
    /\ WF_vars(MarkStaleOffline) /\ WF_vars(TimePasses)
    /\ \A n \in Nodes : WF_vars(Exit(n)) /\ WF_vars(Start(n))

FairSpec == Spec /\ Fairness

-----------------------------------------------------------------------------
(* Properties. *)

\* A device never has two open sockets on a node, and the one it has is the one
\* jobs are written to: a stale socket that closes late, or a handshake that
\* finishes out of order, evicts no healthy one.
LiveIsRegistered ==
    \A c \in Conns : conn[c].phase = "live" /\ link[c] = "up" => IsCurrent(c)

\* The phone is at the other end of the socket its node would write to.
Alive(c) == phone = c /\ conn[c].phase = "live" /\ Reachable(c)

\* A phone recorded as offline under a live socket, by a late teardown, a sweep
\* or a restart of another node, is put right while the socket lives.
OfflineHeals ==
    \A c \in Conns : Alive(c) /\ gateway.status = "offline"
                        ~> ~(Alive(c) /\ gateway.status = "offline")

\* A phone that is gone does not stay in rotation, whichever node it was on and
\* whatever became of that node.
GoneGoesOffline ==
    phone = NoConn /\ gateway.status = "online" ~> phone # NoConn \/ gateway.status # "online"

\* Every session ends when its socket does, unless its process died, its node is
\* stopping and pings nobody, or the socket was lost before anyone listened.
SessionsEnd ==
    \A c \in Conns : session[c] = "open" /\ phone # c
                        ~> \/ session[c] = "closed"
                           \/ conn[c].phase \in {"gone", "deaf"}
                           \/ conn[c].on \in {n \in Nodes : node[n] = "stopping"}
=============================================================================
