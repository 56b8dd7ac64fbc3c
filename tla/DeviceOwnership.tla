--------------------------- MODULE DeviceOwnership ---------------------------
(***************************************************************************)
(* Whose traffic a device carries.  Phones register themselves; a tenant   *)
(* claims and releases its own, an administrator assigns and removes any;  *)
(* every change settles the messages that can no longer be carried and     *)
(* tells the phone.  Messages name a device when they are accepted, and    *)
(* are carried by it later, or are handed back to wait for it.             *)
(*                                                                         *)
(* A request works on the row as it has read it.  The save of a model      *)
(* writes the columns that differ from what was read, so two requests for  *)
(* one device may each write a part of the row.  Cut where a request       *)
(* awaits the database; a transaction is one step.  Devices are in service  *)
(* throughout; GatewaySessions has the switch, and sockets that replace one *)
(* another.                                                                *)
(***************************************************************************)
EXTENDS Naturals, FiniteSets

CONSTANTS
    Devices,      \* rows of gateways, each registered once
    Tenants, Msgs,
    TenantOf,     \* the tenant of each message
    Nodes,        \* server processes
    Requests,     \* requests to change a device that may be under way at once
    MaxChanges,   \* bound on such requests
    MaxUpsets,    \* bound on sockets lost and messages handed back
    NoDevice, NoTenant, NoNode

ASSUME OwnershipAssumption ==
    /\ TenantOf \in [Msgs -> Tenants]
    /\ MaxChanges \in Nat /\ MaxUpsets \in Nat
    /\ NoDevice \notin Devices /\ NoTenant \notin Tenants /\ NoNode \notin Nodes

VARIABLES
    device,     \* the gateways table
    phone,      \* each phone's socket, and what its screen shows
    request,    \* requests under way
    sms,        \* the messages
    changes, upsets,
    crossed,    \* history: devices changed by a request that had read an older row
    overtaken,  \* history: devices whose phone was last sent an older row, or none, see Passed
    excused     \* history: messages a change could not settle, see Commit

history == <<crossed, overtaken, excused>>
vars == <<device, phone, request, sms, changes, upsets, history>>

-----------------------------------------------------------------------------
Assignment == {"unassigned", "pool", "tenant"}

\* What a device is for: the two columns that say so.
Purpose == [assignment : Assignment, tenant : Tenants \union {NoTenant}]
Unassigned == [assignment |-> "unassigned", tenant |-> NoTenant]
OfTenant(t) == [assignment |-> "tenant", tenant |-> t]
Pool == [assignment |-> "pool", tenant |-> NoTenant]

Device == [state : {"absent", "present", "gone"}, token : BOOLEAN,
           purpose : Purpose]

Present(d) == device[d].state = "present"

\* authenticated: the row was read; registered: the socket is known to its
\* process; ready: the phone was sent the description of its session.
Phone == [link : {"off", "authenticated", "registered", "ready"}, node : Nodes \union {NoNode},
          saw : Purpose, shows : Purpose]
Off(shows) == [link |-> "off", node |-> NoNode, saw |-> Unassigned, shows |-> shows]

\* The socket of a device, where connectionManager.get finds it.
Connected(d, n) == phone[d].link \in {"registered", "ready"} /\ phone[d].node = n

\* assigning: checked, on the row as read.  logging, telling, sending: assigned,
\* and the event, the refresh and the frame are still to come.  closing,
\* forgetting, deleting: the steps of a removal.
Steps == {"idle", "assigning", "logging", "telling", "sending", "closing", "forgetting",
          "deleting"}

Request == [step : Steps, on : Devices \union {NoDevice}, node : Nodes \union {NoNode},
            saw : Purpose, to : Purpose, removes : BOOLEAN, tells : Purpose]
Idle == [step |-> "idle", on |-> NoDevice, node |-> NoNode, saw |-> Unassigned,
         to |-> Unassigned, removes |-> FALSE, tells |-> Unassigned]

Sms == [status : {"none", "resolved", "queued", "carried", "sent", "failed", "refused"},
        named : Devices \union {NoDevice}, pin : Devices \union {NoDevice},
        on : Devices \union {NoDevice}]

TypeOK ==
    /\ device \in [Devices -> Device]
    /\ phone \in [Devices -> Phone]
    /\ request \in [Requests -> Request]
    /\ sms \in [Msgs -> Sms]
    /\ \A m \in Msgs : sms[m].status \in {"queued", "carried", "sent", "failed"}
                       /\ sms[m].pin # NoDevice => Present(sms[m].pin)
    /\ changes \in 0 .. MaxChanges /\ upsets \in 0 .. MaxUpsets
    /\ crossed \subseteq Devices /\ overtaken \subseteq Devices /\ excused \subseteq Msgs

Init ==
    /\ device = [d \in Devices |-> [state |-> "absent", token |-> FALSE,
                                    purpose |-> Unassigned]]
    /\ phone = [d \in Devices |-> Off(Unassigned)]
    /\ request = [r \in Requests |-> Idle]
    /\ sms = [m \in Msgs |-> [status |-> "none", named |-> NoDevice, pin |-> NoDevice,
                              on |-> NoDevice]]
    /\ changes = 0 /\ upsets = 0
    /\ crossed = {} /\ overtaken = {} /\ excused = {}

Upset == upsets < MaxUpsets /\ upsets' = upsets + 1

-----------------------------------------------------------------------------
(* The phone. *)

\* The row is written first and the token after it.
Register(d) ==
    /\ device[d].state = "absent"
    /\ device' = [device EXCEPT ![d].state = "present"]
    /\ UNCHANGED <<phone, request, sms, changes, upsets, history>>

IssueToken(d) ==
    /\ Present(d) /\ ~device[d].token
    /\ \A r \in Requests : request[r].on = d => request[r].step # "deleting"
    /\ device' = [device EXCEPT ![d].token = TRUE]
    /\ UNCHANGED <<phone, request, sms, changes, upsets, history>>

\* A frame for a socket that has closed meanwhile reaches nobody.
AfterTelling(r) == IF request[r].removes THEN [request[r] EXCEPT !.step = "closing"] ELSE Idle
SocketGone(d) == request' = [r \in Requests |->
    IF request[r].on = d /\ request[r].step = "sending" THEN AfterTelling(r) ELSE request[r]]

Authenticate(d, n) ==
    /\ Present(d) /\ device[d].token
    /\ phone[d].link = "off"
    /\ phone' = [phone EXCEPT ![d].link = "authenticated", ![d].node = n,
                              ![d].saw = device[d].purpose]
    /\ UNCHANGED <<device, request, sms, changes, upsets, history>>

\* The session row of a device that has gone is refused, and ends the socket.
RegisterSocket(d) ==
    /\ phone[d].link = "authenticated"
    /\ phone' = [phone EXCEPT ![d] = IF Present(d) THEN [@ EXCEPT !.link = "registered"]
                                     ELSE Off(phone[d].shows)]
    /\ UNCHANGED <<device, request, sms, changes, upsets, history>>

\* What a frame tells a phone, which may be older than the row by now.
Shows(d, purpose, link) ==
    /\ phone' = [phone EXCEPT ![d].shows = purpose, ![d].link = link]
    /\ overtaken' = IF purpose = device[d].purpose THEN overtaken \ {d} ELSE overtaken \union {d}

\* The session is described from the row as it was read to authenticate.
SessionReady(d) ==
    /\ phone[d].link = "registered"
    /\ Shows(d, phone[d].saw, "ready")
    /\ UNCHANGED <<device, request, sms, changes, upsets, crossed, excused>>

LoseSocket(d) ==
    /\ phone[d].link \in {"registered", "ready"}
    /\ Upset
    /\ phone' = [phone EXCEPT ![d] = Off(phone[d].shows)]
    /\ SocketGone(d)
    /\ UNCHANGED <<device, sms, changes, history>>

-----------------------------------------------------------------------------
(* Requests to change a device: each reads the row and checks it first. *)

Begin(r, d, n, to, removes, step) ==
    /\ request[r] = Idle /\ Present(d)
    /\ changes < MaxChanges
    /\ changes' = changes + 1
    /\ request' = [request EXCEPT ![r] = [Idle EXCEPT !.step = step, !.on = d, !.node = n,
                     !.saw = device[d].purpose, !.to = to, !.removes = removes]]
    /\ UNCHANGED <<device, phone, sms, upsets, history>>

\* Whoever has the device already, or finds it taken, is answered without a
\* change.
Claim(r, d, n, t) ==
    /\ device[d].purpose.assignment = "unassigned"
    /\ Begin(r, d, n, OfTenant(t), FALSE, "assigning")

Release(r, d, n, t) ==
    /\ device[d].purpose = OfTenant(t)
    /\ Begin(r, d, n, Unassigned, FALSE, "assigning")

AdminAssign(r, d, n, to) == Begin(r, d, n, to, FALSE, "assigning")

\* A tenant's device is released first.
Destroy(r, d, n) ==
    Begin(r, d, n, Unassigned, TRUE,
          IF device[d].purpose.assignment = "tenant" THEN "assigning" ELSE "closing")

-----------------------------------------------------------------------------
(* GatewayAssignmentService.assign. *)

\* Mutant: the tenant column is left as it is.
SavedUnowned(now, saw, to) ==
    [assignment |-> IF to.assignment = saw.assignment THEN now.assignment ELSE to.assignment,
     tenant |-> IF to.tenant = NoTenant THEN now.tenant ELSE to.tenant]

\* Each column is written if it differs from what was read.
Saved(now, saw, to) ==
    [assignment |-> IF to.assignment = saw.assignment THEN now.assignment ELSE to.assignment,
     tenant |-> IF to.tenant = saw.tenant THEN now.tenant ELSE to.tenant]

\* Mutant: the tenant is taken from the row after it was changed.
PreviousAfter(r) == IF request[r].to.assignment = "tenant" THEN request[r].to.tenant ELSE NoTenant

\* Whose device it was, when it was read.
Previous(r) == IF request[r].saw.assignment = "tenant" THEN request[r].saw.tenant ELSE NoTenant

\* The waiting messages of the tenant that loses the device.
Stranded(r) ==
    {m \in Msgs : /\ sms[m].status = "queued" /\ sms[m].pin = request[r].on
                  /\ Previous(r) # NoTenant /\ Previous(r) # request[r].to.tenant
                  /\ TenantOf[m] = Previous(r)}

\* A message in flight, or about to be written, is not settled by the change;
\* nor is one that names a pool device, or one whose tenant the request did not
\* see because it had read an older row.
Unsettled(r) ==
    LET d == request[r].on
    IN  {m \in Msgs : /\ sms[m].pin = d
                      /\ \/ sms[m].status \in {"resolved", "carried"}
                         \/ request[r].saw.assignment = "pool"
                         \/ request[r].saw # device[d].purpose}

\* The row and the messages change together.
Commit(r) ==
    LET d == request[r].on
        saved == Saved(device[d].purpose, request[r].saw, request[r].to)
    IN  /\ request[r].step = "assigning"
        /\ request' = [request EXCEPT ![r].step = "logging"]
        /\ device' = IF Present(d) THEN [device EXCEPT ![d].purpose = saved] ELSE device
        /\ sms' = [m \in Msgs |-> IF m \in Stranded(r) THEN [sms[m] EXCEPT !.status = "failed"]
                                  ELSE sms[m]]
        /\ crossed' = IF request[r].saw # device[d].purpose THEN crossed \union {d} ELSE crossed
        /\ excused' = excused \union Unsettled(r)
        /\ UNCHANGED <<phone, changes, upsets, overtaken>>

\* A phone on another process is passed over.
Passed(r) ==
    LET d == request[r].on
    IN  IF phone[d].link \in {"registered", "ready"} /\ phone[d].node # request[r].node
        THEN overtaken \union {d} ELSE overtaken

\* An event of a device that has gone is refused, and ends the request.
LogEvent(r) ==
    LET d == request[r].on
    IN  /\ request[r].step = "logging"
        /\ request' = [request EXCEPT ![r] =
             IF ~Present(d) THEN Idle
             ELSE IF Connected(d, request[r].node) THEN [request[r] EXCEPT !.step = "telling"]
             ELSE AfterTelling(r)]
        /\ overtaken' = Passed(r)
        /\ UNCHANGED <<device, phone, sms, changes, upsets, crossed, excused>>

\* Only a phone connected to this process is told, of the row as it is now.
Refresh(r) ==
    LET d == request[r].on
    IN  /\ request[r].step = "telling"
        /\ request' = [request EXCEPT ![r] =
             IF ~Present(d) THEN Idle
             ELSE IF ~Connected(d, request[r].node) THEN AfterTelling(r)
             ELSE [request[r] EXCEPT !.step = "sending", !.tells = device[d].purpose]]
        /\ overtaken' = Passed(r)
        /\ UNCHANGED <<device, phone, sms, changes, upsets, crossed, excused>>

\* Mutant: a phone that is given away is not told.
TellOwned(r) ==
    LET d == request[r].on
    IN  /\ request[r].step = "sending"
        /\ IF request[r].tells = Unassigned THEN UNCHANGED <<phone, overtaken>>
           ELSE Shows(d, request[r].tells, phone[d].link)
        /\ request' = [request EXCEPT ![r] = AfterTelling(r)]
        /\ UNCHANGED <<device, sms, changes, upsets, crossed, excused>>

Tell(r) ==
    LET d == request[r].on
    IN  /\ request[r].step = "sending"
        /\ Shows(d, request[r].tells, phone[d].link)
        /\ request' = [request EXCEPT ![r] = AfterTelling(r)]
        /\ UNCHANGED <<device, sms, changes, upsets, crossed, excused>>

-----------------------------------------------------------------------------
(* Removal. *)

\* The socket is closed while the token still opens a new one.
CloseSocket(r) ==
    LET d == request[r].on
        here == Connected(d, request[r].node)
    IN  /\ request[r].step = "closing"
        /\ phone' = IF here THEN [phone EXCEPT ![d] = Off(phone[d].shows)] ELSE phone
        /\ request' = [x \in Requests |->
             IF x = r THEN [request[r] EXCEPT !.step = "forgetting"]
             ELSE IF here /\ request[x].on = d /\ request[x].step = "sending" THEN AfterTelling(x)
             ELSE request[x]]
        /\ UNCHANGED <<device, sms, changes, upsets, history>>

ForgetTokens(r) ==
    /\ request[r].step = "forgetting"
    /\ request' = [request EXCEPT ![r].step = "deleting"]
    /\ device' = [device EXCEPT ![request[r].on].token = FALSE]
    /\ UNCHANGED <<phone, sms, changes, upsets, history>>

\* Mutant: the messages keep naming a row that is no longer there.
UnpinnedNot(d) == sms

\* The foreign key lets go of every message that names the row.
Unpinned(d) == [m \in Msgs |-> IF sms[m].pin = d /\ sms[m].status # "resolved"
                               THEN [sms[m] EXCEPT !.pin = NoDevice] ELSE sms[m]]

DeleteRow(r) ==
    LET d == request[r].on
    IN  /\ request[r].step = "deleting"
        /\ request' = [request EXCEPT ![r] = Idle]
        /\ device' = [device EXCEPT ![d].state = "gone"]
        /\ sms' = Unpinned(d)
        /\ UNCHANGED <<phone, changes, upsets, history>>

-----------------------------------------------------------------------------
(* Messages. *)

MayUse(d, t) == device[d].purpose.assignment = "pool" \/ device[d].purpose = OfTenant(t)

\* A request may name a pool device or one of the tenant's own, or none.
Resolve(m, d) ==
    /\ sms[m].status = "none"
    /\ d # NoDevice => Present(d) /\ MayUse(d, TenantOf[m])
    /\ sms' = [sms EXCEPT ![m].status = "resolved", ![m].named = d, ![m].pin = d]
    /\ UNCHANGED <<device, phone, request, changes, upsets, history>>

\* Whatever has become of the device, unless its row has gone.
Insert(m) ==
    /\ sms[m].status = "resolved"
    /\ sms' = [sms EXCEPT ![m].status =
                 IF sms[m].pin = NoDevice \/ Present(sms[m].pin) THEN "queued" ELSE "refused"]
    /\ UNCHANGED <<device, phone, request, changes, upsets, history>>

\* A message goes to the device it names, or else to one of the pool.
Carry(m, d) ==
    /\ sms[m].status = "queued"
    /\ Present(d) /\ phone[d].link \in {"registered", "ready"}
    /\ IF sms[m].pin = NoDevice THEN device[d].purpose.assignment = "pool"
       ELSE d = sms[m].pin /\ MayUse(d, TenantOf[m])
    /\ sms' = [sms EXCEPT ![m].status = "carried", ![m].on = d]
    /\ UNCHANGED <<device, phone, request, changes, upsets, history>>

\* The hand-off failed, the attempt did, or the phone fell silent.
HandBack(m) ==
    /\ sms[m].status = "carried"
    /\ Upset
    /\ sms' = [sms EXCEPT ![m].status = "queued", ![m].on = NoDevice]
    /\ UNCHANGED <<device, phone, request, changes, history>>

ReportSent(m) ==
    /\ sms[m].status = "carried"
    /\ sms' = [sms EXCEPT ![m].status = "sent"]
    /\ UNCHANGED <<device, phone, request, changes, upsets, history>>

-----------------------------------------------------------------------------
Ask(r) ==
    \E d \in Devices, n \in Nodes :
      \/ \E t \in Tenants : Claim(r, d, n, t) \/ Release(r, d, n, t)
                            \/ AdminAssign(r, d, n, OfTenant(t))
      \/ AdminAssign(r, d, n, Pool) \/ AdminAssign(r, d, n, Unassigned)
      \/ Destroy(r, d, n)

Serve(r) ==
    \/ Commit(r) \/ LogEvent(r) \/ Refresh(r) \/ Tell(r)
    \/ CloseSocket(r) \/ ForgetTokens(r) \/ DeleteRow(r)

Next ==
    \/ \E r \in Requests : Ask(r) \/ Serve(r)
    \/ \E d \in Devices : Register(d) \/ IssueToken(d)
                          \/ RegisterSocket(d) \/ SessionReady(d) \/ LoseSocket(d)
                          \/ \E n \in Nodes : Authenticate(d, n)
    \/ \E m \in Msgs : \/ Insert(m) \/ HandBack(m) \/ ReportSent(m)
                       \/ \E d \in Devices \union {NoDevice} : Resolve(m, d)
                       \/ \E d \in Devices : Carry(m, d)

Spec == Init /\ [][Next]_vars

-----------------------------------------------------------------------------
\* A message waits for a device that its tenant may no longer use only if it was
\* on its way when the device was taken away, or was taken from the pool, or two
\* changes crossed: otherwise the change has failed it, with a reason.
NoneStranded ==
    \A m \in Msgs :
      sms[m].status = "queued" /\ sms[m].pin # NoDevice /\ ~MayUse(sms[m].pin, TenantOf[m])
        => m \in excused

\* "tenant_id is set exactly when this is tenant" (the migration that adds the
\* assignment), unless a change was made from an older row.
TenantExact ==
    \A d \in Devices \ crossed :
      (device[d].purpose.assignment = "tenant") = (device[d].purpose.tenant # NoTenant)

\* Once nothing is under way, a phone that was told of its session shows what it
\* is for, whatever was lost, closed and opened meanwhile, unless the last frame
\* it was sent was overtaken by a change between the reading and the sending, or
\* the change was made by a process it is not connected to.
ShownTrue ==
    \A d \in Devices \ overtaken :
      (/\ Present(d) /\ phone[d].link = "ready"
       /\ \A r \in Requests : request[r].on # d)
        => phone[d].shows = device[d].purpose

\* "The message goes only through this device" (TENANT_API.md, of a message that
\* names one).
OnlyWhereNamed ==
    \A m \in Msgs : sms[m].status = "carried" /\ sms[m].named # NoDevice
                      => sms[m].on = sms[m].named
=============================================================================
