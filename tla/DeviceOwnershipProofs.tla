------------------------ MODULE DeviceOwnershipProofs ------------------------
(***************************************************************************)
(* Of devices and the requests that change them, for any number of         *)
(* devices, tenants, messages, nodes and concurrent requests.              *)
(***************************************************************************)
EXTENDS DeviceOwnership, TLAPS

-----------------------------------------------------------------------------
(* Types. *)

\* What a request may make of a device.
Targets == {Unassigned, Pool} \union {OfTenant(t) : t \in Tenants}

\* A request under way is about a device, from a node, and makes it what it may be.
UnderWay ==
    \A r \in Requests : request[r].step # "idle" =>
        request[r].on \in Devices /\ request[r].node \in Nodes /\ request[r].to \in Targets

TypeInv == TypeOK /\ UnderWay

\* A message that waits, is carried or done with names no device that has gone.
PinThere(m) ==
    sms[m].status \in {"queued", "carried", "sent", "failed"} /\ sms[m].pin # NoDevice
        => Present(sms[m].pin)

LEMMA TargetsArePurposes == Targets \subseteq Purpose /\ Unassigned \in Purpose
BY DEF Targets, Purpose, Assignment, Unassigned, Pool, OfTenant

LEMMA Records ==
    /\ \A q \in Request, step \in Steps : [q EXCEPT !.step = step] \in Request
    /\ Idle \in Request
    /\ \A p \in Phone : Off(p.shows) \in Phone
    /\ \A row \in Sms, status \in {"none", "resolved", "queued", "carried", "sent", "failed",
                                   "refused"} : [row EXCEPT !.status = status] \in Sms
    /\ \A row \in Sms : [row EXCEPT !.pin = NoDevice] \in Sms
BY TargetsArePurposes DEF Request, Idle, Steps, Phone, Off, Sms

LEMMA AfterTellingType ==
    ASSUME TypeOK, NEW r \in Requests
    PROVE  AfterTelling(r) \in Request
BY Records DEF TypeOK, AfterTelling, Steps

LEMMA TypeInit == Init => TypeInv
BY OwnershipAssumption, TargetsArePurposes
   DEF Init, TypeInv, TypeOK, UnderWay, Device, Off, Phone, Idle, Request, Steps, Sms

\* What a step that leaves the messages alone has to keep.
LEMMA OthersTyped ==
    ASSUME TypeInv, UNCHANGED sms,
           device' \in [Devices -> Device], phone' \in [Devices -> Phone],
           request' \in [Requests -> Request], UnderWay',
           \A d \in Devices : Present(d) => Present(d)',
           changes' \in 0 .. MaxChanges, upsets' \in 0 .. MaxUpsets,
           crossed' \subseteq Devices, overtaken' \subseteq Devices, excused' \subseteq Msgs
    PROVE  TypeInv'
<1> USE DEF TypeInv
<1>1. sms' \in [Msgs -> Sms] BY DEF TypeOK
<1>2. ASSUME NEW m \in Msgs PROVE PinThere(m)'
  <2>1. PinThere(m) BY DEF TypeOK, PinThere
  <2>2. sms[m].pin = NoDevice \/ sms[m].pin \in Devices BY DEF TypeOK, Sms
  <2> QED BY <2>1, <2>2 DEF PinThere, Present
<1> QED BY <1>1, <1>2 DEF TypeOK, PinThere

\* Registration, tokens and sockets.
LEMMA PhoneType ==
    ASSUME TypeInv, NEW d \in Devices,
           \/ Register(d) \/ IssueToken(d) \/ RegisterSocket(d) \/ SessionReady(d)
           \/ \E n \in Nodes : Authenticate(d, n)
    PROVE  TypeInv'
<1>1. ASSUME NEW row \in Device, device[d].state \in {"absent", row.state},
             device' = [device EXCEPT ![d] = row], row.state = "present"
      PROVE  device' \in [Devices -> Device] /\ \A e \in Devices : Present(e) => Present(e)'
  BY <1>1 DEF TypeInv, TypeOK, Present
<1>2. CASE Register(d)
  <2>1. device' \in [Devices -> Device] /\ \A e \in Devices : Present(e) => Present(e)'
    BY <1>2 DEF Register, TypeInv, TypeOK, Device, Present
  <2> QED BY <1>2, <2>1, OthersTyped DEF Register, TypeInv, TypeOK, UnderWay, history
<1>3. CASE IssueToken(d)
  <2>1. device' = [device EXCEPT ![d].token = TRUE] BY <1>3 DEF IssueToken
  <2>2. device[d] \in Device BY DEF TypeInv, TypeOK
  <2>3. device' \in [Devices -> Device] /\ \A e \in Devices : Present(e) => Present(e)'
    BY <2>1, <2>2 DEF TypeInv, TypeOK, Device, Present
  <2>4. UNCHANGED <<phone, request, sms, changes, upsets, history>> BY <1>3 DEF IssueToken
  <2> QED BY <2>3, <2>4, OthersTyped DEF TypeInv, TypeOK, UnderWay, history
<1>4. CASE RegisterSocket(d)
  <2>1. [phone[d] EXCEPT !.link = "registered"] \in Phone /\ Off(phone[d].shows) \in Phone
    <3>1. phone[d] \in Phone BY DEF TypeInv, TypeOK
    <3>2. Off(phone[d].shows) \in Phone BY <3>1, Records
    <3> QED BY <3>1, <3>2 DEF Phone
  <2>2. phone' \in [Devices -> Phone]
    BY <1>4, <2>1 DEF RegisterSocket, TypeInv, TypeOK
  <2>3. UNCHANGED <<device, request, sms, changes, upsets, history>> BY <1>4 DEF RegisterSocket
  <2> QED BY <2>2, <2>3, OthersTyped DEF TypeInv, TypeOK, UnderWay, Present, history
<1>5. CASE SessionReady(d)
  <2>1. phone' = [phone EXCEPT ![d].shows = phone[d].saw, ![d].link = "ready"]
    BY <1>5 DEF SessionReady, Shows
  <2>2. phone' \in [Devices -> Phone]
    BY <2>1 DEF TypeInv, TypeOK, Phone
  <2>3. overtaken' \subseteq Devices BY <1>5 DEF SessionReady, Shows, TypeInv, TypeOK
  <2>4. UNCHANGED <<device, request, sms, changes, upsets, crossed, excused>>
    BY <1>5 DEF SessionReady
  <2> QED BY <2>2, <2>3, <2>4, OthersTyped DEF TypeInv, TypeOK, UnderWay, Present
<1>6. ASSUME NEW n \in Nodes, Authenticate(d, n) PROVE TypeInv'
  <2>1. phone' = [phone EXCEPT ![d].link = "authenticated", ![d].node = n,
                               ![d].saw = device[d].purpose]
    BY <1>6 DEF Authenticate
  <2>2. device[d].purpose \in Purpose BY DEF TypeInv, TypeOK, Device
  <2>3. phone' \in [Devices -> Phone]
    BY <2>1, <2>2 DEF TypeInv, TypeOK, Phone
  <2>4. UNCHANGED <<device, request, sms, changes, upsets, history>> BY <1>6 DEF Authenticate
  <2> QED BY <2>3, <2>4, OthersTyped DEF TypeInv, TypeOK, UnderWay, Present, history
<1> QED BY <1>2, <1>3, <1>4, <1>5, <1>6

LEMMA LoseSocketType ==
    ASSUME TypeInv, NEW d \in Devices, LoseSocket(d)
    PROVE  TypeInv'
<1>1. phone' \in [Devices -> Phone]
  BY Records DEF LoseSocket, TypeInv, TypeOK
<1>2. request' \in [Requests -> Request]
  BY AfterTellingType DEF LoseSocket, SocketGone, TypeInv, TypeOK
<1>3. UnderWay'
  BY DEF LoseSocket, SocketGone, AfterTelling, UnderWay, Idle, TypeInv, TypeOK, Request
<1>4. upsets' \in 0 .. MaxUpsets
  BY OwnershipAssumption DEF LoseSocket, Upset, TypeInv, TypeOK, OwnershipAssumption
<1>5. UNCHANGED <<device, sms, changes, history>> BY DEF LoseSocket
<1> QED BY <1>1, <1>2, <1>3, <1>4, <1>5, OthersTyped DEF TypeInv, TypeOK, Present, history

\* A request begins.
LEMMA AskType ==
    ASSUME TypeInv, NEW r \in Requests, Ask(r)
    PROVE  TypeInv'
<1>1. PICK d \in Devices, n \in Nodes, to \in Targets, removes \in BOOLEAN,
           step \in {"assigning", "closing"} : Begin(r, d, n, to, removes, step)
  <2>1. Unassigned \in Targets /\ Pool \in Targets /\ \A t \in Tenants : OfTenant(t) \in Targets
    BY DEF Targets
  <2> QED BY <2>1 DEF Ask, Claim, Release, AdminAssign, Destroy
<1> DEFINE q == [Idle EXCEPT !.step = step, !.on = d, !.node = n, !.saw = device[d].purpose,
                           !.to = to, !.removes = removes]
<1>2. request' = [request EXCEPT ![r] = q] BY <1>1 DEF Begin
<1>3. q \in Request /\ q.on = d /\ q.node = n /\ q.to = to
  <2>1. Idle \in Request BY Records
  <2>2. device[d].purpose \in Purpose BY DEF TypeInv, TypeOK, Device
  <2> QED BY <2>1, <2>2, TargetsArePurposes DEF Request, Steps
<1> HIDE DEF q
<1>4. request' \in [Requests -> Request] /\ UnderWay'
  BY <1>2, <1>3 DEF TypeInv, UnderWay, TypeOK
<1>5. changes' \in 0 .. MaxChanges
  BY <1>1, OwnershipAssumption DEF Begin, TypeInv, TypeOK, OwnershipAssumption
<1>6. UNCHANGED <<device, phone, sms, upsets, history>> BY <1>1 DEF Begin
<1> QED BY <1>4, <1>5, <1>6, OthersTyped DEF TypeInv, TypeOK, Present, history

LEMMA SavedType ==
    ASSUME NEW now \in Purpose, NEW saw \in Purpose, NEW to \in Purpose
    PROVE  Saved(now, saw, to) \in Purpose
BY DEF Saved, Purpose

\* A request goes on.
LEMMA CommitType ==
    ASSUME TypeInv, NEW r \in Requests, Commit(r)
    PROVE  TypeInv'
<1> USE DEF TypeInv
<1>1. request[r].on \in Devices BY DEF Commit, UnderWay
<1>2. device' \in [Devices -> Device] /\ \A d \in Devices : Present(d)' = Present(d)
  <2>1. Saved(device[request[r].on].purpose, request[r].saw, request[r].to) \in Purpose
    BY <1>1, SavedType DEF TypeOK, Device, Request
  <2> QED BY <1>1, <2>1 DEF Commit, TypeOK, Device, Present
<1>3. request' \in [Requests -> Request] /\ UnderWay'
  <2>1. request' = [request EXCEPT ![r] = [request[r] EXCEPT !.step = "logging"]]
    BY DEF Commit
  <2>2. request[r].step # "idle" BY DEF Commit
  <2>3. [request[r] EXCEPT !.step = "logging"] \in Request BY Records DEF TypeOK, Steps
  <2>4. UnderWay' BY <2>1, <2>2, <2>3 DEF TypeOK, UnderWay, Request
  <2> QED BY <2>1, <2>3, <2>4 DEF TypeOK
<1>4. sms' \in [Msgs -> Sms]
  BY Records DEF Commit, TypeOK
<1>5. ASSUME NEW m \in Msgs PROVE PinThere(m)'
  <2>1. PinThere(m) /\ sms[m] \in Sms BY DEF TypeOK, PinThere
  <2>2. sms'[m].pin = sms[m].pin
        /\ (sms'[m].status = sms[m].status \/ sms[m].status = "queued")
    BY <2>1 DEF Commit, Sms, Stranded
  <2> QED BY <1>2, <2>1, <2>2 DEF PinThere, Present, Sms
<1>6. excused' \subseteq Msgs /\ crossed' \subseteq Devices
  BY <1>1 DEF Commit, TypeOK, Unsettled
<1>7. UNCHANGED <<phone, changes, upsets, overtaken>> BY DEF Commit
<1> QED BY <1>2, <1>3, <1>4, <1>5, <1>6, <1>7 DEF TypeOK, PinThere

LEMMA TellingType ==
    ASSUME TypeInv, NEW r \in Requests, LogEvent(r) \/ Refresh(r) \/ Tell(r)
    PROVE  TypeInv'
<1> USE DEF TypeInv
<1>1. request[r].on \in Devices /\ request[r].node \in Nodes /\ request[r].to \in Targets
  BY DEF LogEvent, Refresh, Tell, UnderWay
<1>2. CASE LogEvent(r)
  <2>1. request' \in [Requests -> Request]
    BY <1>2, Records, AfterTellingType DEF LogEvent, TypeOK, Steps
  <2>2. UnderWay'
    BY <1>1, <1>2 DEF LogEvent, AfterTelling, UnderWay, TypeOK, Request, Idle
  <2>3. UNCHANGED <<device, phone, sms, changes, upsets, crossed, excused>> BY <1>2 DEF LogEvent
  <2>4. overtaken' \subseteq Devices BY <1>1, <1>2 DEF LogEvent, Passed, TypeOK
  <2> QED BY <2>1, <2>2, <2>3, <2>4, OthersTyped DEF TypeOK, Present
<1>3. CASE Refresh(r)
  <2>1. [request[r] EXCEPT !.step = "sending", !.tells = device[request[r].on].purpose] \in Request
    BY <1>1 DEF TypeOK, Request, Device, Steps
  <2>2. request' \in [Requests -> Request]
    BY <1>3, <2>1, Records, AfterTellingType DEF Refresh, TypeOK, Steps
  <2>3. UnderWay'
    BY <1>1, <1>3 DEF Refresh, AfterTelling, UnderWay, TypeOK, Request, Idle
  <2>4. UNCHANGED <<device, phone, sms, changes, upsets, crossed, excused>> BY <1>3 DEF Refresh
  <2>5. overtaken' \subseteq Devices BY <1>1, <1>3 DEF Refresh, Passed, TypeOK
  <2> QED BY <2>2, <2>3, <2>4, <2>5, OthersTyped DEF TypeOK, Present
<1>4. CASE Tell(r)
  <2>1. request' \in [Requests -> Request]
    BY <1>4, AfterTellingType DEF Tell, TypeOK
  <2>2. UnderWay'
    BY <1>1, <1>4 DEF Tell, AfterTelling, UnderWay, TypeOK, Request, Idle
  <2>3. phone' \in [Devices -> Phone]
    BY <1>1, <1>4 DEF Tell, Shows, TypeOK, Phone, Request
  <2>4. UNCHANGED <<device, sms, changes, upsets, crossed, excused>> BY <1>4 DEF Tell
  <2>5. overtaken' \subseteq Devices BY <1>1, <1>4 DEF Tell, Shows, TypeOK
  <2> QED BY <2>1, <2>2, <2>3, <2>4, <2>5, OthersTyped DEF TypeOK, Present
<1> QED BY <1>2, <1>3, <1>4

\* A device is removed.
LEMMA RemovalType ==
    ASSUME TypeInv, NEW r \in Requests, CloseSocket(r) \/ ForgetTokens(r) \/ DeleteRow(r)
    PROVE  TypeInv'
<1> USE DEF TypeInv, history
<1>1. request[r].on \in Devices /\ request[r].node \in Nodes /\ request[r].to \in Targets
  BY DEF CloseSocket, ForgetTokens, DeleteRow, UnderWay
<1>2. CASE CloseSocket(r)
  <2>1. request' \in [Requests -> Request]
    BY <1>2, Records, AfterTellingType DEF CloseSocket, TypeOK, Steps
  <2>2. UnderWay'
    BY <1>1, <1>2 DEF CloseSocket, AfterTelling, UnderWay, TypeOK, Request, Idle
  <2>3. phone' \in [Devices -> Phone]
    BY <1>1, <1>2, Records DEF CloseSocket, TypeOK
  <2>4. UNCHANGED <<device, sms, changes, upsets, history>> BY <1>2 DEF CloseSocket
  <2> QED BY <2>1, <2>2, <2>3, <2>4, OthersTyped DEF TypeOK, Present
<1>3. CASE ForgetTokens(r)
  <2>1. request' \in [Requests -> Request] /\ UnderWay'
    <3>1. request' = [request EXCEPT ![r] = [request[r] EXCEPT !.step = "deleting"]]
      BY <1>3 DEF ForgetTokens
    <3>2. [request[r] EXCEPT !.step = "deleting"] \in Request BY Records DEF TypeOK, Steps
    <3>3. UnderWay' BY <1>1, <3>1, <3>2 DEF TypeOK, UnderWay, Request
    <3> QED BY <3>1, <3>2, <3>3 DEF TypeOK
  <2>2. device' \in [Devices -> Device] /\ \A d \in Devices : Present(d)' = Present(d)
    BY <1>1, <1>3 DEF ForgetTokens, TypeOK, Device, Present
  <2>3. UNCHANGED <<phone, sms, changes, upsets, history>> BY <1>3 DEF ForgetTokens
  <2> QED BY <2>1, <2>2, <2>3, OthersTyped DEF TypeOK
<1>4. CASE DeleteRow(r)
  <2> DEFINE d == request[r].on
  <2>1. request' \in [Requests -> Request] /\ UnderWay'
    BY <1>4, Records DEF DeleteRow, UnderWay, TypeOK, Idle
  <2>2. device' \in [Devices -> Device] /\ \A e \in Devices \ {d} : Present(e)' = Present(e)
    BY <1>1, <1>4 DEF DeleteRow, TypeOK, Device, Present
  <2>3. sms' \in [Msgs -> Sms]
    BY <1>4, Records DEF DeleteRow, Unpinned, TypeOK
  <2>4. ASSUME NEW m \in Msgs PROVE PinThere(m)'
    <3>1. PinThere(m) /\ sms[m] \in Sms BY DEF TypeOK, PinThere
    <3>2. sms'[m] = IF sms[m].pin = d /\ sms[m].status # "resolved"
                    THEN [sms[m] EXCEPT !.pin = NoDevice] ELSE sms[m]
      BY <1>4 DEF DeleteRow, Unpinned
    <3>3. \A e \in Devices \ {d} : device'[e] = device[e]
      BY <1>4 DEF DeleteRow, TypeOK
    <3> QED BY <3>1, <3>2, <3>3 DEF PinThere, Present, Sms
  <2>5. UNCHANGED <<phone, changes, upsets, history>> BY <1>4 DEF DeleteRow
  <2> QED BY <2>1, <2>2, <2>3, <2>4, <2>5 DEF TypeOK, PinThere
<1> QED BY <1>2, <1>3, <1>4

\* Messages.
LEMMA MessageType ==
    ASSUME TypeInv, NEW m \in Msgs,
           \/ Insert(m) \/ HandBack(m) \/ ReportSent(m)
           \/ \E d \in Devices \union {NoDevice} : Resolve(m, d)
           \/ \E d \in Devices : Carry(m, d)
    PROVE  TypeInv'
<1>1. UNCHANGED <<device, phone, request, changes, history>>
  BY DEF Insert, HandBack, ReportSent, Resolve, Carry
<1>2. upsets' \in 0 .. MaxUpsets
  <2>1. upsets' = upsets \/ Upset BY DEF Insert, HandBack, ReportSent, Resolve, Carry
  <2>2. upsets \in 0 .. MaxUpsets BY DEF TypeInv, TypeOK
  <2> QED BY <2>1, <2>2, OwnershipAssumption DEF Upset, OwnershipAssumption
<1>3. ASSUME NEW row \in Sms, sms' = [sms EXCEPT ![m] = row],
             row.status \in {"queued", "carried", "sent", "failed"} /\ row.pin # NoDevice
                 => Present(row.pin)
      PROVE  TypeInv'
  <2>1. sms' \in [Msgs -> Sms] BY <1>3 DEF TypeInv, TypeOK
  <2>2. ASSUME NEW k \in Msgs PROVE PinThere(k)'
    BY <1>1, <1>3 DEF TypeInv, TypeOK, PinThere, Present
  <2> QED BY <1>1, <1>2, <2>1, <2>2 DEF TypeInv, TypeOK, UnderWay, PinThere, history
<1>4. sms[m] \in Sms /\ PinThere(m) BY DEF TypeInv, TypeOK, PinThere
<1>5. CASE Insert(m)
  <2> DEFINE row == [sms[m] EXCEPT !.status =
                 IF sms[m].pin = NoDevice \/ Present(sms[m].pin) THEN "queued" ELSE "refused"]
  <2>1. sms' = [sms EXCEPT ![m] = row] BY <1>5 DEF Insert
  <2>2. row \in Sms BY <1>4 DEF Sms
  <2>3. row.status \in {"queued", "carried", "sent", "failed"} /\ row.pin # NoDevice
          => Present(row.pin)
    BY <1>4 DEF Sms
  <2> QED BY <1>3, <2>1, <2>2, <2>3
<1>6. CASE HandBack(m)
  <2> DEFINE row == [sms[m] EXCEPT !.status = "queued", !.on = NoDevice]
  <2>1. sms' = [sms EXCEPT ![m] = row] BY <1>6 DEF HandBack
  <2>2. row \in Sms BY <1>4 DEF Sms
  <2>3. row.pin # NoDevice => Present(row.pin) BY <1>4, <1>6 DEF HandBack, PinThere, Sms
  <2> QED BY <1>3, <2>1, <2>2, <2>3
<1>7. CASE ReportSent(m)
  <2> DEFINE row == [sms[m] EXCEPT !.status = "sent"]
  <2>1. sms' = [sms EXCEPT ![m] = row] BY <1>7 DEF ReportSent
  <2>2. row \in Sms BY <1>4 DEF Sms
  <2>3. row.pin # NoDevice => Present(row.pin) BY <1>4, <1>7 DEF ReportSent, PinThere, Sms
  <2> QED BY <1>3, <2>1, <2>2, <2>3
<1>8. ASSUME NEW d \in Devices \union {NoDevice}, Resolve(m, d) PROVE TypeInv'
  <2> DEFINE row == [sms[m] EXCEPT !.status = "resolved", !.named = d, !.pin = d]
  <2>1. sms' = [sms EXCEPT ![m] = row] BY <1>8 DEF Resolve
  <2>2. row \in Sms /\ row.status = "resolved" BY <1>4 DEF Sms
  <2> QED BY <1>3, <2>1, <2>2
<1>9. ASSUME NEW d \in Devices, Carry(m, d) PROVE TypeInv'
  <2> DEFINE row == [sms[m] EXCEPT !.status = "carried", !.on = d]
  <2>1. sms' = [sms EXCEPT ![m] = row] BY <1>9 DEF Carry
  <2>2. row \in Sms BY <1>4 DEF Sms
  <2>3. row.pin # NoDevice => Present(row.pin) BY <1>4, <1>9 DEF Carry, PinThere, Sms
  <2> QED BY <1>3, <2>1, <2>2, <2>3
<1> QED BY <1>5, <1>6, <1>7, <1>8, <1>9

LEMMA TypeStep == TypeInv /\ [Next]_vars => TypeInv'
<1> SUFFICES ASSUME TypeInv, [Next]_vars PROVE TypeInv'
  OBVIOUS
<1>1. CASE UNCHANGED vars
  BY <1>1 DEF vars, history, TypeInv, TypeOK, UnderWay, Present
<1>2. ASSUME NEW r \in Requests, Ask(r) \/ Serve(r) PROVE TypeInv'
  BY <1>2, AskType, CommitType, TellingType, RemovalType DEF Serve
<1> QED BY <1>1, <1>2, PhoneType, LoseSocketType, MessageType DEF Next

\* The rows of devices, requests and messages are well typed, and a message
\* that waits, is carried or done with names no device that has gone, whatever
\* requests, sockets and removals do (gateway_assignment.ts, gateway_service.ts).
THEOREM AlwaysTyped == Spec => []TypeOK
<1>1. TypeInv => TypeOK BY DEF TypeInv
<1> QED BY <1>1, TypeInit, TypeStep, PTL DEF Spec


-----------------------------------------------------------------------------
(* The two columns that say whose a device is. *)

\* The tenant is given exactly when the device is one's own.
Exact(purpose) == (purpose.assignment = "tenant") = (purpose.tenant # NoTenant)

LEMMA TargetsExact == \A to \in Targets : Exact(to)
BY OwnershipAssumption DEF Targets, Exact, Unassigned, Pool, OfTenant, OwnershipAssumption

\* A request that had read the row as it is makes of it what it meant to.
LEMMA SavedAsMeant ==
    ASSUME NEW now \in Purpose, NEW to \in Purpose
    PROVE  Saved(now, now, to) = to
BY DEF Saved, Purpose

LEMMA PurposesKept ==
    ASSUME TypeInv, [Next]_vars, NEW d \in Devices,
           \A r \in Requests : ~(Commit(r) /\ request[r].on = d)
    PROVE  device'[d].purpose = device[d].purpose
<1>1. CASE UNCHANGED device BY <1>1
<1>2. ASSUME NEW e \in Devices, Register(e) \/ IssueToken(e) PROVE device'[d].purpose = device[d].purpose
  BY <1>2 DEF Register, IssueToken, TypeInv, TypeOK, Device
<1>3. ASSUME NEW r \in Requests, ForgetTokens(r) \/ DeleteRow(r)
      PROVE  device'[d].purpose = device[d].purpose
  BY <1>3 DEF ForgetTokens, DeleteRow, TypeInv, TypeOK, Device
<1>4. ASSUME NEW r \in Requests, Commit(r) PROVE device'[d].purpose = device[d].purpose
  <2>1. request[r].on \in Devices \ {d} BY <1>4 DEF Commit, TypeInv, UnderWay
  <2> QED BY <1>4, <2>1 DEF Commit, TypeInv, TypeOK
<1>5. ASSUME NEW r \in Requests, Ask(r) \/ LogEvent(r) \/ Refresh(r) \/ Tell(r) \/ CloseSocket(r)
      PROVE  UNCHANGED device
  BY <1>5 DEF Ask, Claim, Release, AdminAssign, Destroy, Begin, LogEvent, Refresh, Tell, CloseSocket
<1>6. ASSUME NEW e \in Devices,
             \/ RegisterSocket(e) \/ SessionReady(e) \/ LoseSocket(e)
             \/ \E n \in Nodes : Authenticate(e, n)
      PROVE  UNCHANGED device
  BY <1>6 DEF RegisterSocket, SessionReady, LoseSocket, Authenticate
<1>7. ASSUME NEW m \in Msgs,
             \/ Insert(m) \/ HandBack(m) \/ ReportSent(m)
             \/ \E e \in Devices \union {NoDevice} : Resolve(m, e)
             \/ \E e \in Devices : Carry(m, e)
      PROVE  UNCHANGED device
  BY <1>7 DEF Insert, HandBack, ReportSent, Resolve, Carry
<1> QED BY <1>1, <1>2, <1>3, <1>4, <1>5, <1>6, <1>7 DEF Next, Serve, vars

LEMMA CrossedKept == TypeInv /\ [Next]_vars => crossed \subseteq crossed'
<1> SUFFICES ASSUME TypeInv, [Next]_vars PROVE crossed \subseteq crossed'
  OBVIOUS
<1>1. ASSUME NEW r \in Requests, Ask(r) PROVE UNCHANGED crossed
  BY <1>1 DEF Ask, Claim, Release, AdminAssign, Destroy, Begin, history
<1>2. ASSUME NEW r \in Requests, Serve(r) PROVE crossed \subseteq crossed'
  BY <1>2 DEF Serve, Commit, LogEvent, Refresh, Tell, CloseSocket, ForgetTokens, DeleteRow, history
<1>3. ASSUME NEW e \in Devices,
             \/ Register(e) \/ IssueToken(e) \/ RegisterSocket(e) \/ SessionReady(e) \/ LoseSocket(e)
             \/ \E n \in Nodes : Authenticate(e, n)
      PROVE  UNCHANGED crossed
  BY <1>3 DEF Register, IssueToken, RegisterSocket, SessionReady, LoseSocket, Authenticate, history
<1>4. ASSUME NEW m \in Msgs,
             \/ Insert(m) \/ HandBack(m) \/ ReportSent(m)
             \/ \E e \in Devices \union {NoDevice} : Resolve(m, e)
             \/ \E e \in Devices : Carry(m, e)
      PROVE  UNCHANGED crossed
  BY <1>4 DEF Insert, HandBack, ReportSent, Resolve, Carry, history
<1> QED BY <1>1, <1>2, <1>3, <1>4 DEF Next, vars, history

LEMMA ExactStep == TypeInv /\ TenantExact /\ [Next]_vars => TenantExact'
<1> SUFFICES ASSUME TypeInv, TenantExact, [Next]_vars, NEW d \in Devices, d \notin crossed'
             PROVE  Exact(device'[d].purpose)
  BY DEF TenantExact, Exact
<1>1. d \notin crossed /\ Exact(device[d].purpose) BY CrossedKept DEF TenantExact, Exact
<1>2. CASE \A r \in Requests : ~(Commit(r) /\ request[r].on = d)
  BY <1>1, <1>2, PurposesKept
<1>3. ASSUME NEW r \in Requests, Commit(r), request[r].on = d PROVE Exact(device'[d].purpose)
  <2>1. request[r].saw = device[d].purpose BY <1>3 DEF Commit
  <2>2. request[r].to \in Targets BY <1>3 DEF Commit, TypeInv, UnderWay
  <2>3. device[d].purpose \in Purpose /\ request[r].to \in Purpose
    BY <2>2, TargetsArePurposes DEF TypeInv, TypeOK, Device
  <2>4. Saved(device[d].purpose, request[r].saw, request[r].to) = request[r].to
    BY <2>1, <2>3, SavedAsMeant
  <2>5. device'[d].purpose = request[r].to \/ device' = device
    BY <1>3, <2>4 DEF Commit, TypeInv, TypeOK, Device
  <2> QED BY <1>1, <2>2, <2>5, TargetsExact
<1> QED BY <1>2, <1>3

\* The tenant of a device is given exactly when the device is a tenant's own,
\* however requests to change it are interleaved, unless one was made from an
\* older row (gateway_assignment.ts).
THEOREM TenantsStayExact == Spec => []TenantExact
<1>1. Init => TenantExact
  BY DEF Init, TenantExact, Unassigned
<1> QED BY <1>1, TypeInit, TypeStep, ExactStep, PTL DEF Spec


-----------------------------------------------------------------------------
(* Messages that name a device which was taken away. *)

\* On its way as well as waiting: a message that is handed back, or written
\* late, waits again with the device it named.
StrandedNow(m) ==
    /\ sms[m].status \in {"resolved", "queued", "carried"}
    /\ sms[m].pin # NoDevice
    /\ ~MayUse(sms[m].pin, TenantOf[m])

SettledInv == \A m \in Msgs : StrandedNow(m) => m \in excused

\* What changes no device strands no message, unless the message names it now.
LEMMA SettledFrame ==
    ASSUME TypeInv, SettledInv, NEW m \in Msgs, excused \subseteq excused',
           sms'[m].status \in {"resolved", "queued", "carried"} =>
               sms[m].status \in {"resolved", "queued", "carried"},
           sms'[m].pin \in {sms[m].pin, NoDevice},
           \A d \in Devices : device'[d].purpose = device[d].purpose
    PROVE  StrandedNow(m)' => m \in excused'
<1>1. sms[m].pin \in Devices \union {NoDevice} BY DEF TypeInv, TypeOK, Sms
<1> QED BY <1>1 DEF SettledInv, StrandedNow, MayUse

LEMMA SettledCommit ==
    ASSUME TypeInv, SettledInv, NEW r \in Requests, Commit(r), NEW m \in Msgs
    PROVE  StrandedNow(m)' => m \in excused'
<1> DEFINE d == request[r].on
           t == TenantOf[m]
           to == request[r].to
<1> SUFFICES ASSUME StrandedNow(m)', m \notin excused' PROVE FALSE
  OBVIOUS
<1>1. d \in Devices /\ to \in Targets /\ t \in Tenants
  BY OwnershipAssumption DEF Commit, TypeInv, UnderWay, OwnershipAssumption
<1>2. sms[m] \in Sms /\ device[d] \in Device BY <1>1 DEF TypeInv, TypeOK
<1>3. sms'[m] = IF m \in Stranded(r) THEN [sms[m] EXCEPT !.status = "failed"] ELSE sms[m]
  BY DEF Commit
<1>4. m \notin Stranded(r) /\ sms'[m] = sms[m]
  BY <1>2, <1>3 DEF StrandedNow, Sms
<1>5. m \notin excused /\ m \notin Unsettled(r) BY DEF Commit
<1>6. MayUse(sms[m].pin, t) /\ sms[m].pin \in Devices
  BY <1>2, <1>4, <1>5 DEF SettledInv, StrandedNow, Sms
<1>7. CASE sms[m].pin # d
  <2>1. device'[sms[m].pin] = device[sms[m].pin] BY <1>6, <1>7 DEF Commit
  <2> QED BY <1>4, <1>6, <2>1 DEF StrandedNow, MayUse
<1>8. CASE sms[m].pin = d
  <2>1. /\ sms[m].status = "queued"
        /\ request[r].saw.assignment # "pool" /\ request[r].saw = device[d].purpose
    BY <1>4, <1>5, <1>8 DEF Unsettled, StrandedNow
  <2>2. device[d].purpose = OfTenant(t) BY <1>6, <1>8, <2>1 DEF MayUse
  <2>3. Previous(r) = t /\ t # NoTenant
    BY <1>1, <2>1, <2>2, OwnershipAssumption DEF Previous, OfTenant, OwnershipAssumption
  <2>4. to.tenant = t BY <1>4, <1>8, <2>1, <2>3 DEF Stranded
  <2>5. to = OfTenant(t)
    BY <1>1, <2>3, <2>4 DEF Targets, Unassigned, Pool, OfTenant
  <2>6. Saved(device[d].purpose, request[r].saw, to) = to
    <3>1. device[d].purpose \in Purpose /\ to \in Purpose
      BY <1>1, <1>2, TargetsArePurposes DEF Device
    <3> QED BY <2>1, <3>1, SavedAsMeant
  <2>7. device'[d].purpose = OfTenant(t)
    <3>1. CASE Present(d)
      <4>1. device' = [device EXCEPT ![d].purpose = to] BY <2>6, <3>1 DEF Commit
      <4>2. device'[d] = [device[d] EXCEPT !.purpose = to] BY <1>1, <4>1 DEF TypeInv, TypeOK
      <4> QED BY <1>2, <2>5, <4>2 DEF Device
    <3>2. CASE ~Present(d) BY <2>2, <3>2 DEF Commit
    <3> QED BY <3>1, <3>2
  <2> QED BY <1>4, <1>8, <2>7 DEF StrandedNow, MayUse
<1> QED BY <1>7, <1>8

LEMMA SettledMessages ==
    ASSUME TypeInv, SettledInv, NEW m \in Msgs, NEW k \in Msgs,
           \/ Insert(k) \/ HandBack(k) \/ ReportSent(k)
           \/ \E d \in Devices \union {NoDevice} : Resolve(k, d)
           \/ \E d \in Devices : Carry(k, d)
    PROVE  StrandedNow(m)' => m \in excused'
<1>1. UNCHANGED <<device, excused>>
  BY DEF Insert, HandBack, ReportSent, Resolve, Carry, history
<1>2. sms[m] \in Sms BY DEF TypeInv, TypeOK
<1>3. CASE \E d \in Devices \union {NoDevice} : Resolve(k, d)
  <2>1. PICK d \in Devices \union {NoDevice} : Resolve(k, d) BY <1>3
  <2>2. CASE m = k
    <3>1. sms'[m] = [sms[m] EXCEPT !.status = "resolved", !.named = d, !.pin = d]
      BY <2>1, <2>2 DEF Resolve, TypeInv, TypeOK
    <3>2. sms'[m].pin = d BY <1>2, <3>1 DEF Sms
    <3>3. d # NoDevice => MayUse(d, TenantOf[m]) BY <2>1, <2>2 DEF Resolve
    <3> QED BY <1>1, <3>2, <3>3 DEF StrandedNow, MayUse
  <2>3. CASE m # k
    <3>1. sms'[m] = sms[m] BY <2>1, <2>3 DEF Resolve, TypeInv, TypeOK
    <3> QED BY <1>1, <3>1, SettledFrame
  <2> QED BY <2>2, <2>3
<1>4. CASE Insert(k) \/ HandBack(k) \/ ReportSent(k) \/ \E d \in Devices : Carry(k, d)
  <2>1. sms[k].status \in {"resolved", "queued", "carried"}
    BY <1>4 DEF Insert, HandBack, ReportSent, Carry
  <2>2. sms'[m].pin = sms[m].pin
    BY <1>2, <1>4 DEF Insert, HandBack, ReportSent, Carry, Sms, TypeInv, TypeOK
  <2>3. m # k => sms'[m] = sms[m]
    BY <1>4 DEF Insert, HandBack, ReportSent, Carry, TypeInv, TypeOK
  <2> QED BY <1>1, <2>1, <2>2, <2>3, SettledFrame
<1> QED BY <1>3, <1>4

LEMMA SettledStep == TypeInv /\ SettledInv /\ [Next]_vars => SettledInv'
<1> SUFFICES ASSUME TypeInv, SettledInv, [Next]_vars, NEW m \in Msgs
             PROVE  StrandedNow(m)' => m \in excused'
  BY DEF SettledInv
<1>1. ASSUME UNCHANGED <<sms, excused>>, \A r \in Requests : ~Commit(r)
      PROVE  StrandedNow(m)' => m \in excused'
  BY <1>1, PurposesKept, SettledFrame
<1>2. ASSUME NEW r \in Requests, DeleteRow(r), \A q \in Requests : ~Commit(q)
      PROVE  StrandedNow(m)' => m \in excused'
  <2>1. sms[m] \in Sms BY DEF TypeInv, TypeOK
  <2>2. UNCHANGED excused BY <1>2 DEF DeleteRow, history
  <2>3. sms'[m].status = sms[m].status /\ sms'[m].pin \in {sms[m].pin, NoDevice}
    BY <1>2, <2>1 DEF DeleteRow, Unpinned, Sms
  <2> QED BY <1>2, <2>2, <2>3, PurposesKept, SettledFrame
<1>3. ASSUME NEW r \in Requests,
             Ask(r) \/ LogEvent(r) \/ Refresh(r) \/ Tell(r) \/ CloseSocket(r) \/ ForgetTokens(r)
      PROVE  UNCHANGED <<sms, excused>>
  BY <1>3 DEF Ask, Claim, Release, AdminAssign, Destroy, Begin, LogEvent, Refresh, Tell,
              CloseSocket, ForgetTokens, history
<1>4. ASSUME NEW d \in Devices,
             \/ Register(d) \/ IssueToken(d) \/ RegisterSocket(d) \/ SessionReady(d) \/ LoseSocket(d)
             \/ \E n \in Nodes : Authenticate(d, n)
      PROVE  UNCHANGED <<sms, excused>>
  BY <1>4 DEF Register, IssueToken, RegisterSocket, SessionReady, LoseSocket, Authenticate, history
<1>5. CASE \E r \in Requests : Commit(r) BY <1>5, SettledCommit
<1>6. CASE \A r \in Requests : ~Commit(r)
  <2>1. CASE UNCHANGED vars BY <1>1, <1>6, <2>1 DEF vars, history
  <2> QED BY <1>1, <1>2, <1>3, <1>4, <1>6, <2>1, SettledMessages DEF Next, Serve
<1> QED BY <1>5, <1>6

\* No message waits for a device its tenant may no longer use, for however many
\* tenants, devices and concurrent changes, but those a change could not settle
\* (GatewayAssignmentService.assign, QueueService).
THEOREM MessagesSettled == Spec => []NoneStranded
<1>1. Init => SettledInv
  BY DEF Init, SettledInv, StrandedNow
<1>2. SettledInv => NoneStranded
  BY DEF SettledInv, StrandedNow, NoneStranded
<1> QED BY <1>1, <1>2, TypeInit, TypeStep, SettledStep, PTL DEF Spec


-----------------------------------------------------------------------------
(* What a phone shows. *)

\* A request that has changed the device is going to tell the phone of the row,
\* or has the row as it is in the frame it is sending.
Tells(r, d) ==
    /\ request[r].on = d
    /\ \/ request[r].step \in {"logging", "telling"}
       \/ request[r].step = "sending" /\ request[r].tells = device[d].purpose

\* A device's phone shows what the device is for, or is about to.
Told(d) ==
    d \notin overtaken /\ Present(d) /\ phone[d].link = "ready"
        => phone[d].shows = device[d].purpose \/ \E r \in Requests : Tells(r, d)

\* A device that has not registered has no socket.
Unborn(d) == device[d].state = "absent" => phone[d].link = "off"

ToldInv == \A d \in Devices : Told(d) /\ Unborn(d)

\* A step that leaves the row of a device and its phone alone, and takes away
\* no request that is going to tell it.
LEMMA ToldFrame ==
    ASSUME NEW d \in Devices, Told(d), Unborn(d),
           device'[d] = device[d], phone'[d] = phone[d],
           d \in overtaken => d \in overtaken',
           \A r \in Requests : Tells(r, d) => Tells(r, d)'
    PROVE  Told(d)' /\ Unborn(d)'
BY DEF Told, Unborn, Present

LEMMA ToldPhone ==
    ASSUME TypeInv, ToldInv, NEW d \in Devices, NEW e \in Devices,
           \/ Register(e) \/ IssueToken(e) \/ RegisterSocket(e) \/ SessionReady(e) \/ LoseSocket(e)
           \/ \E n \in Nodes : Authenticate(e, n)
    PROVE  Told(d)' /\ Unborn(d)'
<1>1. Told(d) /\ Unborn(d) BY DEF ToldInv
<1>2. device[d] \in Device /\ phone[d] \in Phone BY DEF TypeInv, TypeOK
<1>3. CASE d # e
  <2>1. device'[d] = device[d] /\ phone'[d] = phone[d]
    BY <1>3 DEF Register, IssueToken, RegisterSocket, SessionReady, Shows, LoseSocket,
                Authenticate, TypeInv, TypeOK
  <2>2. d \in overtaken => d \in overtaken'
    BY <1>3 DEF Register, IssueToken, RegisterSocket, SessionReady, Shows, LoseSocket,
                Authenticate, history
  <2>3. ASSUME NEW r \in Requests, request[r].on = d PROVE request'[r] = request[r]
    BY <1>3, <2>3 DEF Register, IssueToken, RegisterSocket, SessionReady, LoseSocket, SocketGone,
                      Authenticate
  <2>4. \A r \in Requests : Tells(r, d) => Tells(r, d)' BY <2>1, <2>3 DEF Tells
  <2> QED BY <1>1, <2>1, <2>2, <2>4, ToldFrame
<1>4. CASE d = e /\ (Register(d) \/ IssueToken(d))
  <2>1. UNCHANGED <<phone, request, overtaken>> BY <1>4 DEF Register, IssueToken, history
  <2>2. device'[d].purpose = device[d].purpose
    BY <1>2, <1>4 DEF Register, IssueToken, TypeInv, TypeOK, Device
  <2>3. device'[d].state = "present" BY <1>2, <1>4 DEF Register, IssueToken, Present, Device, TypeInv, TypeOK
  <2>4. device[d].state = "present" \/ phone[d].link = "off"
    BY <1>1, <1>4 DEF Register, IssueToken, Unborn, Present
  <2> QED BY <1>1, <2>1, <2>2, <2>3, <2>4 DEF Told, Tells, Unborn, Present
<1>5. CASE d = e /\ (RegisterSocket(d) \/ LoseSocket(d) \/ \E n \in Nodes : Authenticate(d, n))
  <2>1. device' = device /\ phone'[d].link \in {"off", "authenticated", "registered"}
    <3>1. phone \in [Devices -> Phone] BY DEF TypeInv, TypeOK
    <3>2. CASE RegisterSocket(d)
      <4>1. phone'[d] = IF Present(d) THEN [phone[d] EXCEPT !.link = "registered"]
                        ELSE Off(phone[d].shows)
        BY <3>1, <3>2 DEF RegisterSocket
      <4>2. [phone[d] EXCEPT !.link = "registered"].link = "registered" BY <1>2 DEF Phone
      <4> QED BY <3>2, <4>1, <4>2 DEF RegisterSocket, Off
    <3>3. CASE LoseSocket(d) BY <3>1, <3>3 DEF LoseSocket, Off
    <3>4. ASSUME NEW n \in Nodes, Authenticate(d, n)
          PROVE  device' = device /\ phone'[d].link = "authenticated"
      <4>1. phone' = [phone EXCEPT ![d].link = "authenticated", ![d].node = n,
                                   ![d].saw = device[d].purpose]
        BY <3>4 DEF Authenticate
      <4>2. device' = device BY <3>4 DEF Authenticate
      <4> QED BY <1>2, <3>1, <4>1, <4>2 DEF Phone
    <3> QED BY <1>5, <3>2, <3>3, <3>4
  <2>2. device[d].state # "absent"
    BY <1>1, <1>5 DEF RegisterSocket, LoseSocket, Authenticate, Unborn, Present
  <2> QED BY <2>1, <2>2 DEF Told, Unborn
<1>6. CASE d = e /\ SessionReady(d)
  <2>1. device' = device /\ phone'[d].shows = phone[d].saw
    BY <1>2, <1>6 DEF SessionReady, Shows, TypeInv, TypeOK, Phone
  <2>2. device[d].state # "absent" BY <1>1, <1>6 DEF SessionReady, Unborn
  <2>3. d \notin overtaken' => phone[d].saw = device[d].purpose BY <1>6 DEF SessionReady, Shows
  <2> QED BY <2>1, <2>2, <2>3 DEF Told, Unborn
<1> QED BY <1>3, <1>4, <1>5, <1>6

\* A request that is not going to tell a device's phone, and becomes none of
\* those that will, is no loss to the phone.
LEMMA ToldAsk ==
    ASSUME TypeInv, ToldInv, NEW d \in Devices, NEW r \in Requests,
           Ask(r) \/ ForgetTokens(r) \/ DeleteRow(r)
    PROVE  Told(d)' /\ Unborn(d)'
<1>1. Told(d) /\ Unborn(d) /\ device[d] \in Device BY DEF ToldInv, TypeInv, TypeOK
<1>2. UNCHANGED <<phone, overtaken>>
  BY DEF Ask, Claim, Release, AdminAssign, Destroy, Begin, ForgetTokens, DeleteRow, history
<1>3. request[r].step \in {"idle", "forgetting", "deleting"}
  <2>1. Ask(r) => request[r] = Idle BY DEF Ask, Claim, Release, AdminAssign, Destroy, Begin
  <2> QED BY <2>1 DEF ForgetTokens, DeleteRow, Idle
<1>4. \A q \in Requests \ {r} : request'[q] = request[q]
  BY DEF Ask, Claim, Release, AdminAssign, Destroy, Begin, ForgetTokens, DeleteRow, TypeInv, TypeOK
<1>5. /\ device'[d].purpose = device[d].purpose
      /\ device'[d].state = device[d].state \/ device'[d].state = "gone"
  <2>1. CASE Ask(r)
    <3>1. UNCHANGED device BY <2>1 DEF Ask, Claim, Release, AdminAssign, Destroy, Begin
    <3> QED BY <3>1
  <2>2. CASE ForgetTokens(r)
    <3>1. device' = [device EXCEPT ![request[r].on].token = FALSE] BY <2>2 DEF ForgetTokens
    <3> QED BY <1>1, <3>1 DEF Device, TypeInv, TypeOK
  <2>3. CASE DeleteRow(r)
    <3>1. device' = [device EXCEPT ![request[r].on].state = "gone"] BY <2>3 DEF DeleteRow
    <3> QED BY <1>1, <3>1 DEF Device, TypeInv, TypeOK
  <2> QED BY <2>1, <2>2, <2>3
<1>6. \A q \in Requests : Tells(q, d) => Tells(q, d)'
  BY <1>3, <1>4, <1>5 DEF Tells
<1> QED BY <1>1, <1>2, <1>5, <1>6 DEF Told, Unborn, Present

\* The steps that follow a change.
LEMMA ToldServe ==
    ASSUME TypeInv, ToldInv, NEW d \in Devices, NEW r \in Requests,
           Commit(r) \/ LogEvent(r) \/ Refresh(r) \/ Tell(r) \/ CloseSocket(r)
    PROVE  Told(d)' /\ Unborn(d)'
<1> DEFINE e == request[r].on
<1>1. e \in Devices /\ request[r].node \in Nodes
  BY DEF Commit, LogEvent, Refresh, Tell, CloseSocket, TypeInv, UnderWay
<1>2. Told(d) /\ Unborn(d) /\ device[d] \in Device /\ phone[d] \in Phone /\ request[r] \in Request
  BY DEF ToldInv, TypeInv, TypeOK
<1>3. CASE d # e
  <2>1. device'[d] = device[d] /\ phone'[d] = phone[d]
    BY <1>1, <1>3 DEF Commit, LogEvent, Refresh, Tell, Shows, CloseSocket, TypeInv, TypeOK
  <2>2. d \in overtaken => d \in overtaken'
    BY <1>3 DEF Commit, LogEvent, Refresh, Passed, Tell, Shows, CloseSocket, history
  <2>3. ASSUME NEW q \in Requests, request[q].on = d PROVE request'[q] = request[q]
    <3>1. q # r BY <1>3, <2>3
    <3>2. CASE CloseSocket(r) BY <1>3, <2>3, <3>1, <3>2 DEF CloseSocket
    <3>3. CASE Commit(r) \/ LogEvent(r) \/ Refresh(r) \/ Tell(r)
      BY <3>1, <3>3 DEF Commit, LogEvent, Refresh, Tell, TypeInv, TypeOK
    <3> QED BY <3>2, <3>3
  <2>4. \A q \in Requests : Tells(q, d) => Tells(q, d)' BY <2>1, <2>3 DEF Tells
  <2> QED BY <1>2, <2>1, <2>2, <2>4, ToldFrame
<1>4. CASE d = e /\ Commit(r)
  <2>1. request'[r] = [request[r] EXCEPT !.step = "logging"] BY <1>4 DEF Commit, TypeInv, TypeOK
  <2>2. Tells(r, d)' BY <1>2, <1>4, <2>1 DEF Tells, Request
  <2>3. UNCHANGED phone /\ device'[d].state = device[d].state
    <3>1. \/ UNCHANGED device
          \/ device' = [device EXCEPT ![d].purpose =
                          Saved(device[d].purpose, request[r].saw, request[r].to)]
      BY <1>4 DEF Commit
    <3>2. UNCHANGED phone BY <1>4 DEF Commit
    <3> QED BY <1>2, <3>1, <3>2 DEF Device, TypeInv, TypeOK
  <2> QED BY <1>2, <2>2, <2>3 DEF Told, Unborn
<1>5. CASE d = e /\ (LogEvent(r) \/ Refresh(r))
  <2>1. UNCHANGED <<device, phone>> /\ overtaken' = Passed(r) BY <1>5 DEF LogEvent, Refresh
  <2>2. \A q \in Requests \ {r} : Tells(q, d) => Tells(q, d)'
    <3>1. \A q \in Requests \ {r} : request'[q] = request[q]
      BY <1>5 DEF LogEvent, Refresh, TypeInv, TypeOK
    <3> QED BY <2>1, <3>1 DEF Tells
  <2>3. ASSUME d \notin overtaken', Present(d), phone[d].link = "ready" PROVE Tells(r, d)'
    <3>1. Connected(d, request[r].node) BY <1>5, <2>1, <2>3 DEF Passed, Connected
    <3>2. \/ request'[r] = [request[r] EXCEPT !.step = "telling"]
          \/ request'[r] = [request[r] EXCEPT !.step = "sending", !.tells = device[d].purpose]
      BY <1>5, <2>3, <3>1 DEF LogEvent, Refresh, TypeInv, TypeOK
    <3> QED BY <1>2, <1>5, <2>1, <3>2 DEF Tells, Request
  <2> QED BY <1>2, <2>1, <2>3 DEF Told, Unborn, Present
<1>6. CASE d = e /\ Tell(r)
  <2>1. Shows(d, request[r].tells, phone[d].link) /\ UNCHANGED device BY <1>6 DEF Tell
  <2>2. phone'[d].shows = request[r].tells /\ phone'[d].link = phone[d].link
    BY <1>2, <2>1 DEF Shows, TypeInv, TypeOK, Phone
  <2>3. d \notin overtaken' => request[r].tells = device[d].purpose BY <2>1 DEF Shows
  <2> QED BY <1>2, <2>1, <2>2, <2>3 DEF Told, Unborn
<1>7. CASE d = e /\ CloseSocket(r)
  <2>1. UNCHANGED <<device, overtaken>> BY <1>7 DEF CloseSocket, history
  <2>2. CASE Connected(d, request[r].node)
    <3>1. phone'[d] = Off(phone[d].shows) BY <1>7, <2>2 DEF CloseSocket, TypeInv, TypeOK
    <3> QED BY <3>1 DEF Told, Unborn, Off
  <2>3. CASE ~Connected(d, request[r].node)
    <3>1. phone' = phone BY <1>7, <2>3 DEF CloseSocket
    <3>2. request' = [x \in Requests |-> IF x = r THEN [request[r] EXCEPT !.step = "forgetting"]
                                         ELSE request[x]]
      BY <1>7, <2>3 DEF CloseSocket
    <3>3. request[r].step = "closing" BY <1>7 DEF CloseSocket
    <3>4. \A q \in Requests : Tells(q, d) => Tells(q, d)' BY <2>1, <3>2, <3>3 DEF Tells
    <3> QED BY <1>2, <2>1, <3>1, <3>4, ToldFrame
  <2> QED BY <2>2, <2>3
<1> QED BY <1>3, <1>4, <1>5, <1>6, <1>7

LEMMA ToldStep == TypeInv /\ ToldInv /\ [Next]_vars => ToldInv'
<1> SUFFICES ASSUME TypeInv, ToldInv, [Next]_vars, NEW d \in Devices
             PROVE  Told(d)' /\ Unborn(d)'
  BY DEF ToldInv
<1>1. ASSUME NEW r \in Requests, Ask(r) \/ Serve(r) PROVE Told(d)' /\ Unborn(d)'
  BY <1>1, ToldAsk, ToldServe DEF Serve
<1>2. ASSUME UNCHANGED <<device, phone, request, overtaken>> PROVE Told(d)' /\ Unborn(d)'
  BY <1>2 DEF ToldInv, Told, Tells, Unborn, Present
<1>3. ASSUME NEW m \in Msgs,
             \/ Insert(m) \/ HandBack(m) \/ ReportSent(m)
             \/ \E e \in Devices \union {NoDevice} : Resolve(m, e)
             \/ \E e \in Devices : Carry(m, e)
      PROVE  UNCHANGED <<device, phone, request, overtaken>>
  BY <1>3 DEF Insert, HandBack, ReportSent, Resolve, Carry, history
<1>4. CASE UNCHANGED vars BY <1>2, <1>4 DEF vars, history
<1> QED BY <1>1, <1>2, <1>3, <1>4, ToldPhone DEF Next

\* Once no request is under way for a device, its connected phone shows what it
\* is for, unless a change overtook the last frame or was made elsewhere: for
\* any number of processes, requests and reconnections (notifyDevice,
\* DeviceSession).
THEOREM PhonesShowTrue == Spec => []ShownTrue
<1>1. Init => ToldInv
  BY DEF Init, ToldInv, Told, Unborn, Off, Unassigned, Present
<1>2. ToldInv => ShownTrue
  BY DEF ToldInv, Told, Tells, ShownTrue
<1> QED BY <1>1, <1>2, TypeInit, TypeStep, ToldStep, PTL DEF Spec
=============================================================================
