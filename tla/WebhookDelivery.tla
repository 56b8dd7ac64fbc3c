--------------------------- MODULE WebhookDelivery ---------------------------
(***************************************************************************)
(* The job queue with its one handler, the delivery of webhooks: events    *)
(* are published to the endpoints that subscribe to them, one job each; a  *)
(* delivery is posted and its outcome counted at the endpoint, which is    *)
(* switched off after too many failures in a row.  Tenants create, change  *)
(* and delete endpoints meanwhile.  A message's event and an alert differ  *)
(* only in who publishes them and how often.                               *)
(*                                                                         *)
(* Handlers and requests are cut where they await the database or the      *)
(* receiver.  Publishing inside the transaction of a message's outcome is  *)
(* part of SmsLifecycle; here it stands outside of one, as for alerts.     *)
(***************************************************************************)
EXTENDS JobQueue

CONSTANTS
    Endpoints,       \* endpoints of one tenant, by uid
    SmsEvents,       \* an event of a message
    Alerts,          \* an alert about one device or SIM on one day
    Lists,           \* the sets of events a tenant may ask for
    Changes,         \* what an update does to is_active: "on", "off" or "as_is"
    MaxEndpoints,    \* MAX_ENDPOINTS_PER_TENANT
    DisableAfter,    \* failures in a row after which an endpoint is switched off
    NoEndpoint, NoEvent

Events == SmsEvents \union Alerts

ASSUME WebhookAssumption ==
    /\ Keys = Events \X Endpoints
    /\ MaxEndpoints \in Nat /\ DisableAfter \in Nat \ {0}
    /\ Changes \subseteq {"on", "off", "as_is"}
    /\ NoEndpoint \notin Endpoints /\ NoEvent \notin Events

VARIABLES
    endpoint,     \* webhook_endpoints
    creating,     \* requests to create an endpoint that have counted the others
    update,       \* a request to change an endpoint, with the row it has read
    publishing,   \* an event under way and the subscribers still to be served
    run,          \* where the handler of a claimed job is
    fate          \* history: how often a job reached its receiver, and how it ended

deliveryVars == <<endpoint, creating, update, publishing, run, fate>>
vars == <<queueVars, deliveryVars>>

-----------------------------------------------------------------------------
Endpoint == [state : {"absent", "present", "deleted"}, active : BOOLEAN,
             failures : 0 .. DisableAfter, events : Lists \union {{}}]

Subscribes(e, event) == endpoint[e].events = {} \/ event \in endpoint[e].events

Present(e) == endpoint[e].state = "present"
Usable(e) == Present(e) /\ endpoint[e].active

EndpointOf(j) == job[j].key[2]

Update == [of : Endpoints \union {NoEndpoint}, active : {"on", "off", "as_is"},
           sawActive : BOOLEAN, sawFailures : BOOLEAN]
NoUpdate == [of |-> NoEndpoint, active |-> "as_is", sawActive |-> FALSE, sawFailures |-> FALSE]

\* accepted: the receiver answered 2xx.  refused: it did not, or not in time.
Stage == {"none", "starting", "posting", "accepted", "refused", "disabling"}

Nothing == [event |-> NoEvent, to |-> {}]

TypeOK ==
    /\ QueueTypeOK
    /\ endpoint \in [Endpoints -> Endpoint]
    /\ creating \subseteq Endpoints
    /\ update \in Update
    /\ publishing \in [event : Events \union {NoEvent}, to : SUBSET Endpoints]
    /\ run \in [Workers -> [JobIds -> Stage]]
    /\ fate \in [JobIds -> [received : Nat, dropped : BOOLEAN, destroyed : BOOLEAN]]

Init ==
    /\ QueueInit
    /\ endpoint = [e \in Endpoints |-> [state |-> "absent", active |-> FALSE, failures |-> 0,
                                        events |-> {}]]
    /\ creating = {}
    /\ update = NoUpdate
    /\ publishing = Nothing
    /\ run = [w \in Workers |-> [j \in JobIds |-> "none"]]
    /\ fate = [j \in JobIds |-> [received |-> 0, dropped |-> FALSE, destroyed |-> FALSE]]

-----------------------------------------------------------------------------
(* The tenant's endpoints. *)

\* The endpoints are counted, and only later is one added.
CountEndpoints(e) ==
    /\ endpoint[e].state = "absent" /\ e \notin creating
    /\ Cardinality({f \in Endpoints : Present(f)}) < MaxEndpoints
    /\ creating' = creating \union {e}
    /\ UNCHANGED <<queueVars, endpoint, update, publishing, run, fate>>

InsertEndpoint(e, list) ==
    /\ e \in creating
    /\ creating' = creating \ {e}
    /\ endpoint' = [endpoint EXCEPT ![e] = [state |-> "present", active |-> TRUE,
                                            failures |-> 0, events |-> list]]
    /\ UNCHANGED <<queueVars, update, publishing, run, fate>>

ReadEndpoint(e, active) ==
    /\ update = NoUpdate
    /\ Present(e)
    /\ update' = [of |-> e, active |-> active, sawActive |-> endpoint[e].active,
                  sawFailures |-> endpoint[e].failures > 0]
    /\ UNCHANGED <<queueVars, endpoint, creating, publishing, run, fate>>

\* Mutant: the whole row is written as it was read.
ActiveSavedWhole(e) ==
    IF update.active = "on" THEN TRUE ELSE update.active = "as_is" /\ update.sawActive

\* Only what differs from the row as it was read is written: is_active where
\* the request changes it, and a streak to clear where there was one.
ActiveSaved(e) ==
    IF update.active = "on" /\ ~update.sawActive THEN TRUE
    ELSE IF update.active = "off" /\ update.sawActive THEN FALSE
    ELSE endpoint[e].active

FailuresSaved(e) ==
    IF update.active = "on" /\ update.sawFailures THEN 0 ELSE endpoint[e].failures

SaveEndpoint(e) ==
    /\ update.of = e
    /\ update' = NoUpdate
    /\ endpoint' = [endpoint EXCEPT ![e] =
         [state |-> endpoint[e].state, active |-> ActiveSaved(e),
          failures |-> FailuresSaved(e), events |-> endpoint[e].events]]
    /\ UNCHANGED <<queueVars, creating, publishing, run, fate>>

DeleteEndpoint(e) ==
    /\ Present(e)
    /\ endpoint' = [endpoint EXCEPT ![e].state = "deleted"]
    /\ UNCHANGED <<queueVars, creating, update, publishing, run, fate>>

-----------------------------------------------------------------------------
(* Publishing. *)

Subscribers(event) == {e \in Endpoints : Usable(e) /\ Subscribes(e, event)}

\* Bound: rows to write, unless every delivery is queued already.
RowsLeft(event) == \/ \E j \in JobIds : job[j].status = "none"
                   \/ \A e \in Subscribers(event) : Collides(<<event, e>>)

\* The subscribers are read first and served one after the other.  Events do
\* not get in each other's way, so one at a time is enough.
Publish(event) ==
    /\ publishing = Nothing
    /\ Subscribers(event) # {} /\ RowsLeft(event)
    /\ publishing' = [event |-> event, to |-> Subscribers(event)]
    /\ UNCHANGED <<queueVars, endpoint, creating, update, run, fate>>

PublishSmsEvent(event) == event \in SmsEvents /\ Publish(event)

\* A device went offline, or a sweep found a SIM short of credit; while it
\* stays so, every sweep publishes the alert of the day again.
RaiseAlert(alert) == alert \in Alerts /\ Publish(alert)

EnqueueDelivery(e) ==
    /\ e \in publishing.to
    /\ Enqueue(<<publishing.event, e>>)
    /\ publishing' = IF publishing.to = {e} THEN Nothing
                     ELSE [publishing EXCEPT !.to = @ \ {e}]
    /\ UNCHANGED <<endpoint, creating, update, run, fate>>

\* A statement failed: the error is logged and the event forgotten.
PublishErrs ==
    /\ publishing # Nothing
    /\ Upset
    /\ publishing' = Nothing
    /\ UNCHANGED <<job, runner, hand, past, endpoint, creating, update, run, fate>>

-----------------------------------------------------------------------------
(* The handler. *)

At(w, j, stage) == run[w][j] = stage
Goes(w, j, stage) == run' = [run EXCEPT ![w][j] = stage]

UnchangedRows == UNCHANGED <<endpoint, creating, update, publishing>>

ClaimDeliveries(w, taken) ==
    /\ Claim(w, taken)
    /\ run' = [run EXCEPT ![w] = [j \in JobIds |-> IF j \in taken THEN "starting" ELSE run[w][j]]]
    /\ UnchangedRows /\ UNCHANGED fate

\* The endpoint was deleted or switched off: nobody wants the delivery.
DropDelivery(w, j) ==
    /\ At(w, j, "starting") /\ ~Usable(EndpointOf(j))
    /\ Return(w, j)
    /\ Goes(w, j, "none")
    /\ fate' = [fate EXCEPT ![j].dropped = TRUE]
    /\ UnchangedRows

StartPost(w, j) ==
    /\ At(w, j, "starting") /\ Usable(EndpointOf(j))
    /\ Goes(w, j, "posting")
    /\ UnchangedRows /\ UNCHANGED <<queueVars, fate>>

Received(j) == fate' = [fate EXCEPT ![j].received = @ + 1]

PostAccepted(w, j) ==
    /\ At(w, j, "posting")
    /\ Received(j) /\ Goes(w, j, "accepted")
    /\ UnchangedRows /\ UNCHANGED queueVars

\* The receiver took it, but its answer was late or lost.
PostUnanswered(w, j) ==
    /\ At(w, j, "posting")
    /\ Upset
    /\ Received(j) /\ Goes(w, j, "refused")
    /\ UnchangedRows /\ UNCHANGED <<job, runner, hand, past>>

PostRefused(w, j) ==
    /\ At(w, j, "posting")
    /\ Goes(w, j, "refused")
    /\ UnchangedRows /\ UNCHANGED <<queueVars, fate>>

Counted(e, failures) ==
    IF Present(e) THEN [endpoint EXCEPT ![e].failures = failures] ELSE endpoint

RecordSuccess(w, j) ==
    /\ At(w, j, "accepted")
    /\ Return(w, j)
    /\ endpoint' = Counted(EndpointOf(j), 0)
    /\ Goes(w, j, "none")
    /\ UNCHANGED <<creating, update, publishing, fate>>

\* It is inside the try: if it fails, a delivery that was accepted has failed.
RecordSuccessErrs(w, j) ==
    /\ At(w, j, "accepted")
    /\ Upset
    /\ Goes(w, j, "refused")
    /\ UnchangedRows /\ UNCHANGED <<job, runner, hand, past, fate>>

\* Counts are told apart as far as DisableAfter.
FailuresNow(e) ==
    IF endpoint[e].failures < DisableAfter THEN endpoint[e].failures + 1 ELSE DisableAfter
TooMany(e) == Present(e) /\ FailuresNow(e) >= DisableAfter

\* The failure is counted where it is stored, and the result compared.
RecordFailure(w, j) ==
    /\ At(w, j, "refused")
    /\ endpoint' = Counted(EndpointOf(j), FailuresNow(EndpointOf(j)))
    /\ \/ TooMany(EndpointOf(j)) /\ Goes(w, j, "disabling") /\ UNCHANGED queueVars
       \/ ~TooMany(EndpointOf(j)) /\ Goes(w, j, "none") /\ Throw(w, j)
    /\ UNCHANGED <<creating, update, publishing, fate>>

\* Whatever has become of the endpoint since its failures were counted.
DisableEndpoint(w, j) ==
    /\ At(w, j, "disabling")
    /\ endpoint' = [endpoint EXCEPT ![EndpointOf(j)].active = FALSE]
    /\ Goes(w, j, "none") /\ Throw(w, j)
    /\ UNCHANGED <<creating, update, publishing, fate>>

\* A statement of recordFailure fails: the job fails all the same.
RecordFailureErrs(w, j) ==
    /\ run[w][j] \in {"refused", "disabling"}
    /\ Upset
    /\ hand' = [hand EXCEPT ![w][j].stage = "threw"]
    /\ Goes(w, j, "none")
    /\ UnchangedRows /\ UNCHANGED <<job, runner, past, fate>>

-----------------------------------------------------------------------------
(* The queue's own steps, which the handler takes no part in. *)

Settle(w, j) ==
    /\ \/ Complete(w, j) \/ CompleteErrs(w, j) \/ Fail(w, j) \/ FailErrs(w, j)
    /\ UNCHANGED deliveryVars

Manage(w) ==
    /\ BeginPass(w) \/ EndPass(w) \/ Stop(w) \/ Start(w)
    /\ UNCHANGED deliveryVars

HaltWorker(w) ==
    /\ Halt(w)
    /\ run' = [run EXCEPT ![w] = [j \in JobIds |-> "none"]]
    /\ UnchangedRows /\ UNCHANGED fate

DestroyJob(j) ==
    /\ Destroy(j)
    /\ fate' = [fate EXCEPT ![j].destroyed = TRUE]
    /\ UnchangedRows /\ UNCHANGED run

Elapse(j) == LeaseElapses(j) /\ UNCHANGED deliveryVars
RetryJob(j) == Retry(j) /\ UNCHANGED deliveryVars

-----------------------------------------------------------------------------
Tenant ==
    \E e \in Endpoints :
      \/ CountEndpoints(e) \/ SaveEndpoint(e) \/ DeleteEndpoint(e)
      \/ \E list \in Lists : InsertEndpoint(e, list)
      \/ \E active \in Changes : ReadEndpoint(e, active)

Publisher ==
    \/ \E event \in Events : PublishSmsEvent(event) \/ RaiseAlert(event)
    \/ \E e \in Endpoints : EnqueueDelivery(e)
    \/ PublishErrs

Handle(w, j) ==
    \/ DropDelivery(w, j) \/ StartPost(w, j)
    \/ PostAccepted(w, j) \/ PostUnanswered(w, j) \/ PostRefused(w, j)
    \/ RecordSuccess(w, j) \/ RecordSuccessErrs(w, j)
    \/ RecordFailure(w, j) \/ DisableEndpoint(w, j) \/ RecordFailureErrs(w, j)

Next ==
    \/ Tenant \/ Publisher
    \/ \E j \in JobIds : RetryJob(j) \/ DestroyJob(j) \/ Elapse(j)
    \/ \E w \in Workers :
         \/ Manage(w) \/ HaltWorker(w)
         \/ \E taken \in SUBSET JobIds : ClaimDeliveries(w, taken)
         \/ \E j \in JobIds : Handle(w, j) \/ Settle(w, j)

Spec == Init /\ [][Next]_vars

\* The poll timer starts a pass whenever none is under way and claims what has
\* been due longest; a pass goes on; the request to a receiver is timed out; a
\* lease that nobody holds elapses; a process that went down is started again.
FairSpec ==
    /\ Spec
    /\ \A w \in Workers :
         /\ WF_vars(Manage(w) /\ ~Stop(w))
         /\ WF_vars(HaltWorker(w) /\ runner[w].stopped)
         /\ \A j \in JobIds :
              /\ WF_vars(Handle(w, j) \/ Settle(w, j))
              /\ SF_vars(\E taken \in SUBSET JobIds : j \in taken /\ ClaimDeliveries(w, taken))
    /\ \A j \in JobIds : WF_vars(Elapse(j) /\ Forsaken(j))

-----------------------------------------------------------------------------
\* A job leaves the table only when its receiver has had the delivery, when its
\* endpoint was gone or off, or when an administrator dropped it: whatever
\* crashes, stalls and failed statements do, at least one delivery is made.
NothingLost ==
    \A j \in JobIds :
      job[j].status = "deleted" => fate[j].received > 0 \/ fate[j].dropped \/ fate[j].destroyed

\* A receiver is given one delivery twice only for a crash, a stall, a failed
\* statement or a lost answer, once for each.
DuplicatesNeedUpset == \A j \in JobIds : fate[j].received <= 1 + upsets

\* An endpoint that is off is switched on only by a request that says so: a
\* request that changes something else does not undo a disabling it did not see.
OffUntilAsked ==
    [][\A e \in Endpoints :
         Present(e) /\ ~endpoint[e].active /\ endpoint'[e].active
           => update.of = e /\ update.active = "on"]_vars

\* Every queued delivery comes to an end.
JobsSettle == \A j \in JobIds : Live(j) ~> ~Live(j)
=============================================================================
