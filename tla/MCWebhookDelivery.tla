-------------------------- MODULE MCWebhookDelivery --------------------------
(* Instances of WebhookDelivery for TLC. *)
EXTENDS WebhookDelivery

MCKeys == (SmsEvents \union Alerts) \X Endpoints
=============================================================================
