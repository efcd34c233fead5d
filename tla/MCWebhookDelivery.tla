-------------------------- MODULE MCWebhookDelivery --------------------------
(***************************************************************************)
(* Small instances of WebhookDelivery.  The two workers are runs of the    *)
(* same code, so that they may be exchanged where no liveness is checked.  *)
(***************************************************************************)
EXTENDS WebhookDelivery, TLC

CONSTANTS d1, w1, w2

EitherWorker == Permutations({w1, w2})

=============================================================================
