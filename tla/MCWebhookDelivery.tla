------------------------ MODULE MCWebhookDelivery ------------------------
(* Small instances of WebhookDelivery. *)
EXTENDS WebhookDelivery

OneContent == {[event_type |-> "invoice.paid"]}
NoRoutes == <<>>
NoProvided == {<<>>}
DateOrDelay == {-1, 3}
Interchangeable == Permutations(Managers) \cup Permutations(SecretSets)
=============================================================================
