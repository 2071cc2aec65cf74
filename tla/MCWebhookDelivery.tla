------------------------- MODULE MCWebhookDelivery -------------------------
(* The instances of WebhookDelivery that TLC checks.                       *)
EXTENDS WebhookDelivery

MCForms ==
  [ signed  |-> [ signed |-> TRUE,  topic |-> "none", dataId |-> TRUE, id |-> TRUE, ours |-> TRUE ],
    other   |-> [ signed |-> TRUE,  topic |-> "none", dataId |-> TRUE, id |-> TRUE, ours |-> FALSE ],
    ipn     |-> [ signed |-> FALSE, topic |-> "payment", dataId |-> FALSE, id |-> TRUE, ours |-> TRUE ],
    order   |-> [ signed |-> FALSE, topic |-> "merchant_order", dataId |-> FALSE, id |-> TRUE, ours |-> TRUE ],
    invalid |-> [ signed |-> FALSE, topic |-> "none", dataId |-> TRUE, id |-> TRUE, ours |-> TRUE ],
    empty   |-> [ signed |-> TRUE,  topic |-> "none", dataId |-> TRUE, id |-> FALSE, ours |-> TRUE ],
    newform |-> [ signed |-> TRUE,  topic |-> "merchant_order", dataId |-> TRUE, id |-> TRUE, ours |-> TRUE ] ]

MCForm == [ n \in Notifications |-> MCForms[n] ]
=============================================================================
