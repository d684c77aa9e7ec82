------------------------- MODULE MCConsumerDelivery -------------------------
(* Constants for model-checking ConsumerDelivery.                          *)
EXTENDS ConsumerDelivery, TLC

(* One consumer: consumers share nothing but the order they are offered   *)
(* to, and a call that could stall at one would stall here too.            *)
MCModeOf == ("logger" :> "sha256")
MCOrder == <<"logger">>

(* Full content twice, content that already arrived as omitted, and none.  *)
MCContentOf == ("e1" :> "full") @@ ("e2" :> "omit") @@ ("e3" :> "full")
                 @@ ("e4" :> "absent") @@ ("e5" :> "full")

(* It subscribed to all types but that of the last event.                  *)
MCSubscribed == {<<e, "logger">> : e \in {"e1", "e2", "e3", "e4"}}
=============================================================================
