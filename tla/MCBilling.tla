------------------------------ MODULE MCBilling ------------------------------
(* An instance of Billing for TLC. *)
EXTENDS Billing, TLC

CONSTANTS c1, c2, c3, e1, e2, e3, e4, e5, e6, e7

Quotas == "starter" :> 1 @@ "pro" :> 2 @@ "business" :> 3

\* The first client has the trial of its signup.
Signed ==
  c1 :> [tier |-> "starter", quota |-> 1, status |-> "trial", sid |-> NullSid]
  @@ c2 :> NoSub @@ c3 :> NoSub

Says(type, client, product, sid) ==
  [type |-> type, client |-> client, product |-> product, sid |-> sid, dated |-> TRUE]

\* A subscription that is changed and cancelled; orders of two other clients, without a
\* number as all; three events that concern none.
Story ==
  e1 :> Says("subscription_updated", c1, {"pro", "business"}, NoSid)
  @@ e2 :> Says("subscription_cancelled", c1, {}, NoSid)
  @@ e3 :> Says("order_created", c2, {"pro"}, NoSid)
  @@ e4 :> Says("order_created", c3, {}, NoSid)
  @@ e5 :> Says("subscription_updated", "malformed", {}, NoSid)
  @@ e6 :> Says("subscription_payment_success", "missing", {}, NoSid)
  @@ e7 :> Says("order_created", "unknown", {}, NoSid)
=============================================================================
