------------------------ MODULE MCSubscriptionUsage ------------------------
(* Constant values for model checking SubscriptionUsage.                   *)
EXTENDS SubscriptionUsage, TLC

\* A session with both providers, and one whose settings have lost the second.
OnlineConfigs ==
    {[enabled |-> Providers, on |-> TRUE, offline |-> FALSE],
     [enabled |-> {CHOOSE p \in Providers : TRUE}, on |-> TRUE, offline |-> FALSE],
     [enabled |-> Providers, on |-> TRUE, offline |-> TRUE]}
=============================================================================
