--------------------------- MODULE MCSubscriptionProxy -------------------------
(* Settings for TLC: every mix of challenge server, fallback and domain, and *)
(* settings that are not valid.                                            *)
EXTENDS SubscriptionProxy

MCConfigs ==
    {c \in [valid : BOOLEAN, http : BOOLEAN, fallback : BOOLEAN, domain : BOOLEAN] :
       c.valid \/ (c.http /\ c.fallback /\ c.domain)}

==============================================================================
