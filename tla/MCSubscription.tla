--------------------------- MODULE MCSubscription ---------------------------
(* Instances of Subscription for TLC. *)
EXTENDS Subscription

CONSTANTS alias, currency

MCSettings == {alias, currency}

\* One form sets a key; another sets a second key and clears the first.
MCForms == {[set |-> {alias}, clear |-> {}], [set |-> {currency}, clear |-> {alias}]}

\* Bound: somebody is logged in only while there is no form, neither stored nor
\* in progress, and at most one payment.  (No column of the row that a login
\* reads depends on the settings or on the number of payments.)
Apart ==
    (\E s \in Sessions : login[s] # NoToken \/ token[s] # NoToken) =>
        /\ tenant.settings = {}
        /\ \A p \in Handlers : req[p] # NoReq => req[p].op = "pay"
        /\ Cardinality({i \in Payments : notice[i] # "none"}) <= 1
StepsApart == Apart'
=============================================================================
