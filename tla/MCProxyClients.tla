--------------------------- MODULE MCProxyClients ---------------------------
(***************************************************************************)
(* Values for the constants of ProxyClients.  There are as many clients as *)
(* requests, so that no request is kept from creating one.                 *)
(***************************************************************************)
EXTENDS ProxyClients

ASSUME EnoughClients == Cardinality(Clients) >= Cardinality(Subs)
=============================================================================
