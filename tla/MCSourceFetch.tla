---------------------------- MODULE MCSourceFetch -----------------------------
(* SourceFetch with the API, a shop, an internal host and one nobody resolves. *)
EXTENDS SourceFetch

MCHosts == {"api", "shop", "inner", "gone"}
MCPrivateHosts == {"inner"}
MCUnknownHosts == {"gone"}
===============================================================================
