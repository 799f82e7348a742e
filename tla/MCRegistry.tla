------------------------------ MODULE MCRegistry ------------------------------
(***************************************************************************)
(* Registry for TLC: neuron is installed, neurag is not but may run and    *)
(* register itself; when neuron does so too, both list one tool.           *)
(***************************************************************************)
EXTENDS Registry, TLC
CONSTANTS neuron, neurag, recall, shared, query, stdio, r1, r2

MCNames == {neuron, neurag}
MCTools == {recall, shared, query}
MCInstalled == {neuron}
MCRank == neuron :> 0
MCStandalone == {neuron}
MCWorkerTools == (neuron :> {recall}) @@ (neurag :> {query})
MCOffers == (neuron :> {{recall, shared}}) @@ (neurag :> {{query, shared}})
MCDefault == (recall :> neuron) @@ (shared :> neuron) @@ (query :> neurag)
MCNoHttp == {}

\* One stdio gateway that holds the port.
MCAlone == {stdio}
MCRequests == {r1, r2}
MCAt == (r1 :> stdio) @@ (r2 :> stdio)
=============================================================================
