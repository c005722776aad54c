----------------------------- MODULE MCBackend ------------------------------
(***************************************************************************)
(* Two requests at a time for two hosts, each with a certificate of its    *)
(* own, and every configuration of the backend.                            *)
(***************************************************************************)
EXTENDS Backend, TLC

CONSTANTS r1, r2

MCCerts == [h \in Hosts |-> {h}]

\* Which of the hosts is configured makes no difference, and neither does the
\* selector without a target or anything about TLS if it is off.
MCConfigs ==
  {b \in Backends :
     /\ b.target # "b"
     /\ b.target = NoName => b.select = ""
     /\ ~b.tls => b.sni = NoSNI /\ ~b.noVerify}

Symmetry == Permutations(Requests)
=============================================================================
