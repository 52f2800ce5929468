-------------------------------- MODULE MCNode --------------------------------
(***************************************************************************)
(* NodeLifecycle with committee files of one to four authorities, one of   *)
(* them with a port that was mistyped and one with an edited address.      *)
(***************************************************************************)
EXTENDS NodeLifecycle

Ips == [i \in 1..4 |-> <<172, 20, 0, 9 + i>>]
Ports == <<26657, 70000, 26659, 26660>>

Generated(n) == GenerateCommittee(n, 1, Ips, Ports)

Edited == [Generated(2) EXCEPT !.authorities[1].address.protocol = "tcp"]

MCConfigs == {Generated(n) : n \in {m \in {1, 4, 5} : ~Refused(m, Ips, Ports)}} \cup {Edited}
=============================================================================
