------------------------------ MODULE Committee ------------------------------
(***************************************************************************)
(* Committee files (consensus-client/src/committee.rs).  One command writes*)
(* a file for a number of authorities; every node reads its copy.  The keys*)
(* are not read from the file: both sides draw them again from a generator *)
(* with a fixed seed, in the order of the authorities.                     *)
(*                                                                         *)
(* A key is the number of its draw.  An address is a record [protocol,     *)
(* octets, port], an endpoint what peers are dialled at.                   *)
(***************************************************************************)
EXTENDS Integers, Sequences, FiniteSets

\* Arithmetic of u8, as a release build does it.
U8 == 256

\* The three keys of the i-th of n authorities: three draws each, in this order.
KeysOf(i, n) ==
    [authority_key |-> 3 * i - 2, protocol_key |-> 3 * i - 1, network_key |-> 3 * i]

\* The thresholds the file states: 2/3 + 1 and 1/2 + 1 of the authorities.
quorum_threshold(n) == (n * 2) \div 3 + 1
validity_threshold(n) == n \div 2 + 1

is_valid_ip(octets) == Len(octets) = 4 /\ \A k \in 1..4 : octets[k] \in 0..255
is_valid_port(port) == port \in 0..65535

\* generate_committees refuses more authorities than addresses or ports.  Without authorities it
\* writes the file and panics when it prints the stake of the first.
Refused(n, docker_ips, network_ports) == n > Len(docker_ips) \/ n > Len(network_ports)

generate_committees(n, stake, docker_ips, network_ports) ==
    [authorities |->
         [i \in 1..n |->
             [index   |-> i - 1,
              stake   |-> stake,
              address |-> [protocol |-> "udp", octets |-> docker_ips[i],
                           port |-> network_ports[i]],
              keys    |-> KeysOf(i, n)]],
     end_ip |-> (10 + n - 1) % U8,
     quorum_threshold |-> quorum_threshold(n),
     validity_threshold |-> validity_threshold(n)]

\* The command line: a port that is no number of 16 bits is replaced.
DefaultPort == 26657
GenerateCommittee(n, stake, ip_addresses, network_ports) ==
    LET port(i) == IF is_valid_port(network_ports[i]) THEN network_ports[i] ELSE DefaultPort
    IN  generate_committees(n, stake, ip_addresses, [i \in DOMAIN network_ports |-> port(i)])

\* Faulty: an address nobody can be dialled at takes no keys.
LoadedSkipping(config) ==
    LET before(i) == {j \in 1..i : config.authorities[j].address.protocol = "udp"}
        n == Len(config.authorities)
    IN  [i \in 1..n |->
            [stake   |-> config.authorities[i].stake,
             address |-> config.authorities[i].address,
             keys    |-> KeysOf(Cardinality(before(i)), n)]]

\* The authorities of the core's committee and, at the same positions, the key pairs of all.
load_committees(config) ==
    LET n == Len(config.authorities)
    IN  [i \in 1..n |->
            [stake   |-> config.authorities[i].stake,
             address |-> config.authorities[i].address,
             keys    |-> KeysOf(i, n)]]

\* ip:port of a well-formed IPv4 address with UDP; what is left of any other address is its text.
Dialled(address) ==
    /\ address.protocol = "udp"
    /\ is_valid_ip(address.octets) /\ is_valid_port(address.port)

parse_ip_port_from_address(address) ==
    [parsed |-> Dialled(address), octets |-> address.octets, port |-> address.port]

extract_peer_addresses(committee) ==
    [i \in DOMAIN committee |-> parse_ip_port_from_address(committee[i].address)]

-----------------------------------------------------------------------------
\* Faulty authorities that n are meant to stand.
MaxFaulty(n) == (n - 1) \div 3

\* Thresholds q and v for n authorities: two quorums share more authorities than may be faulty,
\* the others are enough for a quorum, and v are never all faulty.
SoundThresholds(n, q, v) ==
    /\ 2 * q - n > MaxFaulty(n)
    /\ q <= n - MaxFaulty(n)
    /\ v > MaxFaulty(n) /\ v <= n
=============================================================================
