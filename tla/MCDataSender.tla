----------------------------- MODULE MCDataSender -----------------------------
(***************************************************************************)
(* DataSender over the sockets of the three socket providers.              *)
(***************************************************************************)
EXTENDS DataSender

IcmpSockets == <<[fd |-> 3, role |-> {"Receive", "Send"}, protocol |-> "icmp"]>>

TcpSockets == <<[fd |-> 3, role |-> {"Receive"}, protocol |-> "icmp"],
                [fd |-> 4, role |-> {"Receive", "Send"}, protocol |-> "tcp"]>>

UdpSockets == <<[fd |-> 3, role |-> {"Receive"}, protocol |-> "icmp"],
                [fd |-> 4, role |-> {"Send"}, protocol |-> "udp"]>>

AllProviders == {IcmpSockets, TcpSockets, UdpSockets}

(* The program was started without standard input: the first socket is 0.  *)
WithoutStdin(s) == [k \in DOMAIN s |-> IF k = 1 THEN [s[k] EXCEPT !.fd = 0] ELSE s[k]]

AllDescriptors == AllProviders \cup {WithoutStdin(s) : s \in AllProviders}

===============================================================================
