-------------------------- MODULE MCFragRoundTrip --------------------------
(* Every datagram up to and past the longest the offsets can describe, with *)
(* units of 2 octets and offsets up to 3: MaxDatagram is 7, as 65535 is one *)
(* less than 8 * 8192.                                                      *)
EXTENDS FragRoundTrip

CONSTANTS k4, k6   \* an IPv4 and an IPv6 reassembly key

(* later < hlen: some option is not copied.                                *)
Grams4 ==
  {[at |-> 0, len |-> n, more |-> FALSE, df |-> df, hlen |-> h[1], later |-> h[2]] :
     n \in 1 .. 9, df \in BOOLEAN, h \in {<<1, 1>>, <<2, 1>>, <<3, 2>>}}

Headers == {"hop", "routing", "dest"}
Chains == {<<>>} \cup {<<a>> : a \in Headers \cup {"frag"}} \cup
          {<<a, b>> : a, b \in Headers} \cup {<<a, b, c>> : a, b, c \in Headers}

Grams6 == {[chain |-> c, body |-> n] : c \in Chains, n \in 0 .. 8}
=============================================================================
