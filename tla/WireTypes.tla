------------------------------- MODULE WireTypes -------------------------------
(* Octets and addresses as the two codecs and the provider calls see them. *)
EXTENDS Integers, SequencesExt

Octet == 0..255

(* An address is its family and its octets in network order. *)
Addr(v6, data) == [v6 |-> v6, data |-> data]
AddressLen(v6) == IF v6 THEN 16 ELSE 4
AddressesOf(v6) == [v6 : {v6}, data : [1..AddressLen(v6) -> Octet]]
NoAddr == Addr(FALSE, <<>>)

(* IpVersion::matches, of an address that was found *)
Accepts(version, ip) ==
    ip # NoAddr /\ (version = "Any" \/ ip.v6 = (version = "V6"))
=============================================================================
