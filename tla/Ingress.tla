------------------------------- MODULE Ingress -------------------------------
(***************************************************************************)
(* Who may connect, and who the client is: CIDR networks and sets of them  *)
(* (shared/flatkit/src/net), the listener firewall and the ingress filter  *)
(* with its two backends (libs/ophan-sec/src/l4), the in-kernel program    *)
(* (libs/ophan-bpf), the trusted proxies (libs/ophan-sec) and the listener *)
(* table (ophan/src/gateway/listener.rs).                                  *)
(*                                                                         *)
(* An address is [v6, n] with V4Bits or V6Bits bits; the IPv6 addresses    *)
(* from MappedBase on are the IPv4-mapped ones.  An Option is a sequence   *)
(* of length 0 or 1.                                                       *)
(***************************************************************************)
EXTENDS Integers, Sequences, SequencesExt, FiniteSets, TLC

CONSTANTS V4Bits, V6Bits, OctetBits, MappedBase, MAX_EH_HOPS

ASSUME WidthAssumption ==
  /\ V4Bits \in Nat /\ V6Bits \in Nat /\ MappedBase + 2 ^ V4Bits <= 2 ^ V6Bits
  /\ OctetBits \in Nat \ {0} /\ V4Bits % OctetBits = 0

-----------------------------------------------------------------------------
(* net/ipnet.rs, net/ipset.rs                                               *)

Bits(v6) == IF v6 THEN V6Bits ELSE V4Bits
Addr(v6, n) == [v6 |-> v6, n |-> n]
IpNet(v6, n, prefix) == [v6 |-> v6, n |-> n, prefix |-> prefix]

Block(net) == 2 ^ (Bits(net.v6) - net.prefix)
network(net) == (net.n \div Block(net)) * Block(net)
broadcast(net) == network(net) + Block(net) - 1

\* FromStr: an address with an optional prefix, at most the width of its family.
IpNetFromStr(addr, prefix) ==
  LET p == IF prefix = <<>> THEN Bits(addr.v6) ELSE prefix[1]
  IN  IF p > Bits(addr.v6) THEN <<>> ELSE <<IpNet(addr.v6, addr.n, p)>>

net_contains(net, ip) == net.v6 = ip.v6 /\ (ip.n \div Block(net)) * Block(net) = network(net)

\* A merge that lets the later range end the joined one.
MergeRangeLast(max, out, r) ==
  IF out # <<>> /\ r[1] <= Last(out)[2] + 1 THEN [out EXCEPT ![Len(out)][2] = r[2]] ELSE Append(out, r)

\* merge_u32, merge_u128: a range joins the last one when they overlap or touch.  The numbers are as
\* wide as the family, max being the last address.
MergeRange(max, out, r) ==
  LET last == Last(out)[2]
  IN  IF out # <<>> /\ (r[1] <= last \/ (last # max /\ r[1] = (last + 1) % (max + 1)))
      THEN [out EXCEPT ![Len(out)][2] = IF r[2] > @ THEN r[2] ELSE @]
      ELSE Append(out, r)

merge(max, ranges) ==
  FoldLeft(LAMBDA out, r : MergeRange(max, out, r), <<>>,
           SortSeq(ranges, LAMBDA a, b : a[1] < b[1] \/ (a[1] = b[1] /\ a[2] < b[2])))

IpSetBuild(nets) ==
  LET Of(v6) == LET own == SelectSeq(nets, LAMBDA n : n.v6 = v6)
                IN  merge(2 ^ Bits(v6) - 1, [i \in DOMAIN own |-> <<network(own[i]), broadcast(own[i])>>])
  IN  [v4 |-> Of(FALSE), v6 |-> Of(TRUE)]

\* binary_search_by over the sorted ranges.
RECURSIVE Bisect(_, _, _, _)
Bisect(ranges, n, lo, hi) ==
  IF lo > hi THEN FALSE
  ELSE LET mid == (lo + hi) \div 2
       IN  CASE n < ranges[mid][1] -> Bisect(ranges, n, lo, mid - 1)
             [] n > ranges[mid][2] -> Bisect(ranges, n, mid + 1, hi)
             [] OTHER -> TRUE

contains_exact(set, ip) == LET r == IF ip.v6 THEN set.v6 ELSE set.v4 IN Bisect(r, ip.n, 1, Len(r))

Mapped(ip) == ip.v6 /\ ip.n \in MappedBase..(MappedBase + 2 ^ V4Bits - 1)
to_canonical(ip) == IF Mapped(ip) THEN Addr(FALSE, ip.n - MappedBase) ELSE ip

set_contains(set, ip) == (Mapped(ip) /\ contains_exact(set, to_canonical(ip))) \/ contains_exact(set, ip)

-----------------------------------------------------------------------------
(* l4/firewall.rs: an Option of a set per list, absent when the list is.    *)

ip_set(nets) == IF nets = <<>> THEN <<>> ELSE <<IpSetBuild(nets)>>
Firewall(allow, deny) == [allow |-> ip_set(allow), deny |-> ip_set(deny)]
firewall_admits(fw, peer) ==
  /\ ~(fw.deny # <<>> /\ set_contains(fw.deny[1], peer))
  /\ fw.allow = <<>> \/ set_contains(fw.allow[1], peer)

-----------------------------------------------------------------------------
(* l4/ingres_filter.  The software backend: global and per-port sets fixed  *)
(* at construction, and the set of monitored ports.  The XDP backend: the   *)
(* kernel's maps, one action per (port, network).  Global rules and the     *)
(* software backend's later allow and deny calls change nothing.            *)

SoftwareBackend(ports, allowed, blocked, allowed_on, blocked_on) ==
  LET On(rules, p) == LET own == SelectSeq(rules, LAMBDA r : r.port = p) IN [i \in DOMAIN own |-> own[i].net]
      Ports(rules) == {rules[i].port : i \in DOMAIN rules}
  IN  [kind |-> "software", ports |-> ports,
       allowed |-> IpSetBuild(allowed), blocked |-> IpSetBuild(blocked),
       port_allowed |-> [p \in Ports(allowed_on) |-> IpSetBuild(On(allowed_on, p))],
       port_blocked |-> [p \in Ports(blocked_on) |-> IpSetBuild(On(blocked_on, p))]]

OnPort(map, port, ip) == port # <<>> /\ port[1] \in DOMAIN map /\ set_contains(map[port[1]], ip)
is_denied(b, ip, port) == set_contains(b.blocked, ip) \/ OnPort(b.port_blocked, port, ip)
is_allowed(b, ip, port) == set_contains(b.allowed, ip) \/ OnPort(b.port_allowed, port, ip)

filter(b, ip, port) ==
  CASE b.kind = "xdp" -> "PASS"
    [] is_denied(b, ip, port) -> "DROP"
    [] is_allowed(b, ip, port) -> "PASS"
    [] port # <<>> /\ port[1] \in b.ports -> "DROP"
    [] OTHER -> "PASS"

Without(map, p) == [q \in DOMAIN map \ {p} |-> map[q]]

allow_port(b, p) == [b EXCEPT !.ports = @ \cup {p}]
remove_port(b, p) ==
  CASE p \notin b.ports -> [ok |-> FALSE, b |-> b]
    [] b.kind = "xdp" -> [ok |-> TRUE, b |-> [b EXCEPT !.ports = @ \ {p}]]
    [] OTHER -> [ok |-> TRUE, b |-> [b EXCEPT !.ports = @ \ {p}, !.port_allowed = Without(@, p), !.port_blocked = Without(@, p)]]

\* The bits of a key in the order the trie reads them.  An IPv4 address is a native u32, whose octets
\* lie in memory from the lowest to the highest; an IPv6 address is a byte array in network order.
KeyBits(v6, n) ==
  LET Octet(i) == (n \div 2 ^ (OctetBits * (i - 1))) % 2 ^ OctetBits
  IN  IF v6 THEN n
      ELSE FoldLeft(LAMBDA bits, i : bits * 2 ^ OctetBits + Octet(i), 0, [i \in 1..(V4Bits \div OctetBits) |-> i])

\* XdpBackend: the trie knows a rule by its port and the first `prefix` bits of its address.
PortRule(net, p) ==
  LET key == IpNet(net.v6, KeyBits(net.v6, net.n), net.prefix)
  IN  [port |-> p, v6 |-> net.v6, n |-> network(key), prefix |-> net.prefix]

\* An insertion that leaves an existing rule as it is.
insert_port_rule_once(b, net, p, action) == [b EXCEPT !.rules = @ @@ (PortRule(net, p) :> action)]

\* insert_port_rule_v4, insert_port_rule_v6: a later rule of the same key replaces the earlier one.
insert_port_rule(b, net, p, action) == [b EXCEPT !.rules = (PortRule(net, p) :> action) @@ @]
remove_port_rule(b, net, p) ==
  LET k == PortRule(net, p) IN [ok |-> k \in DOMAIN b.rules, b |-> [b EXCEPT !.rules = Without(@, k)]]

\* from_config allows first and denies after; the global lists have no map.
XdpBackend(ports, allowed_on, blocked_on) ==
  LET empty == [kind |-> "xdp", ports |-> ports, rules |-> <<>>]
  IN  FoldLeft(LAMBDA b, r : insert_port_rule(b, r.net, r.port, "DROP"),
               FoldLeft(LAMBDA b, r : insert_port_rule(b, r.net, r.port, "PASS"), empty, allowed_on),
               blocked_on)

\* The rule calls of a running filter, by backend: the address sets of the software one are frozen,
\* and the kernel program has no map for rules on all ports.
SoftwareCall(b, call) == b
XdpCall(b, call) ==
  CASE call.op = "global" -> b
    [] call.op \in {"remove_allow_on", "remove_deny_on"} -> remove_port_rule(b, call.net, call.port).b
    [] OTHER -> insert_port_rule(b, call.net, call.port, IF call.op = "allow_on" THEN "PASS" ELSE "DROP")

FilterCall(b, call) ==
  CASE call.op = "add_port" -> allow_port(b, call.port)
    [] call.op = "remove_port" -> remove_port(b, call.port).b
    [] OTHER -> IF b.kind = "software" THEN SoftwareCall(b, call) ELSE XdpCall(b, call)

\* IngressFilterBuilder::build: XDP when an interface is given and loads, software otherwise.
FilterBuild(iface, loads, ports, allowed, blocked, allowed_on, blocked_on) ==
  IF iface /\ loads THEN XdpBackend(ports, allowed_on, blocked_on)
  ELSE SoftwareBackend(ports, allowed, blocked, allowed_on, blocked_on)

-----------------------------------------------------------------------------
(* libs/ophan-bpf: what the kernel program does with a packet.  A packet is *)
(* its ether type behind `tags` VLAN tags, its source, whether it is a      *)
(* fragment, its IPv6 extension headers, its protocol, its port, and the    *)
(* header at which it ends early ("" when it is whole).                     *)

\* The longest rule of the port that covers the source decides.
LongestRule(rules, ip, port) ==
  LET key == Addr(ip.v6, KeyBits(ip.v6, ip.n))
      fit == {k \in DOMAIN rules : k.port = port /\ net_contains(k, key)}
  IN  IF fit = {} THEN <<>> ELSE <<rules[CHOOSE k \in fit : \A j \in fit : j.prefix <= k.prefix]>>

\* evaluate_ingress_v4, evaluate_ingress_v6; every listener port has the ALLOW policy.
evaluate_ingress(b, ip, port) ==
  IF port \notin b.ports THEN "PASS"
  ELSE LET rule == LongestRule(b.rules, ip, port) IN IF rule = <<"DROP">> THEN "DROP" ELSE "PASS"

\* resolve_ipv6_l4: "pass" when the ports cannot be read, "error" past the hop limit or the end.
RECURSIVE ExtHeaders(_, _)
ExtHeaders(headers, hops) ==
  IF headers = <<>> THEN "l4"
  ELSE CASE hops + 1 > MAX_EH_HOPS -> "error"
         [] Head(headers) = "truncated" -> "error"
         [] Head(headers) \in {"esp", "fragment"} -> "pass"
         [] OTHER -> ExtHeaders(Tail(headers), hops + 1)

\* The ether type behind at most two tags, and the port where there is one to read.
strip_vlan_tags(pkt) == IF pkt.tags > 2 THEN "vlan" ELSE IF pkt.ends = "vlan" THEN "error" ELSE pkt.ether
parse_l4_dst_port(pkt) == IF pkt.proto \in {"tcp", "udp"} /\ pkt.ends # "l4" THEN <<pkt.port>> ELSE <<>>

\* classify_packet and xdp_ingress: every error passes.
xdp_ingress(b, pkt) ==
  LET l4 == IF pkt.ext # <<>> THEN ExtHeaders(pkt.ext, 0) ELSE "l4"
      inspected == /\ pkt.ends \notin {"eth", "ip"} /\ strip_vlan_tags(pkt) = "ip"
                   /\ (pkt.src.v6 => l4 = "l4") /\ (~pkt.src.v6 => ~pkt.fragment)
                   /\ parse_l4_dst_port(pkt) # <<>>
  IN  IF inspected THEN evaluate_ingress(b, pkt.src, pkt.port) ELSE "PASS"

-----------------------------------------------------------------------------
(* trusted_proxies.rs.  A header is a sequence of lines, a line a sequence  *)
(* of hops; a hop is an Option of an address, empty when it does not parse. *)
(* An element of Forwarded is a sequence of directives [key, addr].         *)

TrustedProxies(nets, header, untrusted) == [allowed |-> ip_set(nets), header |-> header, on_untrusted |-> untrusted]

is_trusted(tp, ip) == tp.allowed # <<>> /\ set_contains(tp.allowed[1], ip)
proxy_admits(tp, peer) == tp.on_untrusted = "degrade" \/ is_trusted(tp, peer)
trusts(tp, peer) == peer = <<>> \/ is_trusted(tp, to_canonical(peer[1]))

forwarded_for(element) ==
  LET for == SelectSeq(element, LAMBDA d : d.key = "for") IN IF for = <<>> THEN <<>> ELSE for[1].addr

\* The hops from the closest to the farthest; an unparsable one breaks the chain.
RECURSIVE WalkHops(_, _, _)
WalkHops(tp, hops, last) ==
  IF hops = <<>> THEN last
  ELSE LET hop == Last(hops)
       IN  IF hop = <<>> THEN <<>>
           ELSE LET ip == to_canonical(hop[1])
                IN  IF is_trusted(tp, ip) THEN WalkHops(tp, Front(hops), <<ip>>) ELSE <<ip>>

rightmost_untrusted(tp, lines) == WalkHops(tp, FlattenSeq(lines), <<>>)

header_ip(tp, headers) ==
  CASE tp.header = "none" -> <<>>
    [] tp.header = "forwarded" ->
         rightmost_untrusted(tp, [i \in DOMAIN headers.forwarded |->
                                    [j \in DOMAIN headers.forwarded[i] |-> forwarded_for(headers.forwarded[i][j])]])
    [] tp.header = "x-forwarded-for" -> rightmost_untrusted(tp, headers.xff)
    [] OTHER -> IF headers.single = <<>> THEN <<>> ELSE <<to_canonical(headers.single[1])>>

resolve(tp, peer, headers) ==
  LET seen == header_ip(tp, headers)
      own == to_canonical(peer[1])
  IN  CASE peer = <<>> -> seen
        [] ~is_trusted(tp, own) -> <<own>>
        [] OTHER -> IF seen = <<>> THEN <<own>> ELSE seen

\* X-Forwarded-Proto: the last value of the last line, only from a trusted peer.
forwarded_scheme(tp, peer, lines) ==
  LET last == IF lines = <<>> THEN "" ELSE Last(Last(lines))
  IN  IF trusts(tp, peer) /\ last \in {"http", "https"} THEN <<last>> ELSE <<>>

-----------------------------------------------------------------------------
(* gateway/listener.rs.  A listener is [unix, ip, port, path, firewall,     *)
(* trusted]; firewall and trusted are Options.                              *)

Unspecified(ip) == ip.n = 0

ListenerTable(listeners) ==
  LET Bind(table, l) ==
        IF l.unix THEN [table EXCEPT !.unix = (l.path :> l) @@ @]
        ELSE LET addr == [ip |-> to_canonical(l.ip), port |-> l.port]
             IN  [table EXCEPT !.tcp = Append(SelectSeq(@, LAMBDA e : e.addr # addr), [addr |-> addr, l |-> l])]
  IN  FoldLeft(Bind, [tcp |-> <<>>, unix |-> <<>>], listeners)

lookup_tcp(table, ip, port) ==
  LET local == [ip |-> to_canonical(ip), port |-> port]
      exact == SelectSeq(table.tcp, LAMBDA e : e.addr = local)
      any == SelectSeq(table.tcp, LAMBDA e : e.addr.port = port /\ Unspecified(e.addr.ip))
      hits == exact \o any
  IN  IF hits = <<>> THEN <<>> ELSE <<hits[1].l>>

\* lookup: by the local address of the connection, [unix, ip, port, path]
lookup(table, local) ==
  IF ~local.unix THEN lookup_tcp(table, local.ip, local.port)
  ELSE IF local.path \in DOMAIN table.unix THEN <<table.unix[local.path]>> ELSE <<>>

\* An unknown listener has neither firewall nor trusted proxies.
Part(listener, name) == IF listener = <<>> THEN <<>> ELSE listener[1][name]

client_address(listener, peer, headers) ==
  LET tp == Part(listener, "trusted")
  IN  IF tp # <<>> THEN resolve(tp[1], peer, headers) ELSE IF peer # <<>> THEN <<to_canonical(peer[1])>> ELSE <<>>

client_scheme(listener, tls, peer, proto) ==
  LET tp == Part(listener, "trusted")
      told == IF tp = <<>> THEN <<>> ELSE forwarded_scheme(tp[1], peer, proto)
  IN  IF tls THEN "https" ELSE IF told = <<>> THEN "http" ELSE told[1]

admits(listener, peer) ==
  LET p == to_canonical(peer)
      fw == Part(listener, "firewall")
      tp == Part(listener, "trusted")
  IN  (fw = <<>> \/ firewall_admits(fw[1], p)) /\ (tp = <<>> \/ proxy_admits(tp[1], p))

\* ListenerGuard::process: the TLS handshake goes on unless a known peer is refused.
guard_process(table, local, peer) == peer = <<>> \/ admits(lookup(table, local), peer[1])
=============================================================================
