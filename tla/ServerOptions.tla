--------------------------- MODULE ServerOptions ---------------------------
(***************************************************************************)
(* The options of a Server and the address a request is taken to come from *)
(* (src/server.rs).  A network is the set of the addresses in it.          *)
(***************************************************************************)
EXTENDS Integers, Sequences, SequencesExt

CONSTANTS
  Addr,          \* IP addresses
  Garbage        \* what does not parse as an address or a network

ASSUME GarbageAssumption == Garbage \notin Addr

NoLimit == -1
NoPeer == {}     \* a Unix domain socket; a peer is the set of its address

\* Server::try_bind and Server::bind_unix: the same defaults.
DefaultBodyLimit == 2
DefaultOptions(target) ==
  [target |-> target, drain_timeout |-> 10, trusted_proxies |-> << >>,
   header_read_timeout |-> {}, body_limit |-> DefaultBodyLimit,
   max_connections |-> {}, tls |-> {}]

\* The setters: each replaces one option and leaves the others alone.
With(options, field, value) == [options EXCEPT ![field] = value]
NoBodyLimit(options) == With(options, "body_limit", NoLimit)

\* An entry is a network or a bare address, which stands for a network of one.
Host(ip)     == [bare |-> TRUE, ip |-> ip]
Network(net) == [bare |-> FALSE, net |-> net]
ParseTrustedProxies(entries) ==
  [i \in DOMAIN entries |->
     IF entries[i].bare THEN {entries[i].ip} ELSE entries[i].net]

Trusts(proxies, ip) == \E i \in DOMAIN proxies : ip \in proxies[i]

-----------------------------------------------------------------------------
(* resolve_client_ip. *)

\* Mutant: an entry that does not parse is skipped.
WalkOn(proxies, part, walk) ==
  IF ~walk.on \/ part = Garbage THEN walk
  ELSE [client |-> part, on |-> Trusts(proxies, part)]

\* One entry of X-Forwarded-For, from the right, until one settles it.
Walk(proxies, part, walk) ==
  IF ~walk.on THEN walk
  ELSE IF part = Garbage THEN [walk EXCEPT !.on = FALSE]
  ELSE [client |-> part, on |-> Trusts(proxies, part)]

\* chain is << >> when there is no such header.
ResolveClientIp(peer, chain, proxies) ==
  IF ~Trusts(proxies, peer) THEN peer
  ELSE FoldRight(LAMBDA part, walk : Walk(proxies, part, walk), chain,
                 [client |-> peer, on |-> TRUE]).client

\* Request::client_ip: what dispatch stored, if anything.
ClientIp(peer, chain, proxies) ==
  { ip \in Addr : \E p \in peer : ip = ResolveClientIp(p, chain, proxies) }

=============================================================================
