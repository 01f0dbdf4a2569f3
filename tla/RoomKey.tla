------------------------------ MODULE RoomKey ------------------------------
(***************************************************************************)
(* Which room a connection lands in: the handshake callback and the        *)
(* effective-IP decision of handle_connection, with is_private_ip, in      *)
(* signal/src/server.rs.                                                   *)
(*                                                                         *)
(* An address is what its text tells the string tests of the code: the     *)
(* octets of an IPv4 address, or the first group of an IPv6 address, the   *)
(* value of the rest, and whether the hex digits are spelled in capitals   *)
(* (a header's text is kept as the client or proxy wrote it).              *)
(***************************************************************************)
EXTENDS Integers

CONSTANTS
    Sockets,    \* peer addresses of TCP connections, canonically spelled
    Headers     \* header values: addresses, Absent, Garbage

Absent == [kind |-> "absent"]
Garbage == [kind |-> "garbage"]
Local == [kind |-> "local"]
Address(h) == h.kind \in {"v4", "v6"}

ASSUME AddressAssumption ==
    /\ Absent \in Headers
    /\ \A a \in Sockets \cup Headers : a.kind = "v4" => a.octets \in [1 .. 4 -> 0 .. 255]

VARIABLES
    trusted,    \* trusted_proxies
    socket,     \* addr.ip()
    fly,        \* the Fly-Client-IP header
    xff,        \* the first entry of X-Forwarded-For
    forwarded,  \* forwarded_for, written by the callback
    key         \* client_ip, the room's key; Absent until it is decided

keyVars == <<trusted, socket, fly, xff, forwarded, key>>

NoRequest ==
    /\ trusted = {}
    /\ socket = Absent
    /\ fly = Absent
    /\ xff = Absent
    /\ forwarded = Absent
    /\ key = Absent

(* A stream is accepted by a server with this list of proxies, and will    *)
(* carry a request with these headers.                                     *)
Request(proxies) ==
    /\ trusted' = proxies
    /\ socket' \in Sockets
    /\ fly' \in Headers
    /\ xff' \in Headers
    /\ UNCHANGED <<forwarded, key>>

-----------------------------------------------------------------------------
(* Operators named Bad... are wrong versions of the definition after them   *)
(* (see the README); no action uses them.                                  *)
BadPrivateV4(a) ==
    \/ a.octets = <<127, 0, 0, 1>>
    \/ a.octets[1] = 10
    \/ a.octets[1] = 192 /\ a.octets[2] = 168
    \/ a.octets[1] = 169 /\ a.octets[2] = 254
    \/ a.octets[1] = 172 /\ a.octets[2] \in 16 .. 30
    \/ a.octets[1] = 100 /\ a.octets[2] \in 64 .. 127

PrivateV4(a) ==
    \/ a.octets = <<127, 0, 0, 1>>
    \/ a.octets[1] = 10
    \/ a.octets[1] = 192 /\ a.octets[2] = 168
    \/ a.octets[1] = 169 /\ a.octets[2] = 254
    \/ a.octets[1] = 172 /\ a.octets[2] \in 16 .. 31
    \/ a.octets[1] = 100 /\ a.octets[2] \in 64 .. 127

(* The shortest hexadecimal text of a group starts with the two digits of p. *)
StartsWith(group, p) == p \in {group, group \div 16, group \div 256}

PrivateV6(a) ==
    \/ a.group = 0 /\ a.rest = 1
    \/ ~a.capitals /\ (StartsWith(a.group, 252) \/ StartsWith(a.group, 253))
    \/ ~a.capitals /\ a.group = 65152   \* "fe80"

IsPrivate(a) == IF a.kind = "v4" THEN PrivateV4(a) ELSE PrivateV6(a)

(* The handshake callback: Fly-Client-IP if it parses, else the first      *)
(* entry of X-Forwarded-For if that does.                                  *)
ForwardedFor ==
    IF Address(fly) THEN fly ELSE IF Address(xff) THEN xff ELSE Absent

BadRawIp == IF Address(forwarded) THEN forwarded ELSE socket

(* The forwarded address counts when the socket is a configured proxy or   *)
(* itself private.                                                         *)
RawIp ==
    IF Address(forwarded) /\ (socket \in trusted \/ IsPrivate(socket))
    THEN forwarded ELSE socket

RoomOf(raw) == IF IsPrivate(raw) THEN Local ELSE raw

Callback ==
    /\ Address(socket)
    /\ key = Absent
    /\ forwarded = Absent
    /\ forwarded' = ForwardedFor
    /\ forwarded' # Absent
    /\ UNCHANGED <<trusted, socket, fly, xff, key>>

Decide ==
    /\ Address(socket)
    /\ key = Absent
    /\ forwarded = ForwardedFor     \* the handshake has returned
    /\ key' = RoomOf(RawIp)
    /\ UNCHANGED <<trusted, socket, fly, xff, forwarded>>

-----------------------------------------------------------------------------
(* The blocks the code's comments name, by their prefix lengths: 10/8,     *)
(* 192.168/16, 169.254/16, 172.16/12, 100.64/10; size is how many second   *)
(* octets a prefix leaves.                                                 *)
InBlock(a, first, second, size) ==
    /\ a.octets[1] = first
    /\ a.octets[2] \div size = second \div size

LanV4(a) ==
    \/ a.octets[1] = 10
    \/ InBlock(a, 192, 168, 1)
    \/ InBlock(a, 169, 254, 1)
    \/ InBlock(a, 172, 16, 16)
    \/ InBlock(a, 100, 64, 64)

Loopback(a) == a.octets[1] = 127

(* A client that reaches the server from a public IPv4 address, and not    *)
(* through a configured proxy, is in the room of that address whatever its *)
(* headers say: it can choose neither another's room nor the local one.    *)
OutsiderKeepsOwnRoom ==
    /\ key # Absent
    /\ socket.kind = "v4" /\ ~LanV4(socket) /\ ~Loopback(socket)
    /\ socket \notin trusted
    => key = socket

(* Clients of one LAN find each other: an IPv4 address of any private block*)
(* is in the local room, and so is the host's own 127.0.0.1, whether it is *)
(* the socket's or the one a configured proxy reports.                     *)
LanSharesOneRoom ==
    LET onLan(a) == a.kind = "v4" /\ (LanV4(a) \/ a.octets = <<127, 0, 0, 1>>)
    IN  key # Absent =>
        /\ ForwardedFor = Absent /\ onLan(socket) => key = Local
        /\ socket \in trusted /\ onLan(ForwardedFor) => key = Local
=============================================================================
