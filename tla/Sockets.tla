------------------------------ MODULE Sockets ------------------------------
(***************************************************************************)
(* Addresses on their way between a program and the kernel: socket_tcp,    *)
(* socket_udp, socket_bind, socket_connect, socket_send, and socket_recv,  *)
(* socket_accept, socket_local, socket_remote.  The library has one form   *)
(* of address, of 16 bytes; which family the kernel sees is chosen by the  *)
(* address or by the global ipv4socket, which a program sets from the      *)
(* address it means, and every lookup of a name sets for its servers.  The *)
(* bytes of ports are in module Packed.                                    *)
(***************************************************************************)
EXTENDS Integers

CONSTANTS
  Heads,   \* the first 12 bytes of addresses
  Mapped,  \* V4mappedprefix, one of them
  Lows,    \* their last 4 bytes
  Scopes   \* numbers of interfaces; 0 is none

ASSUME SocketsAssumption == Mapped \in Heads /\ Lows # {} /\ 0 \in Scopes

VARIABLES
  ipv4socket,
  sock,      \* the family of the socket, or 0
  ip, scope, \* the address the program works with
  given,     \* the last call with an address: which, what the kernel was given, and
             \* whether ipv4socket was stale
  heard,     \* the address the kernel gave last
  told,      \* history: the program wanted its interface as well
  stale,     \* history: the program has not set ipv4socket, or a lookup has since
  fellback   \* history: the socket was made for IPv4 because there is no IPv6

socketVars == <<ipv4socket, sock, ip, scope, given, heard, told, stale, fellback>>

Addresses == [prefix : Heads, low : Lows]
IsMapped(a) == a.prefix = Mapped

Sockaddr4(low) == [family |-> 4, addr |-> low, scope |-> 0]
Sockaddr6(a, s) == [family |-> 6, addr |-> a, scope |-> s]
Nothing == [family |-> 0, addr |-> 0, scope |-> 0]
NoCall == [call |-> "none", sa |-> Nothing, stale |-> TRUE]

SocketsInit ==
  /\ ipv4socket = FALSE /\ sock = 0 /\ ip = [prefix |-> Mapped, low |-> CHOOSE l \in Lows : TRUE] /\ scope = 0
  /\ given = NoCall /\ heard = Nothing /\ told = FALSE /\ stale = TRUE /\ fellback = FALSE

\* the program sets ipv4socket from the address it means; so does dns_transmit for a
\* server, in its own call
Means(a, s) ==
  /\ ip' = a /\ scope' = s /\ ipv4socket' = IsMapped(a)
  /\ sock' = 0 /\ given' = NoCall /\ heard' = Nothing /\ told' = FALSE
  /\ stale' = FALSE /\ fellback' = FALSE

Lookup(a) ==
  /\ ipv4socket' = IsMapped(a) /\ stale' = TRUE
  /\ UNCHANGED <<sock, ip, scope, given, heard, told, fellback>>

\* socket_tcp4, socket_udp4: the kernel makes the socket, and it stays when ndelay_on
\* succeeds
Socket4 == sock' \in {0, 4}

\* socket_tcp6, socket_udp6: the kernel has no such family, fails, or makes a socket
Socket6 == \/ Socket4 /\ fellback' = (sock' = 4)
           \/ sock' \in {0, 6} /\ fellback' = FALSE

\* socket_tcp, socket_udp
OpenSocket ==
  /\ sock = 0 /\ UNCHANGED <<ipv4socket, ip, scope, given, heard, told, stale>>
  /\ IF ipv4socket THEN Socket4 /\ UNCHANGED fellback ELSE Socket6

Tells(name, four) ==
  /\ sock # 0 /\ UNCHANGED <<ipv4socket, sock, ip, scope, heard, told, stale, fellback>>
  /\ given' = [call |-> name, stale |-> stale,
                sa |-> IF four THEN Sockaddr4(ip.low) ELSE Sockaddr6(ip, scope)]

SocketBind == Tells("bind", ipv4socket)
SocketConnect == Tells("connect", ipv4socket \/ IsMapped(ip))
SocketSend == Tells("send", IsMapped(ip))

\* faulty variant of Taken: the family is not looked at
TakenAsIs(sa) == IF sa.family = 4 THEN [prefix |-> CHOOSE p \in Heads \ {Mapped} : TRUE, low |-> sa.addr] ELSE sa.addr

\* the address of a sockaddr, in the form of the library
Taken(sa) == IF sa.family = 4 THEN [prefix |-> Mapped, low |-> sa.addr] ELSE sa.addr

\* an answer of the kernel: a socket of IPv6 may hear mapped addresses; the interface is
\* written where the program says
Hears(sa, wanted) ==
  /\ sock # 0 /\ sa.family = sock
  /\ heard' = sa /\ ip' = Taken(sa) /\ told' = wanted
  /\ scope' = IF ~wanted THEN scope ELSE IF sa.family = 4 THEN 0 ELSE sa.scope
  /\ given' = NoCall /\ UNCHANGED <<ipv4socket, sock, stale, fellback>>

\* a null pointer says that the interface is not wanted
SocketRecv(sa) == \E wanted \in BOOLEAN : Hears(sa, wanted)
SocketAccept(sa) == \E wanted \in BOOLEAN : Hears(sa, wanted)
SocketLocal(sa) == \E wanted \in BOOLEAN : Hears(sa, wanted)

\* writes the interface without a look at the pointer: a program must pass one, which the
\* example of man/socket_info.3:37 does not
SocketRemote(sa) == Hears(sa, TRUE)

Answers(sa) == SocketRecv(sa) \/ SocketAccept(sa) \/ SocketLocal(sa) \/ SocketRemote(sa)

SocketsNext ==
  \/ \E a \in Addresses, s \in Scopes : Means(a, s) \/ Answers(Sockaddr6(a, s))
  \/ \E a \in Addresses : Lookup(a)
  \/ \E l \in Lows : Answers(Sockaddr4(l))
  \/ OpenSocket \/ SocketBind \/ SocketConnect \/ SocketSend

SocketsSpec == SocketsInit /\ [][SocketsNext]_socketVars

-----------------------------------------------------------------------------
\* Whom a sockaddr names
HostOf(x) == IF x.family = 4 THEN [prefix |-> Mapped, low |-> x.addr] ELSE x.addr

\* The kernel is told the host the program means, with its interface, and the program
\* the host the kernel names, with the interface if it wants it: an answer goes to who has
\* asked.  One thing can go wrong: when a lookup of a name has come between the program's
\* assignment of ipv4socket and the call, bind and connect may take an address of IPv6 for
\* the IPv4 address in its last 4 bytes (socket_bind.c:67-81, socket_connect.c:48-54,
\* dns_transmit.c:138).  Mapped addresses, and all addresses of socket_send.c:45-51, are
\* right whatever has come in between; so are those of the kernel (socket_recv.c:16-40,
\* socket_info.c, socket_setup.c:17-39).
RightHost ==
  /\ heard # Nothing => HostOf(heard) = ip /\ (told => heard.scope = scope)
  /\ given.call # "none" =>
       \/ HostOf(given.sa) = ip /\ (given.sa.family = 6 => given.sa.scope = scope)
       \/ given.stale /\ given.call # "send" /\ ~IsMapped(ip) /\ given.sa = Sockaddr4(ip.low)

\* A program that sets ipv4socket from its address, opens a socket, binds and connects it
\* with this address gives the kernel addresses of the family of the socket, unless a
\* lookup came before the call or there was no IPv6 (man/socket_if.3, socket_tcp.c:25-56,
\* socket_udp.c:25-56).
FamilyFits ==
  given.call \in {"bind", "connect"} /\ heard = Nothing =>
    given.sa.family = sock \/ given.stale \/ fellback

\* The addresses that go to the kernel and come from it name the right host in the right
\* form; after a lookup in between, bind and connect may name the last 4 bytes of an IPv6
\* address as an IPv4 host, and nothing else can go wrong (socket_bind.c,
\* socket_connect.c, socket_send.c, socket_recv.c, socket_info.c, socket_setup.c).
AddressesFit == RightHost /\ FamilyFits
=============================================================================
