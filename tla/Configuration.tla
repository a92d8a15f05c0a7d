---------------------------- MODULE Configuration ----------------------------
(***************************************************************************)
(* The options of a client (client/configuration.c): which configuration   *)
(* files parseConfFile accepts, and the configuration it computes.         *)
(*                                                                         *)
(* A file is a function from the names of the options to what parser_get   *)
(* returns for them: Absent, or a value with the number that strtol,       *)
(* strtoul or strtof read at its beginning (kind "number"), or a text (the *)
(* other kinds).  The checks stop at the first error; only the message     *)
(* depends on their order, so a file is accepted when every check passes.  *)
(* Rates are in bytes per second, the code's unit times 1000.              *)
(***************************************************************************)
EXTENDS Integers

CONSTANTS
  UShortMax, IntMax, UIntMax, ULongMax,  \* the limits of the C types
  AddrBits    \* the width of an address

Absent == [kind |-> "absent", n |-> 0]

Text(kind) == [kind |-> kind, n |-> 0]

Number(n) == [kind |-> "number", n |-> n]

Given(v) == v.kind # "absent"

\* parser_get_int: 0 for a text that does not begin with a number and for a
\* number out of range; then the limit of parseConfFile.
IntRejected(v, min) ==
  Given(v) /\ (v.kind # "number" \/ v.n \notin (-IntMax - 1) .. IntMax \/ v.n < min)

\* strtoul accepts a minus sign and negates modulo the width of a long.
strtoul(n) == n % (ULongMax + 1)

\* parser_get_uint and parser_get_ushort.
UnsignedRejected(v, min, max) ==
  Given(v) /\ (v.kind # "number" \/ strtoul(v.n) > max \/ strtoul(v.n) < min)

\* parser_get_float, and the sign; an empty text is no error.
FloatRejected(v) == v.kind \notin {"absent", "empty", "number"} \/ v.n < 0

\* parser_get_bool
BoolRejected(v) == Given(v) /\ v.kind \notin {"yes", "no"}

IsTrue(v, default) == IF Given(v) THEN v.kind = "yes" ELSE default

\* inet_aton, then gethostbyname; "any" is 0.0.0.0.
HostRejected(v) == Given(v) /\ v.kind \notin {"host", "any"}

NumberOr(v, default) == IF Given(v) THEN v.n ELSE default

\* The local address: the option, else the first suitable address of the given
\* interface or, without one, of an interface that is up, running and no
\* loopback (get_local_IP).  env has those addresses and the named interfaces.
LocalIP(f, env) ==
  IF Given(f.local_host) THEN f.local_host.kind
  ELSE IF Given(f.interface)
       THEN IF f.interface.kind \in env.named THEN "host" ELSE "none"
       ELSE IF env.default THEN "host" ELSE "none"

NetworkRejected(f, env) ==
  \/ HostRejected(f.local_host) \/ ~Given(f.server_host) \/ HostRejected(f.server_host)
  \/ UnsignedRejected(f.server_port, 0, UShortMax)
  \/ UnsignedRejected(f.local_port, 0, UShortMax)
  \/ IntRejected(f.tun_mtu, 150)
  \/ BoolRejected(f.use_local_addr)
  \/ IsTrue(f.use_local_addr, TRUE) /\ HostRejected(f.override_local_addr)
  \/ LocalIP(f, env) = "none"

\* network is the length of its mask, read by strtol from one or two characters.
VpnRejected(f) ==
  \/ f.vpn_ip.kind # "number"
  \/ f.network.kind # "number" \/ f.network.n \notin 0 .. AddrBits

SecurityRejected(f) ==
  \/ ~Given(f.certificate) \/ ~Given(f.key)
  \/ ~Given(f.ca_certificates) /\ ~Given(f.ca_certificates_dir)
  \/ IntRejected(f.verify_depth, 1)

ClientRejected(f) ==
  \/ IntRejected(f.fifo_size, 1) \/ IntRejected(f.txqueue, 1)
  \/ BoolRejected(f.tun_one_queue)
  \/ FloatRejected(f.client_max_rate) \/ FloatRejected(f.connection_max_rate)
  \/ IntRejected(f.timeout, 5) \/ IntRejected(f.max_clients, 1)
  \/ UnsignedRejected(f.keepalive, 1, UIntMax)

\* send_local_addr: 2 when the address to send is given, else 1 or 0.
SendLocalAddr(f) ==
  IF ~IsTrue(f.use_local_addr, TRUE) THEN 0
  ELSE IF Given(f.override_local_addr) THEN 2 ELSE 1

AnyRejected(f, env) == SendLocalAddr(f) = 1 /\ LocalIP(f, env) = "any"

\* MESSAGE_MAX_LENGTH
MessageMaxLength(mtu) == (mtu + 200) % (UIntMax + 1)

\* MUTANT of BucketSize: half a second of traffic, whatever the packet size.
BucketSize_half(rate, mtu) == IF rate = 0 THEN 0 ELSE rate \div 2

\* The size of a bucket: half a second of traffic, at least three messages; the
\* comparison is in unsigned int, the result in size_t.
BucketSize(rate, mtu) ==
  LET least == 3 * MessageMaxLength(mtu)
  IN IF rate = 0 THEN 0
     ELSE IF rate \div 2 < least % (UIntMax + 1) THEN least ELSE rate \div 2

\* 1 << n
Pow2[n \in Nat] == IF n = 0 THEN 1 ELSE 2 * Pow2[n - 1]

\* MUTANT of get_ipv4_broadcast: the mask is shifted one bit too far.
get_ipv4_broadcast_shift(ip, len) ==
  LET hostmask == (Pow2[AddrBits] - 1) \div Pow2[IF len = AddrBits THEN len ELSE len + 1]
  IN ip - (ip % (hostmask + 1)) + hostmask

\* get_ipv4_broadcast: the host bits, 0xffffffff >> len, are set; a shift by
\* the full width is avoided.
get_ipv4_broadcast(ip, len) ==
  LET hostmask == IF len = AddrBits THEN 0 ELSE (Pow2[AddrBits] - 1) \div Pow2[len]
  IN ip - (ip % (hostmask + 1)) + hostmask

\* MUTANT of Accepted: 0.0.0.0 may be announced.
Accepted_any(f, env) ==
  /\ ~NetworkRejected(f, env) /\ ~VpnRejected(f) /\ ~SecurityRejected(f)
  /\ ~ClientRejected(f)

Accepted(f, env) ==
  /\ ~NetworkRejected(f, env) /\ ~VpnRejected(f) /\ ~SecurityRejected(f)
  /\ ~ClientRejected(f) /\ ~AnyRejected(f, env)

\* The commands to run, up or down: those of the file only when the default
\* ones are switched off; an invalid boolean is ignored.
Commands(default, given) == IF default.kind = "no" THEN given ELSE "default"

\* The fields of config, with the defaults of initConfig.
Configured(f, env) ==
  [kind |-> "full", localIP |-> LocalIP(f, env), send_local_addr |-> SendLocalAddr(f),
   announced |-> IF Given(f.override_local_addr) THEN f.override_local_addr.kind ELSE LocalIP(f, env),
   localport |-> strtoul(NumberOr(f.local_port, 0)),
   tun_mtu |-> NumberOr(f.tun_mtu, 1419),
   vpnIP |-> f.vpn_ip.n,
   vpnBroadcastIP |-> get_ipv4_broadcast(f.vpn_ip.n, f.network.n), len |-> f.network.n,
   FIFO_size |-> NumberOr(f.fifo_size, 20),
   tb_client_size |-> BucketSize(NumberOr(f.client_max_rate, 0), NumberOr(f.tun_mtu, 1419)),
   tb_connection_size |-> BucketSize(NumberOr(f.connection_max_rate, 0), NumberOr(f.tun_mtu, 1419)),
   timeout |-> NumberOr(f.timeout, 120), max_clients |-> NumberOr(f.max_clients, 100),
   keepalive |-> strtoul(NumberOr(f.keepalive, 10)),
   exec_up |-> Commands(f.default_up, "given"), exec_down |-> Commands(f.default_down, "given")]
=============================================================================
