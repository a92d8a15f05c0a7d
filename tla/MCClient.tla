------------------------------ MODULE MCClient ------------------------------
(***************************************************************************)
(* Model checking of Client.  The configuration files are a plain one and  *)
(* all that differ from it in one option, or in several that parseConfFile *)
(* combines; the values are those at which a check, a conversion or an     *)
(* overflow changes its outcome.  The limits of the C types are scaled     *)
(* down, in the same proportions.                                          *)
(***************************************************************************)
EXTENDS Client

\* The options of the plain file; the others are absent.
Plain ==
  [server_host |-> Text("host"), vpn_ip |-> Number(5), network |-> Number(2),
   certificate |-> Text("path"), key |-> Text("path"), ca_certificates |-> Text("path")]

Ints(limit) ==
  {Absent, Text("text"), Text("empty")} \cup
  {Number(n) : n \in {-1, 0, limit - 1, limit, IntMax, IntMax + 1}}

Unsigned(limit, max) ==
  {Absent, Text("text")} \cup
  {Number(n) : n \in {-ULongMax, -1, limit - 1, limit, max, max + 1}}

Flags == {Absent, Text("yes"), Text("no"), Text("text")}

Hosts == {Absent, Text("host"), Text("any"), Text("text")}

Paths == {Absent, Text("path")}

Rates == {Absent, Text("text"), Text("empty")} \cup {Number(n) : n \in {-1, 0, 1, 9998, 60000}}

Values ==
  [local_host |-> Hosts, interface |-> {Absent, Text("up"), Text("down"), Text("text")},
   server_host |-> Hosts, server_port |-> Unsigned(0, UShortMax),
   local_port |-> Unsigned(0, UShortMax),
   tun_mtu |-> Ints(150) \cup {Number(n) : n \in {UIntMax \div 3 - 200, UIntMax \div 3 - 199}},
   use_local_addr |-> Flags, override_local_addr |-> Hosts,
   vpn_ip |-> {Absent, Text("text")} \cup {Number(n) : n \in 0 .. Pow2[AddrBits] - 1},
   network |-> {Absent, Text("text")} \cup {Number(n) : n \in -1 .. AddrBits + 1},
   certificate |-> Paths, key |-> Paths, ca_certificates |-> Paths,
   ca_certificates_dir |-> Paths, verify_depth |-> Ints(1),
   fifo_size |-> Ints(1), txqueue |-> Ints(1), tun_one_queue |-> Flags,
   client_max_rate |-> Rates, connection_max_rate |-> Rates,
   timeout |-> Ints(5), max_clients |-> Ints(1), keepalive |-> Unsigned(1, UIntMax),
   default_up |-> Flags, default_down |-> Flags]

Options == DOMAIN Values

Base == [o \in Options |-> IF o \in DOMAIN Plain THEN Plain[o] ELSE Absent]

\* The options that parseConfFile combines.
Groups ==
  {{"local_host", "interface", "use_local_addr", "override_local_addr"},
   {"tun_mtu", "client_max_rate"}, {"tun_mtu", "connection_max_rate"},
   {"vpn_ip", "network"}, {"ca_certificates", "ca_certificates_dir"}}
  \cup {{o} : o \in Options}

\* The files that differ from the plain one in the options of a group.
Around(group) ==
  LET changes == {f \in [group -> UNION {Values[o] : o \in group}] :
                    \A o \in group : f[o] \in Values[o]}
  IN {[o \in Options |-> IF o \in group THEN f[o] ELSE Base[o]] : f \in changes}

MCFiles == UNION {Around(group) : group \in Groups}

MCInterfaces == {[default |-> TRUE, named |-> {"up", "down"}], [default |-> FALSE, named |-> {"down"}]}
=============================================================================
