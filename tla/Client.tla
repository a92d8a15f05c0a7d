------------------------------- MODULE Client -------------------------------
(***************************************************************************)
(* The life of the client process: main and the signal thread of           *)
(* client/campagnol.c, the outline of start_vpn (client/communication.c)   *)
(* and the two DTLS contexts of client/dtls_utils.c.                       *)
(*                                                                         *)
(* Two threads share end_campagnol, reload, the contexts and ctx_lock: the *)
(* main thread (pc) and sig_handler (sig).  The threads that create peers  *)
(* are one action.  A step is one access to the shared variables.          *)
(***************************************************************************)
EXTENDS Configuration

CONSTANTS
  Files,        \* the configuration files
  Interfaces,   \* what get_local_IP may find
  Signals,      \* the signals that may be sent: "TERM", "USR1", "USR2", "ALRM"
  MaxSignals,   \* bound on the number of signals sent
  MaxTries      \* MAX_REGISTERING_TRIES

ASSUME ConstantsAssumption ==
  /\ UIntMax \in Nat /\ MaxTries \in Nat /\ MaxSignals \in Nat /\ AddrBits \in Nat
  /\ \A f \in Files : /\ f.tun_mtu.n \in Int
                      /\ f.client_max_rate.n \in Int /\ f.connection_max_rate.n \in Int
                      /\ f.vpn_ip.n \in 0 .. Pow2[AddrBits] - 1

VARIABLES
  pc,             \* the position of main
  config,         \* the configuration, or NoConfig
  reload, end_campagnol,
  sig,            \* the position of sig_handler
  pending,        \* the signals sent to the process and not yet taken
  sent,           \* how many signals were sent
  ctx,            \* the contexts campagnol_ctx_client and campagnol_ctx_server
  ctx_lock,       \* the owner of the mutex, "free" or "destroyed"
  tries,          \* registeringTries
  timer,          \* the ping timer is set
  sockfd, tunfd,  \* open file descriptors
  pidfile,        \* the pid file exists
  send_bye, failure  \* BYE is sent at the end; exit_status is EXIT_FAILURE

flags == <<reload, end_campagnol>>
signal == <<sig, pending, sent>>
dtls == <<ctx, ctx_lock>>
vpn == <<tries, timer>>
files == <<sockfd, tunfd, pidfile>>
status == <<send_bye, failure>>
vars == <<pc, config, flags, signal, dtls, vpn, files, status>>

\* campagnol_ctx_client and campagnol_ctx_server.
Contexts == {"client", "server"}

NoConfig == [kind |-> "none"]

\* The configuration once it is checked; its values matter to other modules.
Used == [kind |-> "used"]

Init ==
  /\ pc = "args" /\ config = NoConfig
  /\ reload = FALSE /\ end_campagnol = FALSE
  /\ sig = "none" /\ pending = {} /\ sent = 0
  /\ ctx = [c \in Contexts |-> "null"] /\ ctx_lock = "free"
  /\ tries = 0 /\ timer = FALSE
  /\ sockfd = FALSE /\ tunfd = FALSE /\ pidfile = FALSE
  /\ send_bye = FALSE /\ failure = FALSE

Goto(p) == pc' = p

\* exit(): the pid file is removed by its handler.
Exit == Goto("exited") /\ pidfile' = FALSE

Fail == failure' = TRUE /\ UNCHANGED send_bye

\* parse_args, and daemonize; usage, version and a failing daemon() exit.
ParseArgs ==
  /\ pc = "args"
  /\ \/ Goto("parse") /\ UNCHANGED <<pidfile, status>>
     \/ Exit /\ (Fail \/ UNCHANGED status)
  /\ UNCHANGED <<config, flags, signal, dtls, vpn, sockfd, tunfd>>

\* parseConfFile; a file that cannot be opened ends the process.
ParseConfFile ==
  /\ pc = "parse"
  /\ \/ \E f \in Files, env \in Interfaces :
          /\ IF Accepted(f, env) THEN config' = Configured(f, env) /\ Goto("parsed")
             ELSE UNCHANGED config /\ Goto("clean_end")
          /\ UNCHANGED <<pidfile, status>>
     \/ Exit /\ Fail /\ UNCHANGED config
  /\ UNCHANGED <<flags, signal, dtls, vpn, sockfd, tunfd>>

\* create_pidfile, for a daemon only; it may fail.
CreatePidfile ==
  /\ pc = "parsed"
  /\ pidfile' \in BOOLEAN
  /\ Goto("socket") /\ config' = Used
  /\ UNCHANGED <<flags, signal, dtls, vpn, sockfd, tunfd, status>>

\* create_socket and fcntl, then all signals are masked and sig_handler starts.
CreateSocket ==
  /\ pc = "socket"
  /\ \/ Goto("tun") /\ sockfd' = TRUE /\ sig' = "wait" /\ UNCHANGED status
     \/ Goto("clean_end") /\ sockfd' \in BOOLEAN /\ Fail /\ UNCHANGED sig
  /\ UNCHANGED <<config, flags, pending, sent, dtls, vpn, tunfd, pidfile>>

InitTun ==
  /\ pc = "tun"
  /\ \/ Goto("loop") /\ tunfd' = TRUE /\ UNCHANGED status
     \/ Goto("clean_end") /\ Fail /\ UNCHANGED tunfd
  /\ UNCHANGED <<config, flags, signal, dtls, vpn, sockfd, pidfile>>

\* MUTANT of LoopHead: end_campagnol is reset before every start.
LoopHead_always ==
  /\ pc = "loop"
  /\ Goto("reset") /\ reload' = FALSE
  /\ UNCHANGED <<config, end_campagnol, signal, dtls, vpn, files, status>>

\* The head of the loop: reload = 0, then end_campagnol = 0.
LoopHead ==
  /\ pc = "loop"
  /\ Goto(IF reload THEN "reset" ELSE "vpn") /\ reload' = FALSE
  /\ UNCHANGED <<config, end_campagnol, signal, dtls, vpn, files, status>>

ResetEnd ==
  /\ pc = "reset"
  /\ Goto("vpn") /\ end_campagnol' = FALSE
  /\ UNCHANGED <<config, reload, signal, dtls, vpn, files, status>>

(***************************************************************************)
(* start_vpn                                                               *)
(***************************************************************************)
\* initDTLS creates the client context, ...
InitClientContext ==
  /\ pc = "vpn"
  /\ \/ ctx' = [ctx EXCEPT !["client"] = "live"] /\ Goto("vpn_server") /\ UNCHANGED status
     \/ /\ ctx' = [ctx EXCEPT !["client"] = "null"] /\ Goto("again")
        /\ send_bye' = TRUE /\ failure' = TRUE
  /\ UNCHANGED <<config, flags, signal, ctx_lock, vpn, files>>

\* MUTANT of InitServerContext: the lock is not initialised again.
InitServerContext_once ==
  /\ pc = "vpn_server"
  /\ \/ /\ ctx' = [ctx EXCEPT !["server"] = "live"] /\ UNCHANGED ctx_lock
        /\ Goto("register") /\ tries' = 0 /\ UNCHANGED status
     \/ /\ ctx' = [ctx EXCEPT !["client"] = "freed", !["server"] = "null"] /\ Goto("again")
        /\ send_bye' = TRUE /\ failure' = TRUE
        /\ UNCHANGED <<ctx_lock, tries>>
  /\ UNCHANGED <<config, flags, signal, timer, files>>

\* ... then the server context and the lock, or frees the first.
InitServerContext ==
  /\ pc = "vpn_server"
  /\ \/ /\ ctx' = [ctx EXCEPT !["server"] = "live"] /\ ctx_lock' = "free"
        /\ Goto("register") /\ tries' = 0 /\ UNCHANGED status
     \/ /\ ctx' = [ctx EXCEPT !["client"] = "freed", !["server"] = "null"] /\ Goto("again")
        /\ send_bye' = TRUE /\ failure' = TRUE
        /\ UNCHANGED <<ctx_lock, tries>>
  /\ UNCHANGED <<config, flags, signal, timer, files>>

\* register_rdv: one HELLO, and what its answer leads to; or its end.
Register ==
  /\ pc = "register"
  /\ \/ /\ tries < MaxTries /\ ~end_campagnol
        /\ tries' = tries + 1
        /\ \/ Goto("run") /\ timer' = TRUE
           \/ UNCHANGED <<pc, timer>>
        /\ UNCHANGED end_campagnol
     \/ /\ tries = MaxTries \/ end_campagnol
        /\ end_campagnol' = TRUE /\ Goto("join") /\ UNCHANGED <<tries, timer>>
  /\ UNCHANGED <<config, reload, signal, dtls, files, status>>

\* createClientSSL, called by comm_tun or rdv_handling: the lock, then SSL_new
\* with one of the contexts, and the lock again.
PeerLocks ==
  /\ pc = "run" /\ ctx_lock = "free"
  /\ ctx_lock' = "peer"
  /\ UNCHANGED <<pc, config, flags, signal, ctx, vpn, files, status>>

PeerUnlocks ==
  /\ pc = "run" /\ ctx_lock = "peer"
  /\ ctx_lock' = "free"
  /\ UNCHANGED <<pc, config, flags, signal, ctx, vpn, files, status>>

\* The loops of comm_tun, rdv_handling and comm_socket end and are joined.
LoopsEnd ==
  /\ pc = "run" /\ end_campagnol /\ ctx_lock # "peer"
  /\ Goto("join")
  /\ UNCHANGED <<config, flags, signal, dtls, vpn, files, status>>

\* end_peer_handling for all peers, BYE, and the wait for the last peer.
EndPeers ==
  /\ pc = "join"
  /\ tries' = 0 /\ Goto("clear")
  /\ UNCHANGED <<config, flags, signal, dtls, timer, files, status>>

\* clearDTLS frees the contexts without the lock, then destroys it, which
\* aborts when it is locked (mutexDestroy).
ClearContexts ==
  /\ pc = "clear"
  /\ ctx' = [c \in Contexts |-> "freed"]
  /\ Goto("destroy")
  /\ UNCHANGED <<config, flags, signal, ctx_lock, vpn, files, status>>

\* MUTANT of DestroyLock: the lock is left as it is.
DestroyLock_left ==
  /\ pc = "destroy"
  /\ Goto("again")
  /\ UNCHANGED <<config, flags, signal, dtls, vpn, files, status>>

DestroyLock ==
  /\ pc = "destroy"
  /\ IF ctx_lock = "free" THEN ctx_lock' = "destroyed" /\ Goto("again")
     ELSE UNCHANGED ctx_lock /\ Goto("aborted")
  /\ UNCHANGED <<config, flags, signal, ctx, vpn, files, status>>

\* MUTANT of LoopCondition: end_campagnol ends the loop.
LoopCondition_end ==
  /\ pc = "again"
  /\ Goto(IF reload /\ ~end_campagnol THEN "loop" ELSE "clean_end")
  /\ UNCHANGED <<config, flags, signal, dtls, vpn, files, status>>

\* while (reload)
LoopCondition ==
  /\ pc = "again"
  /\ Goto(IF reload THEN "loop" ELSE "clean_end")
  /\ UNCHANGED <<config, flags, signal, dtls, vpn, files, status>>

\* clean_end: BYE if start_vpn failed, close_tun, close, freeConfig; then exit.
CleanEnd ==
  /\ pc = "clean_end"
  /\ Goto("exit") /\ sockfd' = FALSE /\ tunfd' = FALSE /\ config' = NoConfig
  /\ UNCHANGED <<flags, signal, dtls, vpn, pidfile, status>>

ExitProcess ==
  /\ pc = "exit" /\ Exit
  /\ UNCHANGED <<config, flags, signal, dtls, vpn, sockfd, tunfd, status>>

MainStep ==
  \/ ParseArgs \/ ParseConfFile \/ CreatePidfile \/ CreateSocket \/ InitTun
  \/ LoopHead \/ ResetEnd \/ InitClientContext \/ InitServerContext \/ Register
  \/ LoopsEnd \/ EndPeers \/ ClearContexts \/ DestroyLock \/ LoopCondition
  \/ CleanEnd \/ ExitProcess \/ PeerUnlocks

(***************************************************************************)
(* Signals                                                                 *)
(***************************************************************************)
Running == pc \notin {"exited", "aborted", "killed"}

\* A signal is sent.  Before signals are masked it kills the process.
Send(s) ==
  /\ Running /\ sent < MaxSignals
  /\ sent' = sent + 1
  /\ IF sig = "none" THEN Goto("killed") /\ config' = NoConfig /\ UNCHANGED pending
     ELSE pending' = pending \cup {s} /\ UNCHANGED <<pc, config>>
  /\ UNCHANGED <<flags, sig, dtls, vpn, files, status>>

\* SIGALRM is sent by the timer too.
TimerExpires ==
  /\ Running /\ timer
  /\ pending' = pending \cup {"ALRM"}
  /\ UNCHANGED <<pc, config, flags, sig, sent, dtls, vpn, files, status>>

\* sig_handler takes a signal.
TakeTerm ==
  /\ Running /\ sig = "wait" /\ "TERM" \in pending
  /\ pending' = pending \ {"TERM"}
  /\ end_campagnol' = TRUE /\ timer' = FALSE /\ sig' = "returned"
  /\ UNCHANGED <<pc, config, reload, sent, dtls, tries, files, status>>

\* handler_sigTimerPing sends PING.
TakeAlrm ==
  /\ Running /\ sig = "wait" /\ "ALRM" \in pending
  /\ pending' = pending \ {"ALRM"}
  /\ UNCHANGED <<pc, config, flags, sig, sent, dtls, vpn, files, status>>

TakeUsr1 ==
  /\ Running /\ sig = "wait" /\ "USR1" \in pending
  /\ pending' = pending \ {"USR1"}
  /\ end_campagnol' = TRUE /\ sig' = "usr1"
  /\ UNCHANGED <<pc, config, reload, sent, dtls, vpn, files, status>>

SetReload ==
  /\ Running /\ sig = "usr1"
  /\ reload' = TRUE /\ sig' = "wait"
  /\ UNCHANGED <<pc, config, end_campagnol, pending, sent, dtls, vpn, files, status>>

TakeUsr2 ==
  /\ Running /\ sig = "wait" /\ "USR2" \in pending
  /\ pending' = pending \ {"USR2"}
  /\ sig' = IF end_campagnol THEN "wait" ELSE "rebuild"
  /\ UNCHANGED <<pc, config, flags, sent, dtls, vpn, files, status>>

\* rebuildDTLS: the lock (a destroyed one aborts), ...
RebuildLocks ==
  /\ Running /\ sig = "rebuild" /\ ctx_lock # "peer"
  /\ IF ctx_lock = "destroyed" THEN Goto("aborted") /\ UNCHANGED <<sig, ctx_lock>>
     ELSE ctx_lock' = "sig" /\ sig' = "client" /\ UNCHANGED pc
  /\ UNCHANGED <<config, flags, pending, sent, ctx, vpn, files, status>>

Unlocked == IF ctx_lock = "sig" THEN "free" ELSE ctx_lock

\* MUTANT of RebuildFrees: the context is freed before the new one is created.
RebuildFrees_first(c, next) ==
  /\ Running /\ sig = c
  /\ ctx' = [ctx EXCEPT ![c] = "freed"]
  /\ \/ sig' = next /\ UNCHANGED ctx_lock
     \/ sig' = "wait" /\ ctx_lock' = Unlocked
  /\ UNCHANGED <<pc, config, flags, pending, sent, vpn, files, status>>

\* ... for each context, a new one is created, else the lock is released; ...
RebuildFrees(c, next) ==
  /\ Running /\ sig = c
  /\ \/ sig' = next /\ ctx' = [ctx EXCEPT ![c] = "freed"] /\ UNCHANGED ctx_lock
     \/ sig' = "wait" /\ ctx_lock' = Unlocked /\ UNCHANGED ctx
  /\ UNCHANGED <<pc, config, flags, pending, sent, vpn, files, status>>

\* ... the old one is freed and then replaced.
RebuildReplacesClient ==
  /\ Running /\ sig = "new_client"
  /\ ctx' = [ctx EXCEPT !["client"] = "live"] /\ sig' = "server"
  /\ UNCHANGED <<pc, config, flags, pending, sent, ctx_lock, vpn, files, status>>

RebuildReplacesServer ==
  /\ Running /\ sig = "new_server"
  /\ ctx' = [ctx EXCEPT !["server"] = "live"] /\ sig' = "wait" /\ ctx_lock' = Unlocked
  /\ UNCHANGED <<pc, config, flags, pending, sent, vpn, files, status>>

SignalStep ==
  \/ TakeTerm \/ TakeAlrm \/ TakeUsr1 \/ SetReload \/ TakeUsr2 \/ RebuildLocks
  \/ RebuildFrees("client", "new_client") \/ RebuildFrees("server", "new_server")
  \/ RebuildReplacesClient \/ RebuildReplacesServer

Next ==
  \/ MainStep \/ PeerLocks \/ SignalStep
  \/ \E s \in Signals : Send(s)
  \/ TimerExpires

Spec == Init /\ [][Next]_vars

\* Both threads are scheduled; select, BIO_read and the peers' waits time out.
\* Every loop of the session looks at end_campagnol at its next turn.
FairSpec == Spec /\ WF_vars(MainStep) /\ SF_vars(LoopsEnd) /\ WF_vars(SignalStep)
-----------------------------------------------------------------------------
(***************************************************************************)
(* Properties                                                              *)
(***************************************************************************)
\* rebuildDTLS runs and has taken the lock.
Rebuilding == sig \in {"client", "new_client", "server", "new_server"}

\* The contexts exist and peers may be created.
InSession == pc \in {"register", "run", "join"}

\* A bucket that parseConfFile sizes holds the largest message with the
\* overhead of 8 that tb_count adds, as its ASSERT requires
\* (rate_limiter.c:112).  The exception is an MTU so large that
\* 3 * MESSAGE_MAX_LENGTH overflows an unsigned int.
BucketsHoldMessages ==
  pc = "parsed" /\ config.tun_mtu <= UIntMax \div 3 - 200 =>
    \A size \in {config.tb_client_size, config.tb_connection_size} \ {0} :
      size >= MessageMaxLength(config.tun_mtu) + 8

\* vpnBroadcastIP is the last address of the subnetwork of vpnIP, for every
\* mask length from 0 to the full width (get_ipv4_broadcast).
BroadcastIsLast ==
  pc = "parsed" =>
    LET block == Pow2[AddrBits - config.len]
        subnet == {ip \in 0 .. Pow2[AddrBits] - 1 : ip \div block = config.vpnIP \div block}
    IN /\ config.vpnBroadcastIP \in subnet
       /\ \A ip \in subnet : ip <= config.vpnBroadcastIP

\* HELLO never announces the unspecified address, unless the file gives it as
\* the address to announce: the address may come from an option, from an
\* interface or from the first interface that is up (register_rdv).
AnnouncesAnAddress ==
  pc = "parsed" /\ config.send_local_addr # 0 /\ config.announced # "host" =>
    config.send_local_addr = 2 /\ config.announced = "any"

\* While peers may be created both contexts are live, except the one that
\* rebuildDTLS is just replacing: whatever SIGUSR2 did before, and however
\* often start_vpn ran, and also when createContext fails half-way.
ContextsUsable ==
  InSession =>
    /\ ctx["client"] = "live" \/ sig = "new_client"
    /\ ctx["server"] = "live" \/ sig = "new_server"

\* In a session, a rebuild that excludes createClientSSL goes on excluding it
\* until it is done.  (One that began before initDTLS does not: mutexInit
\* makes the lock it holds free.)
RebuildExcludesPeers ==
  [][InSession /\ InSession' /\ (Rebuilding => ctx_lock = "sig")
       => (Rebuilding' => ctx_lock' = "sig")]_vars

\* The mutex wrappers abort the process when a lock is misused; clearDTLS and
\* rebuildDTLS can meet so, but never while peers may be created.
NoAbortInSession == [][InSession => pc' # "aborted"]_vars

\* freeConfig is not called under a rebuildDTLS that holds ctx_lock and reads
\* config, unless start-up failed: destroying the lock sees to it.
ConfigOutlivesRebuild ==
  pc = "exit" /\ Rebuilding /\ ~failure => ctx_lock # "sig"

\* SIGTERM, SIGINT and SIGQUIT end the process, unless a reload is under way:
\* the end_campagnol that sig_handler set is kept, and suffices.
TermQuitsUnlessReloading ==
  (sig = "returned" /\ end_campagnol /\ ~reload /\ pc # "reset") ~> (pc = "exited")

\* A SIGUSR1 that finds the client in start_vpn restarts it.
ReloadRestarts ==
  (reload /\ end_campagnol /\ InSession) ~> (pc \in {"vpn", "aborted"})
=============================================================================
