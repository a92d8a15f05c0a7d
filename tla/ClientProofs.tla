---------------------------- MODULE ClientProofs ----------------------------
(***************************************************************************)
(* Proofs about Client, for every set of configuration files, every number *)
(* of signals and all limits of the types: what an accepted configuration  *)
(* guarantees, its broadcast address, and what the two threads may do to   *)
(* the DTLS contexts and to their lock.                                    *)
(***************************************************************************)
EXTENDS Client, WellFoundedInduction, TLAPS

\* The context is live, or rebuildDTLS is just replacing it.
ClientUsable == ctx["client"] = "live" \/ sig = "new_client"
ServerUsable == ctx["server"] = "live" \/ sig = "new_server"

\* start_vpn makes the contexts usable one after the other and then the lock.
SessionInv ==
  /\ ctx \in [Contexts -> {"null", "live", "freed"}]
  /\ pc = "vpn_server" => ClientUsable
  /\ InSession => ClientUsable /\ ServerUsable /\ ctx_lock # "destroyed"

\* A client that starts has the invariant.
LEMMA SessionInit == Init => SessionInv
  BY DEF Init, SessionInv, InSession, Contexts

\* Every step of either thread keeps it.
LEMMA SessionNext == SessionInv /\ [Next]_vars => SessionInv'
<1> SUFFICES ASSUME SessionInv, [Next]_vars PROVE SessionInv'
  OBVIOUS
<1> USE DEF SessionInv, ClientUsable, ServerUsable, InSession, Contexts
<1>1. CASE UNCHANGED vars
  BY <1>1, Zenon DEF vars, dtls, signal
<1>2. CASE MainStep
  <2> USE DEF Goto, Exit, Fail, signal, dtls
  <2>1. CASE ParseArgs BY <2>1 DEF ParseArgs
  <2>2. CASE ParseConfFile BY <2>2 DEF ParseConfFile
  <2>3. CASE CreatePidfile BY <2>3 DEF CreatePidfile
  <2>4. CASE CreateSocket BY <2>4 DEF CreateSocket
  <2>5. CASE InitTun BY <2>5 DEF InitTun
  <2>6. CASE LoopHead BY <2>6 DEF LoopHead
  <2>7. CASE ResetEnd BY <2>7 DEF ResetEnd
  <2>8. CASE InitClientContext BY <2>8 DEF InitClientContext
  <2>9. CASE InitServerContext BY <2>9 DEF InitServerContext
  <2>10. CASE Register BY <2>10 DEF Register
  <2>11. CASE LoopsEnd BY <2>11 DEF LoopsEnd
  <2>12. CASE EndPeers BY <2>12 DEF EndPeers
  <2>13. CASE ClearContexts BY <2>13 DEF ClearContexts
  <2>14. CASE DestroyLock BY <2>14 DEF DestroyLock
  <2>15. CASE LoopCondition BY <2>15 DEF LoopCondition
  <2>16. CASE CleanEnd BY <2>16 DEF CleanEnd
  <2>17. CASE ExitProcess BY <2>17 DEF ExitProcess
  <2>18. CASE PeerUnlocks BY <2>18 DEF PeerUnlocks
  <2> QED BY <1>2, <2>1, <2>2, <2>3, <2>4, <2>5, <2>6, <2>7, <2>8, <2>9, <2>10, <2>11,
             <2>12, <2>13, <2>14, <2>15, <2>16, <2>17, <2>18 DEF MainStep
<1>3. CASE PeerLocks
  BY <1>3 DEF PeerLocks, signal
<1>4. CASE SignalStep
  <2> USE DEF Goto, dtls, Running, Unlocked
  <2>1. CASE TakeTerm BY <2>1 DEF TakeTerm
  <2>2. CASE TakeAlrm BY <2>2 DEF TakeAlrm
  <2>3. CASE TakeUsr1 BY <2>3 DEF TakeUsr1
  <2>4. CASE SetReload BY <2>4 DEF SetReload
  <2>5. CASE TakeUsr2 BY <2>5 DEF TakeUsr2
  <2>6. CASE RebuildLocks BY <2>6 DEF RebuildLocks
  <2>7. CASE RebuildFrees("client", "new_client") BY <2>7 DEF RebuildFrees
  <2>8. CASE RebuildFrees("server", "new_server") BY <2>8 DEF RebuildFrees
  <2>9. CASE RebuildReplacesClient BY <2>9 DEF RebuildReplacesClient
  <2>10. CASE RebuildReplacesServer BY <2>10 DEF RebuildReplacesServer
  <2> QED BY <1>4, <2>1, <2>2, <2>3, <2>4, <2>5, <2>6, <2>7, <2>8, <2>9, <2>10 DEF SignalStep
<1>5. ASSUME NEW s \in Signals, Send(s) PROVE SessionInv'
  BY <1>5 DEF Send, Goto, dtls
<1>6. CASE TimerExpires
  BY <1>6 DEF TimerExpires, dtls
<1> QED BY <1>1, <1>2, <1>3, <1>4, <1>5, <1>6 DEF Next

\* While peers may be created, both contexts are live or just being replaced,
\* through any sequence of reloads, rebuilds and failures of createContext.
THEOREM ContextsAreUsable == Spec => []ContextsUsable
<1>1. SessionInv => ContextsUsable
  BY DEF SessionInv, ContextsUsable, ClientUsable, ServerUsable
<1> QED BY <1>1, SessionInit, SessionNext, PTL DEF Spec

\* The lock cannot be a destroyed one in a session, so that nobody aborts there.
LEMMA AbortStep == SessionInv /\ [Next]_vars => (InSession => pc' # "aborted")
<1> SUFFICES ASSUME SessionInv, [Next]_vars, InSession PROVE pc' # "aborted"
  OBVIOUS
<1> USE DEF InSession, SessionInv
<1>1. CASE UNCHANGED vars
  BY <1>1 DEF vars
<1>2. CASE MainStep
  <2> USE DEF Goto, Exit, Fail
  <2>1. CASE ParseArgs BY <2>1 DEF ParseArgs
  <2>2. CASE ParseConfFile BY <2>2 DEF ParseConfFile
  <2>3. CASE CreatePidfile BY <2>3 DEF CreatePidfile
  <2>4. CASE CreateSocket BY <2>4 DEF CreateSocket
  <2>5. CASE InitTun BY <2>5 DEF InitTun
  <2>6. CASE LoopHead BY <2>6 DEF LoopHead
  <2>7. CASE ResetEnd BY <2>7 DEF ResetEnd
  <2>8. CASE InitClientContext BY <2>8 DEF InitClientContext
  <2>9. CASE InitServerContext BY <2>9 DEF InitServerContext
  <2>10. CASE Register BY <2>10 DEF Register
  <2>11. CASE LoopsEnd BY <2>11 DEF LoopsEnd
  <2>12. CASE EndPeers BY <2>12 DEF EndPeers
  <2>13. CASE ClearContexts BY <2>13 DEF ClearContexts
  <2>14. CASE DestroyLock BY <2>14 DEF DestroyLock
  <2>15. CASE LoopCondition BY <2>15 DEF LoopCondition
  <2>16. CASE CleanEnd BY <2>16 DEF CleanEnd
  <2>17. CASE ExitProcess BY <2>17 DEF ExitProcess
  <2>18. CASE PeerUnlocks BY <2>18 DEF PeerUnlocks
    <2> QED BY <1>2, <2>1, <2>2, <2>3, <2>4, <2>5, <2>6, <2>7, <2>8, <2>9, <2>10, <2>11,
             <2>12, <2>13, <2>14, <2>15, <2>16, <2>17, <2>18 DEF MainStep
<1>3. CASE PeerLocks
  BY <1>3 DEF PeerLocks
<1>4. CASE SignalStep
  <2> USE DEF Goto
  <2>1. CASE TakeTerm BY <2>1 DEF TakeTerm
  <2>2. CASE TakeAlrm BY <2>2 DEF TakeAlrm
  <2>3. CASE TakeUsr1 BY <2>3 DEF TakeUsr1
  <2>4. CASE SetReload BY <2>4 DEF SetReload
  <2>5. CASE TakeUsr2 BY <2>5 DEF TakeUsr2
  <2>6. CASE RebuildLocks BY <2>6 DEF RebuildLocks
  <2>7. CASE RebuildFrees("client", "new_client") BY <2>7 DEF RebuildFrees
  <2>8. CASE RebuildFrees("server", "new_server") BY <2>8 DEF RebuildFrees
  <2>9. CASE RebuildReplacesClient BY <2>9 DEF RebuildReplacesClient
  <2>10. CASE RebuildReplacesServer BY <2>10 DEF RebuildReplacesServer
    <2> QED BY <1>4, <2>1, <2>2, <2>3, <2>4, <2>5, <2>6, <2>7, <2>8, <2>9, <2>10 DEF
             SignalStep
<1>5. ASSUME NEW s \in Signals, Send(s) PROVE pc' # "aborted"
  BY <1>5 DEF Send, Goto
<1>6. CASE TimerExpires
  BY <1>6 DEF TimerExpires
<1> QED BY <1>1, <1>2, <1>3, <1>4, <1>5, <1>6 DEF Next

\* No mutex wrapper aborts the process while peers may be created.
THEOREM SessionsDoNotAbort == Spec => NoAbortInSession
<1>1. SessionInv /\ [Next]_vars => [InSession => pc' # "aborted"]_vars
  BY AbortStep
<1> QED BY <1>1, SessionInit, SessionNext, PTL DEF Spec, NoAbortInSession

\* A step of a session leaves the lock with the rebuild that has it.
LEMMA ExclusionStep ==
  [Next]_vars =>
    (InSession /\ InSession' /\ (Rebuilding => ctx_lock = "sig")
       => (Rebuilding' => ctx_lock' = "sig"))
<1> SUFFICES ASSUME [Next]_vars, InSession, InSession', Rebuilding => ctx_lock = "sig",
                    Rebuilding'
             PROVE  ctx_lock' = "sig"
  OBVIOUS
<1> USE DEF InSession, Rebuilding
<1>1. CASE UNCHANGED vars
  BY <1>1 DEF vars, dtls, signal
<1>2. CASE MainStep
  <2> USE DEF Goto, Exit, Fail, signal, dtls
  <2>1. CASE ParseArgs BY <2>1 DEF ParseArgs
  <2>2. CASE ParseConfFile BY <2>2 DEF ParseConfFile
  <2>3. CASE CreatePidfile BY <2>3 DEF CreatePidfile
  <2>4. CASE CreateSocket BY <2>4 DEF CreateSocket
  <2>5. CASE InitTun BY <2>5 DEF InitTun
  <2>6. CASE LoopHead BY <2>6 DEF LoopHead
  <2>7. CASE ResetEnd BY <2>7 DEF ResetEnd
  <2>8. CASE InitClientContext BY <2>8 DEF InitClientContext
  <2>9. CASE InitServerContext BY <2>9 DEF InitServerContext
  <2>10. CASE Register BY <2>10 DEF Register
  <2>11. CASE LoopsEnd BY <2>11 DEF LoopsEnd
  <2>12. CASE EndPeers BY <2>12 DEF EndPeers
  <2>13. CASE ClearContexts BY <2>13 DEF ClearContexts
  <2>14. CASE DestroyLock BY <2>14 DEF DestroyLock
  <2>15. CASE LoopCondition BY <2>15 DEF LoopCondition
  <2>16. CASE CleanEnd BY <2>16 DEF CleanEnd
  <2>17. CASE ExitProcess BY <2>17 DEF ExitProcess
  <2>18. CASE PeerUnlocks BY <2>18 DEF PeerUnlocks
    <2> QED BY <1>2, <2>1, <2>2, <2>3, <2>4, <2>5, <2>6, <2>7, <2>8, <2>9, <2>10, <2>11,
             <2>12, <2>13, <2>14, <2>15, <2>16, <2>17, <2>18 DEF MainStep
<1>3. CASE PeerLocks
  BY <1>3 DEF PeerLocks, signal
<1>4. CASE SignalStep
  <2> USE DEF Goto, dtls, Unlocked
  <2>1. CASE TakeTerm BY <2>1 DEF TakeTerm
  <2>2. CASE TakeAlrm BY <2>2 DEF TakeAlrm
  <2>3. CASE TakeUsr1 BY <2>3 DEF TakeUsr1
  <2>4. CASE SetReload BY <2>4 DEF SetReload
  <2>5. CASE TakeUsr2 BY <2>5 DEF TakeUsr2
  <2>6. CASE RebuildLocks BY <2>6 DEF RebuildLocks
  <2>7. CASE RebuildFrees("client", "new_client") BY <2>7 DEF RebuildFrees
  <2>8. CASE RebuildFrees("server", "new_server") BY <2>8 DEF RebuildFrees
  <2>9. CASE RebuildReplacesClient BY <2>9 DEF RebuildReplacesClient
  <2>10. CASE RebuildReplacesServer BY <2>10 DEF RebuildReplacesServer
    <2> QED BY <1>4, <2>1, <2>2, <2>3, <2>4, <2>5, <2>6, <2>7, <2>8, <2>9, <2>10 DEF
             SignalStep
<1>5. ASSUME NEW s \in Signals, Send(s) PROVE ctx_lock' = "sig"
  BY <1>5 DEF Send, Goto, dtls
<1>6. CASE TimerExpires
  BY <1>6 DEF TimerExpires, dtls
<1> QED BY <1>1, <1>2, <1>3, <1>4, <1>5, <1>6 DEF Next

\* A rebuild that has the lock keeps createClientSSL out until it is done.
THEOREM RebuildsExclude == Spec => RebuildExcludesPeers
<1>1. [Next]_vars =>
        [InSession /\ InSession' /\ (Rebuilding => ctx_lock = "sig")
           => (Rebuilding' => ctx_lock' = "sig")]_vars
  BY ExclusionStep
<1> QED BY <1>1, PTL DEF Spec, RebuildExcludesPeers
-----------------------------------------------------------------------------
\* When main gets to its end without a failure, either sig_handler was never
\* started or the lock is destroyed.
ExitInv ==
  /\ pc \in {"args", "parse", "parsed", "socket"} => sig = "none"
  /\ pc \in {"again", "clean_end", "exit"} /\ ~failure =>
       sig = "none" \/ ctx_lock = "destroyed"

\* A client that starts has the invariant.
LEMMA ExitInit == Init => ExitInv
  BY DEF Init, ExitInv

\* Every step of either thread keeps it.
LEMMA ExitNext == ExitInv /\ [Next]_vars => ExitInv'
<1> SUFFICES ASSUME ExitInv, [Next]_vars PROVE ExitInv'
  OBVIOUS
<1> USE DEF ExitInv
<1>1. CASE UNCHANGED vars
  BY <1>1, Zenon DEF vars, dtls, signal, status
<1>2. CASE MainStep
  <2> USE DEF Goto, Exit, Fail, signal, dtls, status
  <2>1. CASE ParseArgs BY <2>1 DEF ParseArgs
  <2>2. CASE ParseConfFile BY <2>2 DEF ParseConfFile
  <2>3. CASE CreatePidfile BY <2>3 DEF CreatePidfile
  <2>4. CASE CreateSocket BY <2>4 DEF CreateSocket
  <2>5. CASE InitTun BY <2>5 DEF InitTun
  <2>6. CASE LoopHead BY <2>6 DEF LoopHead
  <2>7. CASE ResetEnd BY <2>7 DEF ResetEnd
  <2>8. CASE InitClientContext BY <2>8 DEF InitClientContext
  <2>9. CASE InitServerContext BY <2>9 DEF InitServerContext
  <2>10. CASE Register BY <2>10 DEF Register
  <2>11. CASE LoopsEnd BY <2>11 DEF LoopsEnd
  <2>12. CASE EndPeers BY <2>12 DEF EndPeers
  <2>13. CASE ClearContexts BY <2>13 DEF ClearContexts
  <2>14. CASE DestroyLock BY <2>14 DEF DestroyLock
  <2>15. CASE LoopCondition BY <2>15 DEF LoopCondition
  <2>16. CASE CleanEnd BY <2>16 DEF CleanEnd
  <2>17. CASE ExitProcess BY <2>17 DEF ExitProcess
  <2>18. CASE PeerUnlocks BY <2>18 DEF PeerUnlocks
    <2> QED BY <1>2, <2>1, <2>2, <2>3, <2>4, <2>5, <2>6, <2>7, <2>8, <2>9, <2>10, <2>11,
             <2>12, <2>13, <2>14, <2>15, <2>16, <2>17, <2>18, Zenon DEF MainStep
<1>3. CASE PeerLocks
  BY <1>3 DEF PeerLocks, signal, status
<1>4. CASE SignalStep
  <2> USE DEF Goto, dtls, Running, Unlocked, status
  <2>1. CASE TakeTerm BY <2>1 DEF TakeTerm
  <2>2. CASE TakeAlrm BY <2>2 DEF TakeAlrm
  <2>3. CASE TakeUsr1 BY <2>3 DEF TakeUsr1
  <2>4. CASE SetReload BY <2>4 DEF SetReload
  <2>5. CASE TakeUsr2 BY <2>5 DEF TakeUsr2
  <2>6. CASE RebuildLocks BY <2>6 DEF RebuildLocks
  <2>7. CASE RebuildFrees("client", "new_client") BY <2>7 DEF RebuildFrees
  <2>8. CASE RebuildFrees("server", "new_server") BY <2>8 DEF RebuildFrees
  <2>9. CASE RebuildReplacesClient BY <2>9 DEF RebuildReplacesClient
  <2>10. CASE RebuildReplacesServer BY <2>10 DEF RebuildReplacesServer
    <2> QED BY <1>4, <2>1, <2>2, <2>3, <2>4, <2>5, <2>6, <2>7, <2>8, <2>9, <2>10 DEF
             SignalStep
<1>5. ASSUME NEW s \in Signals, Send(s) PROVE ExitInv'
  BY <1>5 DEF Send, Goto, dtls, status
<1>6. CASE TimerExpires
  BY <1>6 DEF TimerExpires, dtls, status
<1> QED BY <1>1, <1>2, <1>3, <1>4, <1>5, <1>6 DEF Next

\* freeConfig never runs under a rebuild that has the lock, unless start-up
\* failed.
THEOREM ConfigIsKept == Spec => []ConfigOutlivesRebuild
<1>1. ExitInv => ConfigOutlivesRebuild
  BY DEF ExitInv, ConfigOutlivesRebuild, Rebuilding
<1> QED BY <1>1, ExitInit, ExitNext, PTL DEF Spec
-----------------------------------------------------------------------------
\* The configuration that parseConfFile leaves is that of an accepted file.
ConfigInv ==
  pc = "parsed" => \E f \in Files, env \in Interfaces :
                     Accepted(f, env) /\ config = Configured(f, env)

\* A client that starts has no configuration.
LEMMA ConfigInit == Init => ConfigInv
  BY DEF Init, ConfigInv

\* parseConfFile is the only way to it.
LEMMA ConfigNext == ConfigInv /\ [Next]_vars => ConfigInv'
<1> SUFFICES ASSUME ConfigInv, [Next]_vars PROVE ConfigInv'
  OBVIOUS
<1> USE DEF ConfigInv
<1>1. CASE UNCHANGED vars
  BY <1>1, Zenon DEF vars
<1>2. CASE MainStep
  <2> USE DEF Goto, Exit, Fail
  <2>1. CASE ParseArgs BY <2>1 DEF ParseArgs
  <2>2. CASE ParseConfFile BY <2>2 DEF ParseConfFile
  <2>3. CASE CreatePidfile BY <2>3 DEF CreatePidfile
  <2>4. CASE CreateSocket BY <2>4 DEF CreateSocket
  <2>5. CASE InitTun BY <2>5 DEF InitTun
  <2>6. CASE LoopHead BY <2>6 DEF LoopHead
  <2>7. CASE ResetEnd BY <2>7 DEF ResetEnd
  <2>8. CASE InitClientContext BY <2>8 DEF InitClientContext
  <2>9. CASE InitServerContext BY <2>9 DEF InitServerContext
  <2>10. CASE Register BY <2>10 DEF Register
  <2>11. CASE LoopsEnd BY <2>11 DEF LoopsEnd
  <2>12. CASE EndPeers BY <2>12 DEF EndPeers
  <2>13. CASE ClearContexts BY <2>13 DEF ClearContexts
  <2>14. CASE DestroyLock BY <2>14 DEF DestroyLock
  <2>15. CASE LoopCondition BY <2>15 DEF LoopCondition
  <2>16. CASE CleanEnd BY <2>16 DEF CleanEnd
  <2>17. CASE ExitProcess BY <2>17 DEF ExitProcess
  <2>18. CASE PeerUnlocks BY <2>18 DEF PeerUnlocks
    <2> QED BY <1>2, <2>1, <2>2, <2>3, <2>4, <2>5, <2>6, <2>7, <2>8, <2>9, <2>10, <2>11,
             <2>12, <2>13, <2>14, <2>15, <2>16, <2>17, <2>18, Zenon DEF MainStep
<1>3. CASE PeerLocks
  BY <1>3 DEF PeerLocks
<1>4. CASE SignalStep
  <2> USE DEF Goto, Running
  <2>1. CASE TakeTerm BY <2>1 DEF TakeTerm
  <2>2. CASE TakeAlrm BY <2>2 DEF TakeAlrm
  <2>3. CASE TakeUsr1 BY <2>3 DEF TakeUsr1
  <2>4. CASE SetReload BY <2>4 DEF SetReload
  <2>5. CASE TakeUsr2 BY <2>5 DEF TakeUsr2
  <2>6. CASE RebuildLocks BY <2>6 DEF RebuildLocks
  <2>7. CASE RebuildFrees("client", "new_client") BY <2>7 DEF RebuildFrees
  <2>8. CASE RebuildFrees("server", "new_server") BY <2>8 DEF RebuildFrees
  <2>9. CASE RebuildReplacesClient BY <2>9 DEF RebuildReplacesClient
  <2>10. CASE RebuildReplacesServer BY <2>10 DEF RebuildReplacesServer
    <2> QED BY <1>4, <2>1, <2>2, <2>3, <2>4, <2>5, <2>6, <2>7, <2>8, <2>9, <2>10 DEF
             SignalStep
<1>5. ASSUME NEW s \in Signals, Send(s) PROVE ConfigInv'
  BY <1>5 DEF Send, Goto
<1>6. CASE TimerExpires
  BY <1>6 DEF TimerExpires
<1> QED BY <1>1, <1>2, <1>3, <1>4, <1>5, <1>6 DEF Next

\* HELLO announces an address, whatever options and interfaces there are.
THEOREM AddressIsAnnounced == Spec => []AnnouncesAnAddress
<1>1. ConfigInv => AnnouncesAnAddress
  <2> SUFFICES ASSUME ConfigInv, pc = "parsed", config.send_local_addr # 0,
                      config.announced # "host"
               PROVE  config.send_local_addr = 2 /\ config.announced = "any"
    BY DEF AnnouncesAnAddress
  <2>1. PICK f \in Files, env \in Interfaces : Accepted(f, env) /\ config = Configured(f, env)
    BY DEF ConfigInv
  <2>2. /\ config.send_local_addr = SendLocalAddr(f)
        /\ config.announced = IF Given(f.override_local_addr) THEN f.override_local_addr.kind
                              ELSE LocalIP(f, env)
    BY <2>1, Zenon DEF Configured
  <2>3. ~NetworkRejected(f, env) /\ ~AnyRejected(f, env)
    BY <2>1 DEF Accepted
  <2>4. LocalIP(f, env) \in {"host", "any"}
    BY <2>3, Zenon DEF NetworkRejected, HostRejected, LocalIP, Given
  <2>5. CASE Given(f.override_local_addr)
    BY <2>2, <2>3, <2>5, Zenon DEF SendLocalAddr, NetworkRejected, HostRejected
  <2>6. CASE ~Given(f.override_local_addr)
    BY <2>2, <2>3, <2>4, <2>6, Zenon DEF SendLocalAddr, AnyRejected
  <2> QED BY <2>5, <2>6
<1> QED BY <1>1, ConfigInit, ConfigNext, PTL DEF Spec

\* A number below the modulus is its own remainder.
LEMMA Remainder ==
  ASSUME NEW x \in Nat, NEW m \in Nat, x < m
  PROVE  x % m = x
  BY SMT

\* The size of a bucket that is used, for an MTU without overflow.
LEMMA BucketSizes ==
  ASSUME NEW rate \in Nat, NEW mtu \in Nat, mtu <= UIntMax \div 3 - 200, rate # 0
  PROVE  BucketSize(rate, mtu) >= MessageMaxLength(mtu) + 8
<1> DEFINE m == mtu + 200
<1>1. UIntMax \in Nat
  BY ConstantsAssumption
<1>2. m \in Nat /\ 3 * m <= UIntMax /\ m >= 200
  BY <1>1
<1> HIDE DEF m
<1>3. m % (UIntMax + 1) = m /\ (3 * m) % (UIntMax + 1) = 3 * m
  <2>1. m < UIntMax + 1 /\ 3 * m < UIntMax + 1 /\ 3 * m \in Nat /\ UIntMax + 1 \in Nat
    BY <1>1, <1>2
  <2> QED BY <1>2, <2>1, Remainder
<1>4. MessageMaxLength(mtu) = m
  BY <1>3 DEF MessageMaxLength, m
<1>5. BucketSize(rate, mtu) = IF rate \div 2 < 3 * m THEN 3 * m ELSE rate \div 2
  BY <1>3, <1>4 DEF BucketSize
<1>6. rate \div 2 \in Nat
  BY SMT
<1> QED BY <1>2, <1>4, <1>5, <1>6

\* Every message fits the buckets, as tb_count asserts.
THEOREM MessagesFit == Spec => []BucketsHoldMessages
<1>1. ConfigInv => BucketsHoldMessages
  <2> SUFFICES ASSUME ConfigInv, pc = "parsed", config.tun_mtu <= UIntMax \div 3 - 200,
                      NEW size \in {config.tb_client_size, config.tb_connection_size} \ {0}
               PROVE  size >= MessageMaxLength(config.tun_mtu) + 8
    BY DEF BucketsHoldMessages
  <2>1. PICK f \in Files, env \in Interfaces : Accepted(f, env) /\ config = Configured(f, env)
    BY DEF ConfigInv
  <2> DEFINE mtu == NumberOr(f.tun_mtu, 1419)
  <2>2. /\ config.tun_mtu = mtu
        /\ config.tb_client_size = BucketSize(NumberOr(f.client_max_rate, 0), mtu)
        /\ config.tb_connection_size = BucketSize(NumberOr(f.connection_max_rate, 0), mtu)
    BY <2>1, Zenon DEF Configured
  <2>3. ~IntRejected(f.tun_mtu, 150) /\ ~FloatRejected(f.client_max_rate)
        /\ ~FloatRejected(f.connection_max_rate)
    BY <2>1, Zenon DEF Accepted, NetworkRejected, ClientRejected
  <2>4. mtu \in Nat
    BY <2>3, ConstantsAssumption DEF NumberOr, IntRejected
  <2>5. NumberOr(f.client_max_rate, 0) \in Nat /\ NumberOr(f.connection_max_rate, 0) \in Nat
    BY <2>3, ConstantsAssumption DEF NumberOr, FloatRejected
  <2>6. ASSUME NEW rate \in Nat, BucketSize(rate, mtu) # 0 PROVE rate # 0
    BY <2>6 DEF BucketSize
  <2> HIDE DEF mtu
  <2> QED BY <2>2, <2>4, <2>5, <2>6, BucketSizes
<1> QED BY <1>1, ConfigInit, ConfigNext, PTL DEF Spec
-----------------------------------------------------------------------------
\* A set of natural numbers that is not empty has a least element.
LEMMA Least ==
  ASSUME NEW T, T \subseteq Nat, T # {}
  PROVE  \E n \in T : \A m \in T : n <= m
<1>1. IsWellFoundedOn(OpToRel(<, Nat), Nat)
  BY NatLessThanWellFounded, Zenon
<1>2. PICK n \in T : \A m \in T : ~(<<m, n>> \in OpToRel(<, Nat))
  BY <1>1, WFMin, Zenon
<1>3. \A m \in T : ~(m < n)
  BY <1>2, Zenon DEF OpToRel
<1> QED BY <1>3

\* A set that has 0, and with every number the next one, has all of them.
LEMMA SetInduction ==
  ASSUME NEW T, 0 \in T, \A n \in Nat : n \in T => n + 1 \in T
  PROVE  Nat \subseteq T
<1> DEFINE F == {n \in Nat : n \notin T}
<1>1. SUFFICES ASSUME F # {} PROVE FALSE
  OBVIOUS
<1>2. PICK n \in F : \A m \in F : n <= m
  <2>1. F \subseteq Nat
    OBVIOUS
  <2> HIDE DEF F
  <2> QED BY <1>1, <2>1, Least, Zenon
<1>3. n - 1 \in Nat /\ n - 1 \notin F
  BY <1>2
<1> QED BY <1>3

\* f is the sequence of states that the steps reach from s0.
Iterates(f, S, s0, step) ==
  f \in [Nat -> S] /\ f[0] = s0 /\ \A n \in Nat : f[n + 1] = step[n][f[n]]

\* A first state and one step per number determine such a sequence: the initial
\* segments exist by induction, they agree, and f is their union.
LEMMA Iteration ==
  ASSUME NEW S, NEW s0 \in S, NEW step \in [Nat -> [S -> S]]
  PROVE  \E f : Iterates(f, S, s0, step)
<1> DEFINE Starts(g, k) == /\ g \in [0 .. k -> S] /\ g[0] = s0
                           /\ \A n \in 0 .. k - 1 : g[n + 1] = step[n][g[n]]
           T == {k \in Nat : \A g : ~Starts(g, k)}
<1>1. \A k \in Nat : \E g : Starts(g, k)
  <2> HIDE DEF Starts
  <2>1. SUFFICES ASSUME T # {} PROVE FALSE
    BY Zenon
  <2> HIDE DEF T
  <2>2. T \subseteq Nat /\ \A k \in Nat : k \in T <=> \A g : ~Starts(g, k)
    BY DEF T
  <2>3. PICK k \in T : \A m \in T : k <= m
    BY <2>1, <2>2, Least, Zenon
  <2>4. k \in Nat /\ k # 0
    <3>1. Starts([n \in 0 .. 0 |-> s0], 0)
      BY DEF Starts
    <3> QED BY <2>2, <2>3, <3>1
  <2>5. k - 1 \in Nat /\ k - 1 \notin T
    BY <2>2, <2>3, <2>4
  <2>6. PICK g : Starts(g, k - 1)
    BY <2>2, <2>5
  <2> DEFINE h == [n \in 0 .. k |-> IF n = k THEN step[k - 1][g[k - 1]] ELSE g[n]]
  <2>7. g[k - 1] \in S /\ step[k - 1] \in [S -> S]
    BY <2>5, <2>6 DEF Starts
  <2>8. h \in [0 .. k -> S]
    <3>1. \A n \in 0 .. k : n # k => n \in 0 .. k - 1
      BY <2>4
    <3>2. \A n \in 0 .. k : n # k => g[n] \in S
      BY <2>6, <3>1 DEF Starts
    <3> QED BY <2>7, <3>2
  <2>9. h[0] = s0
    BY <2>4, <2>6 DEF Starts
  <2>10. ASSUME NEW n \in 0 .. k - 1 PROVE h[n + 1] = step[n][h[n]]
    <3>1. h[n] = g[n]
      BY <2>4
    <3>2. CASE n = k - 1
      BY <2>4, <3>1, <3>2
    <3>3. CASE n # k - 1
      BY <2>4, <2>6, <3>1, <3>3 DEF Starts
    <3> QED BY <3>2, <3>3, Zenon
  <2>11. Starts(h, k)
    BY <2>8, <2>9, <2>10, Zenon DEF Starts
  <2> QED BY <2>2, <2>3, <2>11
<1>2. ASSUME NEW k \in Nat, NEW g, NEW h, Starts(g, k), Starts(h, k + 1)
      PROVE  g[k] = h[k]
  <2> DEFINE D == {n \in Nat : n <= k /\ g[n] # h[n]}
  <2>1. SUFFICES ASSUME D # {} PROVE FALSE
    OBVIOUS
  <2>2. PICK n \in D : \A m \in D : n <= m
    <3>1. D \subseteq Nat
      OBVIOUS
    <3> HIDE DEF D
    <3> QED BY <2>1, <3>1, Least, Zenon
  <2>3. n # 0 /\ n \in Nat /\ n <= k
    BY <1>2
  <2>4. n - 1 \in Nat /\ n - 1 \in 0 .. k - 1 /\ n - 1 \in 0 .. k /\ n - 1 \notin D
    BY <2>2, <2>3
  <2>5. g[n - 1] = h[n - 1]
    BY <2>3, <2>4
  <2>6. g[(n - 1) + 1] = step[n - 1][g[n - 1]] /\ h[(n - 1) + 1] = step[n - 1][h[n - 1]]
    BY <1>2, <2>4
  <2> QED BY <2>3, <2>5, <2>6
<1> HIDE DEF Starts
<1> DEFINE start == [k \in Nat |-> CHOOSE g : Starts(g, k)]
           f == [n \in Nat |-> start[n][n]]
<1>3. \A k \in Nat : Starts(start[k], k)
  BY <1>1
<1> HIDE DEF start
<1>4. f \in [Nat -> S] /\ f[0] = s0
  BY <1>3 DEF Starts
<1>5. ASSUME NEW n \in Nat PROVE f[n + 1] = step[n][f[n]]
  <2>1. start[n + 1][n + 1] = step[n][start[n + 1][n]]
    BY <1>3 DEF Starts
  <2>2. start[n][n] = start[n + 1][n]
    BY <1>2, <1>3
  <2> QED BY <2>1, <2>2
<1> QED BY <1>4, <1>5, Zenon DEF Iterates

\* A quotient and a remainder below the divisor are the quotient and the
\* remainder.
LEMMA Division ==
  ASSUME NEW b \in Nat \ {0}, NEW q \in Int, NEW r \in 0 .. b - 1
  PROVE  (q * b + r) \div b = q /\ (q * b + r) % b = r
<1> DEFINE x == q * b + r
           p == x \div b
           s == x % b
<1>1. x \in Int /\ p \in Int /\ s \in 0 .. b - 1 /\ x = b * p + s
  OBVIOUS
<1>2. q * b + r = b * p + s
  BY <1>1
<1> HIDE DEF p, s
<1>3. (q - p) * b = s - r
  BY <1>1, <1>2
<1>4. ~(q - p >= 1)
  <2>1. SUFFICES ASSUME q - p >= 1 PROVE FALSE
    OBVIOUS
  <2>2. (q - p - 1) * b >= 0
    BY <1>1, <2>1
  <2>3. (q - p - 1) * b = (q - p) * b - b
    BY <1>1
  <2> QED BY <1>1, <1>3, <2>2, <2>3
<1>5. ~(p - q >= 1)
  <2>1. SUFFICES ASSUME p - q >= 1 PROVE FALSE
    OBVIOUS
  <2>2. (p - q - 1) * b >= 0
    BY <1>1, <2>1
  <2>3. (p - q - 1) * b = -((q - p) * b) - b
    BY <1>1
  <2> QED BY <1>1, <1>3, <2>2, <2>3
<1>6. p = q
  BY <1>1, <1>4, <1>5
<1>7. s = r
  BY <1>1, <1>2, <1>6
<1> QED BY <1>6, <1>7 DEF p, s

\* The powers of 2 are positive and each is twice the one before it.
LEMMA Powers ==
  /\ Pow2 \in [Nat -> Nat \ {0}]
  /\ Pow2[0] = 1
  /\ \A n \in Nat : Pow2[n + 1] = 2 * Pow2[n]
<1> DEFINE P == Nat \ {0}
           double == [n \in Nat |-> [x \in P |-> 2 * x]]
<1>1. 1 \in P /\ double \in [Nat -> [P -> P]]
  OBVIOUS
<1>2. PICK f \in [Nat -> P] : f[0] = 1 /\ \A n \in Nat : f[n + 1] = double[n][f[n]]
  <2>1. \E f : Iterates(f, P, 1, double)
    <3> HIDE DEF P, double
    <3> QED BY <1>1, Iteration
  <2> QED BY <2>1, Zenon DEF Iterates
<1>3. \A n \in Nat : n # 0 => f[n] = 2 * f[n - 1]
  <2> TAKE n \in Nat
  <2> HAVE n # 0
  <2>1. n - 1 \in Nat /\ (n - 1) + 1 = n
    OBVIOUS
  <2> QED BY <1>2, <2>1, Zenon
<1>4. f = [n \in Nat |-> IF n = 0 THEN 1 ELSE 2 * f[n - 1]]
  BY <1>2, <1>3
<1>5. Pow2 = [n \in Nat |-> IF n = 0 THEN 1 ELSE 2 * Pow2[n - 1]]
  BY <1>4 DEF Pow2
<1>6. Pow2[0] = 1 /\ \A n \in Nat : Pow2[n + 1] = 2 * Pow2[n]
  BY <1>5
<1> DEFINE T == {n \in Nat : Pow2[n] \notin Nat \ {0}}
<1>7. T = {}
  <2>1. SUFFICES ASSUME T # {} PROVE FALSE
    OBVIOUS
  <2>2. PICK n \in T : \A i \in T : n <= i
    <3>1. T \subseteq Nat
      OBVIOUS
    <3> HIDE DEF T
    <3> QED BY <2>1, <3>1, Least, Zenon
  <2>3. n # 0 => n - 1 \in Nat /\ Pow2[n - 1] \in Nat \ {0} /\ (n - 1) + 1 = n
    BY <2>2
  <2>4. CASE n = 0
    BY <1>6, <2>4
  <2>5. CASE n # 0
    <3>1. Pow2[n] = 2 * Pow2[n - 1]
      BY <1>6, <2>3, <2>5
    <3> QED BY <2>3, <2>5, <3>1
  <2> QED BY <2>4, <2>5
<1>8. \A n \in Nat : Pow2[n] \in Nat \ {0}
  BY <1>7
<1>9. DOMAIN Pow2 = Nat /\ Pow2 = [n \in Nat |-> Pow2[n]]
  BY <1>5
<1> QED BY <1>6, <1>8, <1>9, Zenon

\* An address has as many host bits as its mask leaves.
LEMMA PowerSum ==
  ASSUME NEW len \in Nat, NEW n \in Nat
  PROVE  Pow2[len + n] = Pow2[n] * Pow2[len]
<1> DEFINE T == {k \in Nat : Pow2[len + k] = Pow2[k] * Pow2[len]}
<1>1. Pow2[len] \in Nat /\ Pow2[0] = 1 /\ \A k \in Nat : Pow2[k] \in Nat
  BY Powers
<1>2. 0 \in T
  BY <1>1
<1>3. \A k \in Nat : k \in T => k + 1 \in T
  <2> SUFFICES ASSUME NEW k \in Nat, Pow2[len + k] = Pow2[k] * Pow2[len]
               PROVE  Pow2[len + (k + 1)] = Pow2[k + 1] * Pow2[len]
    OBVIOUS
  <2>1. len + (k + 1) = (len + k) + 1 /\ len + k \in Nat
    OBVIOUS
  <2>2. Pow2[(len + k) + 1] = 2 * Pow2[len + k] /\ Pow2[k + 1] = 2 * Pow2[k]
    BY <2>1, Powers
  <2>3. \A a, b \in Nat : 2 * (a * b) = (2 * a) * b
    OBVIOUS
  <2> QED BY <1>1, <2>1, <2>2, <2>3
<1>4. n \in T
  <2> HIDE DEF T
  <2> QED BY <1>2, <1>3, SetInduction
<1> QED BY <1>4

\* get_ipv4_broadcast sets the host bits: with B addresses in the subnetwork,
\* the mask of the host bits is B - 1 and the result ends the block of B
\* addresses that ip is in.
LEMMA BroadcastAddress ==
  ASSUME NEW ip \in 0 .. Pow2[AddrBits] - 1, NEW len \in 0 .. AddrBits
  PROVE  LET B == Pow2[AddrBits - len]
         IN /\ B \in Nat \ {0}
            /\ get_ipv4_broadcast(ip, len) = (ip \div B) * B + (B - 1)
            /\ get_ipv4_broadcast(ip, len) \in 0 .. Pow2[AddrBits] - 1
<1> DEFINE A == Pow2[AddrBits]
           L == Pow2[len]
           B == Pow2[AddrBits - len]
           q == ip \div B
           s == ip % B
<1>1. AddrBits \in Nat /\ len \in Nat /\ AddrBits - len \in Nat
  BY ConstantsAssumption
<1>2. A \in Nat \ {0} /\ L \in Nat \ {0} /\ B \in Nat \ {0} /\ Pow2[0] = 1
  BY <1>1, Powers
<1>3. A = B * L
  <2>1. len + (AddrBits - len) = AddrBits
    BY <1>1
  <2> QED BY <1>1, <2>1, PowerSum
<1> DEFINE hostmask == IF len = AddrBits THEN 0 ELSE (A - 1) \div L
<1>4. get_ipv4_broadcast(ip, len) = ip - (ip % (hostmask + 1)) + hostmask
  BY DEF get_ipv4_broadcast
<1>5. hostmask = B - 1
  <2>1. CASE len = AddrBits
    <3>1. AddrBits - len = 0
      BY <1>1, <2>1
    <3> QED BY <1>2, <2>1, <3>1
  <2>2. CASE len # AddrBits
    <3> HIDE DEF A, L, B
    <3>1. A - 1 = (B - 1) * L + (L - 1)
      BY <1>2, <1>3
    <3>2. B - 1 \in Int /\ L - 1 \in 0 .. L - 1
      BY <1>2
    <3>3. ((B - 1) * L + (L - 1)) \div L = B - 1
      BY <1>2, <3>2, Division, Zenon
    <3> QED BY <2>2, <3>1, <3>3
  <2> QED BY <2>1, <2>2
<1> HIDE DEF A, L, B, hostmask
<1>6. ip \in Nat /\ ip <= A - 1
  BY <1>2 DEF A
<1>7. ip = B * q + s /\ q \in Nat /\ s \in 0 .. B - 1
  BY <1>2, <1>6
<1> HIDE DEF q, s
<1>8. hostmask + 1 = B
  BY <1>2, <1>5
<1>9. get_ipv4_broadcast(ip, len) = ip - s + (B - 1)
  BY <1>4, <1>5, <1>8 DEF s
<1>10. get_ipv4_broadcast(ip, len) = q * B + (B - 1)
  <2>1. B * q = q * B /\ q * B \in Nat
    BY <1>2, <1>7
  <2> QED BY <1>2, <1>7, <1>9, <2>1
<1>11. q * B + (B - 1) <= A - 1
  <2>1. q < L
    <3>1. SUFFICES ASSUME q >= L PROVE FALSE
      BY <1>2, <1>7
    <3>2. B * (q - L) >= 0
      BY <1>2, <1>7, <3>1
    <3>3. B * (q - L) = B * q - B * L /\ B * q \in Int /\ B * L \in Int
      BY <1>2, <1>7
    <3> QED BY <1>2, <1>3, <1>6, <1>7, <3>2, <3>3
  <2>2. B * (L - 1 - q) >= 0
    BY <1>2, <1>7, <2>1
  <2>3. B * (L - 1 - q) = B * L - B - q * B /\ B * L \in Int /\ q * B \in Int
    BY <1>2, <1>7
  <2> QED BY <1>2, <1>3, <2>2, <2>3
<1>12. q * B + (B - 1) \in Nat
  <2>1. q * B \in Nat
    BY <1>2, <1>7
  <2> QED BY <1>2, <2>1
<1>13. q * B + (B - 1) \in 0 .. A - 1
  <2> DEFINE x == q * B + (B - 1)
  <2> HIDE DEF x
  <2>1. x \in Nat /\ x <= A - 1
    BY <1>11, <1>12 DEF x
  <2>2. x \in 0 .. A - 1
    BY <1>2, <2>1
  <2> QED BY <2>2 DEF x
<1> QED BY <1>2, <1>10, <1>13 DEF A, B, q

\* The broadcast address is the last one of the subnetwork, for every address,
\* every mask length and every width of the addresses.
THEOREM BroadcastEndsSubnet == Spec => []BroadcastIsLast
<1>1. ConfigInv => BroadcastIsLast
  <2> SUFFICES ASSUME ConfigInv, pc = "parsed" PROVE BroadcastIsLast
    BY DEF BroadcastIsLast
  <2>1. PICK f \in Files, env \in Interfaces : Accepted(f, env) /\ config = Configured(f, env)
    BY DEF ConfigInv
  <2> DEFINE ip == f.vpn_ip.n
             len == f.network.n
             B == Pow2[AddrBits - len]
             last == get_ipv4_broadcast(ip, len)
  <2>2. config.vpnIP = ip /\ config.len = len /\ config.vpnBroadcastIP = last
    BY <2>1, Zenon DEF Configured
  <2>3. ip \in 0 .. Pow2[AddrBits] - 1 /\ len \in 0 .. AddrBits
    BY <2>1, ConstantsAssumption, Zenon DEF Accepted, VpnRejected
  <2>4. /\ B \in Nat \ {0} /\ last = (ip \div B) * B + (B - 1)
        /\ last \in 0 .. Pow2[AddrBits] - 1
    BY <2>3, BroadcastAddress
  <2>5. ip \in Nat /\ Pow2[AddrBits] \in Nat
    BY <2>3, Powers, ConstantsAssumption
  <2> HIDE DEF ip, len, B, last
  <2>6. last \div B = ip \div B
    <3>1. ip \div B \in Int /\ B - 1 \in 0 .. B - 1
      BY <2>4, <2>5
    <3> QED BY <2>4, <3>1, Division, Zenon
  <2>7. ASSUME NEW x \in 0 .. Pow2[AddrBits] - 1, x \div B = ip \div B
        PROVE  x <= last
    <3>1. x \in Nat
      BY <2>5
    <3>2. x = B * (x \div B) + (x % B) /\ x % B \in 0 .. B - 1 /\ x \div B \in Int
      BY <2>4, <3>1
    <3> DEFINE q == x \div B
               s == x % B
    <3>3. x = B * q + s /\ s \in 0 .. B - 1 /\ q \in Int /\ last = q * B + (B - 1)
      BY <2>4, <2>7, <3>2, Zenon
    <3> HIDE DEF q, s
    <3>4. B * q = q * B /\ q * B \in Int
      BY <2>4, <3>3
    <3> QED BY <2>4, <3>3, <3>4
  <2>8. config.vpnBroadcastIP = last /\ config.vpnIP = ip /\ Pow2[AddrBits - config.len] = B
    BY <2>2 DEF B
  <2> QED BY <2>4, <2>6, <2>7, <2>8, Zenon DEF BroadcastIsLast
<1> QED BY <1>1, ConfigInit, ConfigNext, PTL DEF Spec
=============================================================================
