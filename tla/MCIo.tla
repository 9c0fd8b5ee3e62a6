--------------------------------- MODULE MCIo ---------------------------------
(***************************************************************************)
(* Streams, sockets, the RPC client and the containers.  They share no     *)
(* state; part says which of them a behaviour is about, and the others     *)
(* stay as they are.                                                       *)
(***************************************************************************)
EXTENDS Streams, TcpSocket, BufferedSocket, RpcClient, Caches

VARIABLE part

vars == <<part, streamVars, tcpVars, bsVars, rcVars, cacheVars>>

Init ==
  /\ part \in {"stream", "tcp", "buffered", "rpc", "cache", "lru", "pool"}
  /\ StreamInit /\ TcpInit /\ BsInit /\ RcInit /\ CacheInit
  /\ part # "stream" => ~io.async /\ ~io.extend
  /\ part # "tcp" => pollerr
  /\ part # "rpc" => ~rc.ssl

Containers ==
  \/ part = "cache" /\ CacheNext
  \/ part = "lru" /\ LruNext
  \/ part = "pool" /\ PoolNext

Next ==
  /\ UNCHANGED part
  /\ \/ part = "stream" /\ StreamNext /\ UNCHANGED <<tcpVars, bsVars, rcVars, cacheVars>>
     \/ part = "tcp" /\ TcpNext /\ UNCHANGED <<streamVars, bsVars, rcVars, cacheVars>>
     \/ part = "buffered" /\ BsNext /\ UNCHANGED <<streamVars, tcpVars, rcVars, cacheVars>>
     \/ part = "rpc" /\ RcNext /\ UNCHANGED <<streamVars, tcpVars, bsVars, cacheVars>>
     \/ Containers /\ UNCHANGED <<streamVars, tcpVars, bsVars, rcVars>>

Spec == Init /\ [][Next]_vars /\ BsFairness /\ RcFairness

\* A write that has begun ends with both buffers empty (BufferedSocket::onOutput) and a
\* call with its reply or a failure (RpcClientImpl), though each takes several callbacks
\* that have to begin one another's operations.
BothEnd == AllIsWritten /\ CallEnds
=============================================================================
