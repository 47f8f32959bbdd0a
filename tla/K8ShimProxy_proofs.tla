------------------------- MODULE K8ShimProxy_proofs -------------------------
(***************************************************************************)
(* Theorems of K8ShimProxy, for every set of users and any number of       *)
(* requests served at once.                                                *)
(***************************************************************************)
EXTENDS K8ShimProxy, TLAPS

\* Nothing is under way before the server serves or after it stopped, and it
\* serves only through the transport its configuration stands for.
ServesAsConfigured ==
  /\ phase # "serving" => \A s \in Slots : request[s] = NoRequest
  /\ phase = "serving" => proxy = NewK8ShimProxy(config) /\ proxy # "error"

\* The inductive invariant behind the safety properties.
ProxyInv ==
  /\ TypeOK
  /\ ServesAsConfigured
  /\ HeadersOfOwnUser
  /\ CertificatesNotDropped

-----------------------------------------------------------------------------
\* newK8ShimProxy settles on a transport or fails, whatever is configured.
LEMMA TransportTyped ==
  ASSUME NEW c \in Configs
  PROVE  NewK8ShimProxy(c) \in {"tcp", "client TLS", "socket", "error"}
BY DEF Configs, Addresses, NewK8ShimProxy, ParseK8ShimURL, TcpTransport

\* With certificates only an http origin is reached without them.
LEMMA TransportUsesCertificates ==
  ASSUME NEW c \in Configs, c.tls # "none", c.url # "http"
  PROVE  NewK8ShimProxy(c) \in {"client TLS", "error"}
BY DEF Configs, Addresses, NewK8ShimProxy, ParseK8ShimURL, TcpTransport

\* A slot that serves nothing is well-typed.
LEMMA EmptyRequestsTyped == NoRequest \in Request /\ NoOutbound \in Outbound
BY DEF NoRequest, Request, NoOutbound, Outbound

\* The state of a starting process satisfies the invariant.
LEMMA ProxyInvInit == Init => ProxyInv
<1> SUFFICES ASSUME Init PROVE ProxyInv
  OBVIOUS
<1>1. TypeOK
  <2>1. config \in Configs /\ phase \in {"starting", "failed", "serving", "stopped"}
    BY DEF Init
  <2>2. proxy \in {"tcp", "client TLS", "socket", "error", Null}
    BY DEF Init
  <2>3. request \in [Slots -> Request]
    BY EmptyRequestsTyped DEF Init
  <2>4. outbound \in [Slots -> Outbound]
    BY EmptyRequestsTyped DEF Init
  <2>5. response \in [Slots -> {"static", "not found", "answer", "bad gateway", "cancelled", Null}]
    BY DEF Init
  <2> QED BY <2>1, <2>2, <2>3, <2>4, <2>5 DEF TypeOK
<1>2. \A s \in Slots : request[s] = NoRequest
  BY DEF Init
<1>3. phase = "starting"
  BY DEF Init
<1>4. ServesAsConfigured
  BY <1>2, <1>3 DEF ServesAsConfigured
<1>5. \A s \in Slots : request[s].stage # "forwarded"
  BY <1>2 DEF NoRequest
<1>6. HeadersOfOwnUser /\ CertificatesNotDropped
  BY <1>5 DEF HeadersOfOwnUser, CertificatesNotDropped
<1> QED BY <1>1, <1>4, <1>6 DEF ProxyInv

\* So does the state after every step: start-up, requests, answers, the stop.
LEMMA ProxyInvStep == ProxyInv /\ [Next]_vars => ProxyInv'
<1> SUFFICES ASSUME ProxyInv, [Next]_vars PROVE ProxyInv'
  OBVIOUS
<1>a. TypeOK
  BY DEF ProxyInv
<1>b. ServesAsConfigured
  BY DEF ProxyInv
<1>c. HeadersOfOwnUser
  BY DEF ProxyInv
<1>d. CertificatesNotDropped
  BY DEF ProxyInv
<1>1. ASSUME NewWebServer PROVE ProxyInv'
  <2>1. TypeOK'
    <3>1. NewK8ShimProxy(config) \in {"tcp", "client TLS", "socket", "error"}
      BY <1>a, TransportTyped DEF TypeOK
    <3>2. proxy' \in {"tcp", "client TLS", "socket", "error"}
      BY <1>1, <3>1 DEF NewWebServer
    <3>3. phase' \in {"failed", "serving"}
      BY <1>1 DEF NewWebServer
    <3> QED BY <1>1, <1>a, <3>2, <3>3 DEF NewWebServer, TypeOK
  <2>2. \A s \in Slots : request'[s] = NoRequest
    BY <1>1, <1>b DEF NewWebServer, ServesAsConfigured
  <2>3. ServesAsConfigured'
    BY <1>1, <2>2 DEF NewWebServer, ServesAsConfigured
  <2>4. \A s \in Slots : request'[s].stage # "forwarded"
    BY <2>2 DEF NoRequest
  <2>5. HeadersOfOwnUser' /\ CertificatesNotDropped'
    BY <2>4 DEF HeadersOfOwnUser, CertificatesNotDropped
  <2> QED BY <2>1, <2>3, <2>5 DEF ProxyInv
<1>2. ASSUME Stop PROVE ProxyInv'
  <2>1. TypeOK'
    BY <1>2, <1>a, EmptyRequestsTyped DEF Stop, TypeOK
  <2>2. ServesAsConfigured'
    BY <1>2 DEF Stop, ServesAsConfigured
  <2>3. \A s \in Slots : request'[s].stage # "forwarded"
    BY <1>2 DEF Stop, NoRequest
  <2>4. HeadersOfOwnUser' /\ CertificatesNotDropped'
    BY <2>3 DEF HeadersOfOwnUser, CertificatesNotDropped
  <2> QED BY <2>1, <2>2, <2>4 DEF ProxyInv
<1>3. ASSUME NEW s \in Slots, Forward(s) PROVE ProxyInv'
  <2>1. phase = "serving" /\ UNCHANGED <<config, phase, proxy, response>>
    BY <1>3 DEF Forward
  <2>2. /\ request \in [Slots -> Request] /\ request[s] \in Request
        /\ outbound \in [Slots -> Outbound] /\ config \in Configs
    BY <1>a DEF TypeOK
  <2>3. proxy = NewK8ShimProxy(config) /\ proxy \in {"tcp", "client TLS", "socket"}
    BY <1>b, <2>1, <2>2, TransportTyped DEF ServesAsConfigured
  <2>4. ServesAsConfigured'
    BY <1>b, <2>1 DEF ServesAsConfigured
  <2>5. /\ request' = [request EXCEPT ![s] = [request[s] EXCEPT !.stage = "forwarded"]]
        /\ outbound' = [outbound EXCEPT ![s] = Rewrite(request[s])]
    BY <1>3 DEF Forward
  <2>6. \A t \in Slots : t # s => request'[t] = request[t] /\ outbound'[t] = outbound[t]
    BY <2>2, <2>5
  <2>7. /\ request'[s].identity = request[s].identity /\ request'[s].cookie = request[s].cookie
        /\ outbound'[s] = Rewrite(request[s])
    BY <2>2, <2>5 DEF Request
  <2>8. TypeOK'
    <3>1. Rewrite(request[s]) \in Outbound
      BY <2>2, <2>3 DEF Rewrite, Authorization, Outbound, Request
    <3>2. request' \in [Slots -> Request]
      BY <2>2, <2>5 DEF Request
    <3>3. outbound' \in [Slots -> Outbound]
      BY <2>2, <2>5, <3>1
    <3> QED BY <1>a, <2>1, <3>2, <3>3 DEF TypeOK
  <2>9. HeadersOfOwnUser'
    <3>1. /\ IF config.sharedSecret /\ request[s].identity # Null
             THEN /\ Rewrite(request[s]).authorization = "token"
                  /\ Rewrite(request[s]).signedFor = request[s].identity
             ELSE Rewrite(request[s]).authorization = "none"
          /\ Rewrite(request[s]).cookie = request[s].cookie
      BY DEF Rewrite, Authorization
    <3> QED BY <1>c, <2>1, <2>6, <2>7, <3>1 DEF HeadersOfOwnUser
  <2>10. CertificatesNotDropped'
    <3>1. config.tls # "none" /\ config.url # "http" => proxy = "client TLS"
      BY <2>2, <2>3, TransportUsesCertificates
    <3>2. Rewrite(request[s]).transport = proxy
      BY DEF Rewrite
    <3> QED BY <1>d, <2>1, <2>6, <2>7, <3>1, <3>2 DEF CertificatesNotDropped
  <2> QED BY <2>4, <2>8, <2>9, <2>10 DEF ProxyInv
<1>4. ASSUME NEW s \in Slots, Finish(s) PROVE ProxyInv'
  <2>1. TypeOK'
    BY <1>4, <1>a, EmptyRequestsTyped DEF Finish, TypeOK
  <2>2. ServesAsConfigured'
    BY <1>4, <1>b DEF Finish, ServesAsConfigured
  <2>3. \A t \in Slots : request'[t].stage = "forwarded"
          => request'[t] = request[t] /\ outbound'[t] = outbound[t]
    BY <1>4, <1>a DEF Finish, TypeOK, NoRequest
  <2>4. UNCHANGED config
    BY <1>4 DEF Finish
  <2>5. HeadersOfOwnUser' /\ CertificatesNotDropped'
    <3>1. HeadersOfOwnUser'
      BY <1>c, <2>3, <2>4 DEF HeadersOfOwnUser
    <3>2. CertificatesNotDropped'
      BY <1>d, <2>3, <2>4 DEF CertificatesNotDropped
    <3> QED BY <3>1, <3>2
  <2> QED BY <2>1, <2>2, <2>5 DEF ProxyInv
<1>5. ASSUME NEW s \in Slots, NEW path \in Paths, NEW credentials \in BOOLEAN,
             NEW cookie \in Users \cup {Null}, NEW identity \in Users \cup {Null},
             Receive(s, path, credentials, cookie, identity)
      PROVE  ProxyInv'
  <2> DEFINE received == [stage |-> "received", path |-> path, credentials |-> credentials,
                          cookie |-> cookie, identity |-> identity]
  <2>0. UNCHANGED <<config, phase, proxy, outbound>> /\ phase = "serving"
    BY <1>5 DEF Receive
  <2>0a. \/ request' = [request EXCEPT ![s] = received] /\ UNCHANGED response
         \/ /\ UNCHANGED request
            /\ \/ response' = [response EXCEPT ![s] = "not found"]
               \/ response' = [response EXCEPT ![s] = "static"]
    BY <1>5 DEF Receive
  <2>1. TypeOK'
    <3>1. received \in Request
      BY DEF Request
    <3>2. request' \in [Slots -> Request]
      BY <1>a, <2>0a, <3>1 DEF TypeOK
    <3>3. response' \in [Slots -> {"static", "not found", "answer", "bad gateway",
                                   "cancelled", Null}]
      BY <1>a, <2>0a DEF TypeOK
    <3> QED BY <1>a, <2>0, <3>2, <3>3 DEF TypeOK
  <2>2. ServesAsConfigured'
    BY <1>b, <2>0 DEF ServesAsConfigured
  <2>3. \A t \in Slots : request'[t].stage = "forwarded"
          => request'[t] = request[t] /\ outbound'[t] = outbound[t]
    <3>1. ASSUME request' = [request EXCEPT ![s] = received], NEW t \in Slots
          PROVE  request'[t].stage = "forwarded" => request'[t] = request[t]
      <4>1. request \in [Slots -> Request]
        BY <1>a DEF TypeOK
      <4>2. received.stage = "received"
        OBVIOUS
      <4> HIDE DEF received
      <4> QED BY <3>1, <4>1, <4>2
    <3> QED BY <2>0, <2>0a, <3>1
  <2>4. UNCHANGED config
    BY <2>0
  <2>5. HeadersOfOwnUser' /\ CertificatesNotDropped'
    <3>1. HeadersOfOwnUser'
      BY <1>c, <2>3, <2>4 DEF HeadersOfOwnUser
    <3>2. CertificatesNotDropped'
      BY <1>d, <2>3, <2>4 DEF CertificatesNotDropped
    <3> QED BY <3>1, <3>2
  <2> QED BY <2>1, <2>2, <2>5 DEF ProxyInv
<1>6. ASSUME UNCHANGED vars PROVE ProxyInv'
  BY <1>6, <1>a, <1>b, <1>c, <1>d DEF vars, ProxyInv, TypeOK, ServesAsConfigured,
     HeadersOfOwnUser, CertificatesNotDropped
<1> QED BY <1>1, <1>2, <1>3, <1>4, <1>5, <1>6 DEF Next

-----------------------------------------------------------------------------
\* The inductive invariant holds in every reachable state.
THEOREM ProxyInvariant == Spec => []ProxyInv
BY ProxyInvInit, ProxyInvStep, PTL DEF Spec

\* Every reachable state is well-typed.
THEOREM ProxyTypeCorrect == Spec => []TypeOK
<1>1. ProxyInv => TypeOK
  BY DEF ProxyInv
<1> QED BY <1>1, ProxyInvariant, PTL

\* However many requests are served at once, no Authorization header of a user
\* is forwarded, a token names the user of its request, and a cookie stays with
\* the request it came with.
THEOREM ProxySpeaksForOwnUser == Spec => []HeadersOfOwnUser
<1>1. ProxyInv => HeadersOfOwnUser
  BY DEF ProxyInv
<1> QED BY <1>1, ProxyInvariant, PTL

\* Configured certificates are used or refused at start-up, for a socket and
\* for an https origin.
THEOREM ProxyKeepsCertificates == Spec => []CertificatesNotDropped
<1>1. ProxyInv => CertificatesNotDropped
  BY DEF ProxyInv
<1> QED BY <1>1, ProxyInvariant, PTL
=============================================================================
