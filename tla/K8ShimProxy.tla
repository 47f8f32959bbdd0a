----------------------------- MODULE K8ShimProxy -----------------------------
(***************************************************************************)
(* The Go web server (NewWebServer, main): the start-up checks of the      *)
(* k8shim address, the static UI, and the reverse proxy of /ws/ with the   *)
(* Authorization header it takes off and puts on, for requests served      *)
(* concurrently.                                                           *)
(*                                                                         *)
(* The shared webservice of yunikorn-core, which listens, authenticates    *)
(* users and serves /auth, and the k8shim are external.  A user's          *)
(* identity arrives with the request, a k8shim answer or a broken          *)
(* connection with the response.  Of the headers a request has those two   *)
(* that say who a user is: Authorization and, under ldap, the YK_AUTH      *)
(* cookie of a session.                                                    *)
(***************************************************************************)
EXTENDS Naturals

CONSTANTS
  Users,
  Slots     \* requests served at once

Null == "null"
\* What a configured address may turn out to be.
Addresses == {"http", "https", "http without host", "unix", "unix without path",
              "other scheme", "unparsable"}
Configs == [url : Addresses, tls : {"none", "valid", "broken"}, sharedSecret : BOOLEAN]
Paths == {"ws", "file", "directory"}

ASSUME ConstantsAssumption == Null \notin Users

VARIABLES
  config,   \* conf.K8Shim
  phase,    \* of the process
  proxy,    \* the transport newK8ShimProxy chose
  request,  \* request[s]: what the browser sent, and how far it is
  outbound, \* outbound[s]: what was sent to the k8shim for it
  response  \* response[s]: what the browser got last

vars == <<config, phase, proxy, request, outbound, response>>

Request == [stage : {"idle", "received", "forwarded"}, path : Paths \cup {Null},
            credentials : BOOLEAN, cookie : Users \cup {Null}, identity : Users \cup {Null}]
NoRequest == [stage |-> "idle", path |-> Null, credentials |-> FALSE, cookie |-> Null,
              identity |-> Null]

\* The Authorization header of an outbound request: none, the user's own or a
\* token that names a user; and whose session its cookie names.
Outbound == [transport : {"tcp", "client TLS", "socket", Null},
             authorization : {"none", "user", "token"}, signedFor : Users \cup {Null},
             cookie : Users \cup {Null}]
NoOutbound == [transport |-> Null, authorization |-> "none", signedFor |-> Null,
               cookie |-> Null]

-----------------------------------------------------------------------------
(* Start-up *)

ParseK8ShimURL(url) ==
  CASE url \in {"http", "https"} -> "origin"
    [] url = "unix" -> "socket"
    [] OTHER -> "error"

\* The certificates only serve an https origin.
TcpTransport(c) ==
  IF c.tls = "broken" THEN "error"
  ELSE IF c.url = "https" /\ c.tls = "valid" THEN "client TLS" ELSE "tcp"

(* mutant: certificates are ignored on a socket *)
SocketWithAnyTLS(c) ==
  CASE ParseK8ShimURL(c.url) = "error" -> "error"
    [] ParseK8ShimURL(c.url) = "socket" -> "socket"
    [] ParseK8ShimURL(c.url) = "origin" -> TcpTransport(c)

\* newK8ShimProxy: how the k8shim is reached, or an error that ends the process.
NewK8ShimProxy(c) ==
  CASE ParseK8ShimURL(c.url) = "error" -> "error"
    [] ParseK8ShimURL(c.url) = "socket" -> IF c.tls = "none" THEN "socket" ELSE "error"
    [] ParseK8ShimURL(c.url) = "origin" -> TcpTransport(c)

NewWebServer ==
  /\ phase = "starting"
  /\ proxy' = NewK8ShimProxy(config)
  /\ phase' = IF proxy' = "error" THEN "failed" ELSE "serving"
  /\ UNCHANGED <<config, request, outbound, response>>

-----------------------------------------------------------------------------
(* Requests *)

Receive(s, path, credentials, cookie, identity) ==
  /\ phase = "serving" /\ request[s].stage = "idle"
  /\ IF path = "ws"
     THEN /\ request' = [request EXCEPT ![s] =
               [stage |-> "received", path |-> path,
                credentials |-> credentials, cookie |-> cookie, identity |-> identity]]
          /\ UNCHANGED response
     ELSE /\ response' = [response EXCEPT ![s] =
               IF path = "directory" THEN "not found" ELSE "static"]
          /\ UNCHANGED request
  /\ UNCHANGED <<config, phase, proxy, outbound>>

Authorization(r) ==
  IF config.sharedSecret /\ r.identity # Null
  THEN [authorization |-> "token", signedFor |-> r.identity]
  ELSE [authorization |-> "none", signedFor |-> Null]

(* mutant: the header is only overwritten, never deleted *)
RewriteWithoutDelete(r) ==
  [transport |-> proxy,
   authorization |-> IF config.sharedSecret /\ r.identity # Null THEN "token"
                     ELSE IF r.credentials THEN "user" ELSE "none",
   signedFor |-> Authorization(r).signedFor, cookie |-> r.cookie]

\* The reverse proxy copies the headers of the request; Rewrite replaces one.
Rewrite(r) ==
  [transport |-> proxy, authorization |-> Authorization(r).authorization,
   signedFor |-> Authorization(r).signedFor, cookie |-> r.cookie]

Forward(s) ==
  /\ phase = "serving" /\ request[s].stage = "received"
  /\ request' = [request EXCEPT ![s].stage = "forwarded"]
  /\ outbound' = [outbound EXCEPT ![s] = Rewrite(request[s])]
  /\ UNCHANGED <<config, phase, proxy, response>>

\* The k8shim answers, or cannot be reached or breaks off: 502. A browser that
\* goes away cancels its request.
Finish(s) ==
  /\ phase = "serving" /\ request[s].stage = "forwarded"
  /\ request' = [request EXCEPT ![s] = NoRequest]
  /\ outbound' = [outbound EXCEPT ![s] = NoOutbound]
  /\ \E outcome \in {"answer", "bad gateway", "cancelled"} :
       response' = [response EXCEPT ![s] = outcome]
  /\ UNCHANGED <<config, phase, proxy>>

\* A signal stops the server and ends the process, with whatever is in flight.
Stop ==
  /\ phase = "serving" /\ phase' = "stopped"
  /\ request' = [s \in Slots |-> NoRequest]
  /\ outbound' = [s \in Slots |-> NoOutbound]
  /\ UNCHANGED <<config, proxy, response>>

Init ==
  /\ config \in Configs
  /\ phase = "starting" /\ proxy = Null
  /\ request = [s \in Slots |-> NoRequest]
  /\ outbound = [s \in Slots |-> NoOutbound]
  /\ response = [s \in Slots |-> Null]

Next ==
  \/ NewWebServer \/ Stop
  \/ \E s \in Slots :
       \/ Forward(s) \/ Finish(s)
       \/ \E path \in Paths, credentials \in BOOLEAN, cookie, identity \in Users \cup {Null} :
            Receive(s, path, credentials, cookie, identity)

Spec == Init /\ [][Next]_vars

-----------------------------------------------------------------------------
(* Properties *)

\* Every variable keeps the shape its declaration gives it.
TypeOK ==
  /\ config \in Configs /\ phase \in {"starting", "failed", "serving", "stopped"}
  /\ proxy \in {"tcp", "client TLS", "socket", "error", Null}
  /\ request \in [Slots -> Request] /\ outbound \in [Slots -> Outbound]
  /\ response \in [Slots -> {"static", "not found", "answer", "bad gateway", "cancelled", Null}]

\* The Authorization header a user sent is never forwarded: the k8shim gets none,
\* or, with a shared secret, a token for the authenticated user of that request
\* and no other; a cookie goes only with the request it came with. So however
\* many requests are served at once, no request speaks for the user of another.
\* (The comment on Rewrite says that a user's credentials never travel to the
\* k8shim. Of the header that is true; the session cookie travels.)
HeadersOfOwnUser ==
  \A s \in Slots : request[s].stage = "forwarded" =>
    /\ IF config.sharedSecret /\ request[s].identity # Null
       THEN outbound[s].authorization = "token" /\ outbound[s].signedFor = request[s].identity
       ELSE outbound[s].authorization = "none"
    /\ outbound[s].cookie = request[s].cookie

\* Certificates that are configured are used or refused, never dropped: with
\* certificates, whatever is forwarded to a socket or an https origin goes over
\* TLS. (An http origin is not refused and not covered.)
CertificatesNotDropped ==
  \A s \in Slots :
    request[s].stage = "forwarded" /\ config.tls # "none" /\ config.url # "http"
      => outbound[s].transport = "client TLS"
=============================================================================
