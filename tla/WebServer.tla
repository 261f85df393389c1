------------------------------ MODULE WebServer ------------------------------
(***************************************************************************)
(* src/src/webserver/webserver.c: a server object driven by one main      *)
(* thread (webserver_start, webserver_stop, webserver_destroy), a server   *)
(* thread running server_loop, and one detached handle_client thread per   *)
(* accepted connection, which parses the request with http_request_parse  *)
(* (HttpParser) and answers it.  Clients connect from outside while the    *)
(* socket listens; the kernel queues them until accept.                    *)
(*                                                                         *)
(* is_running is a plain int written by the main thread and read by the   *)
(* server thread; every read in server_loop is followed by a call         *)
(* (accept, perror), so each read sees the latest write.                  *)
(***************************************************************************)
EXTENDS Naturals, Sequences, FiniteSets, HttpParser, HttpResponse

CONSTANTS Clients,        \* connections that may arrive
          Inputs,         \* requests a client may send
          StartOutcomes,  \* "ok", or the step of webserver_start that fails
          SpawnFails,     \* TRUE: pthread_create of a client thread may fail
          HandlerResponses, \* the responses the installed handler may leave
          MaxStarts,
          None

ASSUME StartOutcomes \subseteq {"ok", "socket", "setup", "thread"}

VARIABLES running,  \* server->is_running
          sock,     \* the listening socket: "none", "listening" or "closed"
          spc,      \* server thread
          sfd,      \* the connection accept returned to the server thread
          mpc,      \* main thread
          destroying, freed, starts,
          cst,      \* cst[c]: where connection c and its thread are
          req,      \* req[c]: the bytes client c sends
          peer,     \* peer[c]: "quiet", "sent" (its request) or "gone" (hung up)
          handler,  \* server->handler: None or "set"
          sent      \* sent[c]: the response c's thread serialized and sent, or None

vars == <<running, sock, spc, sfd, mpc, destroying, freed, starts, cst, req, peer, handler, sent>>

Stopping == {"stop_shut", "stop_join"}
-----------------------------------------------------------------------------
(* webserver_create *)
Init ==
    /\ running = FALSE /\ sock = "none" /\ spc = "none" /\ sfd = None
    /\ mpc = "idle" /\ destroying = FALSE /\ freed = FALSE /\ starts = 0
    /\ cst = [c \in Clients |-> "out"]
    /\ req \in [Clients -> Inputs] /\ peer = [c \in Clients |-> "quiet"]
    /\ handler = None /\ sent = [c \in Clients |-> None]

(* webserver_start on a stopped server: socket, setsockopt, bind, listen, *)
(* is_running = 1, then create the server thread.  A failing socket call  *)
(* returns ERROR_IO (a socket already made is closed); a failing          *)
(* pthread_create closes the socket and clears is_running again.          *)
Start ==
    /\ mpc = "idle" /\ starts < MaxStarts
    /\ \E out \in StartOutcomes :
          IF out = "ok"
          THEN /\ running' = TRUE /\ sock' = "listening" /\ spc' = "loop" /\ mpc' = "running"
          ELSE /\ sock' = IF out = "socket" THEN sock ELSE "closed"
               /\ UNCHANGED <<running, spc, mpc>>
    /\ starts' = starts + 1
    /\ UNCHANGED <<sfd, destroying, freed, cst, req, peer, handler, sent>>

(* webserver_stop, called directly or by webserver_destroy (d): clear     *)
(* is_running, ...                                                         *)
StopFlag(d) ==
    /\ mpc = "running"
    /\ running' = FALSE /\ mpc' = "stop_shut" /\ destroying' = d
    /\ UNCHANGED <<sock, spc, sfd, freed, starts, cst, req, peer, handler, sent>>

(* A plausible bug: close without shutdown, which does not wake a thread  *)
(* blocked in accept on Linux                                              *)
StopNoShutdown ==
    /\ mpc = "stop_shut" /\ mpc' = "stop_join"
    /\ UNCHANGED <<running, sock, spc, sfd, destroying, freed, starts, cst, req, peer, handler, sent>>

(* ... shutdown and close the socket, which wakes accept and resets the   *)
(* connections still queued, ...                                           *)
StopShut ==
    /\ mpc = "stop_shut"
    /\ sock' = "closed"
    /\ cst' = [c \in Clients |-> IF cst[c] = "pending" THEN "refused" ELSE cst[c]]
    /\ mpc' = "stop_join"
    /\ UNCHANGED <<running, spc, sfd, destroying, freed, starts, req, peer, handler, sent>>

(* ... and join the server thread.  Client threads are detached: nobody   *)
(* waits for them.                                                         *)
StopJoin ==
    /\ mpc = "stop_join" /\ spc = "exited"
    /\ mpc' = IF destroying THEN "free" ELSE "idle"
    /\ UNCHANGED <<running, sock, spc, sfd, destroying, freed, starts, cst, req, peer, handler, sent>>

(* webserver_destroy of a server that is not running *)
Destroy ==
    /\ mpc = "idle" /\ mpc' = "free"
    /\ UNCHANGED <<running, sock, spc, sfd, destroying, freed, starts, cst, req, peer, handler, sent>>

(* the safe_free(&server) that ends webserver_destroy *)
Free ==
    /\ mpc = "free" /\ freed' = TRUE /\ mpc' = "gone"
    /\ UNCHANGED <<running, sock, spc, sfd, destroying, starts, cst, req, peer, handler, sent>>
-----------------------------------------------------------------------------
(* server_loop: test is_running *)
Loop ==
    /\ spc = "loop"
    /\ spc' = IF running THEN "accept" ELSE "exited"
    /\ UNCHANGED <<running, sock, sfd, mpc, destroying, freed, starts, cst, req, peer, handler, sent>>

(* accept blocks until a connection is queued; on a shut socket it fails  *)
(* and the loop continues                                                  *)
Accept ==
    /\ spc = "accept"
    /\ \/ /\ sock = "listening"
          /\ \E c \in Clients :
                /\ cst[c] = "pending"
                /\ cst' = [cst EXCEPT ![c] = "accepted"] /\ sfd' = c /\ spc' = "spawn"
       \/ /\ sock # "listening" /\ spc' = "loop"
          /\ UNCHANGED <<cst, sfd>>
    /\ UNCHANGED <<running, sock, mpc, destroying, freed, starts, req, peer, handler, sent>>

(* A plausible bug: a failed pthread_create leaves the connection open *)
SpawnLeak ==
    /\ spc = "spawn"
    /\ \E ok \in IF SpawnFails THEN BOOLEAN ELSE {TRUE} :
          cst' = IF ok THEN [cst EXCEPT ![sfd] = "recv"] ELSE cst
    /\ sfd' = None /\ spc' = "loop"
    /\ UNCHANGED <<running, sock, mpc, destroying, freed, starts, req, peer, handler, sent>>

(* malloc the context and pthread_create a detached handle_client; if     *)
(* that fails, close the connection and go on                              *)
Spawn ==
    /\ spc = "spawn"
    /\ \E ok \in IF SpawnFails THEN BOOLEAN ELSE {TRUE} :
          cst' = [cst EXCEPT ![sfd] = IF ok THEN "recv" ELSE "closed"]
    /\ sfd' = None /\ spc' = "loop"
    /\ UNCHANGED <<running, sock, mpc, destroying, freed, starts, req, peer, handler, sent>>
-----------------------------------------------------------------------------
(* A client's connection is queued by the listening socket *)
Connect(c) ==
    /\ cst[c] = "out" /\ sock = "listening"
    /\ cst' = [cst EXCEPT ![c] = "pending"]
    /\ UNCHANGED <<running, sock, spc, sfd, mpc, destroying, freed, starts, req, peer, handler, sent>>

(* http_request_parse of each request a client may send *)
Parsed == [i \in Inputs |-> Parse(i)]

(* The peer of a connection sends its request, or hangs up (or resets),   *)
(* when it likes: nothing in the server makes it do either                 *)
PeerAct(c) ==
    /\ cst[c] \in {"pending", "accepted", "recv"} /\ peer[c] = "quiet"
    /\ \E p \in {"sent", "gone"} : peer' = [peer EXCEPT ![c] = p]
    /\ UNCHANGED <<running, sock, spc, sfd, mpc, destroying, freed, starts, cst, req, handler, sent>>

(* handle_client: recv blocks, with no timeout, until the peer sends or    *)
(* hangs up (0 or -1); then http_request_parse; a request that does not   *)
(* parse gets no answer                                                    *)
Recv(c) ==
    /\ cst[c] = "recv" /\ peer[c] # "quiet"
    /\ cst' = [cst EXCEPT ![c] = IF peer[c] = "sent" /\ Parsed[req[c]].ok THEN "respond" ELSE "closing"]
    /\ UNCHANGED <<running, sock, spc, sfd, mpc, destroying, freed, starts, req, peer, handler, sent>>

(* handle_client without a handler: http_response_create(200, "OK"), the *)
(* 24-byte default body and "Content-Type: text/plain"                     *)
DefaultResponse ==
    ResponseAddHeader(ResponseSetBody(ResponseCreate(200, 2), 24), 12, 10)

(* webserver_set_handler from the main thread while the server exists:    *)
(* it stores handler and user_data with no lock                            *)
SetHandler ==
    /\ mpc \in {"idle", "running"} /\ handler = None
    /\ handler' = "set"
    /\ UNCHANGED <<running, sock, spc, sfd, mpc, destroying, freed, starts, cst, req, peer, sent>>

(* read server->handler and server->user_data, run the handler or the     *)
(* default body, serialize and send the response                           *)
Respond(c) ==
    /\ cst[c] = "respond"
    /\ \E resp \in IF handler = None THEN {DefaultResponse} ELSE HandlerResponses :
          sent' = [sent EXCEPT ![c] = resp]
    /\ cst' = [cst EXCEPT ![c] = "closing"]
    /\ UNCHANGED <<running, sock, spc, sfd, mpc, destroying, freed, starts, req, peer, handler>>

(* close(client_fd); free(ctx) *)
Close(c) ==
    /\ cst[c] = "closing"
    /\ cst' = [cst EXCEPT ![c] = "closed"]
    /\ UNCHANGED <<running, sock, spc, sfd, mpc, destroying, freed, starts, req, peer, handler, sent>>

ClientStep(c) == Recv(c) \/ Respond(c) \/ Close(c)

(* The server object is gone and no thread has anything left to do *)
Finished ==
    /\ mpc = "gone" /\ \A c \in Clients : cst[c] \in {"out", "closed", "refused"}
    /\ UNCHANGED vars

Next ==
    \/ Start \/ SetHandler \/ \E d \in BOOLEAN : StopFlag(d)
    \/ StopShut \/ StopJoin \/ Destroy \/ Free
    \/ Loop \/ Accept \/ Spawn
    \/ \E c \in Clients : Connect(c) \/ PeerAct(c) \/ ClientStep(c)
    \/ Finished

(* Every thread that can run eventually runs.  The main thread's choice to *)
(* start, stop or destroy and a peer's choice to connect, send or hang up  *)
(* are not forced;                                                         *)
(* once webserver_stop or webserver_destroy is under way it continues.     *)
Fairness ==
    /\ WF_vars(StopShut) /\ WF_vars(StopJoin) /\ WF_vars(Free)
    /\ WF_vars(Loop) /\ WF_vars(Accept) /\ WF_vars(Spawn)
    /\ \A c \in Clients : WF_vars(ClientStep(c))

Spec == Init /\ [][Next]_vars /\ Fairness
-----------------------------------------------------------------------------
TypeOK ==
    /\ running \in BOOLEAN /\ sock \in {"none", "listening", "closed"}
    /\ spc \in {"none", "loop", "accept", "spawn", "exited"} /\ sfd \in Clients \cup {None}
    /\ mpc \in {"idle", "running", "free", "gone"} \cup Stopping
    /\ cst \in [Clients -> {"out", "pending", "accepted", "recv", "respond", "closing", "closed", "refused"}]

(* webserver_stop returns: shutdown wakes a server thread blocked in       *)
(* accept, so pthread_join does not wait for ever.                         *)
StopReturns == \A s \in Stopping : mpc = s ~> mpc \notin Stopping

(* No connection is leaked: every connection the socket queued whose peer *)
(* sends its request or hangs up is eventually closed, by its client       *)
(* thread, by the server thread when the client thread cannot be created,  *)
(* or by the kernel at shutdown.  (A peer that stays silent keeps recv,    *)
(* and so the connection, waiting for ever.)                               *)
ConnectionsClosed ==
    \A c \in Clients : (cst[c] # "out" /\ peer[c] # "quiet") ~> cst[c] \in {"closed", "refused"}

(* The server object outlives every client thread that will still read    *)
(* server->handler and server->user_data (webserver.c:36-37).             *)
ServerOutlivesClients == \A c \in Clients : cst[c] = "respond" => ~freed

(* The handler is given the request the client sent: the method, path,    *)
(* query, version, headers and body http_request_parse fills in are those *)
(* of the HTTP/1.1 request, and a request that is not one is refused.      *)
HandlerSeesRequest == \A c \in Clients : cst[c] = "respond" => Parse(req[c]) = RefParse(req[c])

(* http_response_serialize allots 256 bytes to the status line ("Initial  *)
(* size for status line", http_parser.c:245), name + value + 4 to each     *)
(* header and body + 4 to the rest.  Whenever the status line of a         *)
(* response handle_client serializes (the default or the handler's) fits   *)
(* its 256 bytes, the rest of the allotment is right: no snprintf cuts its  *)
(* text, no snprintf or memcpy writes past the buffer, and the out_length   *)
(* handed to send covers only bytes of the buffer.  A longer status line    *)
(* overruns the buffer; that case is outside this property.                *)
ResponseFitsBuffer ==
    \A c \in Clients : sent[c] # None /\ StatusLine(sent[c]) <= 256 =>
        LET w == ResponseSerialize(sent[c])
        IN  ~w.cut /\ w.end <= w.size /\ w.off <= w.size

==============================================================================
