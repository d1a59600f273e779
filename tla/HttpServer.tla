----------------------------- MODULE HttpServer -----------------------------
(***************************************************************************)
(* The HTTP face of the verifier (main.py:81-236): one process, one thread *)
(* and one request at a time (HTTPServer, main.py:621-623), each on a      *)
(* connection of its own (HTTP/1.0).  Clients wait in the listen backlog,  *)
(* send their requests piece by piece, go quiet or hang up; the server     *)
(* blocks in reads without a timeout.  What the handlers compute is left   *)
(* to the other modules: here they yield a status.                         *)
(*                                                                         *)
(* A request is its header, one piece, and a body of declared length.      *)
(* Closing a connection while pieces are unread resets it, and the answer  *)
(* is lost with it.                                                        *)
(***************************************************************************)
EXTENDS Naturals, Sequences, SequencesExt

CONSTANTS Clients,
          Requests,   \* what a client may send: [method, path, length, body] records
          None,       \* no answer
          Backlog     \* HTTPServer's request_queue_size

Paths == {"open", "anchors", "status", "rpc", "configure"}
OpenPaths == {"open"}   \* _OPEN_PATHS: what is served while frozen
\* "other": a method without a do_ handler.  A body is JSON, or text that is not
\* ("malformed": a JSONDecodeError), or (for /configure) DER; "notText" stands for every body
\* on which json.loads raises anything else: bytes that are not UTF-8, an integer of too
\* many digits, a nesting that is too deep.
Methods == {"GET", "POST", "other"}
Bodies == {"json", "malformed", "notText", "der"}

ASSUME HttpAssumption ==
    /\ Requests # {}
    /\ Requests \subseteq [method : Methods, path : Paths, length : Nat, body : Bodies]
    /\ \A req \in Requests : req.body = "der" => req.path = "configure"
    /\ None \notin Nat
    /\ Backlog \in Nat \ {0}

VARIABLES configured,  \* _CONFIGURED
          queue,       \* connections the listening socket holds, oldest first
          conn         \* each client's last connection

vars == <<configured, queue, conn>>

Serving == {"header", "body", "handle", "drain"}
Stages == {"away", "queued", "closed"} \cup Serving
Statuses == {200, 400, 404, 410, 422, 500, 501, 503}
Conns == [stage : Stages, req : Requests, arrived : Nat, gone : BOOLEAN, read : Nat,
          got : Statuses \cup {None}, open : BOOLEAN]

-----------------------------------------------------------------------------
(* Clients.                                                                *)

\* A client connects, anew, while the backlog has room.
Connect(c) ==
    /\ conn[c].stage \in {"away", "closed"}
    /\ Len(queue) < Backlog
    /\ \E req \in Requests :
           conn' = [conn EXCEPT ![c] = [stage |-> "queued", req |-> req, arrived |-> 0, gone |-> FALSE,
                                        read |-> 0, got |-> None, open |-> FALSE]]
    /\ queue' = Append(queue, c)
    /\ UNCHANGED configured

Send(c) ==
    /\ conn[c].stage \in {"queued"} \cup Serving
    /\ ~conn[c].gone /\ conn[c].arrived <= conn[c].req.length
    /\ conn' = [conn EXCEPT ![c].arrived = @ + 1]
    /\ UNCHANGED <<configured, queue>>

HangUp(c) ==
    /\ conn[c].stage \in {"queued"} \cup Serving
    /\ ~conn[c].gone
    /\ conn' = [conn EXCEPT ![c].gone = TRUE]
    /\ UNCHANGED <<configured, queue>>

-----------------------------------------------------------------------------
(* The server.                                                             *)

\* Bug forms: a thread for each connection; the newest connection first; one that
\* is being served stays in the queue.
NeverBusy == FALSE
Newest == Len(queue)
StillQueued(i) == queue

Busy == \E c \in Clients : conn[c].stage \in Serving
Oldest == 1
Without(i) == RemoveAt(queue, i)

\* serve_forever takes the oldest connection when the last one is done with.
Accept(c) ==
    /\ queue # <<>> /\ c = queue[Oldest] /\ ~Busy
    /\ queue' = Without(Oldest)
    /\ conn' = [conn EXCEPT ![c].stage = "header"]
    /\ UNCHANGED configured

\* How much of its body a client has sent, once its header is there.
Body(c) == conn[c].arrived - 1

\* Bug form: an answer does not wait for the body.
AtOnce(c) == TRUE

\* rfile.read returns what was asked for, or what there is when the client is gone.
Received(c) == Body(c) = conn[c].req.length \/ conn[c].gone

Frozen(path) == path \notin OpenPaths /\ ~configured

GetStatuses(path) ==
    CASE path = "open" -> {200, 404}     \* 404: a manifest that is not bundled
      [] path \in {"anchors", "status"} -> {200}
      [] OTHER -> {404}

PostStatuses(path) ==
    CASE path = "rpc" -> {200, 400, 422, 500}
      [] path = "configure" -> {200, 400, 500}
      [] path = "anchors" -> {410}
      [] path = "status" -> {200}
      [] OTHER -> {404}

Goes(c, stage, status) ==
    conn' = [conn EXCEPT ![c] = [@ EXCEPT !.stage = stage, !.got = status]]

\* The connection is closed, after an answer or without one.
Close(c, status, read) ==
    conn' = [conn EXCEPT ![c] = [@ EXCEPT !.stage = "closed", !.got = status, !.read = read,
                                          !.open = configured]]

\* handle_one_request, and do_GET, or do_POST up to its body.
Header(c) ==
    LET req == conn[c].req
        configure == req.method = "POST" /\ req.path = "configure"
    IN
    /\ conn[c].stage = "header"
    /\ \/ conn[c].arrived = 0 /\ conn[c].gone /\ Close(c, None, 0)
       \/ conn[c].arrived > 0 /\ req.method = "other" /\ Close(c, 501, 0)
       \/ /\ conn[c].arrived > 0 /\ req.method # "other"
          /\ \/ Frozen(req.path) /\ ~configure /\ Goes(c, "drain", 503)
             \/ /\ req.method = "GET" /\ ~Frozen(req.path)
                /\ \E status \in GetStatuses(req.path) : Goes(c, "drain", status)
             \/ /\ req.method = "POST" /\ (configure \/ ~Frozen(req.path))
                /\ Goes(c, "body", None)
    /\ UNCHANGED <<configured, queue>>

\* _body and _raw_body.  No body is an empty object.  A body that is not text makes
\* json.loads raise a UnicodeDecodeError, which nothing in do_POST or _configure
\* catches at that place.
ReadBody(c) ==
    LET req == conn[c].req
        cut == Body(c) < req.length
    IN
    /\ conn[c].stage = "body"
    /\ Received(c)
    /\ \/ Body(c) = 0 /\ Goes(c, "handle", None)
       \/ Body(c) > 0 /\ (req.body = "malformed" \/ cut) /\ Goes(c, "drain", 400)
       \/ Body(c) > 0 /\ req.body = "notText" /\ Close(c, None, Body(c))
       \/ Body(c) > 0 /\ req.body \in {"json", "der"} /\ ~cut /\ Goes(c, "handle", None)
    /\ UNCHANGED <<configured, queue>>

\* The handler behind the path; /configure wants a body and lifts the freeze.
Handle(c) ==
    /\ conn[c].stage = "handle"
    /\ \E status \in PostStatuses(conn[c].req.path) :
          /\ Body(c) = 0 /\ conn[c].req.path = "configure" => status = 400
          /\ Goes(c, "drain", status)
          /\ configured' = (configured \/ (conn[c].req.path = "configure" /\ status = 200))
    /\ UNCHANGED queue

\* _drain_body reads on to the declared length.
Drained(c) == Received(c)

\* _json: what is left of the body is read before the answer is sent.
Answer(c) ==
    /\ conn[c].stage = "drain"
    /\ Drained(c)
    /\ Close(c, conn[c].got, Body(c))
    /\ UNCHANGED <<configured, queue>>

Serve(c) == Accept(c) \/ Header(c) \/ ReadBody(c) \/ Handle(c) \/ Answer(c)

-----------------------------------------------------------------------------
Init ==
    /\ configured \in BOOLEAN
    /\ queue = <<>>
    /\ conn = [c \in Clients |->
                  [stage |-> "away", req |-> CHOOSE r \in Requests : TRUE, arrived |-> 0,
                   gone |-> FALSE, read |-> 0, got |-> None, open |-> FALSE]]

Next == \E c \in Clients : Connect(c) \/ Send(c) \/ HangUp(c) \/ Serve(c)

Spec == Init /\ [][Next]_vars

\* The process runs: what it can do, it does.  Nothing is assumed of the clients.
FairSpec == Spec /\ \A c \in Clients : WF_vars(Serve(c))

-----------------------------------------------------------------------------
(* What must hold.                                                         *)

TypeOK ==
    /\ configured \in BOOLEAN
    /\ queue \in Seq(Clients) /\ IsInjective(queue) /\ Len(queue) <= Backlog
    /\ conn \in [Clients -> Conns]
    /\ \A c \in Clients : conn[c].stage = "queued" <=> c \in ToSet(queue)

Stayed(c) == conn[c].stage = "closed" /\ ~conn[c].gone

\* Who stays on the line is answered, and reads the answer: no connection is closed
\* while a part of the request is unread - early refusals of large uploads included,
\* and whatever the pieces' timing.  Two exceptions: methods that the verifier
\* does not have are refused without reading on; a body that is not text is read and
\* not answered.
AnswerReachesClient ==
    \A c \in Clients : Stayed(c) /\ conn[c].req.method # "other" =>
        /\ conn[c].read = conn[c].req.length
        /\ conn[c].got = None => conn[c].req.method = "POST" /\ conn[c].req.body = "notText"

\* The freeze is what clients see of it: when an answer leaves, it is a 503 exactly
\* if the service is still frozen then - though a slow body may have been awaited since
\* the freeze was looked at, and others wanted to configure meanwhile.
FreezeIsCurrent ==
    \A c \in Clients :
        /\ conn[c].stage = "closed" /\ conn[c].got \notin {None, 501}
        /\ conn[c].req.path \notin OpenPaths
        /\ ~(conn[c].req.method = "POST" /\ conn[c].req.path = "configure")
        => (conn[c].got = 503 <=> ~conn[c].open)

\* A client that is being served and neither sends what it announced nor hangs up.
Stalls(c) == conn[c].stage \in Serving /\ ~(Received(c) \/ conn[c].gone)

\* Everyone in the queue is served in the end, however the others come back again
\* and again - as long as no client stalls for ever.  One that does stops the service:
\* no read has a timeout.
Served ==
    (\A c \in Clients : []<>~Stalls(c)) =>
        \A c \in Clients : conn[c].stage = "queued" ~> conn[c].stage = "closed"
=============================================================================
