--------------------------- MODULE HttpServerProofs ---------------------------
(***************************************************************************)
(* What clients of HttpServer may rely on, however many there are, whatever *)
(* they send and in whatever pieces, and however long the backlog is.       *)
(***************************************************************************)
EXTENDS HttpServer, Integers, TLAPS

\* What the freeze withholds: everything but the open paths and POST /configure.
Guarded(req) ==
    req.path \notin OpenPaths /\ ~(req.method = "POST" /\ req.path = "configure")

\* What a connection keeps, given whether the service is configured: how far its
\* request is known at each stage, and both properties.
Kept(k, conf) ==
    /\ k.arrived <= k.req.length + 1
    /\ k.stage \in {"body", "handle", "drain"} => k.arrived >= 1 /\ k.req.method # "other"
    /\ k.stage \in {"body", "handle"} => /\ k.req.method = "POST"
                                         /\ Guarded(k.req) => conf
    /\ k.stage = "drain" => /\ k.got # None
                            /\ Guarded(k.req) => (k.got = 503 <=> ~conf)
    /\ k.stage = "closed" /\ ~k.gone /\ k.req.method # "other" =>
           /\ k.read = k.req.length
           /\ k.got = None => k.req.method = "POST" /\ k.req.body = "notText"
    /\ k.stage = "closed" /\ k.got \notin {None, 501} /\ Guarded(k.req) =>
           (k.got = 503 <=> ~k.open)

\* There is one thread.
Alone == \A c, d \in Clients :
    conn[c].stage \in Serving /\ conn[d].stage \in Serving => c = d

AllKept == \A c \in Clients : Kept(conn[c], configured)

IInv == TypeOK /\ Alone /\ AllKept

-----------------------------------------------------------------------------
LEMMA IInvInit == Init => IInv
<1> SUFFICES ASSUME Init PROVE IInv
  OBVIOUS
<1> DEFINE req == CHOOSE r \in Requests : TRUE
<1>1. req \in Requests
  BY HttpAssumption
<1>2. req \in [method : Methods, path : Paths, length : Nat, body : Bodies]
  BY <1>1, HttpAssumption
<1>3. \A c \in Clients :
          conn[c] = [stage |-> "away", req |-> req, arrived |-> 0, gone |-> FALSE, read |-> 0,
                     got |-> None, open |-> FALSE]
  BY DEF Init
<1> HIDE DEF req
<1>4. TypeOK
  <2>1. conn \in [Clients -> Conns]
    BY <1>1, <1>3 DEF Init, Conns, Stages
  <2>2. queue \in Seq(Clients) /\ IsInjective(queue) /\ Len(queue) <= Backlog
    BY HttpAssumption DEF Init, IsInjective
  <2>3. \A c \in Clients : conn[c].stage = "queued" <=> c \in ToSet(queue)
    BY <1>3 DEF Init, ToSet
  <2> QED BY <2>1, <2>2, <2>3 DEF Init, TypeOK
<1>5. Alone
  BY <1>3 DEF Alone, Serving
<1>6. AllKept
  BY <1>2, <1>3 DEF AllKept, Kept
<1> QED BY <1>4, <1>5, <1>6 DEF IInv

\* A step of one connection that leaves the queue alone.  If it lifts the freeze, the
\* connection is the one being served, and no other notices.
LEMMA OneMoves ==
    ASSUME IInv, NEW c \in Clients, NEW k \in Conns,
           conn' = [conn EXCEPT ![c] = k], UNCHANGED queue, configured' \in BOOLEAN,
           configured' = configured \/ conn[c].stage \in Serving,
           conn[c].stage \notin {"away", "closed"},
           k.stage = "queued" <=> conn[c].stage = "queued",
           k.stage \in Serving => conn[c].stage \in Serving,
           Kept(k, configured')
    PROVE  IInv'
<1>1. /\ conn \in [Clients -> Conns] /\ conn' \in [Clients -> Conns] /\ conn'[c] = k
      /\ \A d \in Clients \ {c} : conn'[d] = conn[d]
  BY DEF IInv, TypeOK
<1>2. TypeOK'
  BY <1>1 DEF IInv, TypeOK
<1>3. Alone'
  BY <1>1 DEF IInv, Alone
<1>4. AllKept'
  <2> SUFFICES ASSUME NEW d \in Clients PROVE Kept(conn'[d], configured')
    BY DEF AllKept
  <2>1. CASE d = c
    BY <1>1, <2>1
  <2>2. CASE d # c /\ configured' = configured
    BY <1>1, <2>2 DEF IInv, AllKept
  <2>3. CASE d # c /\ conn[c].stage \in Serving
    <3>1. conn[d].stage \notin Serving /\ conn'[d] = conn[d]
      BY <1>1, <2>3 DEF IInv, Alone
    <3>2. Kept(conn[d], configured)
      BY DEF IInv, AllKept
    <3> QED BY <3>1, <3>2 DEF Kept, Serving
  <2> QED BY <2>1, <2>2, <2>3
<1> QED BY <1>2, <1>3, <1>4 DEF IInv

-----------------------------------------------------------------------------
LEMMA ConnectStep == ASSUME IInv, NEW c \in Clients, Connect(c) PROVE IInv'
<1>1. PICK req \in Requests :
          conn' = [conn EXCEPT ![c] = [stage |-> "queued", req |-> req, arrived |-> 0,
                                       gone |-> FALSE, read |-> 0, got |-> None,
                                       open |-> FALSE]]
  BY DEF Connect
<1>2. /\ conn[c].stage \in {"away", "closed"} /\ Len(queue) < Backlog
      /\ queue' = Append(queue, c) /\ UNCHANGED configured
  BY DEF Connect
<1> DEFINE k == [stage |-> "queued", req |-> req, arrived |-> 0, gone |-> FALSE, read |-> 0,
                 got |-> None, open |-> FALSE]
<1>3. k \in Conns
  BY DEF Conns, Stages
<1>4. /\ conn' \in [Clients -> Conns] /\ conn'[c] = k
      /\ \A d \in Clients \ {c} : conn'[d] = conn[d]
  BY <1>1, <1>3 DEF IInv, TypeOK
<1>5. TypeOK'
  <2>1. queue \in Seq(Clients) /\ c \notin ToSet(queue)
    BY <1>2 DEF IInv, TypeOK
  <2>2. /\ queue' \in Seq(Clients) /\ Len(queue') = Len(queue) + 1
        /\ \A i \in 1 .. Len(queue) : queue'[i] = queue[i]
        /\ queue'[Len(queue) + 1] = c
        /\ Len(queue) \in Nat /\ DOMAIN queue = 1 .. Len(queue)
        /\ DOMAIN queue' = 1 .. Len(queue) + 1
    BY <1>2, <2>1
  <2>3. IsInjective(queue')
    <3> SUFFICES ASSUME NEW i \in DOMAIN queue', NEW j \in DOMAIN queue', queue'[i] = queue'[j]
                 PROVE  i = j
      BY DEF IsInjective
    <3>1. \A n \in 1 .. Len(queue) : queue[n] # c
      BY <2>1, <2>2 DEF ToSet
    <3>2. CASE i \in 1 .. Len(queue) /\ j \in 1 .. Len(queue)
      BY <2>2, <3>2 DEF IInv, TypeOK, IsInjective
    <3> QED BY <2>2, <3>1, <3>2
  <2>4. ToSet(queue') = ToSet(queue) \cup {c}
    <3>1. ASSUME NEW d \in ToSet(queue') PROVE d \in ToSet(queue) \cup {c}
      BY <2>2 DEF ToSet
    <3>2. ASSUME NEW d \in ToSet(queue) PROVE d \in ToSet(queue')
      BY <2>2 DEF ToSet
    <3>3. c \in ToSet(queue')
      BY <2>2 DEF ToSet
    <3> QED BY <3>1, <3>2, <3>3
  <2>5. Len(queue') <= Backlog
    BY <1>2, <2>2, HttpAssumption
  <2>6. \A d \in Clients : conn'[d].stage = "queued" <=> d \in ToSet(queue')
    BY <1>4, <2>4 DEF IInv, TypeOK
  <2> QED BY <1>2, <1>4, <2>2, <2>3, <2>5, <2>6 DEF IInv, TypeOK
<1>6. Alone'
  BY <1>4 DEF IInv, Alone, Serving
<1>7. AllKept'
  <2>1. req.length \in Nat
    BY HttpAssumption
  <2>2. Kept(k, configured)
    BY <2>1 DEF Kept
  <2> QED BY <1>2, <1>4, <2>2 DEF IInv, AllKept
<1> QED BY <1>5, <1>6, <1>7 DEF IInv

LEMMA SendStep == ASSUME IInv, NEW c \in Clients, Send(c) PROVE IInv'
<1> DEFINE k == [conn[c] EXCEPT !.arrived = @ + 1]
<1>1. /\ conn' = [conn EXCEPT ![c] = k] /\ UNCHANGED <<configured, queue>>
      /\ conn[c].stage \in {"queued"} \cup Serving /\ conn[c].arrived <= conn[c].req.length
  BY DEF Send
<1>2. conn[c] \in Conns /\ Kept(conn[c], configured)
  BY DEF IInv, TypeOK, AllKept
<1>3. conn[c].req.length \in Nat
  BY <1>2, HttpAssumption DEF Conns
<1>4. k \in Conns /\ k.stage = conn[c].stage
  BY <1>2 DEF Conns
<1>5. Kept(k, configured)
  BY <1>1, <1>2, <1>3 DEF Kept, Conns, Serving
<1>6. configured \in BOOLEAN /\ conn[c].stage \notin {"away", "closed"}
  BY <1>1 DEF IInv, TypeOK, Serving
<1> HIDE DEF k
<1> QED BY <1>1, <1>4, <1>5, <1>6, OneMoves

LEMMA HangUpStep == ASSUME IInv, NEW c \in Clients, HangUp(c) PROVE IInv'
<1> DEFINE k == [conn[c] EXCEPT !.gone = TRUE]
<1>1. /\ conn' = [conn EXCEPT ![c] = k] /\ UNCHANGED <<configured, queue>>
      /\ conn[c].stage \in {"queued"} \cup Serving
  BY DEF HangUp
<1>2. conn[c] \in Conns /\ Kept(conn[c], configured)
  BY DEF IInv, TypeOK, AllKept
<1>3. k \in Conns /\ k.stage = conn[c].stage
  BY <1>2 DEF Conns
<1>4. Kept(k, configured)
  BY <1>1, <1>2 DEF Kept, Conns, Serving
<1>5. configured \in BOOLEAN /\ conn[c].stage \notin {"away", "closed"}
  BY <1>1 DEF IInv, TypeOK, Serving
<1> HIDE DEF k
<1> QED BY <1>1, <1>3, <1>4, <1>5, OneMoves

\* The oldest connection leaves the queue when nobody is being served.
LEMMA AcceptStep == ASSUME IInv, NEW c \in Clients, Accept(c) PROVE IInv'
<1> DEFINE k == [conn[c] EXCEPT !.stage = "header"]
<1>1. /\ queue # <<>> /\ c = queue[1] /\ ~Busy
      /\ queue' = SubSeq(queue, 1, 0) \o SubSeq(queue, 2, Len(queue))
      /\ conn' = [conn EXCEPT ![c] = k] /\ UNCHANGED configured
  BY DEF Accept, Oldest, Without, RemoveAt
<1>2. conn[c] \in Conns /\ Kept(conn[c], configured) /\ queue \in Seq(Clients)
  BY DEF IInv, TypeOK, AllKept
<1>3. k \in Conns /\ k.stage = "header"
  BY <1>2 DEF Conns, Stages, Serving
<1>4. /\ conn' \in [Clients -> Conns] /\ conn'[c] = k
      /\ \A d \in Clients \ {c} : conn'[d] = conn[d]
  BY <1>1, <1>3 DEF IInv, TypeOK
<1>5. TypeOK'
  <2>1. /\ Len(queue) \in Nat \ {0} /\ DOMAIN queue = 1 .. Len(queue)
        /\ queue' \in Seq(Clients) /\ Len(queue') = Len(queue) - 1
        /\ DOMAIN queue' = 1 .. Len(queue) - 1
        /\ \A i \in 1 .. Len(queue) - 1 : queue'[i] = queue[i + 1]
    <3> DEFINE rest == SubSeq(queue, 2, Len(queue))
    <3>1. Len(queue) \in Nat \ {0} /\ DOMAIN queue = 1 .. Len(queue)
      BY <1>1, <1>2
    <3>2. SubSeq(queue, 1, 0) = <<>>
      BY <1>2
    <3>3. /\ rest \in Seq(Clients) /\ Len(rest) = Len(queue) - 1
          /\ DOMAIN rest = 1 .. Len(queue) - 1
          /\ \A i \in 1 .. Len(queue) - 1 : rest[i] = queue[i + 1]
      BY <1>2, <3>1
    <3> HIDE DEF rest
    <3>4. queue' = <<>> \o rest
      BY <1>1, <3>2 DEF rest
    <3>5. queue' = rest
      BY <3>3, <3>4
    <3> QED BY <3>1, <3>3, <3>5
  <2>2. \A i, j \in 1 .. Len(queue) : queue[i] = queue[j] => i = j
    BY <2>1 DEF IInv, TypeOK, IsInjective
  <2>3. IsInjective(queue')
    <3> SUFFICES ASSUME NEW i \in DOMAIN queue', NEW j \in DOMAIN queue', queue'[i] = queue'[j]
                 PROVE  i = j
      BY DEF IsInjective
    <3>1. i + 1 \in 1 .. Len(queue) /\ j + 1 \in 1 .. Len(queue)
      BY <2>1
    <3> QED BY <2>1, <2>2, <3>1
  <2>4. ToSet(queue') = ToSet(queue) \ {c}
    <3>1. ASSUME NEW d \in ToSet(queue') PROVE d \in ToSet(queue) \ {c}
      <4>1. PICK i \in 1 .. Len(queue) - 1 : d = queue'[i]
        BY <2>1 DEF ToSet
      <4>2. d = queue[i + 1] /\ i + 1 \in 1 .. Len(queue) /\ i + 1 # 1 /\ 1 \in 1 .. Len(queue)
        BY <2>1, <4>1
      <4> QED BY <1>1, <2>1, <2>2, <4>2 DEF ToSet
    <3>2. ASSUME NEW d \in ToSet(queue) \ {c} PROVE d \in ToSet(queue')
      <4>1. PICK i \in 1 .. Len(queue) : d = queue[i]
        BY <2>1 DEF ToSet
      <4>2. i # 1
        BY <1>1, <4>1
      <4>3. i - 1 \in 1 .. Len(queue) - 1 /\ (i - 1) + 1 = i
        BY <2>1, <4>2
      <4>4. queue'[i - 1] = queue[i]
        BY <2>1, <4>3
      <4> QED BY <2>1, <4>1, <4>3, <4>4 DEF ToSet
    <3> QED BY <3>1, <3>2
  <2>5. Len(queue') <= Backlog
    BY <2>1, HttpAssumption DEF IInv, TypeOK
  <2>6. \A d \in Clients : conn'[d].stage = "queued" <=> d \in ToSet(queue')
    BY <1>3, <1>4, <2>4 DEF IInv, TypeOK
  <2> QED BY <1>1, <1>4, <2>1, <2>3, <2>5, <2>6 DEF IInv, TypeOK
<1>6. Alone'
  BY <1>1, <1>4 DEF Alone, Busy
<1>7. AllKept'
  <2>1. Kept(k, configured)
    BY <1>2 DEF Kept, Conns
  <2> QED BY <1>1, <1>4, <2>1 DEF IInv, AllKept
<1> QED BY <1>5, <1>6, <1>7 DEF IInv

-----------------------------------------------------------------------------
(* Steps of the connection that is being served.                           *)

\* It goes on to another stage.
LEMMA GoesOn ==
    ASSUME IInv, NEW c \in Clients, NEW stage \in Serving, NEW status \in Statuses \cup {None},
           Goes(c, stage, status), UNCHANGED queue, configured' \in BOOLEAN,
           conn[c].stage \in Serving,
           stage \in {"body", "handle", "drain"},
           conn[c].arrived >= 1 /\ conn[c].req.method # "other",
           stage \in {"body", "handle"} => /\ conn[c].req.method = "POST"
                                           /\ Guarded(conn[c].req) => configured',
           stage = "drain" => /\ status # None
                              /\ Guarded(conn[c].req) => (status = 503 <=> ~configured')
    PROVE  IInv'
<1> DEFINE k == [conn[c] EXCEPT !.stage = stage, !.got = status]
<1>1. conn[c] \in Conns /\ Kept(conn[c], configured)
  BY DEF IInv, TypeOK, AllKept
<1>2. conn' = [conn EXCEPT ![c] = k]
  BY DEF Goes
<1>3. /\ k \in Conns /\ k.stage = stage /\ k.got = status /\ k.req = conn[c].req
      /\ k.arrived = conn[c].arrived
  BY <1>1 DEF Conns, Stages
<1>4. Kept(k, configured')
  BY <1>1, <1>3 DEF Kept
<1>5. stage # "queued" /\ conn[c].stage \notin {"away", "closed", "queued"}
  BY DEF Serving
<1> HIDE DEF k
<1> QED BY <1>2, <1>3, <1>4, <1>5, OneMoves

\* It is closed.
LEMMA Closes ==
    ASSUME IInv, NEW c \in Clients, NEW status \in Statuses \cup {None}, NEW read \in Nat,
           Close(c, status, read), UNCHANGED <<configured, queue>>,
           conn[c].stage \in Serving,
           conn[c].gone \/ conn[c].req.method = "other"
               \/ /\ read = conn[c].req.length
                  /\ status = None => conn[c].req.method = "POST" /\ conn[c].req.body = "notText",
           status \notin {None, 501} /\ Guarded(conn[c].req) => (status = 503 <=> ~configured)
    PROVE  IInv'
<1> DEFINE k == [conn[c] EXCEPT !.stage = "closed", !.got = status, !.read = read,
                                !.open = configured]
<1>1. conn[c] \in Conns /\ Kept(conn[c], configured) /\ configured \in BOOLEAN
  BY DEF IInv, TypeOK, AllKept
<1>2. conn' = [conn EXCEPT ![c] = k]
  BY DEF Close
<1>3. /\ k \in Conns /\ k.stage = "closed" /\ k.got = status /\ k.req = conn[c].req
      /\ k.arrived = conn[c].arrived /\ k.read = read /\ k.open = configured
      /\ k.gone = conn[c].gone
  <2> SUFFICES ASSUME NEW s \in Conns, NEW t,
                      t = [s EXCEPT !.stage = "closed", !.got = status, !.read = read,
                                    !.open = configured]
               PROVE  /\ t \in Conns /\ t.stage = "closed" /\ t.got = status /\ t.req = s.req
                      /\ t.arrived = s.arrived /\ t.read = read /\ t.open = configured
                      /\ t.gone = s.gone
    BY <1>1
  <2>1. "closed" \in Stages
    BY DEF Stages
  <2> QED BY <1>1, <2>1 DEF Conns
<1>4. Kept(k, configured)
  BY <1>1, <1>3 DEF Kept
<1>5. k.stage \notin Serving \cup {"queued"} /\ conn[c].stage \notin {"away", "closed", "queued"}
  BY <1>3 DEF Serving
<1> HIDE DEF k
<1> QED BY <1>1, <1>2, <1>3, <1>4, <1>5, OneMoves

LEMMA HeaderStep == ASSUME IInv, NEW c \in Clients, Header(c) PROVE IInv'
<1> DEFINE req == conn[c].req
<1>1. /\ conn[c].stage = "header" /\ conn[c].stage \in Serving
      /\ UNCHANGED <<configured, queue>>
  BY DEF Header, Serving
<1>2. conn[c] \in Conns /\ configured \in BOOLEAN /\ conn[c].arrived \in Nat
  BY DEF IInv, TypeOK, Conns
<1>3. CASE conn[c].gone /\ Close(c, None, 0)
  BY <1>1, <1>3, Closes
<1>4. CASE req.method = "other" /\ Close(c, 501, 0)
  BY <1>1, <1>4, Closes DEF Statuses
<1>5. ASSUME conn[c].arrived > 0, req.method # "other", Frozen(req.path),
             ~(req.method = "POST" /\ req.path = "configure"), Goes(c, "drain", 503)
      PROVE  IInv'
  <2>1. 503 \in Statuses /\ 503 # None /\ "drain" \in Serving
    BY HttpAssumption DEF Statuses, Serving
  <2>2. conn[c].arrived >= 1 /\ ~configured
    BY <1>2, <1>5 DEF Frozen
  <2> QED BY <1>1, <1>2, <1>5, <2>1, <2>2, GoesOn
<1>6. ASSUME conn[c].arrived > 0, req.method = "GET", ~Frozen(req.path),
             NEW status \in GetStatuses(req.path), Goes(c, "drain", status)
      PROVE  IInv'
  <2>1. status \in Statuses /\ status # 503 /\ status \in Nat
    BY DEF GetStatuses, Statuses
  <2>2. conn[c].arrived >= 1 /\ status # None /\ "drain" \in Serving
    BY <1>2, <1>6, <2>1, HttpAssumption DEF Serving
  <2>3. Guarded(req) => configured
    BY <1>6 DEF Guarded, Frozen
  <2> QED BY <1>1, <1>2, <1>6, <2>1, <2>2, <2>3, GoesOn
<1>7. ASSUME conn[c].arrived > 0, req.method = "POST",
             req.path = "configure" \/ ~Frozen(req.path), Goes(c, "body", None)
      PROVE  IInv'
  <2>1. conn[c].arrived >= 1 /\ "body" \in Serving /\ req.method # "other"
    BY <1>2, <1>7 DEF Serving
  <2>2. Guarded(req) => configured
    BY <1>7 DEF Guarded, Frozen
  <2> QED BY <1>1, <1>2, <1>7, <2>1, <2>2, GoesOn
<1> QED BY <1>3, <1>4, <1>5, <1>6, <1>7 DEF Header

LEMMA ReadBodyStep == ASSUME IInv, NEW c \in Clients, ReadBody(c) PROVE IInv'
<1> DEFINE req == conn[c].req
<1>1. /\ conn[c].stage = "body" /\ conn[c].stage \in Serving /\ Received(c)
      /\ UNCHANGED <<configured, queue>>
  BY DEF ReadBody, Serving
<1>2. /\ conn[c].arrived \in Nat /\ conn[c].arrived >= 1 /\ configured \in BOOLEAN
      /\ req.method = "POST" /\ req.method # "other"
      /\ Guarded(req) => configured
  BY <1>1 DEF IInv, TypeOK, Conns, AllKept, Kept
<1>3. CASE Goes(c, "handle", None)
  <2>1. "handle" \in Serving
    BY DEF Serving
  <2> QED BY <1>1, <1>2, <1>3, <2>1, GoesOn
<1>4. CASE Goes(c, "drain", 400)
  <2>1. "drain" \in Serving /\ 400 \in Statuses /\ 400 # None /\ 400 # 503
    BY HttpAssumption DEF Serving, Statuses
  <2> QED BY <1>1, <1>2, <1>4, <2>1, GoesOn
<1>5. CASE req.body = "notText" /\ Close(c, None, Body(c))
  <2>1. Body(c) \in Nat
    BY <1>2 DEF Body
  <2>2. conn[c].gone \/ Body(c) = req.length
    BY <1>1 DEF Received
  <2> QED BY <1>1, <1>2, <1>5, <2>1, <2>2, Closes
<1> QED BY <1>1, <1>3, <1>4, <1>5 DEF ReadBody

\* The handler, which alone may lift the freeze.
LEMMA HandleStep == ASSUME IInv, NEW c \in Clients, Handle(c) PROVE IInv'
<1> DEFINE req == conn[c].req
<1>1. conn[c].stage = "handle" /\ conn[c].stage \in Serving /\ UNCHANGED queue
  BY DEF Handle, Serving
<1>2. PICK status \in PostStatuses(req.path) :
          /\ Goes(c, "drain", status)
          /\ configured' = (configured \/ (req.path = "configure" /\ status = 200))
  BY DEF Handle
<1>3. /\ conn[c].arrived >= 1 /\ configured \in BOOLEAN
      /\ req.method = "POST" /\ req.method # "other"
      /\ Guarded(req) => configured
  BY <1>1 DEF IInv, TypeOK, AllKept, Kept
<1>4. status \in Statuses /\ status # 503 /\ status \in Nat
  BY DEF PostStatuses, Statuses
<1>5. status # None /\ "drain" \in Serving
  BY <1>4, HttpAssumption DEF Serving
<1>6. configured' \in BOOLEAN /\ (configured => configured')
  BY <1>2, <1>3
<1> QED BY <1>1, <1>2, <1>3, <1>4, <1>5, <1>6, GoesOn

LEMMA AnswerStep == ASSUME IInv, NEW c \in Clients, Answer(c) PROVE IInv'
<1> DEFINE req == conn[c].req
<1>1. /\ conn[c].stage = "drain" /\ conn[c].stage \in Serving /\ Received(c)
      /\ Close(c, conn[c].got, Body(c)) /\ UNCHANGED <<configured, queue>>
  BY DEF Answer, Drained, Serving
<1>2. /\ conn[c].arrived \in Nat /\ conn[c].arrived >= 1
      /\ conn[c].got \in Statuses \cup {None} /\ conn[c].got # None
      /\ Guarded(req) => (conn[c].got = 503 <=> ~configured)
  BY <1>1 DEF IInv, TypeOK, Conns, AllKept, Kept
<1>3. Body(c) \in Nat
  BY <1>2 DEF Body
<1>4. conn[c].gone \/ Body(c) = req.length
  BY <1>1 DEF Received
<1> QED BY <1>1, <1>2, <1>3, <1>4, Closes

LEMMA IInvStep == IInv /\ [Next]_vars => IInv'
<1> SUFFICES ASSUME IInv, [Next]_vars PROVE IInv'
  OBVIOUS
<1>1. CASE UNCHANGED vars
  BY <1>1 DEF vars, IInv, TypeOK, Alone, AllKept
<1>2. CASE Next
  BY <1>2, ConnectStep, SendStep, HangUpStep, AcceptStep, HeaderStep, ReadBodyStep, HandleStep,
     AnswerStep DEF Next, Serve
<1> QED BY <1>1, <1>2

\* The inductive invariant.
LEMMA Inductive == Spec => []IInv
BY IInvInit, IInvStep, PTL DEF Spec

-----------------------------------------------------------------------------
\* Types are kept, and the queue holds exactly those that wait, once each.
THEOREM HttpTypeCorrect == Spec => []TypeOK
<1>1. IInv => TypeOK
  BY DEF IInv
<1> QED BY <1>1, Inductive, PTL

\* Who stays on the line is answered, and nothing it sent is left unread.
THEOREM AnswersReachClients == Spec => []AnswerReachesClient
<1>1. IInv => AnswerReachesClient
  BY DEF IInv, AllKept, Kept, Stayed, AnswerReachesClient
<1> QED BY <1>1, Inductive, PTL

\* A 503 leaves exactly while the service is frozen, though the freeze was looked at
\* before the body was awaited.
THEOREM FreezeHoldsToTheAnswer == Spec => []FreezeIsCurrent
<1>1. IInv => FreezeIsCurrent
  BY DEF IInv, AllKept, Kept, Guarded, FreezeIsCurrent
<1> QED BY <1>1, Inductive, PTL

-----------------------------------------------------------------------------
(* What waiting costs.  Served is conditional on the scheduling and on the *)
(* clients; what follows is not.  It counts the steps of the server: none  *)
(* is spent on anything that does not bring everyone's answer closer.      *)

StepsLeft(stage) ==
    CASE stage = "header" -> 4 [] stage = "body" -> 3 [] stage = "handle" -> 2
      [] stage = "drain" -> 1 [] OTHER -> 0

\* Of the connection that is being served, given all connections.
InHand(all) ==
    IF \E c \in Clients : all[c].stage \in Serving
    THEN StepsLeft(all[CHOOSE c \in Clients : all[c].stage \in Serving].stage)
    ELSE 0

Place(line, c) == CHOOSE i \in DOMAIN line : line[i] = c

\* How many steps the server has at most before it closes a client's connection.
StepsToGo(all, line, c) ==
    IF all[c].stage = "queued" THEN 5 * Place(line, c) + InHand(all) ELSE StepsLeft(all[c].stage)

LEMMA StepsLeftAre ==
    ASSUME NEW stage \in Stages
    PROVE  /\ StepsLeft(stage) \in 0 .. 4
           /\ stage \in Serving <=> StepsLeft(stage) > 0
BY DEF StepsLeft, Stages, Serving

LEMMA InHandIs ==
    ASSUME NEW all, NEW c \in Clients, all[c].stage \in Serving,
           \A d, e \in Clients : all[d].stage \in Serving /\ all[e].stage \in Serving => d = e
    PROVE  InHand(all) = StepsLeft(all[c].stage)
<1> DEFINE served == CHOOSE d \in Clients : all[d].stage \in Serving
<1>1. served \in Clients /\ all[served].stage \in Serving
  OBVIOUS
<1>2. served = c
  BY <1>1
<1> QED BY <1>2 DEF InHand

LEMMA NothingInHand ==
    ASSUME NEW all, \A c \in Clients : all[c].stage \notin Serving
    PROVE  InHand(all) = 0
BY DEF InHand

LEMMA PlaceIs ==
    ASSUME NEW line, IsInjective(line), NEW i \in DOMAIN line
    PROVE  Place(line, line[i]) = i
<1> DEFINE place == CHOOSE j \in DOMAIN line : line[j] = line[i]
<1>1. place \in DOMAIN line /\ line[place] = line[i]
  OBVIOUS
<1>2. place = i
  BY <1>1 DEF IsInjective
<1> QED BY <1>2 DEF Place

\* In what is in hand only stages count.
LEMMA SameInHand ==
    ASSUME Alone, NEW all,
           \A c \in Clients : all[c].stage \in Serving <=> conn[c].stage \in Serving,
           \A c \in Clients : conn[c].stage \in Serving => all[c].stage = conn[c].stage
    PROVE  InHand(all) = InHand(conn)
<1>1. CASE \E c \in Clients : conn[c].stage \in Serving
  <2>1. PICK c \in Clients : conn[c].stage \in Serving
    BY <1>1
  <2>2. InHand(conn) = StepsLeft(conn[c].stage)
    BY <2>1, InHandIs DEF Alone
  <2>3. InHand(all) = StepsLeft(all[c].stage)
    BY <2>1, InHandIs DEF Alone
  <2> QED BY <2>1, <2>2, <2>3
<1>2. CASE \A c \in Clients : conn[c].stage \notin Serving
  BY <1>2, NothingInHand
<1> QED BY <1>1, <1>2

LEMMA InHandBound == IInv => InHand(conn) \in 0 .. 4
<1> SUFFICES ASSUME IInv PROVE InHand(conn) \in 0 .. 4
  OBVIOUS
<1>1. \A c \in Clients : conn[c].stage \in Stages
  BY DEF IInv, TypeOK, Conns
<1>2. CASE \E c \in Clients : conn[c].stage \in Serving
  <2>1. PICK c \in Clients : conn[c].stage \in Serving
    BY <1>2
  <2>2. InHand(conn) = StepsLeft(conn[c].stage)
    BY <2>1, InHandIs DEF IInv, Alone
  <2> QED BY <1>1, <2>2, StepsLeftAre
<1>3. CASE \A c \in Clients : conn[c].stage \notin Serving
  BY <1>3, NothingInHand
<1> QED BY <1>2, <1>3

\* Who waits has a place.
LEMMA QueuedHasPlace ==
    ASSUME IInv, NEW c \in Clients, conn[c].stage = "queued"
    PROVE  \E i \in 1 .. Len(queue) : queue[i] = c /\ Place(queue, c) = i
<1>1. queue \in Seq(Clients) /\ IsInjective(queue) /\ c \in ToSet(queue)
  BY DEF IInv, TypeOK
<1>2. PICK i \in DOMAIN queue : queue[i] = c
  BY <1>1 DEF ToSet
<1>3. Place(queue, queue[i]) = i
  BY <1>1, PlaceIs
<1> QED BY <1>1, <1>2, <1>3

Underway(c) == conn[c].stage \in {"queued"} \cup Serving

\* A step of the server on the connection it is serving.
ServesOn(c) == Header(c) \/ ReadBody(c) \/ Handle(c) \/ Answer(c)

LEMMA StageAdvances ==
    ASSUME IInv, NEW c \in Clients, ServesOn(c)
    PROVE  /\ conn[c].stage \in Serving /\ UNCHANGED queue
           /\ conn'[c].stage \in {"body", "handle", "drain", "closed"}
           /\ StepsLeft(conn'[c].stage) < StepsLeft(conn[c].stage)
           /\ \A d \in Clients \ {c} : conn'[d] = conn[d]
<1>1. conn \in [Clients -> Conns]
  BY DEF IInv, TypeOK
<1>2. \A stage, status : Goes(c, stage, status) =>
          conn'[c].stage = stage /\ \A d \in Clients \ {c} : conn'[d] = conn[d]
  BY <1>1 DEF Goes, Conns
<1>3. \A status, read : Close(c, status, read) =>
          conn'[c].stage = "closed" /\ \A d \in Clients \ {c} : conn'[d] = conn[d]
  BY <1>1 DEF Close, Conns
<1>4. CASE Header(c)
  <2>1. conn[c].stage = "header" /\ UNCHANGED queue
    BY <1>4 DEF Header
  <2>2. /\ conn'[c].stage \in {"body", "drain", "closed"}
        /\ \A d \in Clients \ {c} : conn'[d] = conn[d]
    BY <1>2, <1>3, <1>4 DEF Header
  <2> QED BY <2>1, <2>2 DEF StepsLeft, Serving
<1>5. CASE ReadBody(c)
  <2>1. conn[c].stage = "body" /\ UNCHANGED queue
    BY <1>5 DEF ReadBody
  <2>2. /\ conn'[c].stage \in {"handle", "drain", "closed"}
        /\ \A d \in Clients \ {c} : conn'[d] = conn[d]
    BY <1>2, <1>3, <1>5 DEF ReadBody
  <2> QED BY <2>1, <2>2 DEF StepsLeft, Serving
<1>6. CASE Handle(c)
  <2>1. conn[c].stage = "handle" /\ UNCHANGED queue
    BY <1>6 DEF Handle
  <2>2. conn'[c].stage = "drain" /\ \A d \in Clients \ {c} : conn'[d] = conn[d]
    BY <1>2, <1>6 DEF Handle
  <2> QED BY <2>1, <2>2 DEF StepsLeft, Serving
<1>7. CASE Answer(c)
  <2>1. conn[c].stage = "drain" /\ UNCHANGED queue
    BY <1>7 DEF Answer
  <2>2. conn'[c].stage = "closed" /\ \A d \in Clients \ {c} : conn'[d] = conn[d]
    BY <1>3, <1>7 DEF Answer
  <2> QED BY <2>1, <2>2 DEF StepsLeft, Serving
<1> QED BY <1>4, <1>5, <1>6, <1>7 DEF ServesOn

\* Everyone who waits is at least as close after any step, and closer after one of the server.
Closer ==
    \A c \in Clients : Underway(c) =>
        /\ StepsToGo(conn', queue', c) <= StepsToGo(conn, queue, c)
        /\ (\E d \in Clients : Serve(d)) => StepsToGo(conn', queue', c) < StepsToGo(conn, queue, c)

\* No client ever has more before it than a full backlog and a connection in hand.
WaitsAreBounded == \A c \in Clients : StepsToGo(conn, queue, c) \in 0 .. 5 * Backlog + 4

LEMMA Bounded == IInv => WaitsAreBounded
<1> SUFFICES ASSUME IInv, NEW c \in Clients
             PROVE  StepsToGo(conn, queue, c) \in 0 .. 5 * Backlog + 4
  BY DEF WaitsAreBounded
<1>1. conn[c].stage \in Stages /\ Len(queue) <= Backlog /\ Len(queue) \in Nat
  BY DEF IInv, TypeOK, Conns
<1>2. CASE conn[c].stage = "queued"
  <2>1. PICK i \in 1 .. Len(queue) : Place(queue, c) = i
    BY <1>2, QueuedHasPlace
  <2>2. StepsToGo(conn, queue, c) = 5 * i + InHand(conn) /\ InHand(conn) \in 0 .. 4
    BY <1>2, <2>1, InHandBound DEF StepsToGo
  <2> QED BY <1>1, <2>1, <2>2, HttpAssumption
<1>3. CASE conn[c].stage # "queued"
  <2>1. StepsToGo(conn, queue, c) \in 0 .. 4
    BY <1>1, <1>3, StepsLeftAre DEF StepsToGo
  <2> QED BY <2>1, HttpAssumption
<1> QED BY <1>2, <1>3

\* The next in the queue is taken when nothing is in hand.
LEMMA AcceptCloser == ASSUME IInv, NEW d \in Clients, Accept(d) PROVE Closer
<1>1. /\ queue # <<>> /\ d = queue[1] /\ ~Busy
      /\ queue' = SubSeq(queue, 1, 0) \o SubSeq(queue, 2, Len(queue))
      /\ conn' = [conn EXCEPT ![d].stage = "header"]
  BY DEF Accept, Oldest, Without, RemoveAt
<1>2. /\ conn \in [Clients -> Conns] /\ queue \in Seq(Clients) /\ IsInjective(queue)
      /\ Len(queue) \in Nat
  BY DEF IInv, TypeOK
<1>3. conn'[d].stage = "header" /\ \A c \in Clients \ {d} : conn'[c] = conn[c]
  BY <1>1, <1>2 DEF Conns
<1>4. InHand(conn) = 0
  BY <1>1, NothingInHand DEF Busy
<1>5. InHand(conn') = 4
  <2>1. \A c \in Clients : conn'[c].stage \in Serving => c = d
    BY <1>1, <1>3 DEF Busy
  <2>2. conn'[d].stage \in Serving
    BY <1>3 DEF Serving
  <2>3. InHand(conn') = StepsLeft(conn'[d].stage)
    BY <2>1, <2>2, InHandIs
  <2> QED BY <1>3, <2>3 DEF StepsLeft
<1>6. IInv'
  BY AcceptStep
<1> SUFFICES ASSUME NEW c \in Clients, Underway(c)
             PROVE  StepsToGo(conn', queue', c) < StepsToGo(conn, queue, c)
  <2>1. \A c \in Clients : /\ StepsToGo(conn, queue, c) \in Int
                           /\ Underway(c) => StepsToGo(conn', queue', c) \in Int
    <3>1. WaitsAreBounded /\ WaitsAreBounded'
      BY <1>6, Bounded, PTL
    <3> QED BY <3>1 DEF WaitsAreBounded
  <2> QED BY <2>1 DEF Closer
<1>7. conn[c].stage = "queued"
  BY <1>1 DEF Underway, Busy
<1>8. PICK i \in 1 .. Len(queue) : queue[i] = c /\ Place(queue, c) = i
  BY <1>7, QueuedHasPlace
<1>9. StepsToGo(conn, queue, c) = 5 * i
  BY <1>4, <1>7, <1>8 DEF StepsToGo
<1>10. CASE c = d
  <2>1. StepsToGo(conn', queue', c) = 4
    BY <1>3, <1>10 DEF StepsToGo, StepsLeft
  <2> QED BY <1>2, <1>8, <1>9, <2>1
<1>11. CASE c # d
  <2>1. i # 1 /\ i - 1 \in 1 .. Len(queue) - 1
    BY <1>1, <1>2, <1>8, <1>11
  <2>2. i - 1 \in DOMAIN queue' /\ queue'[i - 1] = c
    <3> DEFINE rest == SubSeq(queue, 2, Len(queue))
    <3>1. SubSeq(queue, 1, 0) = <<>>
      BY <1>2
    <3>2. /\ rest \in Seq(Clients) /\ DOMAIN rest = 1 .. Len(queue) - 1
          /\ \A j \in 1 .. Len(queue) - 1 : rest[j] = queue[j + 1]
      BY <1>1, <1>2
    <3>3. rest[i - 1] = c
      BY <1>2, <1>8, <2>1, <3>2
    <3> HIDE DEF rest
    <3>4. queue' = <<>> \o rest
      BY <1>1, <3>1 DEF rest
    <3>5. queue' = rest
      BY <3>2, <3>4
    <3> QED BY <2>1, <3>2, <3>3, <3>5
  <2>3. Place(queue', c) = i - 1
    BY <1>6, <2>2, PlaceIs DEF IInv, TypeOK
  <2>4. StepsToGo(conn', queue', c) = 5 * (i - 1) + 4
    BY <1>3, <1>5, <1>7, <1>11, <2>3 DEF StepsToGo
  <2> QED BY <1>2, <1>8, <1>9, <2>4
<1> QED BY <1>10, <1>11

LEMMA ServesOnCloser == ASSUME IInv, NEW d \in Clients, ServesOn(d), IInv' PROVE Closer
<1> DEFINE old == StepsLeft(conn[d].stage)
           new == StepsLeft(conn'[d].stage)
<1>1. /\ conn[d].stage \in Serving /\ UNCHANGED queue /\ new < old
      /\ conn'[d].stage \in {"body", "handle", "drain", "closed"}
      /\ \A c \in Clients \ {d} : conn'[c] = conn[c]
  BY StageAdvances
<1>2. conn[d].stage \in Stages /\ conn'[d].stage \in Stages
  BY <1>1 DEF IInv, TypeOK, Conns, Stages, Serving
<1>3. old \in Int /\ new \in Int
  BY <1>2, StepsLeftAre
<1>4. InHand(conn) = old
  BY <1>1, InHandIs DEF IInv, Alone
<1>5. InHand(conn') = new
  <2>1. \A c \in Clients : conn'[c].stage \in Serving => c = d
    BY <1>1 DEF IInv, Alone
  <2>2. CASE conn'[d].stage \in Serving
    BY <2>1, <2>2, InHandIs
  <2>3. CASE conn'[d].stage \notin Serving
    <3>1. InHand(conn') = 0
      BY <2>1, <2>3, NothingInHand
    <3>2. conn'[d].stage = "closed"
      BY <1>1, <2>3 DEF Serving
    <3> QED BY <3>1, <3>2 DEF StepsLeft
  <2> QED BY <2>2, <2>3
<1> HIDE DEF old, new
<1>6. ASSUME NEW c \in Clients, Underway(c)
      PROVE  /\ StepsToGo(conn', queue', c) < StepsToGo(conn, queue, c)
             /\ StepsToGo(conn', queue', c) <= StepsToGo(conn, queue, c)
  <2>1. CASE c = d
    <3>1. conn[d].stage # "queued" /\ conn'[d].stage # "queued"
      BY <1>1 DEF Serving
    <3>2. StepsToGo(conn, queue, d) = old /\ StepsToGo(conn', queue', d) = new
      BY <3>1 DEF StepsToGo, old, new
    <3> QED BY <1>1, <1>3, <2>1, <3>2
  <2>2. CASE c # d
    <3>1. conn[c].stage = "queued" /\ conn'[c].stage = "queued"
      BY <1>1, <1>6, <2>2 DEF IInv, Alone, Underway
    <3>2. PICK i \in 1 .. Len(queue) : Place(queue, c) = i
      BY <3>1, QueuedHasPlace
    <3>3. /\ StepsToGo(conn, queue, c) = 5 * i + old
          /\ StepsToGo(conn', queue', c) = 5 * i + new
      BY <1>1, <1>4, <1>5, <3>1, <3>2 DEF StepsToGo
    <3> QED BY <1>1, <1>3, <3>2, <3>3
  <2> QED BY <2>1, <2>2
<1> QED BY <1>6 DEF Closer

\* Clients' own steps bring nobody further away: who comes lines up behind, and what is
\* sent or given up is the sender's.
LEMMA ConnectCloser ==
    ASSUME IInv, NEW d \in Clients, Connect(d), IInv', \A c \in Clients : ~Serve(c)
    PROVE  Closer
<1>1. /\ conn[d].stage \in {"away", "closed"} /\ queue' = Append(queue, d)
      /\ \E req \in Requests :
             conn' = [conn EXCEPT ![d] = [stage |-> "queued", req |-> req, arrived |-> 0,
                                          gone |-> FALSE, read |-> 0, got |-> None,
                                          open |-> FALSE]]
  BY DEF Connect
<1>2. conn \in [Clients -> Conns] /\ queue \in Seq(Clients)
  BY DEF IInv, TypeOK
<1>3. conn'[d].stage = "queued" /\ \A c \in Clients \ {d} : conn'[c] = conn[c]
  BY <1>1, <1>2
<1>4. InHand(conn') = InHand(conn)
  <2>1. \A c \in Clients : conn'[c].stage \in Serving <=> conn[c].stage \in Serving
    BY <1>1, <1>3 DEF Serving
  <2>2. \A c \in Clients : conn[c].stage \in Serving => conn'[c].stage = conn[c].stage
    BY <1>1, <1>3 DEF Serving
  <2> QED BY <2>1, <2>2, SameInHand DEF IInv
<1>5. ASSUME NEW c \in Clients, Underway(c)
      PROVE  StepsToGo(conn', queue', c) = StepsToGo(conn, queue, c)
  <2>1. conn'[c] = conn[c]
    BY <1>1, <1>3, <1>5 DEF Underway, Serving
  <2>2. CASE conn[c].stage = "queued"
    <3>1. PICK i \in 1 .. Len(queue) : queue[i] = c /\ Place(queue, c) = i
      BY <2>2, QueuedHasPlace
    <3>2. i \in DOMAIN queue' /\ queue'[i] = c
      BY <1>1, <1>2, <3>1
    <3>3. Place(queue', c) = i
      BY <3>2, PlaceIs DEF IInv, TypeOK
    <3> QED BY <1>4, <2>1, <2>2, <3>1, <3>3 DEF StepsToGo
  <2>3. CASE conn[c].stage # "queued"
    BY <2>1, <2>3 DEF StepsToGo
  <2> QED BY <2>2, <2>3
<1>6. \A c \in Clients : StepsToGo(conn, queue, c) \in Int
  BY Bounded DEF WaitsAreBounded
<1> QED BY <1>5, <1>6 DEF Closer

LEMMA SameStagesCloser ==
    ASSUME IInv, UNCHANGED queue, \A c \in Clients : conn'[c].stage = conn[c].stage,
           \A c \in Clients : ~Serve(c)
    PROVE  Closer
<1>1. InHand(conn') = InHand(conn)
  BY SameInHand DEF IInv
<1>2. \A c \in Clients : StepsToGo(conn', queue', c) = StepsToGo(conn, queue, c)
  BY <1>1 DEF StepsToGo
<1>3. \A c \in Clients : StepsToGo(conn, queue, c) \in Int
  BY Bounded DEF WaitsAreBounded
<1> QED BY <1>2, <1>3 DEF Closer

\* A step of the server moves a connection to another stage.
LEMMA ServeMoves ==
    ASSUME IInv, NEW c \in Clients, Serve(c)
    PROVE  /\ conn'[c].stage # conn[c].stage
           /\ conn[c].stage \in {"queued"} \cup Serving
<1>1. conn \in [Clients -> Conns]
  BY DEF IInv, TypeOK
<1>2. CASE Accept(c)
  <2>1. conn'[c].stage = "header" /\ ~Busy /\ queue # <<>> /\ c = queue[1]
    BY <1>1, <1>2 DEF Accept, Oldest, Conns
  <2>2. c \in ToSet(queue)
    BY <2>1 DEF IInv, TypeOK, ToSet
  <2>3. conn[c].stage = "queued"
    BY <2>2 DEF IInv, TypeOK
  <2> QED BY <2>1, <2>3
<1>3. CASE ServesOn(c)
  <2>1. /\ conn[c].stage \in Serving /\ conn[c].stage \in Stages
        /\ StepsLeft(conn'[c].stage) < StepsLeft(conn[c].stage)
    BY <1>1, <1>3, StageAdvances DEF Conns
  <2>2. StepsLeft(conn[c].stage) \in 0 .. 4
    BY <2>1, StepsLeftAre
  <2> QED BY <2>1, <2>2
<1> QED BY <1>2, <1>3 DEF Serve, ServesOn

LEMMA StepIsCloser == IInv /\ [Next]_vars => Closer
<1> SUFFICES ASSUME IInv, [Next]_vars PROVE Closer
  OBVIOUS
<1>1. IInv' /\ conn \in [Clients -> Conns]
  BY IInvStep DEF IInv, TypeOK
<1>2. CASE UNCHANGED vars
  <2>1. \A c \in Clients : conn'[c].stage = conn[c].stage /\ ~Serve(c)
    BY <1>2, ServeMoves DEF vars
  <2> QED BY <1>2, <2>1, SameStagesCloser DEF vars
<1>3. CASE \E d \in Clients : Serve(d)
  BY <1>1, <1>3, AcceptCloser, ServesOnCloser DEF Serve, ServesOn
<1>4. CASE ~(\E d \in Clients : Serve(d)) /\ Next
  <2>1. PICK d \in Clients : Connect(d) \/ Send(d) \/ HangUp(d)
    BY <1>4 DEF Next
  <2>2. CASE Connect(d)
    BY <1>1, <1>4, <2>2, ConnectCloser
  <2>3. CASE Send(d) \/ HangUp(d)
    <3>1. UNCHANGED queue /\ \A c \in Clients : conn'[c].stage = conn[c].stage
      BY <1>1, <2>3 DEF Send, HangUp, Conns
    <3> QED BY <1>4, <3>1, SameStagesCloser
  <2> QED BY <2>1, <2>2, <2>3
<1> QED BY <1>2, <1>3, <1>4

\* Who waits is never overtaken, and no step of the server is lost on the way: with the
\* backlog full there are at most 5 * Backlog + 4 of them before a client's connection is
\* closed, each leaves fewer for everyone who waits, and none of the clients' steps adds
\* one (serve_forever, one connection at a time; main.py:621-623).  What may keep a client
\* waiting is thus only that the server takes no step: a client that stalls it.
THEOREM WaitsShorten == Spec => []WaitsAreBounded /\ [][Closer]_vars
BY Inductive, Bounded, StepIsCloser, PTL DEF Spec
=============================================================================
