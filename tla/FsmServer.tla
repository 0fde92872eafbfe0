------------------------------ MODULE FsmServer ------------------------------
(***************************************************************************)
(* The test target src/tests/simple_fsm/main.c: a one-connection-at-a-time *)
(* HTTP server over a five-state rotation.  GET /state answers the current *)
(* state, POST /next advances it and answers the new state; a signal      *)
(* clears keep_running.  Clients connect, then may write their request    *)
(* line, may give up (close their socket) at any time, and connect again. *)
(*                                                                         *)
(* The socket layer is abstracted to what the server's control depends    *)
(* on: the listen backlog is a queue of connections; read() blocks until  *)
(* the client has written its request or closed its socket, then returns  *)
(* the whole request line, a prefix of it, or EOF; a write to a connection whose    *)
(* client has gone may raise SIGPIPE, which kills the process (no handler *)
(* is installed for it); when the process ends, the kernel resets every   *)
(* connection still queued or open.  signal() installs its handlers with  *)
(* SA_RESTART (glibc), so a signal does not make a blocked accept() fail. *)
(***************************************************************************)
EXTENDS Naturals, Sequences

CONSTANTS
    Clients,     \* client processes
    Requests,    \* request lines clients send: [method, path]
    MaxConns,    \* connections per client
    Backlog      \* connections the listen queue holds

NStates == 5     \* fsm_t.states[5]

ASSUME ServerAssumption ==
    /\ MaxConns \in Nat /\ Backlog \in Nat \ {0}
    /\ Requests \subseteq [method : STRING, path : STRING]

(* A connection: its client, the client's connection number, its request. *)
Conn == [client : Clients, n : 1..MaxConns, req : Requests]
NoConn == [client |-> CHOOSE c \in Clients : TRUE, n |-> 0,
           req |-> CHOOSE r \in Requests : TRUE]

(* What handle_conn leaves to write: a status and the state named in the  *)
(* body (NoBody for the error bodies), or nothing.                        *)
NoBody == NStates
Reply == [status : {"200", "400", "405", "none"}, body : 0..NStates]
NoReply == [status |-> "none", body |-> NoBody]

(* What a client last saw on a connection: a reply, EOF, a reset, or      *)
(* nothing yet.                                                           *)
Outcome == [status : {"200", "400", "405", "eof", "reset", "pending"},
            body : 0..NStates]
Seen(s) == [status |-> s, body |-> NoBody]

VARIABLES
    idx,          \* f.idx
    keepRunning,  \* keep_running
    spc,          \* "setup", "loop", "accept", "handle", "reply",
                  \* "exited" or "killed"
    backlog,      \* connections accepted by the kernel, not yet by accept()
    cur,          \* cfd's connection
    pending,      \* the reply handle_conn is writing
    conns,        \* conns[c]: connections client c has made
    waiting,      \* waiting[c]: client c waits on its last connection
    seen,         \* seen[c]: what client c got on its last connection
    sent          \* sent[c]: the last connection client c wrote its request on

svars == <<idx, keepRunning, spc, backlog, cur, pending, conns, waiting, seen,
           sent>>

(* The client of connection k still reads from it.                        *)
Live(k) == waiting[k.client] /\ conns[k.client] = k.n

(* The client of connection k has written its request line on it.        *)
Sent(k) == sent[k.client] >= k.n

(* The process ends: every client waiting on a queued or open connection  *)
(* sees a reset.                                                          *)
ResetAll ==
    /\ seen' = [c \in Clients |-> IF waiting[c] THEN Seen("reset") ELSE seen[c]]
    /\ waiting' = [c \in Clients |-> FALSE]

(* A mutant: a connection handle_conn returns from without a reply is not *)
(* closed.                                                                *)
ClosesOnlyReplies(k, out) ==
    IF Live(k) /\ out # Seen("eof")
      THEN /\ seen' = [seen EXCEPT ![k.client] = out]
           /\ waiting' = [waiting EXCEPT ![k.client] = FALSE]
      ELSE UNCHANGED <<seen, waiting>>

(* A mutant: main forgets close(cfd).                                     *)
NoClose(k, out) == UNCHANGED <<seen, waiting>>

(* close(cfd): a client still reading sees the reply, or EOF.            *)
Closes(k, out) ==
    IF Live(k)
      THEN /\ seen' = [seen EXCEPT ![k.client] = out]
           /\ waiting' = [waiting EXCEPT ![k.client] = FALSE]
      ELSE UNCHANGED <<seen, waiting>>

(* A mutant: fsm_next without the modulo.                                 *)
FsmNextUnwrapped(i) == i + 1

(* fsm_next: the index of the next state.                                 *)
FsmNext(i) == (i + 1) % NStates

(* handle_conn after sscanf parsed a method and a path.                   *)
Route(r) ==
    CASE r.path = "/state" ->
            IF r.method = "GET" THEN [status |-> "200", body |-> idx]
                                ELSE [status |-> "405", body |-> NoBody]
      [] r.path = "/next" ->
            IF r.method = "POST" THEN [status |-> "200", body |-> FsmNext(idx)]
                                 ELSE [status |-> "405", body |-> NoBody]
      [] OTHER -> [status |-> "400", body |-> NoBody]

Init ==
    /\ idx = 0 /\ keepRunning = TRUE /\ spc = "setup"
    /\ backlog = <<>> /\ cur = NoConn /\ pending = NoReply
    /\ conns = [c \in Clients |-> 0]
    /\ waiting = [c \in Clients |-> FALSE]
    /\ seen = [c \in Clients |-> Seen("pending")]
    /\ sent = [c \in Clients |-> 0]

(* socket, setsockopt, bind and listen: the server listens, or one of    *)
(* them fails (the port is taken) and main returns 1.                     *)
Setup ==
    /\ spc = "setup"
    /\ \/ spc' = "loop"
       \/ spc' = "exited"
    /\ UNCHANGED <<idx, keepRunning, backlog, cur, pending, conns, waiting, seen,
                   sent>>

(* handle_signal for SIGINT or SIGTERM.                                   *)
Signal ==
    /\ keepRunning /\ spc \notin {"exited", "killed"}
    /\ keepRunning' = FALSE
    /\ UNCHANGED <<idx, spc, backlog, cur, pending, conns, waiting, seen, sent>>

(* A client connects, with the request line it means to send; the kernel  *)
(* queues the connection while the listening socket is open and the queue *)
(* has room.                                                               *)
Connect(c) ==
    /\ ~waiting[c] /\ conns[c] < MaxConns
    /\ spc \notin {"setup", "exited", "killed"}
    /\ Len(backlog) < Backlog
    /\ \E r \in Requests :
         backlog' = Append(backlog, [client |-> c, n |-> conns[c] + 1, req |-> r])
    /\ conns' = [conns EXCEPT ![c] = @ + 1]
    /\ waiting' = [waiting EXCEPT ![c] = TRUE]
    /\ seen' = [seen EXCEPT ![c] = Seen("pending")]
    /\ UNCHANGED <<idx, keepRunning, spc, cur, pending, sent>>

(* A client writes its request line on its last connection, queued or    *)
(* accepted.                                                              *)
Send(c) ==
    /\ waiting[c] /\ sent[c] < conns[c]
    /\ sent' = [sent EXCEPT ![c] = conns[c]]
    /\ UNCHANGED <<idx, keepRunning, spc, backlog, cur, pending, conns, waiting,
                   seen>>

(* A client times out and closes its socket.                              *)
GiveUp(c) ==
    /\ waiting[c]
    /\ waiting' = [waiting EXCEPT ![c] = FALSE]
    /\ UNCHANGED <<idx, keepRunning, spc, backlog, cur, pending, conns, seen,
                   sent>>

(* A mutant: the loop does not test keep_running.                        *)
LoopCheckForever ==
    /\ spc = "loop"
    /\ spc' = "accept"
    /\ UNCHANGED <<idx, keepRunning, backlog, cur, pending, conns, waiting, seen,
                   sent>>

(* while (keep_running): go on to accept, or close(sfd) and return.       *)
LoopCheck ==
    /\ spc = "loop"
    /\ IF keepRunning
         THEN spc' = "accept" /\ UNCHANGED <<waiting, seen>>
         ELSE spc' = "exited" /\ ResetAll
    /\ UNCHANGED <<idx, keepRunning, backlog, cur, pending, conns, sent>>

(* accept() returns the first queued connection; with an empty queue it   *)
(* blocks, and a signal restarts it rather than making it fail.           *)
Accept ==
    /\ spc = "accept" /\ backlog # <<>>
    /\ cur' = Head(backlog) /\ backlog' = Tail(backlog)
    /\ spc' = "handle"
    /\ UNCHANGED <<idx, keepRunning, pending, conns, waiting, seen, sent>>

(* handle_conn up to its write.  read() has no timeout: it blocks until   *)
(* the client has written its request or closed its socket (a signal     *)
(* restarts it).  It then returns the request line, a prefix too short   *)
(* for sscanf's two fields (no reply), or one that cuts the path (400);  *)
(* a POST /next advances the state before replying.  A client that closed *)
(* without writing makes read() return 0: no reply.                       *)
Handle ==
    /\ spc = "handle"
    /\ Sent(cur) \/ ~Live(cur)
    /\ \/ /\ Sent(cur)
          /\ \/ /\ pending' = Route(cur.req)
                /\ idx' = IF cur.req.path = "/next" /\ cur.req.method = "POST"
                            THEN FsmNext(idx) ELSE idx
             \/ pending' = NoReply /\ UNCHANGED idx
             \/ pending' = [status |-> "400", body |-> NoBody] /\ UNCHANGED idx
       \/ ~Sent(cur) /\ pending' = NoReply /\ UNCHANGED idx
    /\ spc' = "reply"
    /\ UNCHANGED <<keepRunning, backlog, cur, conns, waiting, seen, sent>>

(* send_response / send_405 and close(cfd).  A live client reads the      *)
(* reply, or EOF when there is none; to a client that has gone, the       *)
(* second write may raise SIGPIPE and end the process.                    *)
Respond ==
    /\ spc = "reply"
    /\ \/ /\ Live(cur) \/ pending = NoReply
          /\ spc' = "loop"
          /\ Closes(cur, IF pending = NoReply THEN Seen("eof") ELSE pending)
       \/ /\ ~Live(cur) /\ pending # NoReply
          /\ \/ spc' = "loop" /\ UNCHANGED <<seen, waiting>>
             \/ spc' = "killed" /\ ResetAll
    /\ pending' = NoReply /\ cur' = NoConn
    /\ UNCHANGED <<idx, keepRunning, backlog, conns, sent>>

(* Nothing is left to happen: the process has ended, or it is blocked in  *)
(* accept() and every client has made its last connection.                *)
Quiet ==
    /\ \/ spc \in {"exited", "killed"}
       \/ /\ spc = "accept" /\ backlog = <<>>
          /\ \A c \in Clients : conns[c] = MaxConns
    /\ \A c \in Clients : ~waiting[c]
    /\ UNCHANGED svars

Next ==
    \/ Setup \/ Signal \/ LoopCheck \/ Accept \/ Handle \/ Respond \/ Quiet
    \/ \E c \in Clients : Connect(c) \/ Send(c) \/ GiveUp(c)

(* The server process runs whenever it can: each of its steps, once       *)
(* enabled, stays enabled until taken (read() can return once the request *)
(* is written or the socket closed, and neither is undone).  Clients need  *)
(* not act: a client may connect and never write.                          *)
Fairness ==
    WF_svars(Setup) /\ WF_svars(LoopCheck) /\ WF_svars(Accept)
    /\ WF_svars(Handle) /\ WF_svars(Respond)

ServerSpec == Init /\ [][Next]_svars /\ Fairness

-----------------------------------------------------------------------------
(* Properties.                                                            *)

ServerTypeOK ==
    /\ idx \in 0..(NStates - 1) /\ keepRunning \in BOOLEAN
    /\ spc \in {"setup", "loop", "accept", "handle", "reply", "exited", "killed"}
    /\ backlog \in Seq(Conn) /\ Len(backlog) <= Backlog
    /\ cur \in Conn \cup {NoConn} /\ pending \in Reply
    /\ conns \in [Clients -> 0..MaxConns]
    /\ waiting \in [Clients -> BOOLEAN] /\ seen \in [Clients -> Outcome]
    /\ sent \in [Clients -> 0..MaxConns]

(* The connection of client c the server still holds: queued in the     *)
(* listen backlog, or the cfd main is serving.                            *)
Held(c) ==
    \/ \E i \in 1..Len(backlog) : backlog[i].client = c /\ backlog[i].n = conns[c]
    \/ spc \in {"handle", "reply"} /\ cur.client = c /\ cur.n = conns[c]

(* No client is left waiting on a connection the server has let go of:    *)
(* whatever the interleaving of connects, give-ups, short reads, signals  *)
(* and SIGPIPE, every accepted cfd is closed and every queued connection  *)
(* is accepted or reset, so a waiting client's last connection is still  *)
(* queued or being served.                                                *)
WaitingHeld == \A c \in Clients : waiting[c] => Held(c)

(* The hypothesis of the liveness properties: a client that has connected *)
(* and still waits writes its request eventually.  The code needs it:     *)
(* read() in handle_conn has no timeout, so a client that connects and    *)
(* never writes nor closes holds the server in read() forever, and every  *)
(* client queued behind it waits with it.                                 *)
ClientsSend == \A c \in Clients : WF_svars(Send(c))

(* Every request a client waits on is settled, provided connected clients *)
(* write their requests (ClientsSend): the client reads a reply, EOF (a   *)
(* request line read() cut short), or a reset when the process exits or   *)
(* dies of SIGPIPE -- however the clients interleave and whenever the     *)
(* signal comes.  It rests on main closing every accepted cfd and on the  *)
(* kernel resetting the backlog when the process ends.                    *)
RequestsSettled ==
    ClientsSend => \A c \in Clients : waiting[c] ~> ~waiting[c]

(* After SIGINT or SIGTERM the server ends, provided connected clients    *)
(* write their requests (ClientsSend), unless it is blocked in accept()   *)
(* on an empty queue: handle_signal only clears keep_running, and the     *)
(* restarted accept() waits for one more connection before the loop tests *)
(* it again.                                                              *)
ShutdownUnlessBlocked ==
    ClientsSend =>
        ((~keepRunning /\ ~(spc = "accept" /\ backlog = <<>>))
            ~> spc \in {"exited", "killed"})

=============================================================================
