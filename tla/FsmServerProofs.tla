--------------------------- MODULE FsmServerProofs ---------------------------
(***************************************************************************)
(* Proofs about the test server of src/tests/simple_fsm/main.c (module     *)
(* FsmServer) for every number of clients, connections and backlog size.  *)
(***************************************************************************)
EXTENDS FsmServer, SequenceTheorems, TLAPS

(* The inductive invariant: the state is well typed, every waiting        *)
(* client's connection is held, nothing is queued before listen(), and    *)
(* the only reply without a status is the empty one.                      *)
SInv ==
    /\ ServerTypeOK
    /\ WaitingHeld
    /\ spc = "setup" => backlog = <<>>
    /\ pending.status = "none" => pending = NoReply
    /\ spc \in {"handle", "reply"} => cur \in Conn

(* fsm_next stays within the five states.                                 *)
LEMMA FsmNextType ==
    ASSUME NEW i \in 0..(NStates - 1)
    PROVE  FsmNext(i) \in 0..(NStates - 1)
BY DEF FsmNext, NStates

(* handle_conn's routing yields a reply with a status.                    *)
LEMMA RouteType ==
    ASSUME idx \in 0..(NStates - 1), NEW r
    PROVE  Route(r) \in Reply /\ Route(r).status # "none"
<1>1. FsmNext(idx) \in 0..(NStates - 1)
  BY FsmNextType
<1>2. Route(r) \in {[status |-> "200", body |-> idx],
                    [status |-> "200", body |-> FsmNext(idx)],
                    [status |-> "405", body |-> NoBody],
                    [status |-> "400", body |-> NoBody]}
  BY Zenon DEF Route
<1>. QED  BY <1>1, <1>2 DEF Reply, NoBody, NStates

LEMMA InitSInv ==
    ASSUME ServerAssumption
    PROVE  Init => SInv
BY DEF Init, SInv, ServerTypeOK, WaitingHeld, Reply, NoReply, NoBody, NStates,
       Outcome, Seen

-----------------------------------------------------------------------------
(* One lemma per action of Next.                                          *)

LEMMA SetupSInv ==
    ASSUME SInv, Setup PROVE SInv'
BY DEF SInv, Setup, ServerTypeOK, WaitingHeld, Held

LEMMA SignalSInv ==
    ASSUME SInv, Signal PROVE SInv'
BY DEF SInv, Signal, ServerTypeOK, WaitingHeld, Held

LEMMA SendSInv ==
    ASSUME SInv, NEW c \in Clients, Send(c) PROVE SInv'
BY DEF SInv, Send, ServerTypeOK, WaitingHeld, Held

LEMMA GiveUpSInv ==
    ASSUME SInv, NEW c \in Clients, GiveUp(c) PROVE SInv'
BY DEF SInv, GiveUp, ServerTypeOK, WaitingHeld, Held

LEMMA QuietSInv ==
    ASSUME SInv, Quiet \/ UNCHANGED svars PROVE SInv'
BY DEF SInv, Quiet, svars, ServerTypeOK, WaitingHeld, Held

LEMMA HandleSInv ==
    ASSUME SInv, Handle PROVE SInv'
<1>1. cur.req \in Requests /\ idx \in 0..(NStates - 1)
  BY DEF SInv, ServerTypeOK, Handle, Conn
<1>2. /\ pending' \in Reply
      /\ pending'.status = "none" => pending' = NoReply
      /\ idx' \in 0..(NStates - 1)
  <2>1. Route(cur.req) \in Reply /\ Route(cur.req).status # "none"
    BY <1>1, RouteType
  <2>2. FsmNext(idx) \in 0..(NStates - 1)
    BY <1>1, FsmNextType
  <2>3. NoReply \in Reply /\ [status |-> "400", body |-> NoBody] \in Reply
    BY DEF NoReply, Reply, NoBody, NStates
  <2> QED
    BY <1>1, <2>1, <2>2, <2>3 DEF Handle
<1>3. ServerTypeOK'
  BY <1>2 DEF SInv, Handle, ServerTypeOK
<1>4. WaitingHeld'
  BY DEF SInv, Handle, WaitingHeld, Held
<1>. QED  BY <1>2, <1>3, <1>4 DEF SInv, Handle

(* A client connects: its new connection joins the end of the queue.      *)
LEMMA ConnectSInv ==
    ASSUME ServerAssumption, SInv, NEW c \in Clients, Connect(c) PROVE SInv'
<1>1. PICK r \in Requests :
        backlog' = Append(backlog, [client |-> c, n |-> conns[c] + 1, req |-> r])
  BY DEF Connect
<1>. DEFINE k == [client |-> c, n |-> conns[c] + 1, req |-> r]
<1>2. k \in Conn /\ backlog \in Seq(Conn)
  BY DEF Connect, SInv, ServerTypeOK, Conn
<1>3. ServerTypeOK'
  BY <1>1, <1>2 DEF Connect, SInv, ServerTypeOK, Outcome, Seen, NoBody, NStates
<1>4. ASSUME NEW d \in Clients, waiting'[d] PROVE Held(d)'
  <2>1. CASE d = c
    <3>1. backlog'[Len(backlog')] = k /\ Len(backlog') \in 1..Len(backlog')
      BY <1>1, <1>2
    <3>2. conns'[c] = conns[c] + 1
      BY DEF Connect, SInv, ServerTypeOK
    <3>3. \E i \in 1..Len(backlog') : backlog'[i].client = d /\ backlog'[i].n = conns'[d]
      BY <2>1, <3>1, <3>2
    <3>. QED  BY <3>3 DEF Held
  <2>2. CASE d # c
    <3>1. waiting[d] /\ conns'[d] = conns[d]
      BY <1>4, <2>2 DEF Connect, SInv, ServerTypeOK
    <3>2. Held(d)
      BY <3>1 DEF SInv, WaitingHeld
    <3>3. \A i \in 1..Len(backlog) : backlog'[i] = backlog[i]
      BY <1>1, <1>2
    <3>. QED  BY <1>1, <1>2, <3>1, <3>2, <3>3 DEF Connect, Held
  <2>. QED  BY <2>1, <2>2
<1>. QED  BY <1>3, <1>4 DEF SInv, WaitingHeld, Connect

(* The process ends: nobody is left waiting, and the ones who were see a *)
(* reset.                                                                  *)
LEMMA ResetAllType ==
    ASSUME ServerTypeOK, ResetAll
    PROVE  /\ seen' \in [Clients -> Outcome] /\ waiting' \in [Clients -> BOOLEAN]
           /\ \A c \in Clients : ~waiting'[c]
BY DEF ResetAll, ServerTypeOK, Outcome, Seen, NoBody, NStates

(* while (keep_running): the loop goes on to accept(), or returns.        *)
LEMMA LoopCheckSInv ==
    ASSUME SInv, LoopCheck PROVE SInv'
<1>1. CASE keepRunning
  <2>1. spc' = "accept" /\ UNCHANGED <<waiting, seen>>
    BY <1>1 DEF LoopCheck
  <2>. QED  BY <2>1 DEF SInv, LoopCheck, ServerTypeOK, WaitingHeld, Held
<1>2. CASE ~keepRunning
  <2>1. spc' = "exited" /\ ResetAll
    BY <1>2 DEF LoopCheck
  <2>2. /\ seen' \in [Clients -> Outcome] /\ waiting' \in [Clients -> BOOLEAN]
        /\ \A c \in Clients : ~waiting'[c]
    BY <2>1, ResetAllType DEF SInv
  <2>. QED  BY <2>1, <2>2 DEF SInv, LoopCheck, ServerTypeOK, WaitingHeld
<1>. QED  BY <1>1, <1>2

(* accept() takes the first queued connection: it is now the one served,  *)
(* and every other queued one moves up by one.                            *)
LEMMA AcceptSInv ==
    ASSUME ServerAssumption, SInv, Accept PROVE SInv'
<1>1. backlog \in Seq(Conn) /\ backlog # <<>> /\ spc = "accept"
  BY DEF SInv, ServerTypeOK, Accept
<1>2. cur' = backlog[1] /\ backlog' = Tail(backlog) /\ cur' \in Conn
      /\ backlog' \in Seq(Conn) /\ Len(backlog') = Len(backlog) - 1
      /\ \A i \in 1..Len(backlog') : backlog'[i] = backlog[i + 1]
  BY <1>1, HeadTailProperties DEF Accept
<1>3. ServerTypeOK'
  <2>1. backlog' \in Seq(Conn) /\ Len(backlog') <= Backlog
    BY <1>1, <1>2, ServerAssumption DEF SInv, ServerTypeOK
  <2>. QED  BY <1>2, <2>1 DEF SInv, ServerTypeOK, Accept
<1>4. ASSUME NEW c \in Clients, waiting'[c] PROVE Held(c)'
  <2>1. PICK i \in 1..Len(backlog) : backlog[i].client = c /\ backlog[i].n = conns[c]
    BY <1>1, <1>4 DEF SInv, WaitingHeld, Held, Accept
  <2>2. CASE i = 1
    BY <1>2, <2>1, <2>2 DEF Accept, Held
  <2>3. CASE i # 1
    <3>1. i - 1 \in 1..Len(backlog') /\ backlog'[i - 1] = backlog[i]
      BY <1>2, <2>3
    <3>. QED  BY <2>1, <3>1 DEF Accept, Held
  <2>. QED  BY <2>2, <2>3
<1>. QED  BY <1>2, <1>3, <1>4 DEF SInv, WaitingHeld, Accept

(* send_response and close(cfd): the client served, if still reading,     *)
(* stops waiting; any other waiting client's connection is still queued.  *)
LEMMA RespondSInv ==
    ASSUME SInv, Respond PROVE SInv'
<1>. DEFINE out == IF pending = NoReply THEN Seen("eof") ELSE pending
<1>1. /\ cur \in Conn /\ pending \in Reply
      /\ pending.status = "none" => pending = NoReply
      /\ spc' \in {"loop", "killed"} /\ pending' = NoReply /\ cur' = NoConn
      /\ UNCHANGED <<backlog, conns>>
  BY DEF SInv, ServerTypeOK, Respond
<1>2. out \in Outcome
  BY <1>1 DEF Reply, Outcome, Seen, NoReply, NoBody, NStates
<1>3. ASSUME NEW c \in Clients, waiting[c], ~(cur.client = c /\ cur.n = conns[c])
      PROVE  Held(c)'
  BY <1>1, <1>3 DEF SInv, WaitingHeld, Held
<1>4. CASE /\ Live(cur) \/ pending = NoReply
           /\ spc' = "loop"
           /\ Closes(cur, out)
  <2>1. CASE Live(cur)
    <3>1. seen' = [seen EXCEPT ![cur.client] = out]
          /\ waiting' = [waiting EXCEPT ![cur.client] = FALSE]
      BY <1>4, <2>1 DEF Closes
    <3>2. ServerTypeOK'
      BY <1>1, <1>2, <3>1 DEF SInv, ServerTypeOK, Respond, Conn, NoConn, Reply,
                              NoReply, NoBody, NStates
    <3>3. WaitingHeld'
      BY <1>1, <1>3, <3>1 DEF SInv, ServerTypeOK, WaitingHeld, Conn
    <3>. QED  BY <1>1, <1>4, <3>2, <3>3 DEF SInv, NoReply
  <2>2. CASE ~Live(cur)
    <3>1. UNCHANGED <<seen, waiting>>
      BY <1>4, <2>2 DEF Closes
    <3>2. ServerTypeOK'
      BY <1>1, <3>1 DEF SInv, ServerTypeOK, Respond, Conn, NoConn, Reply,
                        NoReply, NoBody, NStates
    <3>3. WaitingHeld'
      BY <1>1, <1>3, <2>2, <3>1 DEF SInv, ServerTypeOK, WaitingHeld, Live
    <3>. QED  BY <1>1, <1>4, <3>2, <3>3 DEF SInv, NoReply
  <2>. QED  BY <2>1, <2>2
<1>5. CASE /\ ~Live(cur) /\ pending # NoReply
           /\ \/ spc' = "loop" /\ UNCHANGED <<seen, waiting>>
              \/ spc' = "killed" /\ ResetAll
  <2>1. CASE spc' = "loop" /\ UNCHANGED <<seen, waiting>>
    <3>2. ServerTypeOK'
      BY <1>1, <2>1 DEF SInv, ServerTypeOK, Respond, Conn, NoConn, Reply,
                        NoReply, NoBody, NStates
    <3>3. WaitingHeld'
      BY <1>1, <1>3, <1>5, <2>1 DEF SInv, ServerTypeOK, WaitingHeld, Live
    <3>. QED  BY <1>1, <2>1, <3>2, <3>3 DEF SInv, NoReply
  <2>2. CASE spc' = "killed" /\ ResetAll
    <3>1. /\ seen' \in [Clients -> Outcome] /\ waiting' \in [Clients -> BOOLEAN]
          /\ \A c \in Clients : ~waiting'[c]
      BY <2>2, ResetAllType DEF SInv
    <3>2. ServerTypeOK'
      BY <1>1, <3>1 DEF SInv, ServerTypeOK, Respond, Conn, NoConn, Reply,
                        NoReply, NoBody, NStates
    <3>. QED  BY <1>1, <2>2, <3>1, <3>2 DEF SInv, WaitingHeld, NoReply
  <2>. QED  BY <1>5, <2>1, <2>2
<1>. QED  BY <1>4, <1>5 DEF Respond

(* SInv is inductive.                                                      *)
LEMMA NextSInv ==
    ASSUME ServerAssumption, SInv, [Next]_svars
    PROVE  SInv'
<1>1. CASE \E c \in Clients : Connect(c) \/ Send(c) \/ GiveUp(c)
  BY <1>1, ConnectSInv, SendSInv, GiveUpSInv
<1>. QED  BY <1>1, SetupSInv, SignalSInv, LoopCheckSInv, AcceptSInv,
             HandleSInv, RespondSInv, QuietSInv DEF Next

(* The test server's state is well typed for every number of clients,     *)
(* connections and backlog size: fsm_next keeps the index within the five *)
(* states, and every reply written is one handle_conn can produce.        *)
THEOREM ServerTypeCorrect == ServerSpec => []ServerTypeOK
<1>1. Init => SInv
  BY InitSInv, ServerAssumption
<1>2. SInv /\ [Next]_svars => SInv'
  BY NextSInv, ServerAssumption
<1>3. SInv => ServerTypeOK
  BY DEF SInv
<1>. QED  BY <1>1, <1>2, <1>3, PTL DEF ServerSpec

(* main never lets go of a connection whose client still waits: accept()  *)
(* takes queued connections in order, every served cfd is closed, and the *)
(* end of the process resets the rest -- whatever the clients, the signal *)
(* and SIGPIPE do.                                                        *)
THEOREM ServerWaitingHeld == ServerSpec => []WaitingHeld
<1>1. Init => SInv
  BY InitSInv, ServerAssumption
<1>2. SInv /\ [Next]_svars => SInv'
  BY NextSInv, ServerAssumption
<1>3. SInv => WaitingHeld
  BY DEF SInv
<1>. QED  BY <1>1, <1>2, <1>3, PTL DEF ServerSpec

=============================================================================
