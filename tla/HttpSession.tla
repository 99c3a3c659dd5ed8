----------------------------- MODULE HttpSession -----------------------------
(***************************************************************************)
(* The life of an HTTP session: the listener accepts a connection, reads   *)
(* the request without blocking, hands the session to a worker through the *)
(* global request queue; the worker answers from inside its sandbox.  Who- *)
(* ever meets a full or an empty socket (EAGAIN) parks the session in      *)
(* epoll, and the listener resumes it.  There is no lock: the session      *)
(* belongs to whoever holds its pointer.                                   *)
(*                                                                         *)
(* Session is a set of heap addresses, reused once freed.  cur[t] is the   *)
(* session thread t works on and pc[t] where it is in the handlers, which  *)
(* are the same functions on the listener and on a worker.  What a         *)
(* response says is left out: it is header[s] + body[s] bytes, numbered in *)
(* order, and got[s] is what the client has received.                      *)
(***************************************************************************)
EXTENDS Integers, Sequences, FiniteSets

CONSTANTS
    Session,        \* addresses of struct http_session
    Worker,         \* worker threads
    Listener,       \* the listener thread
    Tenant,         \* the tenant's listening socket, as an epoll entry
    HeaderLength,   \* length of a response header
    MaxBody,        \* bound: longest response body
    QueueCapacity,  \* capacity of the global request queue
    MemoryMayFail,  \* calloc and open_memstream may fail in http_session_alloc
    NULL

ASSUME SessionNames == /\ NULL \notin Session /\ Tenant \notin Session
                       /\ Listener \notin Worker
ASSUME SessionBounds == HeaderLength \in Nat \ {0} /\ MaxBody \in Nat /\ QueueCapacity \in Nat

VARIABLES
    state,          \* http_session.state ("UNINITIALIZED": the address is free)
    epoll,          \* the event the session is registered for, or "none"
    header, header_written,     \* response_header.size, response_header_written
    body, body_written,         \* response_body.size, response_body_written
    got,            \* the bytes the client received
    broken,         \* the connection failed (recv or send returned an error)
    queue,          \* sessions whose sandbox is in the global request queue
    pc, cur,        \* per thread
    batch,          \* events returned by epoll_wait and not handled yet
    accepting,      \* the listener is in the accept loop of the tenant's event
    fatal           \* "none", or why the process died

data == <<header, header_written, body, body_written, got, broken>>
vars == <<state, epoll, data, queue, pc, cur, batch, accepting, fatal>>

Thread == Worker \cup {Listener}

Blocked == {"RECEIVE_REQUEST_BLOCKED", "SEND_RESPONSE_HEADER_BLOCKED", "SEND_RESPONSE_BODY_BLOCKED"}

\* INITIALIZED, EXECUTION_COMPLETE and SENT_RESPONSE_HEADER are left in the step that enters them.
HttpState ==
    Blocked \cup {"UNINITIALIZED", "RECEIVING_REQUEST", "RECEIVED_REQUEST", "EXECUTING",
                  "SENDING_RESPONSE_HEADER", "SENDING_RESPONSE_BODY", "SENT_RESPONSE_BODY"}

PC == {"loop", "accept", "recv", "received", "header", "body", "register", "epoll_ctl", "close", "free",
       "idle", "execute"}

\* Bytes i, i+1, ... , i+n-1.
Bytes(i, n) == [k \in 1..n |-> i + k - 1]

-----------------------------------------------------------------------------
Init ==
    /\ state = [s \in Session |-> "UNINITIALIZED"]
    /\ epoll = [s \in Session |-> "none"]
    /\ header = [s \in Session |-> 0] /\ header_written = [s \in Session |-> 0]
    /\ body = [s \in Session |-> 0] /\ body_written = [s \in Session |-> 0]
    /\ got = [s \in Session |-> <<>>] /\ broken = [s \in Session |-> FALSE]
    /\ queue = {}
    /\ pc = [t \in Thread |-> IF t = Listener THEN "loop" ELSE "idle"]
    /\ cur = [t \in Thread |-> NULL]
    /\ batch = {} /\ accepting = FALSE /\ fatal = "none"

\* The thread is done with its session and returns to its loop.
Return(t) ==
    /\ cur' = [cur EXCEPT ![t] = NULL]
    /\ pc' = [pc EXCEPT ![t] = CASE t \in Worker                -> "idle"
                                 [] t = Listener /\ accepting -> "accept"
                                 [] OTHER                     -> "loop"]

Goto(t, l) == pc' = [pc EXCEPT ![t] = l] /\ UNCHANGED cur

\* Mutant: a header is appended to one that was already built.
RewritesHeader(s, b) ==
    /\ header' = [header EXCEPT ![s] = @ + 2 * HeaderLength]
    /\ body' = [body EXCEPT ![s] = b]
    /\ UNCHANGED <<header_written, body_written, got, broken>>

\* http_session_set_response_header appends to the header; only a 200 flushes the body.
SetResponseHeader(s, b) ==
    /\ header' = [header EXCEPT ![s] = @ + HeaderLength]
    /\ body' = [body EXCEPT ![s] = b]
    /\ UNCHANGED <<header_written, body_written, got, broken>>

\* state = EXECUTION_COMPLETE, header built, http_session_send_response_header entered.
Respond(t, s, b) ==
    /\ SetResponseHeader(s, b)
    /\ state' = [state EXCEPT ![s] = "SENDING_RESPONSE_HEADER"]
    /\ Goto(t, "header")

-----------------------------------------------------------------------------
(* Parking a session in epoll, on whichever thread met EAGAIN.             *)

BlockedState(st) == CASE st = "RECEIVING_REQUEST"       -> "RECEIVE_REQUEST_BLOCKED"
                      [] st = "SENDING_RESPONSE_HEADER" -> "SEND_RESPONSE_HEADER_BLOCKED"
                      [] st = "SENDING_RESPONSE_BODY"   -> "SEND_RESPONSE_BODY_BLOCKED"

Interest(st) == IF st \in {"RECEIVING_REQUEST", "RECEIVE_REQUEST_BLOCKED"} THEN "IN" ELSE "OUT"

\* Mutant: the session is added to epoll first and marked as blocked afterwards.
AddsBeforeMarking(t) ==
    LET s == cur[t] IN
    \/ /\ pc[t] = "register"
       /\ epoll' = [epoll EXCEPT ![s] = Interest(state[s])]
       /\ Goto(t, "epoll_ctl") /\ UNCHANGED state
    \/ /\ pc[t] = "epoll_ctl"
       /\ state' = [state EXCEPT ![s] = IF @ \in Blocked THEN @ ELSE BlockedState(@)]
       /\ Return(t) /\ UNCHANGED epoll

\* Mutant: a session that would block is marked but not added to epoll.
NeverAdds(t) ==
    LET s == cur[t] IN
    /\ pc[t] = "register"
    /\ state' = [state EXCEPT ![s] = BlockedState(@)]
    /\ Return(t) /\ UNCHANGED epoll

\* The state is stored, then epoll_ctl publishes the session to the listener.
listener_thread_register_http_session(t) ==
    LET s == cur[t] IN
    \/ /\ pc[t] = "register"
       /\ state' = [state EXCEPT ![s] = BlockedState(@)]
       /\ Goto(t, "epoll_ctl") /\ UNCHANGED epoll
    \/ /\ pc[t] = "epoll_ctl"
       /\ epoll' = [epoll EXCEPT ![s] = Interest(state[s])]
       /\ Return(t) /\ UNCHANGED state

Register(t) ==
    /\ listener_thread_register_http_session(t)
    /\ UNCHANGED <<data, queue, batch, accepting, fatal>>

-----------------------------------------------------------------------------
(* Sending the response: each write(2) is a step.                          *)

\* What a successful write of n bytes of the header does.
header_progress(s, n) ==
    /\ header_written' = [header_written EXCEPT ![s] = @ + n]
    /\ got' = [got EXCEPT ![s] = @ \o Bytes(header_written[s] + 1, n)]
    /\ UNCHANGED <<header, body, body_written, broken>>

\* Mutant: every write sends from the start of the body.
StartsOver(s, n) ==
    /\ body_written' = [body_written EXCEPT ![s] = @ + n]
    /\ got' = [got EXCEPT ![s] = @ \o Bytes(header[s] + 1, n)]
    /\ UNCHANGED <<header, header_written, body, broken>>

body_progress(s, n) ==
    /\ body_written' = [body_written EXCEPT ![s] = @ + n]
    /\ got' = [got EXCEPT ![s] = @ \o Bytes(header[s] + body_written[s] + 1, n)]
    /\ UNCHANGED <<header, header_written, body, broken>>

Break(s) ==
    /\ broken' = [broken EXCEPT ![s] = TRUE]
    /\ UNCHANGED <<header, header_written, body, body_written, got>>

\* tcp_session_send of n bytes succeeds.
SendHeader(t) ==
    LET s == cur[t] IN
    /\ pc[t] = "header"
    /\ \E n \in 1..(header[s] - header_written[s]) : header_progress(s, n)
    /\ UNCHANGED <<state, epoll, queue, pc, cur, batch, accepting, fatal>>

SendBody(t) ==
    LET s == cur[t] IN
    /\ pc[t] = "body"
    /\ \E n \in 1..(body[s] - body_written[s]) : body_progress(s, n)
    /\ UNCHANGED <<state, epoll, queue, pc, cur, batch, accepting, fatal>>

\* EAGAIN runs the callback, any other error closes the session.
SendFails(t) ==
    LET s == cur[t] IN
    /\ \/ pc[t] = "header" /\ header[s] > header_written[s]
       \/ pc[t] = "body" /\ body[s] > body_written[s]
    /\ \/ Goto(t, "register") /\ UNCHANGED data
       \/ Goto(t, "close") /\ Break(s)
    /\ UNCHANGED <<state, epoll, queue, batch, accepting, fatal>>

HeaderSent(t) ==
    LET s == cur[t] IN
    /\ pc[t] = "header" /\ header[s] <= header_written[s]
    /\ state' = [state EXCEPT ![s] = "SENDING_RESPONSE_BODY"]
    /\ Goto(t, "body")
    /\ UNCHANGED <<epoll, data, queue, batch, accepting, fatal>>

BodySent(t) ==
    LET s == cur[t] IN
    /\ pc[t] = "body" /\ body_written[s] >= body[s]
    /\ state' = [state EXCEPT ![s] = "SENT_RESPONSE_BODY"]
    /\ Goto(t, "close")
    /\ UNCHANGED <<epoll, data, queue, batch, accepting, fatal>>

Close(t) ==
    /\ pc[t] = "close"
    /\ Goto(t, "free")
    /\ UNCHANGED <<state, epoll, data, queue, batch, accepting, fatal>>

\* http_session_free: the address may be allocated again.
Free(t) ==
    LET s == cur[t] IN
    /\ pc[t] = "free"
    /\ state' = [state EXCEPT ![s] = "UNINITIALIZED"]
    /\ header' = [header EXCEPT ![s] = 0] /\ header_written' = [header_written EXCEPT ![s] = 0]
    /\ body' = [body EXCEPT ![s] = 0] /\ body_written' = [body_written EXCEPT ![s] = 0]
    /\ got' = [got EXCEPT ![s] = <<>>] /\ broken' = [broken EXCEPT ![s] = FALSE]
    /\ Return(t)
    /\ UNCHANGED <<epoll, queue, batch, accepting, fatal>>

Send(t) == SendHeader(t) \/ SendBody(t) \/ SendFails(t) \/ HeaderSent(t) \/ BodySent(t)

-----------------------------------------------------------------------------
(* The listener.                                                           *)

Registered == {s \in Session : epoll[s] # "none"}

\* epoll_wait returns some of the ready descriptors; which ones are ready is up to the clients.
EpollWait ==
    /\ pc[Listener] = "loop" /\ batch = {}
    /\ batch' \in SUBSET (Registered \cup {Tenant}) \ {{}}
    /\ UNCHANGED <<state, epoll, data, queue, pc, cur, accepting, fatal>>

\* Mutant: the event is handled while the session stays registered.
LeavesRegistered(s) == UNCHANGED epoll

listener_thread_unregister_http_session(s) == epoll' = [epoll EXCEPT ![s] = "none"]

\* The switch of on_client_socket_epoll_event: a session that is not blocked panics.
Resume(s) == CASE state[s] = "RECEIVE_REQUEST_BLOCKED"      -> <<"RECEIVING_REQUEST", "recv">>
               [] state[s] = "SEND_RESPONSE_HEADER_BLOCKED" -> <<"SENDING_RESPONSE_HEADER", "header">>
               [] state[s] = "SEND_RESPONSE_BODY_BLOCKED"   -> <<"SENDING_RESPONSE_BODY", "body">>

on_client_socket_epoll_event(s) ==
    /\ pc[Listener] = "loop" /\ s \in batch
    /\ batch' = batch \ {s}
    /\ listener_thread_unregister_http_session(s)
    /\ IF state[s] \in Blocked
       THEN /\ state' = [state EXCEPT ![s] = Resume(s)[1]]
            /\ pc' = [pc EXCEPT ![Listener] = Resume(s)[2]]
            /\ cur' = [cur EXCEPT ![Listener] = s]
            /\ UNCHANGED fatal
       ELSE fatal' = "invalid_state" /\ UNCHANGED <<state, pc, cur>>
    /\ UNCHANGED <<data, queue, accepting>>

on_tenant_socket_epoll_event ==
    /\ pc[Listener] = "loop" /\ Tenant \in batch
    /\ batch' = batch \ {Tenant} /\ accepting' = TRUE
    /\ Goto(Listener, "accept")
    /\ UNCHANGED <<state, epoll, data, queue, fatal>>

\* accept4 returns EAGAIN.
AcceptDone ==
    /\ pc[Listener] = "accept"
    /\ accepting' = FALSE
    /\ Goto(Listener, "loop")
    /\ UNCHANGED <<state, epoll, data, queue, batch, fatal>>

\* A client is accepted and its session allocated.  When calloc fails the error path
\* dereferences the null session; when open_memstream fails auto_buf_init returns a
\* positive errno, http_session_init takes it for success, and the first assertion of
\* http_session_receive_request aborts.
on_client_request_arrival ==
    /\ pc[Listener] = "accept"
    /\ \/ \E s \in Session :
            /\ state[s] = "UNINITIALIZED"
            /\ state' = [state EXCEPT ![s] = "RECEIVING_REQUEST"]
            /\ cur' = [cur EXCEPT ![Listener] = s]
            /\ pc' = [pc EXCEPT ![Listener] = "recv"]
            /\ UNCHANGED fatal
       \/ /\ MemoryMayFail
          /\ fatal' \in {"null_session", "no_request_buffer"}
          /\ UNCHANGED <<state, cur, pc>>
    /\ UNCHANGED <<epoll, data, queue, batch, accepting>>

\* The loop of http_session_receive_request, reads that leave the request incomplete apart: complete,
\* EAGAIN, or EOF / error / malformed, which is answered with a 400.
on_client_request_receiving ==
    LET s == cur[Listener] IN
    /\ pc[Listener] = "recv"
    /\ \/ state' = [state EXCEPT ![s] = "RECEIVED_REQUEST"] /\ Goto(Listener, "received") /\ UNCHANGED data
       \/ UNCHANGED <<state, data>> /\ Goto(Listener, "register")
       \/ Respond(Listener, s, 0)
    /\ UNCHANGED <<epoll, queue, batch, accepting, fatal>>

\* No route (404), rejected by admissions control (429) or no sandbox (500): the listener answers.
\* Otherwise the sandbox is queued, and from then on the session belongs to a worker.  With the queue
\* full, sandbox_free asserts a state the sandbox is not in.
on_client_request_received ==
    LET s == cur[Listener] IN
    /\ pc[Listener] = "received"
    /\ \/ Respond(Listener, s, 0) /\ UNCHANGED <<queue, fatal>>
       \/ /\ state' = [state EXCEPT ![s] = "EXECUTING"]
          /\ IF Cardinality(queue) < QueueCapacity
             THEN queue' = queue \cup {s} /\ Return(Listener) /\ UNCHANGED fatal
             ELSE fatal' = "sandbox_free" /\ UNCHANGED <<queue, pc, cur>>
          /\ UNCHANGED data
    /\ UNCHANGED <<epoll, batch, accepting>>

-----------------------------------------------------------------------------
(* The workers.                                                            *)

Dequeue(w, s) ==
    /\ pc[w] = "idle" /\ s \in queue
    /\ queue' = queue \ {s}
    /\ cur' = [cur EXCEPT ![w] = s]
    /\ pc' = [pc EXCEPT ![w] = "execute"]
    /\ UNCHANGED <<state, epoll, data, batch, accepting, fatal>>

\* sandbox_set_as_returned (200 and the body the module wrote) or sandbox_set_as_error (500).
Finish(w) ==
    LET s == cur[w] IN
    /\ pc[w] = "execute"
    /\ \E b \in {0, MaxBody} : Respond(w, s, b)
    /\ UNCHANGED <<epoll, queue, batch, accepting, fatal>>

ListenerStep ==
    \/ EpollWait
    \/ \E s \in Session : on_client_socket_epoll_event(s)
    \/ on_tenant_socket_epoll_event
    \/ AcceptDone
    \/ on_client_request_arrival
    \/ on_client_request_receiving
    \/ on_client_request_received

WorkerStep(w) == Finish(w) \/ \E s \in Session : Dequeue(w, s)

SessionStep(t) == Register(t) \/ Send(t) \/ Close(t) \/ Free(t)

Next ==
    /\ fatal = "none"
    /\ \/ ListenerStep
       \/ \E w \in Worker : WorkerStep(w)
       \/ \E t \in Thread : SessionStep(t)

Spec == Init /\ [][Next]_vars

\* The threads run, modules return, and clients do not stall for ever: a client keeps sending its
\* request and reading its response.  The runtime has no timeout of its own.  The accept loop
\* ends only when the backlog is empty, so the backlog is assumed to run empty again and again.
\* A queued sandbox is dequeued eventually, because absolute deadlines grow with time.
Fairness ==
    /\ SF_vars(fatal = "none" /\ AcceptDone)
    /\ WF_vars(fatal = "none" /\ on_client_request_received)
    /\ WF_vars(fatal = "none" /\ on_tenant_socket_epoll_event)
    /\ \A s \in Session :
         /\ WF_vars(fatal = "none" /\ on_client_socket_epoll_event(s))
         /\ SF_vars(fatal = "none" /\ EpollWait /\ s \in batch')
         /\ SF_vars(fatal = "none" /\ cur[Listener] = s /\ on_client_request_receiving
                                  /\ pc'[Listener] # "register")
         /\ SF_vars(fatal = "none" /\ \E w \in Worker : Dequeue(w, s))
         /\ SF_vars(fatal = "none" /\ \E t \in Thread : cur[t] = s /\ (SendHeader(t) \/ SendBody(t)))
    /\ \A w \in Worker : WF_vars(fatal = "none" /\ Finish(w))
    /\ \A t \in Thread :
         WF_vars(fatal = "none" /\ (Register(t) \/ HeaderSent(t) \/ BodySent(t) \/ Close(t) \/ Free(t)))

FairSpec == Spec /\ Fairness

-----------------------------------------------------------------------------
\* The variables have their types, and no more is sent than there is to send.
TypeOK ==
    /\ state \in [Session -> HttpState]
    /\ epoll \in [Session -> {"none", "IN", "OUT"}]
    /\ header \in [Session -> {0, HeaderLength}] /\ body \in [Session -> 0..MaxBody]
    /\ header_written \in [Session -> Nat] /\ body_written \in [Session -> Nat]
    /\ \A s \in Session : header_written[s] <= header[s] /\ body_written[s] <= body[s]
    /\ got \in [Session -> Seq(Nat)] /\ broken \in [Session -> BOOLEAN]
    /\ queue \subseteq Session
    /\ pc \in [Thread -> PC] /\ cur \in [Thread -> Session \cup {NULL}]
    /\ batch \subseteq Session \cup {Tenant} /\ accepting \in BOOLEAN
    /\ fatal \in {"none", "null_session", "no_request_buffer", "sandbox_free", "invalid_state"}

\* A live session has one holder: a thread, the request queue or epoll.  No two threads ever work on
\* it, although it moves from listener to worker and back without a lock, and none is leaked.
OneHolder ==
    \A s \in Session :
        /\ state[s] # "UNINITIALIZED" <=> s \in queue \/ epoll[s] # "none" \/ \E t \in Thread : cur[t] = s
        /\ s \in queue => epoll[s] = "none"
        /\ \A t \in Thread : cur[t] = s => /\ s \notin queue /\ epoll[s] = "none"
                                          /\ \A u \in Thread \ {t} : cur[u] # s

\* The event handler finds what it relies on: every event that epoll_wait returned and that is still
\* to be handled is for a live session, blocked, for the event it was registered for, even if the
\* worker that registered it is still on its way out (the panic and the asserts of
\* on_client_socket_epoll_event).
EventsAreFresh ==
    /\ \A s \in batch \cap Session :
         epoll[s] # "none" /\ state[s] \in Blocked /\ epoll[s] = Interest(state[s])
    /\ fatal # "invalid_state"

\* The client receives the bytes of its response in order, each once, however often the sending is
\* interrupted and whichever threads continue it.
InOrder == \A s \in Session : got[s] = Bytes(1, Len(got[s]))

\* Unless its connection failed, a session is closed and freed only when the client has received one
\* header and the whole body.
WholeResponse ==
    [][\A s \in Session : state[s] # "UNINITIALIZED" /\ state'[s] = "UNINITIALIZED" /\ ~broken[s]
            => Len(got[s]) = HeaderLength + body[s]]_vars

\* Every accepted session is answered or given up, unless the process dies: none stays parked in epoll
\* or in the queue.
SessionsEnd ==
    \A s \in Session : state[s] # "UNINITIALIZED" ~> state[s] = "UNINITIALIZED" \/ fatal # "none"

=============================================================================
