-------------------------- MODULE HttpSessionProofs --------------------------
(***************************************************************************)
(* Proofs about HTTP sessions, for any number of sessions, workers and     *)
(* bytes, any capacity of the queue, with or without failures of memory    *)
(* and of connections.  No lock protects a session, so that OneHolder is   *)
(* what the rest stands on: a step of a thread is seen by no other thread. *)
(* It is not inductive without the state of a session that each place in   *)
(* the handlers stands for, nor that without OneHolder.                    *)
(***************************************************************************)
EXTENDS HttpSession, SequenceTheorems, TLAPS

\* Where a thread is in the handlers says whether it holds a session, and in which state.
ThreadAt(t) ==
    /\ cur[t] = NULL <=> pc[t] \in {"loop", "accept", "idle"}
    /\ pc[t] \in {"loop", "accept", "recv", "received"} => t = Listener
    /\ pc[t] \in {"idle", "execute"} => t # Listener
    /\ pc[t] = "recv" => state[cur[t]] = "RECEIVING_REQUEST"
    /\ pc[t] = "received" => state[cur[t]] = "RECEIVED_REQUEST" \/ fatal # "none"
    /\ pc[t] = "execute" => state[cur[t]] = "EXECUTING"
    /\ pc[t] = "header" => state[cur[t]] = "SENDING_RESPONSE_HEADER"
    /\ pc[t] = "body" => state[cur[t]] = "SENDING_RESPONSE_BODY"
    /\ pc[t] = "register" =>
            state[cur[t]] \in {"RECEIVING_REQUEST", "SENDING_RESPONSE_HEADER", "SENDING_RESPONSE_BODY"}
    /\ pc[t] = "epoll_ctl" => state[cur[t]] \in Blocked
    /\ pc[t] \in {"close", "free"} => state[cur[t]] = "SENT_RESPONSE_BODY" \/ broken[cur[t]]

\* No response yet.
Fresh == {"UNINITIALIZED", "RECEIVING_REQUEST", "RECEIVE_REQUEST_BLOCKED", "RECEIVED_REQUEST", "EXECUTING"}

InHeader == {"SENDING_RESPONSE_HEADER", "SEND_RESPONSE_HEADER_BLOCKED"}

InBody == {"SENDING_RESPONSE_BODY", "SEND_RESPONSE_BODY_BLOCKED", "SENT_RESPONSE_BODY"}

\* What the state of a session says of its response and of the queues.
SessionAt(s) ==
    /\ state[s] \in Fresh => header[s] = 0 /\ header_written[s] = 0 /\ body[s] = 0 /\ body_written[s] = 0
    /\ state[s] \in InHeader => header[s] = HeaderLength /\ body_written[s] = 0
    /\ state[s] \in InBody => header[s] = HeaderLength /\ header_written[s] = HeaderLength
    /\ state[s] = "SENT_RESPONSE_BODY" => body_written[s] = body[s]
    /\ got[s] = Bytes(1, header_written[s] + body_written[s])
    /\ s \in queue => state[s] = "EXECUTING"
    /\ epoll[s] # "none" => state[s] \in Blocked /\ epoll[s] = Interest(state[s])
    /\ s \in batch => epoll[s] # "none"

IInv ==
    /\ TypeOK /\ OneHolder
    /\ \A t \in Thread : ThreadAt(t)
    /\ \A s \in Session : SessionAt(s)
    /\ fatal # "invalid_state"

-----------------------------------------------------------------------------
(***************************************************************************)
(* Types, bytes and steps of one thread on its own session.                *)
(***************************************************************************)
DataTypes ==
    /\ header \in [Session -> {0, HeaderLength}] /\ body \in [Session -> 0..MaxBody]
    /\ header_written \in [Session -> Nat] /\ body_written \in [Session -> Nat]
    /\ \A s \in Session : header_written[s] <= header[s] /\ body_written[s] <= body[s]
    /\ got \in [Session -> Seq(Nat)] /\ broken \in [Session -> BOOLEAN]

ControlTypes ==
    /\ state \in [Session -> HttpState]
    /\ epoll \in [Session -> {"none", "IN", "OUT"}]
    /\ queue \subseteq Session
    /\ pc \in [Thread -> PC] /\ cur \in [Thread -> Session \cup {NULL}]
    /\ batch \subseteq Session \cup {Tenant} /\ accepting \in BOOLEAN
    /\ fatal \in {"none", "null_session", "no_request_buffer", "sandbox_free", "invalid_state"}

\* The type invariant by parts.
LEMMA TypeParts ==
    /\ TypeOK <=> ControlTypes /\ DataTypes
    /\ TypeOK' <=> ControlTypes' /\ DataTypes'
  BY Zenon DEF TypeOK, ControlTypes, DataTypes

\* The bytes of a response, in order.
LEMMA BytesIs ==
    ASSUME NEW n \in Nat
    PROVE  Bytes(1, n) \in Seq(Nat) /\ Len(Bytes(1, n)) = n
  BY DEF Bytes

\* Bytes that are sent where the last ones ended continue the response.
LEMMA BytesAppend ==
    ASSUME NEW m \in Nat, NEW n \in Nat
    PROVE  Bytes(1, m) \o Bytes(m + 1, n) = Bytes(1, m + n)
  <1> DEFINE a == Bytes(1, m)
             b == Bytes(m + 1, n)
             c == Bytes(1, m + n)
  <1>1. a \in Seq(Nat) /\ Len(a) = m /\ \A k \in 1..m : a[k] = k
    BY DEF Bytes
  <1>2. b \in Seq(Nat) /\ Len(b) = n /\ \A k \in 1..n : b[k] = m + k
    BY DEF Bytes
  <1>3. c \in Seq(Nat) /\ Len(c) = m + n /\ \A k \in 1..(m + n) : c[k] = k
    BY DEF Bytes
  <1> HIDE DEF a, b, c
  <1>4. a \o b \in Seq(Nat) /\ Len(a \o b) = m + n
    BY <1>1, <1>2
  <1>5. ASSUME NEW k \in 1..Len(a \o b) PROVE (a \o b)[k] = c[k]
    <2>1. CASE k <= m
      BY <1>1, <1>2, <1>3, <1>4, <2>1
    <2>2. CASE k > m
      BY <1>1, <1>2, <1>3, <1>4, <2>2
    <2> QED BY <1>4, <2>1, <2>2
  <1>6. a \o b = c
    BY <1>3, <1>4, <1>5, SeqEqual, ZenonT(60)
  <1> QED BY <1>6 DEF a, b, c

\* A step that leaves a session alone.
SameAt(s) ==
    /\ state'[s] = state[s] /\ broken'[s] = broken[s] /\ got'[s] = got[s]
    /\ header'[s] = header[s] /\ header_written'[s] = header_written[s]
    /\ body'[s] = body[s] /\ body_written'[s] = body_written[s]

\* A thread that does not step, and whose session no step touches, stays where it is.
LEMMA OtherThread ==
    ASSUME IInv, NEW u \in Thread, pc'[u] = pc[u], cur'[u] = cur[u],
           cur[u] # NULL => SameAt(cur[u]), fatal = "none" \/ fatal' = fatal
    PROVE  ThreadAt(u)'
  <1>1. ThreadAt(u)
    BY DEF IInv
  <1>2. pc[u] \notin {"loop", "accept", "idle"} => SameAt(cur[u])
    BY <1>1, Zenon DEF ThreadAt
  <1> QED BY <1>1, <1>2 DEF ThreadAt, SameAt

\* A session that no step touches.
LEMMA OtherSession ==
    ASSUME IInv, NEW s \in Session, SameAt(s), epoll'[s] = epoll[s], s \in queue' => s \in queue,
           s \in batch' => s \in batch
    PROVE  SessionAt(s)'
  <1>1. SessionAt(s)
    BY DEF IInv
  <1> QED BY <1>1, Zenon DEF SessionAt, SameAt

\* Sessions that are neither allocated nor freed nor passed on have their holder.
LEMMA HolderFrame ==
    ASSUME OneHolder, UNCHANGED <<epoll, queue, cur>>,
           \A s \in Session : state'[s] # "UNINITIALIZED" <=> state[s] # "UNINITIALIZED"
    PROVE  OneHolder'
  BY DEF OneHolder

\* A thread that works on its session and keeps it.
LEMMA OwnStep ==
    ASSUME IInv, NEW t \in Thread, NEW s \in Session, cur[t] = s,
           \A r \in Session \ {s} : SameAt(r),
           \A u \in Thread \ {t} : pc'[u] = pc[u], UNCHANGED <<epoll, queue, cur, batch>>,
           fatal' = fatal \/ (fatal = "none" /\ fatal' = "sandbox_free"),
           TypeOK', ThreadAt(t)', SessionAt(s)', state'[s] # "UNINITIALIZED"
    PROVE  IInv'
  <1>1. ControlTypes
    BY TypeParts DEF IInv
  <1>2. \A u \in Thread \ {t} : cur[u] # s
    BY DEF IInv, OneHolder
  <1>3. ASSUME NEW u \in Thread PROVE ThreadAt(u)'
    <2>1. CASE u = t
      BY <2>1
    <2>2. CASE u # t
      <3>1. cur[u] # NULL => SameAt(cur[u])
        BY <1>1, <1>2, <2>2 DEF ControlTypes
      <3> QED BY <2>2, <3>1, OtherThread
    <2> QED BY <2>1, <2>2
  <1>4. ASSUME NEW r \in Session PROVE SessionAt(r)'
    BY OtherSession
  <1>5. OneHolder'
    <2>1. \A r \in Session : state'[r] # "UNINITIALIZED" <=> state[r] # "UNINITIALIZED"
      BY DEF IInv, OneHolder, SameAt
    <2>2. OneHolder
      BY Zenon DEF IInv
    <2>3. /\ epoll' = epoll /\ queue' = queue /\ cur' = cur
      BY Zenon
    <2> QED BY <2>1, <2>2, <2>3, HolderFrame, Zenon
  <1> QED BY <1>3, <1>4, <1>5 DEF IInv

-----------------------------------------------------------------------------
(***************************************************************************)
(* One lemma per action.                                                   *)
(***************************************************************************)
\* No session is there.
LEMMA InitIInv == Init => IInv
  <1> SUFFICES ASSUME Init PROVE IInv
    OBVIOUS
  <1> USE SessionNames, SessionBounds DEF Init
  <1>1. TypeOK
    <2>1. DataTypes
      <3>1. <<>> \in Seq(Nat)
        OBVIOUS
      <3>2. got \in [Session -> Seq(Nat)]
        BY <3>1, Zenon
      <3> QED BY <3>2 DEF DataTypes
    <2>2. ControlTypes
      BY ZenonT(60) DEF ControlTypes, HttpState, PC
    <2> QED BY <2>1, <2>2, TypeParts
  <1>2. OneHolder
    BY DEF OneHolder
  <1>3. ASSUME NEW t \in Thread PROVE ThreadAt(t)
    BY DEF ThreadAt, Thread
  <1>4. ASSUME NEW s \in Session PROVE SessionAt(s)
    <2>1. Bytes(1, 0) = <<>>
      BY DEF Bytes
    <2> QED BY <2>1 DEF SessionAt, Fresh, InHeader, InBody
  <1> QED BY <1>1, <1>2, <1>3, <1>4 DEF IInv

\* The response header is built.
LEMMA RespondIInv ==
    ASSUME IInv, NEW t \in Thread, NEW s \in Session, cur[t] = s,
           NEW b \in 0..MaxBody, Respond(t, s, b),
           state[s] \in Fresh, state[s] # "UNINITIALIZED",
           UNCHANGED <<epoll, queue, batch, accepting, fatal>>
    PROVE  IInv'
  <1>1. ControlTypes /\ DataTypes /\ SessionAt(s)
    BY TypeParts DEF IInv
  <1>2. /\ header' = [header EXCEPT ![s] = @ + HeaderLength] /\ body' = [body EXCEPT ![s] = b]
        /\ UNCHANGED <<header_written, body_written, got, broken>>
        /\ state' = [state EXCEPT ![s] = "SENDING_RESPONSE_HEADER"]
        /\ pc' = [pc EXCEPT ![t] = "header"] /\ UNCHANGED cur
    BY DEF Respond, SetResponseHeader, Goto
  <1>3. header[s] = 0 /\ header_written[s] = 0 /\ body_written[s] = 0
    BY <1>1 DEF SessionAt
  <1>4. ControlTypes'
    BY <1>1, <1>2 DEF ControlTypes, HttpState, PC
  <1>5. DataTypes'
    BY <1>1, <1>2, <1>3, SessionBounds DEF DataTypes
  <1>6. ThreadAt(t)'
    <2>1. pc'[t] = "header" /\ state'[s] = "SENDING_RESPONSE_HEADER" /\ cur'[t] = s /\ s # NULL
      BY <1>1, <1>2, SessionNames, ZenonT(60) DEF ControlTypes
    <2> QED BY <2>1 DEF ThreadAt
  <1>7. SessionAt(s)'
    <2>1. /\ state'[s] = "SENDING_RESPONSE_HEADER" /\ header'[s] = HeaderLength
          /\ header_written'[s] = header_written[s] /\ body_written'[s] = 0 /\ got'[s] = got[s]
      BY <1>1, <1>2, <1>3, SessionBounds DEF ControlTypes, DataTypes
    <2>2. s \notin queue /\ epoll[s] = "none" /\ s \notin batch
      BY <1>1 DEF IInv, OneHolder, SessionAt
    <2> QED BY <1>1, <1>3, <2>1, <2>2 DEF SessionAt, Fresh, InHeader, InBody
  <1>8. \A r \in Session \ {s} : SameAt(r)
    BY <1>1, <1>2 DEF SameAt, ControlTypes, DataTypes
  <1>9. state'[s] # "UNINITIALIZED" /\ \A u \in Thread \ {t} : pc'[u] = pc[u]
    BY <1>1, <1>2, ZenonT(60) DEF ControlTypes
  <1> QED BY <1>2, <1>4, <1>5, <1>6, <1>7, <1>8, <1>9, TypeParts, OwnStep, Zenon

\* What a thread may rely on for the session it holds.
LEMMA HeldIs ==
    ASSUME IInv, NEW t \in Thread, cur[t] # NULL
    PROVE  /\ ControlTypes /\ DataTypes /\ ThreadAt(t) /\ cur[t] \in Session /\ SessionAt(cur[t])
           /\ cur[t] \notin queue /\ epoll[cur[t]] = "none" /\ cur[t] \notin batch
           /\ state[cur[t]] # "UNINITIALIZED" /\ \A u \in Thread \ {t} : cur[u] # cur[t]
  <1>1. ControlTypes /\ DataTypes /\ ThreadAt(t)
    BY TypeParts DEF IInv
  <1>2. cur[t] \in Session
    BY <1>1 DEF ControlTypes
  <1>3. SessionAt(cur[t])
    BY <1>2 DEF IInv
  <1> QED BY <1>1, <1>2, <1>3 DEF IInv, OneHolder, SessionAt

\* A step that changes the state of the session and the place in the handlers only.
LEMMA MoveIInv ==
    ASSUME IInv, NEW t \in Thread, NEW s \in Session, cur[t] = s,
           NEW l \in PC, NEW st \in HttpState \ {"UNINITIALIZED"},
           state' = [state EXCEPT ![s] = st], pc' = [pc EXCEPT ![t] = l],
           UNCHANGED <<data, cur, epoll, queue, batch, accepting, fatal>>,
           pc'[t] = l /\ state'[s] = st => ThreadAt(t)',
           pc'[t] = l /\ state'[s] = st => SessionAt(s)'
    PROVE  IInv'
  <1>1. ControlTypes /\ DataTypes
    BY TypeParts DEF IInv
  <1>2. UNCHANGED <<header, header_written, body, body_written, got, broken>>
    BY DEF data
  <1>3. pc'[t] = l /\ state'[s] = st /\ \A u \in Thread \ {t} : pc'[u] = pc[u]
    BY <1>1 DEF ControlTypes
  <1>4. ControlTypes'
    BY <1>1 DEF ControlTypes
  <1>5. DataTypes'
    BY <1>1, <1>2, ZenonT(60) DEF DataTypes
  <1>6. \A r \in Session \ {s} : SameAt(r)
    BY <1>1, <1>2 DEF SameAt, ControlTypes
  <1> QED BY <1>3, <1>4, <1>5, <1>6, TypeParts, OwnStep, Zenon

\* The session is marked as blocked.
LEMMA MarkIInv ==
    ASSUME IInv, NEW t \in Thread, pc[t] = "register",
           state' = [state EXCEPT ![cur[t]] = BlockedState(@)], Goto(t, "epoll_ctl"),
           UNCHANGED <<data, epoll, queue, batch, accepting, fatal>>
    PROVE  IInv'
  <1> DEFINE s == cur[t]
             st == BlockedState(state[s])
  <1>1. cur[t] # NULL
    BY DEF IInv, ThreadAt
  <1>2. /\ s \in Session /\ SessionAt(s) /\ ControlTypes /\ s \notin queue /\ epoll[s] = "none" /\ s \notin batch
        /\ state[s] \in {"RECEIVING_REQUEST", "SENDING_RESPONSE_HEADER", "SENDING_RESPONSE_BODY"}
    BY <1>1, HeldIs DEF ThreadAt
  <1>3. /\ st \in Blocked
        /\ st \in Fresh <=> state[s] \in Fresh
        /\ st \in InHeader <=> state[s] \in InHeader
        /\ st \in InBody <=> state[s] \in InBody
    BY <1>2 DEF BlockedState, Blocked, Fresh, InHeader, InBody
  <1>4. /\ state' = [state EXCEPT ![s] = st] /\ pc' = [pc EXCEPT ![t] = "epoll_ctl"] /\ UNCHANGED cur
        /\ UNCHANGED <<header, header_written, body, body_written, got, broken>>
    BY DEF Goto, data
  <1> HIDE DEF st
  <1>5. pc'[t] = "epoll_ctl" /\ state'[s] = st => ThreadAt(t)'
    BY <1>1, <1>3, <1>4, ZenonT(60) DEF ThreadAt
  <1>6. pc'[t] = "epoll_ctl" /\ state'[s] = st => SessionAt(s)'
    BY <1>2, <1>3, <1>4, ZenonT(60) DEF SessionAt, Blocked
  <1>7. st \in HttpState \ {"UNINITIALIZED"} /\ "epoll_ctl" \in PC
    BY <1>3 DEF HttpState, Blocked, PC
  <1> QED BY <1>2, <1>4, <1>5, <1>6, <1>7, MoveIInv, Zenon DEF data

\* A thread that returns to its loop holds no session.
LEMMA ReturnIs ==
    ASSUME ControlTypes, NEW t \in Thread, Return(t)
    PROVE  /\ cur' = [cur EXCEPT ![t] = NULL] /\ cur' \in [Thread -> Session \cup {NULL}] /\ cur'[t] = NULL
           /\ pc' \in [Thread -> PC] /\ ThreadAt(t)'
           /\ \A u \in Thread \ {t} : cur'[u] = cur[u] /\ pc'[u] = pc[u]
  <1> DEFINE l == CASE t \in Worker -> "idle" [] t = Listener /\ accepting -> "accept" [] OTHER -> "loop"
  <1>1. cur' = [cur EXCEPT ![t] = NULL] /\ pc' = [pc EXCEPT ![t] = l]
    BY DEF Return
  <1>2. \/ l = "idle" /\ t # Listener
        \/ l \in {"accept", "loop"} /\ t = Listener
    <2>1. CASE t \in Worker
      BY <2>1, SessionNames
    <2>2. CASE t \notin Worker
      BY <2>2 DEF ControlTypes, Thread
    <2> QED BY <2>1, <2>2
  <1> HIDE DEF l
  <1>3. cur'[t] = NULL /\ pc'[t] = l /\ \A u \in Thread \ {t} : cur'[u] = cur[u] /\ pc'[u] = pc[u]
    BY <1>1 DEF ControlTypes
  <1>4. ThreadAt(t)'
    BY <1>2, <1>3 DEF ThreadAt
  <1>5. pc' \in [Thread -> PC] /\ cur' \in [Thread -> Session \cup {NULL}]
    BY <1>1, <1>2 DEF ControlTypes, PC
  <1> QED BY <1>1, <1>3, <1>4, <1>5

\* A thread that passes its session on, or frees it.
LEMMA ReleaseIInv ==
    ASSUME IInv, NEW t \in Thread, NEW s \in Session, cur[t] = s, Return(t), UNCHANGED <<batch, fatal>>,
           \A r \in Session \ {s} : SameAt(r) /\ epoll'[r] = epoll[r] /\ (r \in queue' <=> r \in queue),
           TypeOK', SessionAt(s)',
           state'[s] # "UNINITIALIZED" <=> s \in queue' \/ epoll'[s] # "none",
           s \in queue' => epoll'[s] = "none"
    PROVE  IInv'
  <1>1. s # NULL
    BY SessionNames
  <1>2. /\ ControlTypes /\ \A u \in Thread \ {t} : cur[u] # s
    BY <1>1, HeldIs, Zenon
  <1>3. /\ cur'[t] = NULL /\ ThreadAt(t)'
        /\ \A u \in Thread \ {t} : cur'[u] = cur[u] /\ pc'[u] = pc[u]
    BY <1>2, ReturnIs, Zenon
  <1>4. ASSUME NEW u \in Thread PROVE ThreadAt(u)'
    <2>1. CASE u = t
      BY <1>3, <2>1
    <2>2. CASE u # t
      <3>1. cur[u] # NULL => cur[u] \in Session \ {s}
        BY <1>2, <2>2 DEF ControlTypes
      <3> QED BY <1>3, <2>2, <3>1, OtherThread, Zenon
    <2> QED BY <2>1, <2>2
  <1>5. ASSUME NEW r \in Session PROVE SessionAt(r)'
    <2>1. CASE r = s
      BY <2>1
    <2>2. CASE r # s
      BY <2>2, OtherSession, Zenon
    <2> QED BY <2>1, <2>2
  <1>6. OneHolder'
    <2>1. ASSUME NEW r \in Session \ {s}
          PROVE  /\ state'[r] = state[r] /\ epoll'[r] = epoll[r] /\ (r \in queue' <=> r \in queue)
                 /\ \A u \in Thread : cur'[u] = r <=> cur[u] = r
      BY <1>1, <1>3, SessionNames, ZenonT(60) DEF SameAt
    <2>2. \A u \in Thread : cur'[u] # s
      BY <1>1, <1>2, <1>3
    <2>3. OneHolder
      BY DEF IInv
    <2> HIDE DEF IInv
    <2> QED BY <2>1, <2>2, <2>3 DEF OneHolder
  <1> QED BY <1>4, <1>5, <1>6 DEF IInv

\* epoll_ctl gives the session to epoll.
LEMMA ParkIInv ==
    ASSUME IInv, NEW t \in Thread, pc[t] = "epoll_ctl",
           epoll' = [epoll EXCEPT ![cur[t]] = Interest(state[cur[t]])], Return(t),
           UNCHANGED <<state, data, queue, batch, accepting, fatal>>
    PROVE  IInv'
  <1>1. cur[t] # NULL
    BY ZenonT(60) DEF IInv, ThreadAt
  <1>2. PICK s \in Session :
        /\ cur[t] = s /\ ControlTypes /\ DataTypes /\ SessionAt(s) /\ state[s] \in Blocked
        /\ s \notin queue /\ s \notin batch /\ state[s] # "UNINITIALIZED"
    BY <1>1, HeldIs DEF ThreadAt
  <1>3. UNCHANGED <<header, header_written, body, body_written, got, broken>>
    BY ZenonT(60) DEF data
  <1>4. Interest(state[s]) \in {"IN", "OUT"}
    BY DEF Interest
  <1>5. epoll' \in [Session -> {"none", "IN", "OUT"}] /\ epoll'[s] = Interest(state[s])
    BY <1>2, <1>4 DEF ControlTypes
  <1>6. ControlTypes' /\ DataTypes'
    <2>1. pc' \in [Thread -> PC] /\ cur' \in [Thread -> Session \cup {NULL}]
      BY <1>2, ReturnIs, Zenon
    <2> QED BY <1>2, <1>3, <1>5, <2>1 DEF ControlTypes, DataTypes
  <1>7. SessionAt(s)'
    BY <1>2, <1>3, <1>5, ZenonT(60) DEF SessionAt, Blocked
  <1>8. \A r \in Session \ {s} : SameAt(r) /\ epoll'[r] = epoll[r] /\ (r \in queue' <=> r \in queue)
    BY <1>2, <1>3, ZenonT(60) DEF SameAt, ControlTypes
  <1>9. epoll'[s] # "none"
    BY <1>4, <1>5
  <1> QED BY <1>2, <1>6, <1>7, <1>8, <1>9, TypeParts, ReleaseIInv, Zenon

\* http_session_free.
LEMMA FreeIInv ==
    ASSUME IInv, NEW t \in Thread, Free(t)
    PROVE  IInv'
  <1>1. cur[t] # NULL
    BY DEF IInv, ThreadAt, Free
  <1>2. PICK s \in Session : /\ cur[t] = s /\ ControlTypes /\ DataTypes /\ SessionAt(s)
                             /\ s \notin queue /\ s \notin batch /\ epoll[s] = "none"
    BY <1>1, HeldIs, Zenon
  <1>3. /\ state' = [state EXCEPT ![s] = "UNINITIALIZED"]
        /\ header' = [header EXCEPT ![s] = 0] /\ header_written' = [header_written EXCEPT ![s] = 0]
        /\ body' = [body EXCEPT ![s] = 0] /\ body_written' = [body_written EXCEPT ![s] = 0]
        /\ got' = [got EXCEPT ![s] = <<>>] /\ broken' = [broken EXCEPT ![s] = FALSE]
        /\ Return(t) /\ UNCHANGED <<epoll, queue, batch, accepting, fatal>>
    BY <1>2 DEF Free
  <1>4. ControlTypes'
    <2>1. pc' \in [Thread -> PC] /\ cur' \in [Thread -> Session \cup {NULL}]
      BY <1>2, <1>3, ReturnIs, Zenon
    <2> QED BY <1>2, <1>3, <2>1 DEF ControlTypes, HttpState
  <1>5. DataTypes'
    BY <1>2, <1>3, SessionBounds DEF DataTypes
  <1>6. SessionAt(s)'
    <2>1. Bytes(1, 0) = <<>>
      BY DEF Bytes
    <2> QED BY <1>2, <1>3, <2>1 DEF SessionAt, ControlTypes, DataTypes, InHeader, InBody
  <1>7. \A r \in Session \ {s} : SameAt(r) /\ epoll'[r] = epoll[r] /\ (r \in queue' <=> r \in queue)
    BY <1>2, <1>3 DEF SameAt, ControlTypes, DataTypes
  <1>8. state'[s] = "UNINITIALIZED" /\ s \notin queue' /\ epoll'[s] = "none"
    BY <1>2, <1>3 DEF ControlTypes
  <1> QED BY <1>2, <1>3, <1>4, <1>5, <1>6, <1>7, <1>8, TypeParts, ReleaseIInv, Zenon

\* A write of the header.
LEMMA SendHeaderIInv ==
    ASSUME IInv, NEW t \in Thread, SendHeader(t)
    PROVE  IInv'
  <1>1. pc[t] = "header" /\ cur[t] # NULL
    BY DEF IInv, ThreadAt, SendHeader
  <1>2. PICK s \in Session : /\ cur[t] = s /\ ControlTypes /\ DataTypes /\ SessionAt(s) /\ ThreadAt(t)
                             /\ s \notin queue /\ s \notin batch /\ epoll[s] = "none"
    BY <1>1, HeldIs, Zenon
  <1>3. /\ state[s] = "SENDING_RESPONSE_HEADER" /\ header[s] = HeaderLength /\ body_written[s] = 0
        /\ header_written[s] \in Nat /\ got[s] = Bytes(1, header_written[s])
    BY <1>1, <1>2 DEF ThreadAt, SessionAt, InHeader, DataTypes
  <1>4. PICK n \in 1..(header[s] - header_written[s]) : header_progress(s, n)
    BY <1>2, Zenon DEF SendHeader
  <1>5. n \in Nat /\ header_written[s] + n \in Nat /\ header_written[s] + n <= HeaderLength
    BY <1>3, <1>4, SessionBounds
  <1>6. /\ header_written' = [header_written EXCEPT ![s] = header_written[s] + n]
        /\ got' = [got EXCEPT ![s] = Bytes(1, header_written[s] + n)]
        /\ UNCHANGED <<header, body, body_written, broken, state, epoll, queue, pc, cur, batch, accepting, fatal>>
    <2>1. got[s] \o Bytes(header_written[s] + 1, n) = Bytes(1, header_written[s] + n)
      BY <1>3, <1>5, BytesAppend, ZenonT(60)
    <2> QED BY <1>2, <1>4, <2>1, ZenonT(60) DEF header_progress, SendHeader, DataTypes
  <1>7. DataTypes'
    <2>1. Bytes(1, header_written[s] + n) \in Seq(Nat)
      BY <1>5, BytesIs, Zenon
    <2> QED BY <1>2, <1>3, <1>5, <1>6, <2>1 DEF DataTypes
  <1>8. ControlTypes' /\ ThreadAt(t)'
    BY <1>2, <1>6 DEF ControlTypes, ThreadAt
  <1>9. SessionAt(s)'
    <2>1. /\ state'[s] = "SENDING_RESPONSE_HEADER" /\ header'[s] = HeaderLength /\ body_written'[s] = 0
          /\ header_written'[s] = header_written[s] + n /\ got'[s] = Bytes(1, header_written[s] + n)
      BY <1>2, <1>3, <1>6, ZenonT(60) DEF DataTypes
    <2> QED BY <1>2, <1>5, <1>6, <2>1 DEF SessionAt, Fresh, InHeader, InBody
  <1>10. \A r \in Session \ {s} : SameAt(r)
    <2>1. \A r \in Session \ {s} : header_written'[r] = header_written[r] /\ got'[r] = got[r]
      BY <1>2, <1>6 DEF DataTypes
    <2> QED BY <1>6, <2>1, Zenon DEF SameAt
  <1>11. state'[s] # "UNINITIALIZED" /\ \A u \in Thread \ {t} : pc'[u] = pc[u]
    BY <1>3, <1>6
  <1> QED BY <1>2, <1>6, <1>7, <1>8, <1>9, <1>10, <1>11, TypeParts, OwnStep, Zenon

\* A write of the body.
LEMMA SendBodyIInv ==
    ASSUME IInv, NEW t \in Thread, SendBody(t)
    PROVE  IInv'
  <1>1. pc[t] = "body" /\ cur[t] # NULL
    BY DEF IInv, ThreadAt, SendBody
  <1>2. PICK s \in Session : /\ cur[t] = s /\ ControlTypes /\ DataTypes /\ SessionAt(s) /\ ThreadAt(t)
                             /\ s \notin queue /\ s \notin batch /\ epoll[s] = "none"
    BY <1>1, HeldIs, Zenon
  <1> DEFINE sent == HeaderLength + body_written[s]
  <1>3. /\ state[s] = "SENDING_RESPONSE_BODY" /\ header[s] = HeaderLength /\ header_written[s] = HeaderLength
        /\ body_written[s] \in Nat /\ body[s] \in 0..MaxBody /\ got[s] = Bytes(1, sent)
    BY <1>1, <1>2 DEF ThreadAt, SessionAt, InBody, DataTypes
  <1>4. PICK n \in 1..(body[s] - body_written[s]) : body_progress(s, n)
    BY <1>2, Zenon DEF SendBody
  <1>5. /\ n \in Nat /\ sent \in Nat /\ body_written[s] + n \in Nat /\ body_written[s] + n <= body[s]
        /\ sent + n \in Nat /\ sent + n = HeaderLength + (body_written[s] + n)
    BY <1>3, <1>4, SessionBounds
  <1>6. /\ body_written' = [body_written EXCEPT ![s] = body_written[s] + n]
        /\ got' = [got EXCEPT ![s] = Bytes(1, sent + n)]
        /\ UNCHANGED <<header, header_written, body, broken, state, epoll, queue, pc, cur, batch, accepting, fatal>>
    <2>1. got[s] \o Bytes(sent + 1, n) = Bytes(1, sent + n)
      BY <1>3, <1>5, BytesAppend, ZenonT(60)
    <2> QED BY <1>2, <1>3, <1>4, <2>1, ZenonT(60) DEF body_progress, SendBody, DataTypes
  <1> HIDE DEF sent
  <1>7. DataTypes'
    <2>1. Bytes(1, sent + n) \in Seq(Nat)
      BY <1>5, BytesIs, Zenon
    <2> QED BY <1>2, <1>3, <1>5, <1>6, <2>1, ZenonT(60) DEF DataTypes
  <1>8. ControlTypes' /\ ThreadAt(t)'
    BY <1>2, <1>6, ZenonT(60) DEF ControlTypes, ThreadAt
  <1>9. SessionAt(s)'
    <2>1. /\ state'[s] = "SENDING_RESPONSE_BODY" /\ header'[s] = HeaderLength /\ header_written'[s] = HeaderLength
          /\ body_written'[s] = body_written[s] + n /\ got'[s] = Bytes(1, header_written'[s] + body_written'[s])
      BY <1>2, <1>3, <1>5, <1>6, ZenonT(60) DEF DataTypes
    <2> QED BY <1>2, <1>6, <2>1, ZenonT(60) DEF SessionAt, Fresh, InHeader, InBody
  <1>10. \A r \in Session \ {s} : SameAt(r)
    <2>1. \A r \in Session \ {s} : body_written'[r] = body_written[r] /\ got'[r] = got[r]
      BY <1>2, <1>6 DEF DataTypes
    <2> QED BY <1>6, <2>1, Zenon DEF SameAt
  <1>11. state'[s] # "UNINITIALIZED" /\ \A u \in Thread \ {t} : pc'[u] = pc[u]
    BY <1>3, <1>6
  <1> QED BY <1>2, <1>6, <1>7, <1>8, <1>9, <1>10, <1>11, TypeParts, OwnStep, Zenon

\* A write that would block, or fails for good.
LEMMA SendFailsIInv ==
    ASSUME IInv, NEW t \in Thread, SendFails(t)
    PROVE  IInv'
  <1>1. pc[t] \in {"header", "body"} /\ cur[t] # NULL
    BY DEF IInv, ThreadAt, SendFails
  <1>2. PICK s \in Session : /\ cur[t] = s /\ ControlTypes /\ DataTypes /\ SessionAt(s) /\ ThreadAt(t)
                             /\ s \notin queue /\ s \notin batch /\ epoll[s] = "none"
    BY <1>1, HeldIs, Zenon
  <1>3. state[s] \in {"SENDING_RESPONSE_HEADER", "SENDING_RESPONSE_BODY"} /\ s # NULL
    BY <1>1, <1>2, SessionNames, ZenonT(60) DEF ThreadAt
  <1>4. UNCHANGED <<state, epoll, queue, cur, batch, accepting, fatal>>
    BY DEF SendFails, Goto
  <1>5. PICK l \in {"register", "close"} :
            /\ pc' = [pc EXCEPT ![t] = l]
            /\ broken' = IF l = "close" THEN [broken EXCEPT ![s] = TRUE] ELSE broken
            /\ UNCHANGED <<header, header_written, body, body_written, got>>
    <2>1. CASE Goto(t, "register") /\ UNCHANGED data
      BY <2>1 DEF Goto, data
    <2>2. CASE Goto(t, "close") /\ Break(s)
      BY <2>2 DEF Goto, Break
    <2> QED BY <1>2, <2>1, <2>2, Zenon DEF SendFails
  <1>6. pc'[t] = l /\ (l = "close" => broken'[s]) /\ \A u \in Thread \ {t} : pc'[u] = pc[u]
    BY <1>2, <1>5, ZenonT(60) DEF ControlTypes, DataTypes
  <1>7. ControlTypes'
    BY <1>2, <1>4, <1>5, ZenonT(60) DEF ControlTypes, PC
  <1>8. DataTypes'
    BY <1>2, <1>5, ZenonT(60) DEF DataTypes
  <1>9. ThreadAt(t)'
    BY <1>2, <1>3, <1>4, <1>5, <1>6 DEF ThreadAt
  <1>10. SessionAt(s)'
    BY <1>2, <1>4, <1>5, Zenon DEF SessionAt
  <1>11. \A r \in Session \ {s} : SameAt(r)
    BY <1>2, <1>4, <1>5 DEF SameAt, DataTypes
  <1>12. state'[s] # "UNINITIALIZED"
    BY <1>3, <1>4
  <1> QED BY <1>2, <1>4, <1>6, <1>7, <1>8, <1>9, <1>10, <1>11, <1>12, TypeParts, OwnStep, Zenon

\* The header, or the body, has been sent.
LEMMA SentIInv ==
    ASSUME IInv, NEW t \in Thread, HeaderSent(t) \/ BodySent(t)
    PROVE  IInv'
  <1>1. pc[t] \in {"header", "body"} /\ cur[t] # NULL
    BY ZenonT(60) DEF IInv, ThreadAt, HeaderSent, BodySent
  <1>2. PICK s \in Session : /\ cur[t] = s /\ ControlTypes /\ DataTypes /\ SessionAt(s) /\ ThreadAt(t)
                             /\ s \notin queue /\ s \notin batch /\ epoll[s] = "none"
    BY <1>1, HeldIs, Zenon
  <1>3. s # NULL
    BY SessionNames
  <1>4. CASE HeaderSent(t)
    <2>1. /\ pc[t] = "header" /\ header[s] <= header_written[s]
          /\ state' = [state EXCEPT ![s] = "SENDING_RESPONSE_BODY"] /\ pc' = [pc EXCEPT ![t] = "body"]
          /\ UNCHANGED <<cur, epoll, data, queue, batch, accepting, fatal>>
      BY <1>2, <1>4, ZenonT(60) DEF HeaderSent, Goto
    <2>2. header[s] = HeaderLength /\ header_written[s] = HeaderLength
      BY <1>2, <2>1, SessionBounds DEF ThreadAt, SessionAt, InHeader, DataTypes
    <2>3. pc'[t] = "body" /\ state'[s] = "SENDING_RESPONSE_BODY" => ThreadAt(t)'
      BY <1>2, <1>3, <2>1, ZenonT(60) DEF ThreadAt
    <2>4. pc'[t] = "body" /\ state'[s] = "SENDING_RESPONSE_BODY" => SessionAt(s)'
      BY <1>2, <2>1, <2>2 DEF SessionAt, data, Fresh, InHeader, InBody
    <2>5. "body" \in PC /\ "SENDING_RESPONSE_BODY" \in HttpState \ {"UNINITIALIZED"}
      BY DEF PC, HttpState
    <2> QED BY <1>2, <2>1, <2>3, <2>4, <2>5, MoveIInv, Zenon
  <1>5. CASE BodySent(t)
    <2>1. /\ pc[t] = "body" /\ body_written[s] >= body[s]
          /\ state' = [state EXCEPT ![s] = "SENT_RESPONSE_BODY"] /\ pc' = [pc EXCEPT ![t] = "close"]
          /\ UNCHANGED <<cur, epoll, data, queue, batch, accepting, fatal>>
      BY <1>2, <1>5, ZenonT(60) DEF BodySent, Goto
    <2>2. header[s] = HeaderLength /\ header_written[s] = HeaderLength /\ body_written[s] = body[s]
      BY <1>2, <2>1, SessionBounds DEF ThreadAt, SessionAt, InBody, DataTypes
    <2>3. pc'[t] = "close" /\ state'[s] = "SENT_RESPONSE_BODY" => ThreadAt(t)'
      BY <1>2, <1>3, <2>1, ZenonT(60) DEF ThreadAt
    <2>4. pc'[t] = "close" /\ state'[s] = "SENT_RESPONSE_BODY" => SessionAt(s)'
      BY <1>2, <2>1, <2>2 DEF SessionAt, data, Fresh, InHeader, InBody
    <2>5. "close" \in PC /\ "SENT_RESPONSE_BODY" \in HttpState \ {"UNINITIALIZED"}
      BY DEF PC, HttpState
    <2> QED BY <1>2, <2>1, <2>3, <2>4, <2>5, MoveIInv, Zenon
  <1> QED BY <1>4, <1>5, ZenonT(60)

\* A step that changes only the place in the handlers, to one that fits the session.
LEMMA CloseIInv ==
    ASSUME IInv, NEW t \in Thread, Close(t)
    PROVE  IInv'
  <1>1. pc[t] = "close" /\ cur[t] # NULL
    BY DEF IInv, ThreadAt, Close
  <1>2. PICK s \in Session : /\ cur[t] = s /\ ControlTypes /\ SessionAt(s) /\ ThreadAt(t) /\ state[s] # "UNINITIALIZED"
    BY <1>1, HeldIs, Zenon
  <1>3. /\ state' = [state EXCEPT ![s] = state[s]] /\ pc' = [pc EXCEPT ![t] = "free"]
        /\ UNCHANGED <<state, cur, epoll, data, queue, batch, accepting, fatal>>
    BY <1>2, ZenonT(60) DEF Close, Goto, ControlTypes
  <1>4. pc'[t] = "free" => ThreadAt(t)'
    BY <1>1, <1>2, <1>3 DEF ThreadAt, data
  <1>5. SessionAt(s)'
    BY <1>2, <1>3, Zenon DEF SessionAt, data
  <1>6. "free" \in PC /\ state[s] \in HttpState \ {"UNINITIALIZED"}
    BY <1>2, ZenonT(60) DEF PC, ControlTypes
  <1> QED BY <1>2, <1>3, <1>4, <1>5, <1>6, MoveIInv, Zenon

\* A thread that takes a session which no thread holds.
LEMMA AcquireIInv ==
    ASSUME IInv, NEW t \in Thread, NEW s \in Session, cur[t] = NULL, cur' = [cur EXCEPT ![t] = s],
           \A u \in Thread : cur[u] # s, \A u \in Thread \ {t} : pc'[u] = pc[u], UNCHANGED fatal, batch' \subseteq batch,
           \A r \in Session \ {s} : SameAt(r) /\ epoll'[r] = epoll[r] /\ (r \in queue' <=> r \in queue),
           s \notin queue', epoll'[s] = "none", TypeOK', ThreadAt(t)', SessionAt(s)', state'[s] # "UNINITIALIZED"
    PROVE  IInv'
  <1>1. ControlTypes /\ s # NULL
    BY TypeParts, SessionNames, ZenonT(60) DEF IInv
  <1>2. cur'[t] = s /\ \A u \in Thread \ {t} : cur'[u] = cur[u]
    BY <1>1, ZenonT(60) DEF ControlTypes
  <1>3. ASSUME NEW u \in Thread PROVE ThreadAt(u)'
    <2>1. CASE u = t
      BY <2>1
    <2>2. CASE u # t
      <3>1. cur[u] # NULL => cur[u] \in Session \ {s}
        BY <1>1, ZenonT(60) DEF ControlTypes
      <3> QED BY <1>2, <2>2, <3>1, OtherThread, Zenon
    <2> QED BY <2>1, <2>2, ZenonT(60)
  <1>4. ASSUME NEW r \in Session PROVE SessionAt(r)'
    <2>1. CASE r = s
      BY <2>1
    <2>2. CASE r # s
      BY <2>2, OtherSession, Zenon
    <2> QED BY <2>1, <2>2, ZenonT(60)
  <1>5. OneHolder'
    <2>1. ASSUME NEW r \in Session \ {s}
          PROVE  /\ state'[r] = state[r] /\ epoll'[r] = epoll[r] /\ (r \in queue' <=> r \in queue)
                 /\ \A u \in Thread : cur'[u] = r <=> cur[u] = r
      BY <1>1, <1>2, SessionNames DEF SameAt
    <2>2. \A u \in Thread : cur'[u] = s <=> u = t
      BY <1>2, ZenonT(60)
    <2>3. OneHolder
      BY DEF IInv
    <2>4. ASSUME NEW r \in Session
          PROVE  /\ state'[r] # "UNINITIALIZED" <=> r \in queue' \/ epoll'[r] # "none" \/ \E u \in Thread : cur'[u] = r
                 /\ r \in queue' => epoll'[r] = "none"
                 /\ \A u \in Thread : cur'[u] = r => /\ r \notin queue' /\ epoll'[r] = "none"
                                                     /\ \A v \in Thread \ {u} : cur'[v] # r
      <3>1. CASE r = s
        BY <2>2, <3>1
      <3>2. CASE r # s
        BY <2>1, <2>3, <3>2 DEF OneHolder
      <3> QED BY <3>1, <3>2
    <2> QED BY <2>4 DEF OneHolder
  <1> QED BY <1>3, <1>4, <1>5, ZenonT(60) DEF IInv

\* A worker dequeues a sandbox.
LEMMA DequeueIInv ==
    ASSUME IInv, NEW w \in Worker, NEW s \in Session, Dequeue(w, s)
    PROVE  IInv'
  <1>1. /\ pc[w] = "idle" /\ s \in queue /\ queue' = queue \ {s}
        /\ cur' = [cur EXCEPT ![w] = s] /\ pc' = [pc EXCEPT ![w] = "execute"]
        /\ UNCHANGED <<state, epoll, header, header_written, body, body_written, got, broken, batch, accepting, fatal>>
    BY DEF Dequeue, data
  <1>2. w \in Thread /\ w # Listener /\ s # NULL
    BY SessionNames, ZenonT(60) DEF Thread
  <1>3. ControlTypes /\ DataTypes /\ ThreadAt(w) /\ SessionAt(s) /\ cur[w] = NULL
    BY <1>1, <1>2, TypeParts, ZenonT(60) DEF IInv, ThreadAt
  <1>4. state[s] = "EXECUTING" /\ epoll[s] = "none" /\ \A u \in Thread : cur[u] # s
    BY <1>1, <1>3, ZenonT(60) DEF IInv, OneHolder, SessionAt
  <1>5. cur'[w] = s /\ pc'[w] = "execute" /\ \A u \in Thread \ {w} : pc'[u] = pc[u]
    BY <1>1, <1>2, <1>3, ZenonT(60) DEF ControlTypes
  <1>6. ControlTypes' /\ DataTypes'
    BY <1>1, <1>2, <1>3, ZenonT(60) DEF ControlTypes, DataTypes, PC
  <1>7. ThreadAt(w)'
    BY <1>1, <1>2, <1>4, <1>5, ZenonT(60) DEF ThreadAt
  <1>8. SessionAt(s)'
    BY <1>1, <1>3, <1>4, ZenonT(60) DEF SessionAt
  <1>9. \A r \in Session \ {s} : SameAt(r) /\ epoll'[r] = epoll[r] /\ (r \in queue' <=> r \in queue)
    BY <1>1, ZenonT(60) DEF SameAt
  <1>10. s \notin queue' /\ epoll'[s] = "none" /\ batch' \subseteq batch /\ state'[s] # "UNINITIALIZED"
    BY <1>1, <1>4
  <1> QED BY <1>1, <1>2, <1>3, <1>4, <1>5, <1>6, <1>7, <1>8, <1>9, <1>10, TypeParts, AcquireIInv, Zenon

\* A module returns or fails.
LEMMA FinishIInv ==
    ASSUME IInv, NEW w \in Worker, Finish(w)
    PROVE  IInv'
  <1>1. w \in Thread /\ pc[w] = "execute"
    BY ZenonT(60) DEF Thread, Finish
  <1>2. cur[w] # NULL
    BY <1>1, ZenonT(60) DEF IInv, ThreadAt
  <1>3. PICK s \in Session : cur[w] = s /\ state[s] = "EXECUTING"
    BY <1>1, <1>2, HeldIs DEF ThreadAt
  <1>4. PICK b \in {0, MaxBody} : Respond(w, s, b)
    BY <1>3, Zenon DEF Finish
  <1>5. b \in 0..MaxBody
    BY SessionBounds
  <1>6. UNCHANGED <<epoll, queue, batch, accepting, fatal>>
    BY DEF Finish
  <1>7. state[s] \in Fresh /\ state[s] # "UNINITIALIZED"
    BY <1>3 DEF Fresh
  <1> QED BY <1>1, <1>3, <1>4, <1>5, <1>6, <1>7, RespondIInv, Zenon

\* The listener between sessions.
LEMMA LoopIInv ==
    ASSUME IInv, EpollWait \/ on_tenant_socket_epoll_event \/ AcceptDone
    PROVE  IInv'
  <1>1. Listener \in Thread /\ ControlTypes /\ DataTypes /\ ThreadAt(Listener) /\ OneHolder
    BY TypeParts, ZenonT(60) DEF IInv, Thread
  <1>2. UNCHANGED <<state, epoll, header, header_written, body, body_written, got, broken, queue, cur, fatal>>
    BY ZenonT(60) DEF EpollWait, on_tenant_socket_epoll_event, AcceptDone, data, Goto
  <1>3. PICK l \in {"loop", "accept"} : pc' = [pc EXCEPT ![Listener] = l] /\ pc[Listener] \in {"loop", "accept"}
    BY <1>1 DEF EpollWait, on_tenant_socket_epoll_event, AcceptDone, Goto, ControlTypes
  <1>4. pc'[Listener] = l /\ \A u \in Thread \ {Listener} : pc'[u] = pc[u]
    BY <1>1, <1>3 DEF ControlTypes
  <1>5. accepting' \in BOOLEAN /\ batch' \subseteq Session \cup {Tenant}
    BY <1>1, ZenonT(60) DEF EpollWait, Registered, on_tenant_socket_epoll_event, AcceptDone, ControlTypes
  <1>6. ControlTypes'
    BY <1>1, <1>2, <1>3, <1>5, ZenonT(60) DEF ControlTypes, PC
  <1>7. DataTypes'
    BY <1>1, <1>2 DEF DataTypes
  <1>8. OneHolder'
    BY <1>1, <1>2, HolderFrame
  <1>9. ASSUME NEW u \in Thread PROVE ThreadAt(u)'
    <2>1. CASE u = Listener
      BY <1>1, <1>2, <1>3, <1>4, <2>1, ZenonT(60) DEF ThreadAt
    <2>2. CASE u # Listener
      BY <1>2, <1>4, <2>2, OtherThread DEF SameAt
    <2> QED BY <2>1, <2>2, ZenonT(60)
  <1>10. ASSUME NEW s \in Session PROVE SessionAt(s)'
    <2>1. SessionAt(s)
      BY ZenonT(60) DEF IInv
    <2>2. s \in batch' => epoll[s] # "none"
      BY <2>1, SessionNames DEF EpollWait, Registered, on_tenant_socket_epoll_event, AcceptDone, SessionAt
    <2> QED BY <1>2, <2>1, <2>2, Zenon DEF SessionAt
  <1> QED BY <1>2, <1>6, <1>7, <1>8, <1>9, <1>10, TypeParts, ZenonT(60) DEF IInv

\* The listener resumes a session; that it is blocked is what the event stands for.
LEMMA EventIInv ==
    ASSUME IInv, NEW s \in Session, on_client_socket_epoll_event(s)
    PROVE  IInv'
  <1> DEFINE st == Resume(s)[1]
             l == Resume(s)[2]
  <1>1. Listener \in Thread /\ pc[Listener] = "loop" /\ s \in batch /\ s # NULL
    BY SessionNames, ZenonT(60) DEF on_client_socket_epoll_event, Thread
  <1>2. ControlTypes /\ DataTypes /\ SessionAt(s) /\ cur[Listener] = NULL
    BY <1>1, TypeParts, ZenonT(60) DEF IInv, ThreadAt
  <1>3. state[s] \in Blocked /\ epoll[s] # "none"
    BY <1>1, <1>2, ZenonT(60) DEF SessionAt
  <1>4. s \notin queue /\ \A u \in Thread : cur[u] # s
    BY <1>3, ZenonT(60) DEF IInv, OneHolder
  <1>5. /\ state' = [state EXCEPT ![s] = st] /\ pc' = [pc EXCEPT ![Listener] = l]
        /\ cur' = [cur EXCEPT ![Listener] = s] /\ batch' = batch \ {s} /\ epoll' = [epoll EXCEPT ![s] = "none"]
        /\ UNCHANGED <<fatal, header, header_written, body, body_written, got, broken, queue, accepting>>
    BY <1>3 DEF on_client_socket_epoll_event, listener_thread_unregister_http_session, data
  <1>6. \/ st = "RECEIVING_REQUEST" /\ l = "recv" /\ state[s] = "RECEIVE_REQUEST_BLOCKED"
        \/ st = "SENDING_RESPONSE_HEADER" /\ l = "header" /\ state[s] = "SEND_RESPONSE_HEADER_BLOCKED"
        \/ st = "SENDING_RESPONSE_BODY" /\ l = "body" /\ state[s] = "SEND_RESPONSE_BODY_BLOCKED"
    BY <1>3, ZenonT(60) DEF Resume, Blocked
  <1> HIDE DEF st, l
  <1>7. /\ state'[s] = st /\ cur'[Listener] = s /\ pc'[Listener] = l /\ epoll'[s] = "none"
        /\ \A u \in Thread \ {Listener} : pc'[u] = pc[u]
    BY <1>1, <1>2, <1>5, ZenonT(60) DEF ControlTypes
  <1>8. ControlTypes'
    BY <1>1, <1>2, <1>5, <1>6, ZenonT(60) DEF ControlTypes, HttpState, PC
  <1>9. DataTypes'
    BY <1>2, <1>5, ZenonT(60) DEF DataTypes
  <1>10. ThreadAt(Listener)'
    BY <1>1, <1>6, <1>7, ZenonT(60) DEF ThreadAt
  <1>11. SessionAt(s)'
    BY <1>2, <1>4, <1>5, <1>6, <1>7, ZenonT(60) DEF SessionAt, Fresh, InHeader, InBody
  <1>12. \A r \in Session \ {s} : SameAt(r) /\ epoll'[r] = epoll[r] /\ (r \in queue' <=> r \in queue)
    BY <1>2, <1>5, ZenonT(60) DEF SameAt, ControlTypes
  <1>13. s \notin queue' /\ batch' \subseteq batch /\ state'[s] # "UNINITIALIZED"
    BY <1>4, <1>5, <1>6, <1>7, ZenonT(60)
  <1> QED BY <1>1, <1>2, <1>4, <1>5, <1>7, <1>8, <1>9, <1>10, <1>11, <1>12, <1>13, TypeParts, AcquireIInv, Zenon

\* A step with which the process dies leaves the sessions as they are.
LEMMA DieIInv ==
    ASSUME IInv, fatal = "none", fatal' \in {"null_session", "no_request_buffer"},
           UNCHANGED <<state, epoll, data, queue, pc, cur, batch, accepting>>
    PROVE  IInv'
  <1>1. UNCHANGED <<header, header_written, body, body_written, got, broken>>
    BY DEF data
  <1>2. ControlTypes /\ DataTypes /\ OneHolder
    BY TypeParts, ZenonT(60) DEF IInv
  <1>3. ControlTypes' /\ DataTypes' /\ OneHolder'
    BY <1>1, <1>2, HolderFrame, ZenonT(60) DEF ControlTypes, DataTypes
  <1>4. ASSUME NEW u \in Thread PROVE ThreadAt(u)'
    BY <1>1, OtherThread, ZenonT(60) DEF SameAt
  <1>5. ASSUME NEW s \in Session PROVE SessionAt(s)'
    BY <1>1, OtherSession DEF SameAt
  <1> QED BY <1>3, <1>4, <1>5, TypeParts, ZenonT(60) DEF IInv

\* A session is allocated at an address that nobody holds.
LEMMA ArrivalIInv ==
    ASSUME IInv, fatal = "none", on_client_request_arrival
    PROVE  IInv'
  <1>1. Listener \in Thread /\ pc[Listener] = "accept"
    BY ZenonT(60) DEF on_client_request_arrival, Thread
  <1>2. ControlTypes /\ DataTypes /\ cur[Listener] = NULL
    BY <1>1, TypeParts, ZenonT(60) DEF IInv, ThreadAt
  <1>3. UNCHANGED <<epoll, queue, batch, accepting, header, header_written, body, body_written, got, broken>>
    BY DEF on_client_request_arrival, data
  <1>4. ASSUME NEW s \in Session, state[s] = "UNINITIALIZED",
               state' = [state EXCEPT ![s] = "RECEIVING_REQUEST"], cur' = [cur EXCEPT ![Listener] = s],
               pc' = [pc EXCEPT ![Listener] = "recv"], UNCHANGED fatal
        PROVE  IInv'
    <2>1. SessionAt(s) /\ s \notin queue /\ epoll[s] = "none" /\ s # NULL /\ \A u \in Thread : cur[u] # s
      BY <1>4, SessionNames DEF IInv, OneHolder
    <2>2. /\ state'[s] = "RECEIVING_REQUEST" /\ cur'[Listener] = s /\ pc'[Listener] = "recv"
          /\ \A u \in Thread \ {Listener} : pc'[u] = pc[u]
      BY <1>1, <1>2, <1>4, ZenonT(60) DEF ControlTypes
    <2>3. ControlTypes' /\ DataTypes'
      BY <1>1, <1>2, <1>3, <1>4, ZenonT(60) DEF ControlTypes, DataTypes, HttpState, PC
    <2>4. ThreadAt(Listener)'
      BY <1>1, <2>1, <2>2, ZenonT(60) DEF ThreadAt
    <2>5. SessionAt(s)'
      BY <1>3, <1>4, <2>1, <2>2, ZenonT(60) DEF SessionAt, Fresh, InHeader, InBody
    <2>6. \A r \in Session \ {s} : SameAt(r) /\ epoll'[r] = epoll[r] /\ (r \in queue' <=> r \in queue)
      BY <1>2, <1>3, <1>4, ZenonT(60) DEF SameAt, ControlTypes
    <2>7. s \notin queue' /\ epoll'[s] = "none" /\ batch' \subseteq batch /\ state'[s] # "UNINITIALIZED"
      BY <1>3, <2>1, <2>2, ZenonT(60)
    <2> QED BY <1>1, <1>2, <1>4, <2>1, <2>2, <2>3, <2>4, <2>5, <2>6, <2>7, TypeParts, AcquireIInv, Zenon
  <1>5. CASE fatal' \in {"null_session", "no_request_buffer"} /\ UNCHANGED <<state, cur, pc>>
    BY <1>3, <1>5, DieIInv DEF data
  <1> QED BY <1>4, <1>5, Zenon DEF on_client_request_arrival

\* The request is read, or not all of it, or answered with an error.
LEMMA ReceivingIInv ==
    ASSUME IInv, on_client_request_receiving
    PROVE  IInv'
  <1>1. Listener \in Thread /\ pc[Listener] = "recv"
    BY ZenonT(60) DEF on_client_request_receiving, Thread
  <1>2. cur[Listener] # NULL
    BY <1>1 DEF IInv, ThreadAt
  <1>3. PICK s \in Session : /\ cur[Listener] = s /\ ControlTypes /\ SessionAt(s) /\ ThreadAt(Listener)
                             /\ s \notin queue /\ s \notin batch /\ epoll[s] = "none"
    BY <1>1, <1>2, HeldIs, Zenon
  <1>4. state[s] = "RECEIVING_REQUEST" /\ s # NULL
    BY <1>1, <1>3, SessionNames, ZenonT(60) DEF ThreadAt
  <1>5. UNCHANGED <<epoll, queue, batch, accepting, fatal>>
    BY DEF on_client_request_receiving
  <1>6. CASE state' = [state EXCEPT ![s] = "RECEIVED_REQUEST"] /\ Goto(Listener, "received") /\ UNCHANGED data
    <2>1. pc' = [pc EXCEPT ![Listener] = "received"] /\ UNCHANGED cur
      BY <1>6, ZenonT(60) DEF Goto
    <2>2. pc'[Listener] = "received" /\ state'[s] = "RECEIVED_REQUEST" => ThreadAt(Listener)'
      BY <1>3, <1>4, <2>1, ZenonT(60) DEF ThreadAt
    <2>3. pc'[Listener] = "received" /\ state'[s] = "RECEIVED_REQUEST" => SessionAt(s)'
      BY <1>3, <1>4, <1>5, <1>6, ZenonT(60) DEF SessionAt, data, Fresh, InHeader, InBody
    <2>4. "received" \in PC /\ "RECEIVED_REQUEST" \in HttpState \ {"UNINITIALIZED"}
      BY DEF PC, HttpState
    <2> QED BY <1>1, <1>3, <1>5, <1>6, <2>1, <2>2, <2>3, <2>4, MoveIInv, Zenon
  <1>7. CASE UNCHANGED <<state, data>> /\ Goto(Listener, "register")
    <2>1. /\ pc' = [pc EXCEPT ![Listener] = "register"] /\ UNCHANGED cur
          /\ state' = [state EXCEPT ![s] = "RECEIVING_REQUEST"] /\ state' = state
      BY <1>3, <1>4, <1>7, ZenonT(60) DEF Goto, ControlTypes
    <2>2. pc'[Listener] = "register" /\ state'[s] = "RECEIVING_REQUEST" => ThreadAt(Listener)'
      BY <1>3, <1>4, <2>1, ZenonT(60) DEF ThreadAt
    <2>3. SessionAt(s)'
      BY <1>3, <1>5, <1>7, <2>1, Zenon DEF SessionAt, data
    <2>4. "register" \in PC /\ "RECEIVING_REQUEST" \in HttpState \ {"UNINITIALIZED"}
      BY DEF PC, HttpState
    <2> QED BY <1>1, <1>3, <1>5, <1>7, <2>1, <2>2, <2>3, <2>4, MoveIInv, Zenon
  <1>8. CASE Respond(Listener, s, 0)
    <2>1. 0 \in 0..MaxBody /\ state[s] \in Fresh /\ state[s] # "UNINITIALIZED"
      BY <1>4, SessionBounds DEF Fresh
    <2> QED BY <1>1, <1>3, <1>5, <1>8, <2>1, RespondIInv, Zenon
  <1> QED BY <1>3, <1>6, <1>7, <1>8, Zenon DEF on_client_request_receiving

\* The listener answers, or gives the session to the request queue.
LEMMA ReceivedIInv ==
    ASSUME IInv, fatal = "none", on_client_request_received
    PROVE  IInv'
  <1>1. Listener \in Thread /\ pc[Listener] = "received"
    BY ZenonT(60) DEF on_client_request_received, Thread
  <1>2. cur[Listener] # NULL
    BY <1>1 DEF IInv, ThreadAt
  <1>3. PICK s \in Session : /\ cur[Listener] = s /\ ControlTypes /\ DataTypes /\ SessionAt(s) /\ ThreadAt(Listener)
                             /\ s \notin queue /\ s \notin batch /\ epoll[s] = "none"
    BY <1>1, <1>2, HeldIs, Zenon
  <1>4. state[s] = "RECEIVED_REQUEST" /\ s # NULL
    BY <1>1, <1>3, SessionNames, ZenonT(60) DEF ThreadAt
  <1>5. UNCHANGED <<epoll, batch, accepting>>
    BY DEF on_client_request_received
  <1>6. CASE Respond(Listener, s, 0) /\ UNCHANGED <<queue, fatal>>
    <2>1. 0 \in 0..MaxBody /\ state[s] \in Fresh /\ state[s] # "UNINITIALIZED"
      BY <1>4, SessionBounds DEF Fresh
    <2> QED BY <1>1, <1>3, <1>5, <1>6, <2>1, RespondIInv, Zenon
  <1>7. ASSUME state' = [state EXCEPT ![s] = "EXECUTING"], UNCHANGED data,
               \/ queue' = queue \cup {s} /\ Return(Listener) /\ UNCHANGED fatal
               \/ fatal' = "sandbox_free" /\ UNCHANGED <<queue, pc, cur>>
        PROVE  IInv'
    <2>1. UNCHANGED <<header, header_written, body, body_written, got, broken>>
      BY <1>7, ZenonT(60) DEF data
    <2>2. state'[s] = "EXECUTING" /\ state' \in [Session -> HttpState] /\ \A r \in Session \ {s} : SameAt(r)
      BY <1>3, <1>7, <2>1, ZenonT(60) DEF ControlTypes, HttpState, SameAt
    <2>3. DataTypes'
      BY <1>3, <2>1, ZenonT(60) DEF DataTypes
    <2>4. SessionAt(s)'
      BY <1>3, <1>4, <1>5, <2>1, <2>2, ZenonT(60) DEF SessionAt, Fresh, InHeader, InBody
    <2>5. CASE queue' = queue \cup {s} /\ Return(Listener) /\ UNCHANGED fatal
      <3>1. pc' \in [Thread -> PC] /\ cur' \in [Thread -> Session \cup {NULL}]
        BY <1>1, <1>3, <2>5, ReturnIs, Zenon
      <3>2. ControlTypes'
        BY <1>3, <1>5, <2>2, <2>5, <3>1, ZenonT(60) DEF ControlTypes
      <3>3. \A r \in Session \ {s} : SameAt(r) /\ epoll'[r] = epoll[r] /\ (r \in queue' <=> r \in queue)
        BY <1>5, <2>2, <2>5, ZenonT(60)
      <3>4. state'[s] # "UNINITIALIZED" /\ s \in queue' /\ epoll'[s] = "none"
        BY <1>3, <1>5, <2>2, <2>5
      <3> QED BY <1>1, <1>3, <1>5, <2>3, <2>4, <2>5, <3>2, <3>3, <3>4, TypeParts, ReleaseIInv, Zenon
    <2>6. CASE fatal' = "sandbox_free" /\ UNCHANGED <<queue, pc, cur>>
      <3>1. ControlTypes'
        BY <1>3, <1>5, <2>2, <2>6, ZenonT(60) DEF ControlTypes
      <3>2. ThreadAt(Listener)'
        BY <1>1, <1>3, <2>6, ZenonT(60) DEF ThreadAt
      <3>3. state'[s] # "UNINITIALIZED" /\ \A u \in Thread \ {Listener} : pc'[u] = pc[u]
        BY <2>2, <2>6
      <3> QED BY <1>1, <1>3, <1>5, <2>2, <2>3, <2>4, <2>6, <3>1, <3>2, <3>3, TypeParts, OwnStep, Zenon
    <2> QED BY <1>7, <2>5, <2>6, ZenonT(60)
  <1> QED BY <1>3, <1>6, <1>7, Zenon DEF on_client_request_received

\* A step of a thread on the session it holds.
LEMMA SessionStepIInv ==
    ASSUME IInv, NEW t \in Thread, SessionStep(t)
    PROVE  IInv'
  <1>1. CASE Register(t)
    <2>1. /\ UNCHANGED <<data, queue, batch, accepting, fatal>>
          /\ \/ /\ pc[t] = "register" /\ state' = [state EXCEPT ![cur[t]] = BlockedState(@)]
                /\ Goto(t, "epoll_ctl") /\ UNCHANGED epoll
             \/ /\ pc[t] = "epoll_ctl" /\ epoll' = [epoll EXCEPT ![cur[t]] = Interest(state[cur[t]])]
                /\ Return(t) /\ UNCHANGED state
      BY <1>1, Zenon DEF Register, listener_thread_register_http_session
    <2> QED BY <2>1, MarkIInv, ParkIInv, Zenon
  <1>2. CASE Send(t)
    BY <1>2, SendHeaderIInv, SendBodyIInv, SendFailsIInv, SentIInv, Zenon DEF Send
  <1>3. CASE Close(t)
    BY <1>3, CloseIInv
  <1>4. CASE Free(t)
    BY <1>4, FreeIInv
  <1> QED BY <1>1, <1>2, <1>3, <1>4 DEF SessionStep

\* Any step.
LEMMA NextIInv ==
    ASSUME IInv, [Next]_vars
    PROVE  IInv'
  <1>1. CASE UNCHANGED vars
    <2>1. UNCHANGED <<state, epoll, header, header_written, body, body_written, got, broken,
                      queue, pc, cur, batch, accepting, fatal>>
      BY <1>1 DEF vars, data
    <2>2. ControlTypes /\ DataTypes /\ OneHolder
      BY TypeParts, ZenonT(60) DEF IInv
    <2>3. ControlTypes' /\ DataTypes' /\ OneHolder'
      BY <2>1, <2>2, HolderFrame, ZenonT(60) DEF ControlTypes, DataTypes
    <2>4. ASSUME NEW u \in Thread PROVE ThreadAt(u)'
      BY <2>1, OtherThread, ZenonT(60) DEF SameAt
    <2>5. ASSUME NEW s \in Session PROVE SessionAt(s)'
      BY <2>1, OtherSession, ZenonT(60) DEF SameAt
    <2> QED BY <2>1, <2>3, <2>4, <2>5, TypeParts, ZenonT(60) DEF IInv
  <1>2. CASE Next
    <2>1. fatal = "none"
      BY <1>2 DEF Next
    <2>2. CASE ListenerStep
      BY <2>1, <2>2, LoopIInv, EventIInv, ArrivalIInv, ReceivingIInv, ReceivedIInv, Zenon DEF ListenerStep
    <2>3. ASSUME NEW w \in Worker, WorkerStep(w) PROVE IInv'
      BY <2>3, FinishIInv, DequeueIInv, Zenon DEF WorkerStep
    <2>4. ASSUME NEW t \in Thread, SessionStep(t) PROVE IInv'
      BY <2>4, SessionStepIInv
    <2> QED BY <1>2, <2>2, <2>3, <2>4, Zenon DEF Next
  <1> QED BY <1>1, <1>2, ZenonT(60)

-----------------------------------------------------------------------------
(***************************************************************************)
(* The theorems.                                                           *)
(***************************************************************************)
\* The inductive invariant.
THEOREM SessionInvariant == Spec => []IInv
  BY InitIInv, NextIInv, PTL DEF Spec

\* A live session has one holder, a thread, the request queue or epoll, and no address is leaked:
\* the pointer that epoll_ctl or the queue publishes is not used by the thread that published it.
THEOREM SessionsHaveOneHolder == Spec => []OneHolder
  <1>1. IInv => OneHolder
    BY DEF IInv
  <1> QED BY <1>1, SessionInvariant, PTL

\* on_client_socket_epoll_event is never called for a session that was resumed or freed since
\* epoll_wait returned, and its panic is not reached.
THEOREM EventsStayFresh == Spec => []EventsAreFresh
  <1>1. IInv => EventsAreFresh
    <2> SUFFICES ASSUME IInv PROVE EventsAreFresh
      BY ZenonT(60)
    <2>1. ASSUME NEW s \in batch \cap Session
          PROVE  epoll[s] # "none" /\ state[s] \in Blocked /\ epoll[s] = Interest(state[s])
      <3>1. SessionAt(s)
        BY DEF IInv
      <3> QED BY <3>1 DEF SessionAt
    <2> QED BY <2>1 DEF EventsAreFresh, IInv
  <1> QED BY <1>1, SessionInvariant, PTL

\* The client receives the bytes of the response in order and each once, whatever the lengths of
\* the writes and of the response, and whichever threads write.
THEOREM BytesArriveInOrder == Spec => []InOrder
  <1>1. IInv => InOrder
    <2> SUFFICES ASSUME IInv, NEW s \in Session PROVE got[s] = Bytes(1, Len(got[s]))
      BY DEF InOrder
    <2> DEFINE n == header_written[s] + body_written[s]
    <2>1. SessionAt(s) /\ DataTypes
      BY TypeParts, ZenonT(60) DEF IInv
    <2>2. n \in Nat /\ got[s] = Bytes(1, n)
      BY <2>1 DEF DataTypes, SessionAt
    <2> HIDE DEF n
    <2>3. Len(got[s]) = n
      BY <2>2, BytesIs
    <2> QED BY <2>2, <2>3
  <1> QED BY <1>1, SessionInvariant, PTL

\* Only http_session_free frees a session.
LEMMA OnlyFree ==
    ASSUME IInv, Next, NEW s \in Session, state[s] # "UNINITIALIZED", state'[s] = "UNINITIALIZED"
    PROVE  \E t \in Thread : Free(t) /\ cur[t] = s
  <1>1. ControlTypes
    BY TypeParts DEF IInv
  <1> HIDE DEF IInv
  <1>2. ASSUME NEW r, NEW v, v # "UNINITIALIZED", state' = [state EXCEPT ![r] = v] PROVE FALSE
    BY <1>1, <1>2 DEF ControlTypes
  <1>3. ASSUME NEW t, NEW r, NEW b, Respond(t, r, b) PROVE FALSE
    BY <1>2, <1>3, Zenon DEF Respond
  <1>4. CASE ListenerStep
    <2>1. ASSUME NEW r \in Session, on_client_socket_epoll_event(r) PROVE FALSE
      <3>1. CASE state[r] \in Blocked
        <4>1. Resume(r)[1] # "UNINITIALIZED"
          BY <3>1, ZenonT(60) DEF Resume, Blocked
        <4> QED BY <1>2, <2>1, <3>1, <4>1, Zenon DEF on_client_socket_epoll_event
      <3>2. CASE state[r] \notin Blocked
        BY <2>1, <3>2, ZenonT(60) DEF on_client_socket_epoll_event
      <3> QED BY <3>1, <3>2
    <2>2. CASE EpollWait \/ on_tenant_socket_epoll_event \/ AcceptDone
      BY <2>2 DEF EpollWait, on_tenant_socket_epoll_event, AcceptDone
    <2>3. CASE on_client_request_arrival
      BY <1>2, <2>3, Zenon DEF on_client_request_arrival
    <2>4. CASE on_client_request_receiving
      BY <1>2, <1>3, <2>4, Zenon DEF on_client_request_receiving
    <2>5. CASE on_client_request_received
      BY <1>2, <1>3, <2>5, Zenon DEF on_client_request_received
    <2> QED BY <1>4, <2>1, <2>2, <2>3, <2>4, <2>5, ZenonT(60) DEF ListenerStep
  <1>5. ASSUME NEW w \in Worker, WorkerStep(w) PROVE FALSE
    BY <1>3, <1>5, Zenon DEF WorkerStep, Finish, Dequeue
  <1>6. ASSUME NEW t \in Thread, SessionStep(t) PROVE Free(t) /\ cur[t] = s
    <2>1. CASE Register(t)
      <3>1. CASE pc[t] = "register"
        <4>1. state[cur[t]] \in {"RECEIVING_REQUEST", "SENDING_RESPONSE_HEADER", "SENDING_RESPONSE_BODY"}
          BY <3>1 DEF IInv, ThreadAt
        <4>2. BlockedState(state[cur[t]]) # "UNINITIALIZED"
          BY <4>1, ZenonT(60) DEF BlockedState
        <4>3. state' = [state EXCEPT ![cur[t]] = BlockedState(state[cur[t]])]
          BY <2>1, <3>1, ZenonT(60) DEF Register, listener_thread_register_http_session
        <4> QED BY <1>2, <4>2, <4>3, Zenon
      <3>2. CASE pc[t] # "register"
        BY <2>1, <3>2 DEF Register, listener_thread_register_http_session
      <3> QED BY <3>1, <3>2
    <2>2. CASE Send(t)
      BY <1>2, <2>2, Zenon DEF Send, SendHeader, SendBody, SendFails, HeaderSent, BodySent
    <2>3. CASE Close(t)
      BY <2>3, ZenonT(60) DEF Close
    <2>4. CASE Free(t)
      BY <1>1, <2>4 DEF Free, ControlTypes
    <2> QED BY <1>6, <2>1, <2>2, <2>3, <2>4, ZenonT(60) DEF SessionStep
  <1> QED BY <1>4, <1>5, <1>6, Zenon DEF Next

\* A session whose connection did not fail is freed only when the client has one header and the
\* whole body, although the response is sent in pieces by several threads.
THEOREM ResponsesAreWhole == Spec => WholeResponse
  <1> DEFINE Whole == \A s \in Session : state[s] # "UNINITIALIZED" /\ state'[s] = "UNINITIALIZED" /\ ~broken[s]
                                             => Len(got[s]) = HeaderLength + body[s]
  <1>1. IInv /\ [Next]_vars => [Whole]_vars
    <2> SUFFICES ASSUME IInv, Next, NEW s \in Session,
                        state[s] # "UNINITIALIZED", state'[s] = "UNINITIALIZED", ~broken[s]
                 PROVE  Len(got[s]) = HeaderLength + body[s]
      BY ZenonT(60)
    <2>1. PICK t \in Thread : Free(t) /\ cur[t] = s
      BY OnlyFree, ZenonT(60)
    <2>2. pc[t] = "free"
      BY <2>1, ZenonT(60) DEF Free
    <2>3. state[s] = "SENT_RESPONSE_BODY"
      BY <2>1, <2>2, ZenonT(60) DEF IInv, ThreadAt
    <2>4. DataTypes /\ SessionAt(s)
      BY TypeParts, ZenonT(60) DEF IInv
    <2> DEFINE n == header_written[s] + body_written[s]
    <2>5. n \in Nat /\ n = HeaderLength + body[s] /\ got[s] = Bytes(1, n)
      BY <2>3, <2>4 DEF SessionAt, DataTypes, InBody
    <2> HIDE DEF n
    <2> QED BY <2>5, BytesIs, ZenonT(60)
  <1> QED BY <1>1, SessionInvariant, PTL DEF Spec, WholeResponse

=============================================================================
