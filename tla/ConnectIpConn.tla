----------------------------- MODULE ConnectIpConn -----------------------------
(***************************************************************************)
(* Conn of connect-ip/conn.go: the goroutine that reads capsules from the  *)
(* control stream, the one that writes them, and the callers of            *)
(* AssignAddresses and AdvertiseRoute (senders), of LocalPrefixes and      *)
(* Routes (takers) and of Close (closers).                                 *)
(*                                                                         *)
(* closeErr and closeChan are set together under mu and the users of       *)
(* closeErr have seen closeChan closed, so one variable stands for both.   *)
(* Addresses and routes are treated alike and are two Kinds.  Packets are  *)
(* left out; the contents of a capsule is one of a few values.             *)
(***************************************************************************)
EXTENDS Naturals

CONSTANTS
    ControlCapsules,  \* supportsControlCapsules: HTTP/3
    Kinds,            \* addresses, routes
    Senders, Takers, Closers,
    NoSender,         \* of a request whose caller gave up
    Values,           \* what a capsule can say, Nothing (an empty list) included or not
    Nothing           \* what is known before the first one

ASSUME ConnAssumption ==
    /\ ControlCapsules \in BOOLEAN
    /\ Kinds # {} /\ "idle" \notin Kinds
    /\ NoSender \notin Senders

VARIABLES
    session,    \* the QUIC connection lives
    sendOpen,   \* the sending side of the control stream is open
    recvOpen,   \* reading the control stream has not been cancelled
    closeErr,   \* "none", or who closed: "local", "remote"
    reader,     \* program counter of readFromStream's goroutine
    stored,     \* the kind it stored last
    received,   \* kind -> value of assignedAddresses, availableRoutes
    notify,     \* kind -> tokens in its notification channel
    writer,     \* program counter of writeToStream's goroutine
    req,        \* the request it took last: its caller, kind, value
    call,       \* sender -> idle, in the select of sendCapsule, waiting for the result
    what,       \* sender -> kind and value of its call
    result,     \* sender -> what is in its result channel
    own,        \* kind -> value of peerAddresses, localRoutes
    told,       \* kind -> value in the last capsule written
    taker,      \* taker -> idle, or the kind it holds a token of
    closer,     \* closer -> program counter of Close
    seen,       \* kind -> value a taker returned last
    unsure      \* kinds whose latest call failed or met another one

streamVars == <<session, sendOpen, recvOpen>>
readerVars == <<reader, stored, received>>
writerVars == <<writer, req, told>>
callVars   == <<call, what, own>>
takerVars  == <<taker, seen>>
vars == <<streamVars, closeErr, readerVars, notify, writerVars, result, callVars,
          takerVars, closer, unsure>>

\* The assignedAddressNotify and availableRoutesNotify channels.
NotifyCap == 1

Contents == Values \cup {Nothing}

\* The locals of a call that is not running, of a writer that has no request.
None == [kind |-> CHOOSE k \in Kinds : TRUE, value |-> Nothing]
NoReq == [from |-> NoSender, kind |-> None.kind, value |-> None.value]

TypeOK ==
    /\ session \in BOOLEAN /\ sendOpen \in BOOLEAN /\ recvOpen \in BOOLEAN
    /\ closeErr \in {"none", "local", "remote"}
    /\ reader \in {"off", "parse", "notify", "failed", "done"}
    /\ stored \in Kinds
    /\ received \in [Kinds -> Contents]
    /\ notify \in [Kinds -> 0 .. NotifyCap]
    /\ writer \in {"off", "select", "write", "failed", "done"}
    /\ req \in [from : Senders \cup {NoSender}, kind : Kinds, value : Contents]
    /\ call \in [Senders -> {"idle", "offer", "await"}]
    /\ what \in [Senders -> [kind : Kinds, value : Contents]]
    /\ result \in [Senders -> {"none", "ok", "failed"}]
    /\ own \in [Kinds -> Contents] /\ told \in [Kinds -> Contents]
    /\ taker \in [Takers -> {"idle"} \cup Kinds]
    /\ closer \in [Closers -> {"start", "closing", "done"}]
    /\ seen \in [Kinds -> Contents]
    /\ unsure \in SUBSET Kinds

Init ==
    /\ session = TRUE /\ sendOpen = TRUE /\ recvOpen = TRUE
    /\ closeErr = "none"
    /\ reader = IF ControlCapsules THEN "parse" ELSE "off"
    /\ writer = IF ControlCapsules THEN "select" ELSE "off"
    /\ stored = None.kind /\ req = NoReq
    /\ what = [s \in Senders |-> None]
    /\ received = [k \in Kinds |-> Nothing]
    /\ notify = [k \in Kinds |-> 0]
    /\ call = [s \in Senders |-> "idle"]
    /\ result = [s \in Senders |-> "none"]
    /\ own = [k \in Kinds |-> Nothing] /\ told = [k \in Kinds |-> Nothing]
    /\ taker = [t \in Takers |-> "idle"]
    /\ closer = [c \in Closers |-> "start"]
    /\ seen = [k \in Kinds |-> Nothing]
    /\ unsure = {}

-------------------------------------------------------------------------------
\* Variant: whoever closes does not look whether someone has before.
CloseWithAlways(reason) == closeErr' = reason

\* if c.closeErr == nil { c.closeErr = ...; close(c.closeChan) }
CloseWith(reason) == closeErr' = IF closeErr = "none" THEN reason ELSE closeErr

\* The QUIC connection ends.
SessionEnds ==
    /\ session
    /\ session' = FALSE
    /\ UNCHANGED <<sendOpen, recvOpen, closeErr, readerVars, notify, writerVars, result,
                   callVars, takerVars, closer, unsure>>

-------------------------------------------------------------------------------
(* readFromStream.                                                         *)

unchangedByReader == <<session, recvOpen, writerVars, result, callVars, takerVars,
                       closer, unsure>>

\* A capsule with an assignment or with routes replaces what is stored.
ReaderStores(k, value) ==
    /\ reader = "parse" /\ session /\ recvOpen
    /\ received' = [received EXCEPT ![k] = value]
    /\ stored' = k
    /\ reader' = "notify"
    /\ UNCHANGED <<unchangedByReader, sendOpen, closeErr, notify>>

\* Variant: the channel is notified even when it is full.
NotifyUnbounded(k) == notify' = [notify EXCEPT ![k] = @ + 1]

\* Variant: only a first assignment is announced.
NotifyFirst(k) ==
    notify' = [notify EXCEPT ![k] = IF @ < NotifyCap /\ seen[k] = Nothing THEN @ + 1 ELSE @]

\* A send that does not wait: dropped if a token is there already.
Notify(k) == notify' = [notify EXCEPT ![k] = IF @ < NotifyCap THEN @ + 1 ELSE @]

ReaderNotifies ==
    /\ reader = "notify"
    /\ Notify(stored)
    /\ reader' = "parse" /\ stored' = None.kind
    /\ UNCHANGED <<unchangedByReader, sendOpen, closeErr, received>>

\* The stream ends, or a capsule is malformed, not supported or not known.  The
\* deferred str.Close closes the sending side.
ReaderFails ==
    /\ reader = "parse"
    /\ sendOpen' = FALSE
    /\ reader' = "failed"
    /\ UNCHANGED <<unchangedByReader, closeErr, notify, stored, received>>

ReaderCloses ==
    /\ reader = "failed"
    /\ CloseWith("remote")
    /\ reader' = "done"
    /\ UNCHANGED <<unchangedByReader, sendOpen, notify, stored, received>>

-------------------------------------------------------------------------------
(* writeToStream.                                                          *)

unchangedByWriter == <<streamVars, readerVars, notify, callVars, takerVars, closer, unsure>>

\* Variant: the writer returns before it answers that it failed.
ReplySuccess(outcome) ==
    result' = [s \in Senders |-> IF s = req.from /\ outcome = "ok" THEN "ok" ELSE result[s]]

\* req.result <- err: the channel has room for it and may have no reader left.
Reply(outcome) ==
    result' = [s \in Senders |-> IF s = req.from THEN outcome ELSE result[s]]

WriteSucceeds ==
    /\ writer = "write" /\ session /\ sendOpen
    /\ told' = [told EXCEPT ![req.kind] = req.value]
    /\ Reply("ok")
    /\ writer' = "select" /\ req' = NoReq
    /\ UNCHANGED <<unchangedByWriter, closeErr>>

\* The session or the stream is closed, or the peer refuses to read.
WriteFails ==
    /\ writer = "write"
    /\ Reply("failed")
    /\ writer' = "failed" /\ req' = NoReq
    /\ UNCHANGED <<unchangedByWriter, closeErr, told>>

\* Variant: a failed writer leaves the connection open.
WriterLeaves ==
    /\ writer = "failed"
    /\ writer' = "done"
    /\ UNCHANGED <<unchangedByWriter, closeErr, req, told, result>>

WriterCloses ==
    /\ writer = "failed"
    /\ CloseWith("remote")
    /\ writer' = "done"
    /\ UNCHANGED <<unchangedByWriter, req, told, result>>

\* It sees closeChan closed; to close again changes nothing.
WriterStops ==
    /\ writer = "select" /\ closeErr # "none"
    /\ writer' = "done"
    /\ UNCHANGED <<unchangedByWriter, closeErr, req, told, result>>

-------------------------------------------------------------------------------
(* AssignAddresses and AdvertiseRoute, with the sendCapsule they end in.   *)

unchangedBySender == <<streamVars, closeErr, readerVars, notify, told, takerVars, closer>>

\* Senders whose call of kind k has not returned, and the request of one that
\* gave up while the writer has it.
InProgress(k) == {s \in Senders : call[s] # "idle" /\ what[s].kind = k}
Abandoned(k)  == writer = "write" /\ req.from = NoSender /\ req.kind = k

\* Variant: what was assigned before is kept.
StoreOnce(k, value) == own' = [own EXCEPT ![k] = IF @ = Nothing THEN value ELSE @]

\* Each call overwrites what the one before it stored.
Store(k, value) == own' = [own EXCEPT ![k] = value]

\* The value is stored before it is offered.  Without control capsules the call
\* fails at once, after that.  Routes that AdvertiseRoute refuses change nothing.
StartCall(s, k, value) ==
    /\ call[s] = "idle"
    /\ what' = [what EXCEPT ![s] = IF ControlCapsules THEN [kind |-> k, value |-> value] ELSE @]
    /\ Store(k, value)
    /\ call' = [call EXCEPT ![s] = IF ControlCapsules THEN "offer" ELSE "idle"]
    /\ unsure' = IF ~ControlCapsules \/ InProgress(k) # {} \/ Abandoned(k)
                 THEN unsure \cup {k} ELSE unsure \ {k}
    /\ UNCHANGED <<unchangedBySender, writer, req, result>>

\* The writer receives from the unbuffered channel writes.
HandOver(s) ==
    /\ call[s] = "offer" /\ writer = "select"
    /\ req' = [from |-> s, kind |-> what[s].kind, value |-> what[s].value]
    /\ writer' = "write"
    /\ call' = [call EXCEPT ![s] = "await"]
    /\ UNCHANGED <<unchangedBySender, what, own, result, unsure>>

\* The call ends with an error or without.
Return(s, failed) ==
    /\ call' = [call EXCEPT ![s] = "idle"]
    /\ what' = [what EXCEPT ![s] = None]
    /\ unsure' = IF failed THEN unsure \cup {what[s].kind} ELSE unsure
    /\ UNCHANGED <<unchangedBySender, writer, own>>

GetResult(s) ==
    /\ call[s] = "await" /\ result[s] # "none"
    /\ result' = [result EXCEPT ![s] = "none"]
    /\ Return(s, result[s] = "failed")
    /\ UNCHANGED req

SeeClosed(s) ==
    /\ call[s] = "offer" /\ closeErr # "none"
    /\ Return(s, TRUE)
    /\ UNCHANGED <<req, result>>

\* ctx is done.  The result channel of the call is forgotten with what it holds or
\* will hold.
GiveUp(s) ==
    /\ call[s] \in {"offer", "await"}
    /\ Return(s, TRUE)
    /\ result' = [result EXCEPT ![s] = "none"]
    /\ req' = IF req.from = s THEN [req EXCEPT !.from = NoSender] ELSE req

-------------------------------------------------------------------------------
(* LocalPrefixes and Routes.  Calls that end because of ctx or closeChan   *)
(* change nothing.                                                         *)

unchangedByTaker == <<streamVars, closeErr, readerVars, writerVars, result, callVars,
                      closer, unsure>>

TakeToken(t, k) ==
    /\ taker[t] = "idle" /\ notify[k] > 0
    /\ notify' = [notify EXCEPT ![k] = @ - 1]
    /\ taker' = [taker EXCEPT ![t] = k]
    /\ UNCHANGED <<unchangedByTaker, seen>>

\* Lock mu and return what is stored.
ReturnStored(t) ==
    /\ taker[t] # "idle"
    /\ seen' = [seen EXCEPT ![taker[t]] = received[taker[t]]]
    /\ taker' = [taker EXCEPT ![t] = "idle"]
    /\ UNCHANGED <<unchangedByTaker, notify>>

-------------------------------------------------------------------------------
(* Close, which may be called again at any time.                           *)

unchangedByCloser == <<session, readerVars, notify, writerVars, result, callVars,
                       takerVars, unsure>>

CloseMarks(c) ==
    /\ closer[c] = "start"
    /\ CloseWith("local")
    /\ closer' = [closer EXCEPT ![c] = "closing"]
    /\ UNCHANGED <<unchangedByCloser, sendOpen, recvOpen>>

\* str.CancelRead and str.Close
CloseStream(c) ==
    /\ closer[c] = "closing"
    /\ recvOpen' = FALSE /\ sendOpen' = FALSE
    /\ closer' = [closer EXCEPT ![c] = "done"]
    /\ UNCHANGED <<unchangedByCloser, closeErr>>

-------------------------------------------------------------------------------
ReaderStoresAny == \E k \in Kinds, value \in Values : ReaderStores(k, value)

Reader == ReaderNotifies \/ ReaderFails \/ ReaderCloses \/ ReaderStoresAny
Writer == WriteSucceeds \/ WriteFails \/ WriterCloses \/ WriterStops
Sender(s) ==
    \/ \E k \in Kinds, value \in Values : StartCall(s, k, value)
    \/ HandOver(s) \/ GetResult(s) \/ SeeClosed(s) \/ GiveUp(s)
Taker(t) == (\E k \in Kinds : TakeToken(t, k)) \/ ReturnStored(t)
Closer(c) == CloseMarks(c) \/ CloseStream(c)

Next ==
    \/ SessionEnds \/ Reader \/ Writer
    \/ \E s \in Senders : Sender(s)
    \/ \E t \in Takers : Taker(t)
    \/ \E c \in Closers : Closer(c)

Spec == Init /\ [][Next]_vars

\* Steps the goroutines take by themselves.  A blocked write is only owed an end
\* once the session is over, and nothing is owed a capsule, a call or a context
\* that ends.
ReaderRuns == ReaderNotifies \/ ReaderCloses \/ (ReaderFails /\ ~(session /\ recvOpen))
WriterRuns == (WriteFails /\ ~session) \/ WriterCloses \/ WriterStops

Fairness ==
    /\ WF_vars(ReaderRuns)
    /\ WF_vars(WriterRuns)
    /\ \A s \in Senders : WF_vars(GetResult(s) \/ SeeClosed(s))

FairSpec == Spec /\ Fairness

-------------------------------------------------------------------------------
(* Properties.                                                             *)

\* A taker that waits misses no update: if the latest is not what was returned
\* last, a token is there, or about to be, or in the hands of a taker that will
\* look.  One token may stand for several updates.
NoLostNotification ==
    \A k \in Kinds :
        received[k] # seen[k] =>
            \/ notify[k] > 0
            \/ reader = "notify" /\ stored = k
            \/ \E t \in Takers : taker[t] = k

\* sendCapsule never offers a request for ever to nobody: when the writer has
\* gone the connection is closed.
OffersEnd == writer = "done" => closeErr # "none"

\* What the filter for incoming packets was told and what the peer was told are
\* the same once a call that met no other one of its kind has succeeded.
SidesAgree ==
    \A k \in Kinds :
        k \notin unsure /\ InProgress(k) = {} /\ ~Abandoned(k) => told[k] = own[k]

\* closeErr as Tunnel counts on it: it is set once and keeps its reason, and over
\* HTTP/3 datagrams that no longer arrive soon mean a CloseError.
Life == INSTANCE ConnLife WITH
    life <- IF session /\ recvOpen
            THEN IF closeErr = "none" THEN "open" ELSE "half"
            ELSE IF closeErr = "none" THEN "broken" ELSE "closed",
    reason <- closeErr

ImplementsLife == Life!Spec

\* After the session has ended closeErr is set, which Tunnel's fairness counts on,
\* both goroutines end, and every call of a sender returns, its context done or not.
AllEnd ==
    /\ ControlCapsules /\ ~session ~> closeErr # "none"
    /\ ~session ~> (reader \in {"off", "done"} /\ writer \in {"off", "done"})
    /\ \A s \in Senders : (~session /\ call[s] # "idle") ~> (call[s] = "idle")
===============================================================================
