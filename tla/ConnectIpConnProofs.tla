-------------------------- MODULE ConnectIpConnProofs --------------------------
(***************************************************************************)
(* For any senders, takers, closers, kinds and contents of capsules, with  *)
(* control capsules or without: the safety of ConnectIpConn, and that it   *)
(* implements ConnLife.                                                    *)
(*                                                                         *)
(* The two properties that take more than types are SidesAgree, which      *)
(* rests on who may hold the one request the writer works on (Requests)    *)
(* and on there being one call alone behind a kind that is sure (Alone),   *)
(* and the refinement, which rests on Close marking before it closes.      *)
(*                                                                         *)
(* And, for any width of address: rangeToPrefixes of IPRange covers the    *)
(* range, by induction over the rounds that its loop has still to make.    *)
(***************************************************************************)
EXTENDS ConnectIpConn, IPRange, FiniteSetTheorems, WellFoundedInduction, TLAPS

\* A result is only there for a caller that waits for it, and the writer's
\* request is that of a caller that waits and has none.
Requests ==
    /\ \A s \in Senders : result[s] # "none" => call[s] = "await"
    /\ writer = "write" /\ req.from # NoSender =>
           /\ call[req.from] = "await" /\ result[req.from] = "none"
           /\ what[req.from] = [kind |-> req.kind, value |-> req.value]
    /\ writer # "write" => req.from = NoSender

\* Behind a kind that is sure is at most one call, which is the latest one.
Alone ==
    \A k \in Kinds \ unsure :
        /\ ~Abandoned(k)
        /\ \A s \in InProgress(k) :
               /\ \A t \in InProgress(k) : t = s
               /\ what[s].value = own[k]
               /\ result[s] = "ok" => told[k] = own[k]

\* Close sets closeErr before it touches the stream.
Marked ==
    /\ \A c \in Closers : closer[c] # "start" => closeErr # "none"
    /\ ~recvOpen => closeErr # "none"

IInv ==
    /\ TypeOK /\ Requests /\ Alone /\ Marked
    /\ NoLostNotification /\ OffersEnd /\ SidesAgree

-------------------------------------------------------------------------------
\* What stands for no call and no request has the type of one.
LEMMA NoneType ==
    /\ None \in [kind : Kinds, value : Contents]
    /\ NoReq \in [from : Senders \cup {NoSender}, kind : Kinds, value : Contents]
    /\ NoReq.from = NoSender
  <1>1. None.kind \in Kinds
    BY ConnAssumption DEF None
  <1>2. None.value \in Contents
    BY DEF None, Contents
  <1>3. None = [kind |-> None.kind, value |-> None.value]
    BY DEF None
  <1>4. None \in [kind : Kinds, value : Contents]
    BY <1>1, <1>2, <1>3
  <1> QED
    BY <1>1, <1>2, <1>4 DEF NoReq

\* The initial states satisfy the invariant.
LEMMA InitIInv == Init => IInv
  <1> SUFFICES ASSUME Init
               PROVE  IInv
    OBVIOUS
  <1> USE NoneType
  <1>1. TypeOK
    BY ConnAssumption DEF Init, TypeOK, NotifyCap, Contents
  <1>2. Requests
    BY DEF Init, Requests
  <1>3. Alone /\ SidesAgree
    BY DEF Init, Alone, SidesAgree, InProgress, Abandoned
  <1>4. Marked /\ NoLostNotification /\ OffersEnd
    BY DEF Init, Marked, NoLostNotification, OffersEnd
  <1> QED
    BY <1>1, <1>2, <1>3, <1>4 DEF IInv

\* Every step preserves the types.
LEMMA TypeStep == TypeOK /\ [Next]_vars => TypeOK'
  <1> SUFFICES ASSUME TypeOK, [Next]_vars
               PROVE  TypeOK'
    OBVIOUS
  <1> USE NoneType DEF TypeOK
  <1>1. CASE SessionEnds
    <2>1. UNCHANGED <<sendOpen, recvOpen, closeErr, readerVars, notify, writerVars>>
      BY <1>1 DEF SessionEnds
    <2>2. UNCHANGED <<result, callVars, takerVars, closer, unsure>> /\ session' \in BOOLEAN
      BY <1>1 DEF SessionEnds
    <2> QED
      BY <2>1, <2>2 DEF readerVars, writerVars, callVars, takerVars
  <1>2. CASE Reader
    <2> USE DEF unchangedByReader, writerVars, callVars, takerVars
    <2>1. CASE ReaderStoresAny
      BY <2>1 DEF ReaderStoresAny, ReaderStores, Contents
    <2>2. CASE ReaderNotifies
      BY <2>2 DEF ReaderNotifies, Notify, NotifyCap
    <2>3. CASE ReaderFails
      BY <2>3 DEF ReaderFails
    <2>4. CASE ReaderCloses
      BY <2>4 DEF ReaderCloses, CloseWith
    <2> QED
      BY <1>2, <2>1, <2>2, <2>3, <2>4 DEF Reader
  <1>3. CASE Writer
    <2> USE DEF unchangedByWriter, streamVars, readerVars, callVars, takerVars
    <2>1. CASE WriteSucceeds
      BY <2>1 DEF WriteSucceeds, Reply
    <2>2. CASE WriteFails
      BY <2>2 DEF WriteFails, Reply
    <2>3. CASE WriterCloses
      BY <2>3 DEF WriterCloses, CloseWith
    <2>4. CASE WriterStops
      BY <2>4 DEF WriterStops
    <2> QED
      BY <1>3, <2>1, <2>2, <2>3, <2>4 DEF Writer
  <1>4. ASSUME NEW s \in Senders, Sender(s)
        PROVE  TypeOK'
    <2> USE DEF unchangedBySender, streamVars, readerVars, takerVars
    <2>1. ASSUME NEW k \in Kinds, NEW value \in Values, StartCall(s, k, value)
          PROVE  TypeOK'
      BY <2>1 DEF StartCall, Store, Contents
    <2>2. CASE HandOver(s)
      BY <2>2 DEF HandOver
    <2>3. CASE GetResult(s)
      BY <2>3 DEF GetResult, Return
    <2>4. CASE SeeClosed(s)
      BY <2>4 DEF SeeClosed, Return
    <2>5. CASE GiveUp(s)
      BY <2>5 DEF GiveUp, Return
    <2> QED
      BY <1>4, <2>1, <2>2, <2>3, <2>4, <2>5 DEF Sender
  <1>5. ASSUME NEW t \in Takers, Taker(t)
        PROVE  TypeOK'
    <2> USE DEF unchangedByTaker, streamVars, readerVars, writerVars, callVars
    <2>1. ASSUME NEW k \in Kinds, TakeToken(t, k)
          PROVE  TypeOK'
      BY <2>1 DEF TakeToken, NotifyCap
    <2>2. CASE ReturnStored(t)
      BY <2>2 DEF ReturnStored
    <2> QED
      BY <1>5, <2>1, <2>2 DEF Taker
  <1>6. ASSUME NEW c \in Closers, Closer(c)
        PROVE  TypeOK'
    <2> USE DEF unchangedByCloser, readerVars, writerVars, callVars, takerVars
    <2>1. CASE CloseMarks(c)
      BY <2>1 DEF CloseMarks, CloseWith
    <2>2. CASE CloseStream(c)
      BY <2>2 DEF CloseStream
    <2> QED
      BY <1>6, <2>1, <2>2 DEF Closer
  <1>7. CASE UNCHANGED vars
    BY <1>7 DEF vars, streamVars, readerVars, writerVars, callVars, takerVars
  <1> QED
    BY <1>1, <1>2, <1>3, <1>4, <1>5, <1>6, <1>7 DEF Next

\* Only the writer and the senders touch what Requests speaks of.
LEMMA RequestsStep == TypeOK /\ Requests /\ [Next]_vars => Requests'
  <1> SUFFICES ASSUME TypeOK, Requests, [Next]_vars
               PROVE  Requests'
    OBVIOUS
  <1> USE NoneType, ConnAssumption DEF TypeOK, Requests
  <1>1. CASE UNCHANGED <<writerVars, result, callVars>>
    BY <1>1 DEF writerVars, callVars
  <1>2. CASE Writer
    <2> USE DEF unchangedByWriter, callVars
    <2>1. CASE WriteSucceeds \/ WriteFails
      BY <2>1 DEF WriteSucceeds, WriteFails, Reply
    <2>2. CASE WriterCloses \/ WriterStops
      BY <2>2 DEF WriterCloses, WriterStops
    <2> QED
      BY <1>2, <2>1, <2>2 DEF Writer
  <1>3. ASSUME NEW s \in Senders, Sender(s)
        PROVE  Requests'
    <2>1. ASSUME NEW k \in Kinds, NEW value \in Values, StartCall(s, k, value)
          PROVE  Requests'
      BY <2>1 DEF StartCall, Store
    <2>2. CASE HandOver(s)
      BY <2>2 DEF HandOver
    <2>3. CASE GetResult(s)
      BY <2>3 DEF GetResult, Return
    <2>4. CASE SeeClosed(s)
      BY <2>4 DEF SeeClosed, Return
    <2>5. CASE GiveUp(s)
      BY <2>5 DEF GiveUp, Return
    <2> QED
      BY <1>3, <2>1, <2>2, <2>3, <2>4, <2>5 DEF Sender
  <1>4. CASE SessionEnds \/ Reader
    <2>1. UNCHANGED <<writerVars, result, callVars>>
      BY <1>4 DEF SessionEnds, Reader, ReaderStoresAny, ReaderStores, ReaderNotifies,
                  ReaderFails, ReaderCloses, unchangedByReader
    <2> QED
      BY <1>1, <2>1
  <1>5. ASSUME NEW t \in Takers, Taker(t)
        PROVE  UNCHANGED <<writerVars, result, callVars>>
    BY <1>5 DEF Taker, TakeToken, ReturnStored, unchangedByTaker
  <1>6. ASSUME NEW c \in Closers, Closer(c)
        PROVE  UNCHANGED <<writerVars, result, callVars>>
    BY <1>6 DEF Closer, CloseMarks, CloseStream, unchangedByCloser
  <1>7. CASE UNCHANGED vars
    BY <1>1, <1>7 DEF vars
  <1> QED
    BY <1>1, <1>2, <1>3, <1>4, <1>5, <1>6, <1>7 DEF Next

\* closeErr is set once and for ever, and is set when the writer is gone and
\* when reading has been cancelled.
LEMMA ClosingStep ==
    TypeOK /\ Marked /\ OffersEnd /\ [Next]_vars =>
        /\ closeErr # "none" => closeErr' = closeErr
        /\ Marked' /\ OffersEnd'
  <1> SUFFICES ASSUME TypeOK, Marked, OffersEnd, [Next]_vars
               PROVE  /\ closeErr # "none" => closeErr' = closeErr
                      /\ Marked' /\ OffersEnd'
    OBVIOUS
  <1> USE DEF TypeOK, Marked, OffersEnd
  <1>1. CASE Reader \/ SessionEnds
    BY <1>1 DEF SessionEnds, Reader, ReaderStoresAny, ReaderStores, ReaderNotifies,
                ReaderFails, ReaderCloses, CloseWith, unchangedByReader, writerVars
  <1>2. CASE Writer
    BY <1>2 DEF Writer, WriteSucceeds, WriteFails, WriterCloses, WriterStops, CloseWith,
                unchangedByWriter, streamVars
  <1>3. ASSUME NEW s \in Senders, Sender(s)
        PROVE  UNCHANGED <<closeErr, recvOpen, closer>> /\ (writer' = "done" <=> writer = "done")
    BY <1>3 DEF Sender, StartCall, HandOver, GetResult, SeeClosed, GiveUp, Return,
                unchangedBySender, streamVars
  <1>4. ASSUME NEW t \in Takers, Taker(t)
        PROVE  UNCHANGED <<closeErr, recvOpen, closer, writer>>
    BY <1>4 DEF Taker, TakeToken, ReturnStored, unchangedByTaker, streamVars, writerVars
  <1>5. ASSUME NEW c \in Closers, Closer(c)
        PROVE  /\ closeErr # "none" => closeErr' = closeErr
               /\ Marked' /\ OffersEnd'
    BY <1>5 DEF Closer, CloseMarks, CloseStream, CloseWith, unchangedByCloser, writerVars
  <1>6. CASE UNCHANGED vars
    BY <1>6 DEF vars, streamVars, writerVars
  <1> QED
    BY <1>1, <1>2, <1>3, <1>4, <1>5, <1>6 DEF Next

\* A store is followed by the reader's notification, a token by the taker that
\* removed it.
LEMMA NotificationStep == TypeOK /\ NoLostNotification /\ [Next]_vars => NoLostNotification'
  <1> SUFFICES ASSUME TypeOK, NoLostNotification, [Next]_vars
               PROVE  NoLostNotification'
    OBVIOUS
  <1> USE DEF TypeOK, NoLostNotification
  <1>1. CASE UNCHANGED <<readerVars, notify, takerVars>>
    BY <1>1 DEF readerVars, takerVars
  <1>2. CASE Reader
    <2> USE DEF unchangedByReader, takerVars
    <2>1. CASE ReaderStoresAny
      BY <2>1 DEF ReaderStoresAny, ReaderStores
    <2>2. CASE ReaderNotifies
      BY <2>2 DEF ReaderNotifies, Notify, NotifyCap
    <2>3. CASE ReaderFails \/ ReaderCloses
      BY <2>3 DEF ReaderFails, ReaderCloses
    <2> QED
      BY <1>2, <2>1, <2>2, <2>3 DEF Reader
  <1>3. ASSUME NEW t \in Takers, Taker(t)
        PROVE  NoLostNotification'
    <2> USE DEF unchangedByTaker, readerVars
    <2>1. ASSUME NEW k \in Kinds, TakeToken(t, k)
          PROVE  NoLostNotification'
      BY <2>1, ConnAssumption DEF TakeToken
    <2>2. CASE ReturnStored(t)
      BY <2>2 DEF ReturnStored
    <2> QED
      BY <1>3, <2>1, <2>2 DEF Taker
  <1>4. CASE SessionEnds \/ Writer
    BY <1>1, <1>4 DEF SessionEnds, Writer, WriteSucceeds, WriteFails, WriterCloses,
                      WriterStops, unchangedByWriter
  <1>5. ASSUME NEW s \in Senders, Sender(s)
        PROVE  UNCHANGED <<readerVars, notify, takerVars>>
    BY <1>5 DEF Sender, StartCall, HandOver, GetResult, SeeClosed, GiveUp, Return,
                unchangedBySender, readerVars, takerVars
  <1>6. ASSUME NEW c \in Closers, Closer(c)
        PROVE  UNCHANGED <<readerVars, notify, takerVars>>
    BY <1>6 DEF Closer, CloseMarks, CloseStream, unchangedByCloser
  <1>7. CASE UNCHANGED vars
    BY <1>1, <1>7 DEF vars
  <1> QED
    BY <1>1, <1>2, <1>3, <1>4, <1>5, <1>6, <1>7 DEF Next

\* A call makes its kind sure only if it finds no other one, a call that does not
\* succeed makes it unsure, and the writer tells the peer what the one call behind
\* a kind that is sure has stored.
LEMMA AloneStep ==
    TypeOK /\ Requests /\ Alone /\ SidesAgree /\ [Next]_vars => Alone' /\ SidesAgree'
  <1> SUFFICES ASSUME TypeOK, Requests, Alone, SidesAgree, [Next]_vars
               PROVE  Alone' /\ SidesAgree'
    OBVIOUS
  <1> USE ConnAssumption, NoneType DEF TypeOK, Requests, Alone, SidesAgree, InProgress, Abandoned
  <1>1. CASE UNCHANGED <<writerVars, result, callVars, unsure>>
    BY <1>1 DEF writerVars, callVars
  <1>2. CASE Writer
    <2> USE DEF unchangedByWriter, callVars
    <2>1. CASE WriteSucceeds
      BY <2>1 DEF WriteSucceeds, Reply
    <2>2. CASE WriteFails
      BY <2>2 DEF WriteFails, Reply
    <2>3. CASE WriterCloses \/ WriterStops
      BY <2>3 DEF WriterCloses, WriterStops
    <2> QED
      BY <1>2, <2>1, <2>2, <2>3 DEF Writer
  <1>3. ASSUME NEW s \in Senders, Sender(s)
        PROVE  Alone' /\ SidesAgree'
    <2> USE DEF unchangedBySender
    <2>1. ASSUME NEW k \in Kinds, NEW value \in Values, StartCall(s, k, value)
          PROVE  Alone' /\ SidesAgree'
      <3>1. CASE ControlCapsules
        <4>1. Alone'
          <5> SUFFICES ASSUME NEW j \in Kinds, j \notin unsure'
                       PROVE  /\ ~Abandoned(j)'
                              /\ \A r \in InProgress(j)' :
                                     /\ \A t \in InProgress(j)' : t = r
                                     /\ what'[r].value = own'[j]
                                     /\ result'[r] = "ok" => told'[j] = own'[j]
            BY DEF Alone
          <5>1. CASE j = k
            <6>1. InProgress(k)' = {s} /\ what'[s].value = value /\ own'[k] = value
              BY <2>1, <3>1, <5>1 DEF StartCall, Store
            <6>2. ~Abandoned(k)' /\ result'[s] = "none"
              BY <2>1, <3>1, <5>1 DEF StartCall, Store
            <6> QED
              BY <5>1, <6>1, <6>2
          <5>2. CASE j # k
            <6>1. InProgress(j)' = InProgress(j) /\ s \notin InProgress(j)
              BY <2>1, <3>1, <5>2 DEF StartCall, Store
            <6>2. /\ Abandoned(j)' <=> Abandoned(j)
                  /\ own'[j] = own[j] /\ j \notin unsure
                  /\ UNCHANGED <<result, told>>
                  /\ \A r \in InProgress(j) : what'[r] = what[r]
              BY <2>1, <3>1, <5>2, <6>1 DEF StartCall, Store
            <6> QED
              BY <6>1, <6>2
          <5> QED
            BY <5>1, <5>2
        <4>2. SidesAgree'
          BY <2>1, <3>1 DEF StartCall, Store
        <4> QED
          BY <4>1, <4>2
      <3>2. CASE ~ControlCapsules
        BY <2>1, <3>2 DEF StartCall, Store
      <3> QED
        BY <3>1, <3>2
    <2>2. CASE HandOver(s)
      BY <2>2 DEF HandOver
    <2>3. CASE GetResult(s)
      BY <2>3 DEF GetResult, Return
    <2>4. CASE SeeClosed(s)
      BY <2>4 DEF SeeClosed, Return
    <2>5. CASE GiveUp(s)
      BY <2>5 DEF GiveUp, Return
    <2> QED
      BY <1>3, <2>1, <2>2, <2>3, <2>4, <2>5 DEF Sender
  <1>4. CASE SessionEnds \/ Reader
    <2>1. UNCHANGED <<writerVars, result, callVars, unsure>>
      BY <1>4 DEF SessionEnds, Reader, ReaderStoresAny, ReaderStores, ReaderNotifies,
                  ReaderFails, ReaderCloses, unchangedByReader
    <2> QED
      BY <1>1, <2>1
  <1>5. ASSUME NEW t \in Takers, Taker(t)
        PROVE  UNCHANGED <<writerVars, result, callVars, unsure>>
    BY <1>5 DEF Taker, TakeToken, ReturnStored, unchangedByTaker
  <1>6. ASSUME NEW c \in Closers, Closer(c)
        PROVE  UNCHANGED <<writerVars, result, callVars, unsure>>
    BY <1>6 DEF Closer, CloseMarks, CloseStream, unchangedByCloser
  <1>7. CASE UNCHANGED vars
    BY <1>1, <1>7 DEF vars
  <1> QED
    BY <1>1, <1>2, <1>3, <1>4, <1>5, <1>6, <1>7 DEF Next

-------------------------------------------------------------------------------
\* IInv holds in every reachable state.
THEOREM IInvHolds == Spec => []IInv
  <1>1. IInv /\ [Next]_vars => IInv'
    BY TypeStep, RequestsStep, ClosingStep, NotificationStep, AloneStep DEF IInv
  <1> QED
    BY InitIInv, <1>1, PTL DEF Spec

\* Every reachable state has its type: a notification channel holds at most one token.
THEOREM TypeCorrect == Spec => []TypeOK
  <1>1. IInv => TypeOK
    BY DEF IInv
  <1> QED
    BY IInvHolds, <1>1, PTL

\* No taker that waits can miss the latest assignment or the latest routes.
THEOREM NoNotificationIsLost == Spec => []NoLostNotification
  <1>1. IInv => NoLostNotification
    BY DEF IInv
  <1> QED
    BY IInvHolds, <1>1, PTL

\* Once the writer is gone closeErr is set, so that no sender is left with its offer.
THEOREM OffersAreRefused == Spec => []OffersEnd
  <1>1. IInv => OffersEnd
    BY DEF IInv
  <1> QED
    BY IInvHolds, <1>1, PTL

\* After a call that was alone and succeeded, the filter and the peer agree.
THEOREM SidesDoAgree == Spec => []SidesAgree
  <1>1. IInv => SidesAgree
    BY DEF IInv
  <1> QED
    BY IInvHolds, <1>1, PTL

-------------------------------------------------------------------------------
\* The connection lives the life that Tunnel assumes of it.
THEOREM Implements == Spec => ImplementsLife
  <1> USE DEF Life!lifeVars
  <1>1. Init => Life!Init
    BY DEF Init, Life!Init
  <1>2. IInv /\ [Next]_vars => [Life!Next]_Life!lifeVars
    <2> SUFFICES ASSUME IInv, [Next]_vars
                 PROVE  [Life!Next]_Life!lifeVars
      OBVIOUS
    <2> USE DEF Life!Next, Life!SessionLost, Life!LossNoticed, Life!HalfClose, Life!Ended
    <2>1. TypeOK /\ Marked
      BY DEF IInv
    <2>2. CASE UNCHANGED <<streamVars, closeErr>>
      BY <2>2 DEF streamVars
    <2>3. CASE SessionEnds
      BY <2>1, <2>3 DEF SessionEnds, TypeOK, Marked
    <2>4. CASE Reader
      <3>1. UNCHANGED <<session, recvOpen>> /\ (closeErr' = closeErr \/ CloseWith("remote"))
        BY <2>4 DEF Reader, ReaderStoresAny, ReaderStores, ReaderNotifies, ReaderFails,
                    ReaderCloses, unchangedByReader
      <3> QED
        BY <2>1, <3>1 DEF CloseWith, TypeOK, Marked
    <2>5. CASE Writer
      <3>1. UNCHANGED <<session, recvOpen>> /\ (closeErr' = closeErr \/ CloseWith("remote"))
        BY <2>5 DEF Writer, WriteSucceeds, WriteFails, WriterCloses, WriterStops,
                    unchangedByWriter, streamVars
      <3> QED
        BY <2>1, <3>1 DEF CloseWith, TypeOK, Marked
    <2>6. ASSUME NEW s \in Senders, Sender(s)
          PROVE  UNCHANGED <<streamVars, closeErr>>
      BY <2>6 DEF Sender, StartCall, HandOver, GetResult, SeeClosed, GiveUp, Return,
                  unchangedBySender
    <2>7. ASSUME NEW t \in Takers, Taker(t)
          PROVE  UNCHANGED <<streamVars, closeErr>>
      BY <2>7 DEF Taker, TakeToken, ReturnStored, unchangedByTaker
    <2>8. ASSUME NEW c \in Closers, Closer(c)
          PROVE  [Life!Next]_Life!lifeVars
      <3>1. CASE CloseMarks(c)
        BY <2>1, <3>1 DEF CloseMarks, CloseWith, unchangedByCloser, TypeOK, Marked
      <3>2. CASE CloseStream(c)
        BY <2>1, <3>2 DEF CloseStream, unchangedByCloser, TypeOK, Marked
      <3> QED
        BY <2>8, <3>1, <3>2 DEF Closer
    <2>9. CASE UNCHANGED vars
      BY <2>2, <2>9 DEF vars
    <2> QED
      BY <2>2, <2>3, <2>4, <2>5, <2>6, <2>7, <2>8, <2>9 DEF Next
  <1> QED
    BY IInvHolds, <1>1, <1>2, PTL DEF Spec, ImplementsLife, Life!Spec

-------------------------------------------------------------------------------
\* Induction, over a set of numbers.
LEMMA Induction ==
    ASSUME NEW T, 0 \in T, \A n \in Nat : n \in T => n + 1 \in T
    PROVE  Nat \subseteq T
  <1> SUFFICES ASSUME Nat \ T # {}
               PROVE  FALSE
    OBVIOUS
  <1>1. \E n \in Nat \ T : \A m \in Nat \ T : ~(m < n)
    <2>1. PICK n \in Nat \ T : \A m \in Nat \ T : ~(<<m, n>> \in OpToRel(<, Nat))
      BY NatLessThanWellFounded, WFMin
    <2>2. \A m \in Nat \ T : ~(m < n)
      BY <2>1 DEF OpToRel
    <2>3. n \in Nat \ T
      BY <2>1
    <2> QED
      BY <2>2, <2>3
  <1>2. PICK n \in Nat \ T : \A m \in Nat \ T : ~(m < n)
    BY <1>1
  <1>3. n - 1 \in Nat /\ n - 1 < n
    BY <1>2
  <1>4. n - 1 \in T
    BY <1>2, <1>3
  <1>5. (n - 1) + 1 = n
    BY <1>2
  <1> QED
    BY <1>2, <1>3, <1>4, <1>5

\* The number of subsets of n things.
LEMMA PowersOfTwo == \A n \in Nat : 2^n \in Nat \ {0}
  <1> TAKE n \in Nat
  <1>1. IsFiniteSet(1 .. n) /\ Cardinality(1 .. n) = n
    BY FS_Interval
  <1>2. IsFiniteSet(SUBSET (1 .. n)) /\ Cardinality(SUBSET (1 .. n)) = 2^n
    BY <1>1, FS_SUBSET
  <1>3. Cardinality(SUBSET (1 .. n)) \in Nat
    BY <1>2, FS_CardinalityType
  <1>4. Cardinality(SUBSET (1 .. n)) # 0
    BY <1>2, FS_EmptySet
  <1> QED
    BY <1>2, <1>3, <1>4

LEMMA HostSizes ==
    /\ \A len \in 0 .. AddressBits : HostSize(len) \in Nat \ {0}
    /\ HostSize(AddressBits) = 1
  <1>1. \A len \in 0 .. AddressBits : AddressBits - len \in Nat
    BY AddressAssumption
  <1>2. AddressBits - AddressBits = 0
    BY AddressAssumption
  <1>3. 2^0 = 1
    OBVIOUS
  <1> QED
    BY <1>1, <1>2, <1>3, PowersOfTwo DEF HostSize

\* What has the same quotient as a multiple of h is one of the h numbers from it on.
LEMMA Blocks ==
    ASSUME NEW h \in Nat \ {0}, NEW addr \in Nat, addr % h = 0
    PROVE  /\ (addr \div h) * h = addr
           /\ \A a \in Nat : a \div h = addr \div h <=> addr <= a /\ a <= addr + h - 1
  <1>1. \A a \in Nat : a \div h \in Nat /\ a % h \in 0 .. h - 1
    OBVIOUS
  <1>2. ASSUME NEW a \in Nat
        PROVE  \E d \in Nat, r \in 0 .. h - 1 : d = a \div h /\ r = a % h /\ a = h * d + r
    <2>1. a - (a \div h) * h = a % h
      OBVIOUS
    <2>2. PICK d \in Nat, r \in 0 .. h - 1 : d = a \div h /\ r = a % h
      BY <1>1
    <2>3. a - d * h = r
      BY <2>1, <2>2
    <2>4. a = h * d + r
      BY <2>3
    <2> QED
      BY <2>2, <2>4
  <1> DEFINE q == addr \div h
  <1>3. q \in Nat /\ addr = h * q
    BY <1>1, <1>2
  <1> HIDE DEF q
  <1>4. ASSUME NEW a \in Nat, NEW d \in Nat, NEW r \in 0 .. h - 1, a = h * d + r
        PROVE  d = q <=> addr <= a /\ a <= addr + h - 1
    <2>1. CASE d = q
      BY <1>3, <1>4, <2>1
    <2>2. CASE d < q
      <3>1. d + 1 <= q
        BY <1>3, <2>2
      <3>2. h * (d + 1) <= h * q
        BY <1>3, <3>1
      <3>3. h * (d + 1) = h * d + h /\ h * d \in Nat /\ h * q \in Nat
        BY <1>3
      <3> QED
        BY <1>3, <1>4, <2>2, <3>2, <3>3
    <2>3. CASE d > q
      <3>1. q + 1 <= d
        BY <1>3, <2>3
      <3>2. h * (q + 1) <= h * d
        BY <1>3, <3>1
      <3>3. h * (q + 1) = h * q + h /\ h * d \in Nat /\ h * q \in Nat
        BY <1>3
      <3> QED
        BY <1>3, <1>4, <2>3, <3>2, <3>3
    <2> QED
      BY <1>3, <2>1, <2>2, <2>3
  <1>5. q * h = addr
    BY <1>3
  <1>6. \A a \in Nat : a \div h = q <=> addr <= a /\ a <= addr + h - 1
    BY <1>1, <1>2, <1>4
  <1> QED
    BY <1>5, <1>6 DEF q

\* The addresses of a prefix that begins at its first one.
LEMMA AlignedMembers ==
    ASSUME NEW addr \in Nat, NEW len \in 0 .. AddressBits, IsAligned(addr, len)
    PROVE  /\ LastIPInPrefix(addr, len) = addr + HostSize(len) - 1
           /\ LastIPInPrefix(addr, len) \in Nat /\ addr <= LastIPInPrefix(addr, len)
           /\ LastIPInPrefix(addr, len) \in Addresses =>
                  Members([addr |-> addr, len |-> len]) = addr .. LastIPInPrefix(addr, len)
  <1> DEFINE h == HostSize(len)
             last == LastIPInPrefix(addr, len)
  <1>1. h \in Nat \ {0} /\ addr % h = 0
    BY HostSizes DEF IsAligned
  <1>2. last = (addr \div h) * h + h - 1
    BY DEF LastIPInPrefix
  <1>3. Members([addr |-> addr, len |-> len]) = {a \in Addresses : a \div h = addr \div h}
    BY DEF Members
  <1>4. Addresses = 0 .. 2^AddressBits - 1 /\ 2^AddressBits \in Nat
    BY PowersOfTwo, AddressAssumption DEF Addresses
  <1> HIDE DEF h, last
  <1>5. /\ (addr \div h) * h = addr
        /\ \A a \in Nat : a \div h = addr \div h <=> addr <= a /\ a <= addr + h - 1
    BY <1>1, Blocks
  <1>6. last = addr + h - 1
    BY <1>1, <1>2, <1>5
  <1>7. last \in Nat /\ addr <= last
    BY <1>1, <1>6
  <1>8. ASSUME last \in Addresses
        PROVE  {a \in Addresses : a \div h = addr \div h} = addr .. last
    <2>1. \A a \in Addresses : a \in Nat
      BY <1>4
    <2>2. \A a \in addr .. last : a \in Addresses
      BY <1>4, <1>7, <1>8
    <2>3. \A a \in Addresses : a \div h = addr \div h <=> a \in addr .. last
      BY <1>5, <1>6, <1>7, <2>1
    <2> QED
      BY <2>2, <2>3
  <1> QED
    BY <1>3, <1>6, <1>7, <1>8 DEF h, last
\* The loop of findLargestPrefix stops, and at a prefix that fits.
LEMMA LargestPrefix ==
    ASSUME NEW start \in Nat, NEW end \in Nat, start <= end
    PROVE  /\ FindLargestPrefix(start, end) \in 0 .. AddressBits
           /\ LastIPInPrefix(start, FindLargestPrefix(start, end)) <= end
           /\ IsAligned(start, FindLargestPrefix(start, end))
  <1> DEFINE fits(l) == LastIPInPrefix(start, l) <= end /\ IsAligned(start, l)
             ends(len) == (\A l \in len .. AddressBits - 1 : fits(l)) /\ (len > 0 => ~fits(len - 1))
  <1>1. AddressBits \in 0 .. AddressBits
    BY AddressAssumption
  <1>2. fits(AddressBits)
    <2>1. IsAligned(start, AddressBits)
      BY HostSizes DEF IsAligned
    <2>2. LastIPInPrefix(start, AddressBits) = start + HostSize(AddressBits) - 1
      BY <1>1, <2>1, AlignedMembers
    <2> QED
      BY <2>1, <2>2, HostSizes
  <1>3. CASE start = end
    BY <1>1, <1>2, <1>3 DEF FindLargestPrefix
  <1>4. CASE start # end
    <2> HIDE DEF fits
    <2>1. \E len \in 0 .. AddressBits : ends(len)
      <3> SUFFICES ASSUME \A len \in 0 .. AddressBits : ~ends(len)
                   PROVE  FALSE
        OBVIOUS
      <3> DEFINE all(len) == \A l \in len .. AddressBits - 1 : fits(l)
                 T == {n \in Nat : n <= AddressBits => all(AddressBits - n)}
      <3>1. 0 \in T
        BY AddressAssumption
      <3>2. ASSUME NEW n \in Nat, n \in T
            PROVE  n + 1 \in T
        <4>1. SUFFICES ASSUME n + 1 <= AddressBits
                       PROVE  all(AddressBits - (n + 1))
          OBVIOUS
        <4> DEFINE len == AddressBits - n
        <4>2. len \in 0 .. AddressBits /\ len > 0 /\ AddressBits - (n + 1) = len - 1
          BY <4>1, AddressAssumption
        <4>3. all(len)
          BY <3>2, <4>1, AddressAssumption
        <4> HIDE DEF len
        <4>4. fits(len - 1)
          BY <4>2, <4>3
        <4>5. all(len - 1)
          BY <4>2, <4>3, <4>4, AddressAssumption
        <4> QED
          BY <4>2, <4>5
      <3>3. all(AddressBits - AddressBits)
        <4> HIDE DEF all
        <4>1. AddressBits \in T
          BY <3>1, <3>2, Induction, AddressAssumption
        <4> QED
          BY <4>1, AddressAssumption
      <3>4. all(0) /\ 0 \in 0 .. AddressBits
        BY <3>3, AddressAssumption
      <3> QED
        BY <3>4
    <2>2. FindLargestPrefix(start, end) = CHOOSE len \in 0 .. AddressBits : ends(len)
      BY <1>4 DEF FindLargestPrefix, fits
    <2> DEFINE n == FindLargestPrefix(start, end)
    <2>3. n \in 0 .. AddressBits /\ ends(n)
      BY <2>1, <2>2
    <2> HIDE DEF n
    <2>4. fits(n)
      <3>1. CASE n = AddressBits
        BY <1>2, <3>1
      <3>2. CASE n # AddressBits
        <4>1. n \in n .. AddressBits - 1
          BY <2>3, <3>2, AddressAssumption
        <4> QED
          BY <2>3, <4>1
      <3> QED
        BY <3>1, <3>2
    <2> QED
      BY <2>3, <2>4 DEF n, fits
  <1> QED
    BY <1>3, <1>4

\* The loop of rangeToPrefixes, as a function of the function it is made with.
Loop(f, start, end) ==
    [current \in start .. end |->
        LET len  == FindLargestPrefix(current, end)
            last == LastIPInPrefix(current, len)
        IN  <<[addr |-> current, len |-> len]>> \o (IF last >= end THEN <<>> ELSE f[last + 1])]

\* There is a function that the loop makes of itself: it goes on upwards only.
LEMMA LoopExists ==
    ASSUME NEW start \in Nat, NEW end \in Nat
    PROVE  \E f : f = Loop(f, start, end)
  <1> DEFINE Upto(f, n) ==
                 [current \in start .. end |->
                     IF current + n > end THEN Loop(f, start, end)[current] ELSE <<>>]
             T == {n \in Nat : \E f : f = Upto(f, n)}
  <1>1. 0 \in T
    <2> DEFINE f == [current \in start .. end |-> <<>>]
    <2>1. f = Upto(f, 0)
      <3>1. \A current \in start .. end : ~(current + 0 > end)
        OBVIOUS
      <3> QED
        BY <3>1
    <2> QED
      BY <2>1
  <1>2. ASSUME NEW n \in Nat, n \in T
        PROVE  n + 1 \in T
    <2>1. PICK f : f = Upto(f, n)
      BY <1>2
    <2> DEFINE g == Upto(f, n + 1)
    <2>2. ASSUME NEW current \in start .. end, current + (n + 1) > end
          PROVE  Loop(f, start, end)[current] = Loop(g, start, end)[current]
      <3> DEFINE len  == FindLargestPrefix(current, end)
                 last == LastIPInPrefix(current, len)
      <3>1. current \in Nat /\ current <= end
        OBVIOUS
      <3>2. last \in Nat /\ current <= last
        BY <3>1, LargestPrefix, AlignedMembers
      <3> HIDE DEF len, last
      <3>3. ASSUME ~(last >= end)
            PROVE  f[last + 1] = g[last + 1]
        <4>1. last + 1 \in start .. end /\ last + 1 + n > end /\ last + 1 + (n + 1) > end
          BY <2>2, <3>2, <3>3
        <4>2. f[last + 1] = Loop(f, start, end)[last + 1]
          BY <2>1, <4>1
        <4>3. g[last + 1] = Loop(f, start, end)[last + 1]
          BY <4>1
        <4> QED
          BY <4>2, <4>3
      <3> HIDE DEF g
      <3>4. \A x : Loop(x, start, end)[current]
                     = <<[addr |-> current, len |-> len]>>
                         \o (IF last >= end THEN <<>> ELSE x[last + 1])
        BY DEF Loop, len, last
      <3> QED
        BY <3>3, <3>4
    <2>3. g = Upto(g, n + 1)
      <3>1. \A current \in start .. end : g[current] = Upto(g, n + 1)[current]
        <4> TAKE current \in start .. end
        <4>1. CASE current + (n + 1) > end
          BY <2>2, <4>1
        <4>2. CASE ~(current + (n + 1) > end)
          BY <4>2
        <4> QED
          BY <4>1, <4>2
      <3> QED
        BY <3>1
    <2> HIDE DEF g, Upto
    <2> QED
      BY <2>3
  <1>3. end + 1 \in T
    <2> HIDE DEF Upto
    <2> QED
      BY <1>1, <1>2, Induction
  <1>4. PICK f : f = Upto(f, end + 1)
    BY <1>3
  <1>5. \A current \in start .. end : current + (end + 1) > end
    OBVIOUS
  <1>6. f = [current \in start .. end |-> Loop(f, start, end)[current]]
    BY <1>4, <1>5
  <1>7. Loop(f, start, end) = [current \in start .. end |-> Loop(f, start, end)[current]]
    BY DEF Loop
  <1> QED
    BY <1>6, <1>7

Prefixes == [addr : Nat, len : 0 .. AddressBits]

\* One more prefix in front covers what the others cover, and its own addresses.
LEMMA CoverOneMore ==
    ASSUME NEW p \in Prefixes, NEW rest \in Seq(Prefixes),
           NEW current \in Nat, NEW last \in Nat, NEW end \in Nat, current <= last,
           Members(p) = current .. last,
           \/ rest = <<>> /\ last = end
           \/ last < end /\ Cover(rest, last + 1, end)
    PROVE  /\ <<p>> \o rest \in Seq(Prefixes)
           /\ Cover(<<p>> \o rest, current, end)
  <1> DEFINE s == <<p>> \o rest
  <1>1. s \in Seq(Prefixes) /\ Len(s) = 1 + Len(rest) /\ Len(rest) \in Nat
    OBVIOUS
  <1>2. s[1] = p /\ \A i \in 2 .. Len(s) : s[i] = rest[i - 1]
    OBVIOUS
  <1>3. DOMAIN s = {1} \cup 2 .. Len(s) /\ DOMAIN rest = 1 .. Len(rest)
    BY <1>1
  <1>4. \A i \in 2 .. Len(s) : i - 1 \in DOMAIN rest
    BY <1>1, <1>3
  <1>5. \A i \in DOMAIN rest : i + 1 \in 2 .. Len(s) /\ s[i + 1] = rest[i]
    BY <1>1, <1>2, <1>3
  <1> DEFINE others == UNION {Members(rest[i]) : i \in DOMAIN rest}
  <1>6. others = last + 1 .. end
    BY DEF Cover
  <1>7. \A i, j \in DOMAIN rest : i # j => Members(rest[i]) \cap Members(rest[j]) = {}
    BY DEF Cover
  <1>8. \A i \in DOMAIN rest : Members(rest[i]) \subseteq others
    OBVIOUS
  <1> HIDE DEF s, others
  <1>9. UNION {Members(s[i]) : i \in DOMAIN s} = Members(p) \cup others
    BY <1>2, <1>3, <1>4, <1>5 DEF others
  <1>10. (current .. last) \cup (last + 1 .. end) = current .. end
    OBVIOUS
  <1>11. (current .. last) \cap (last + 1 .. end) = {}
    OBVIOUS
  <1>12. ASSUME NEW i \in DOMAIN s, NEW j \in DOMAIN s, i # j
         PROVE  Members(s[i]) \cap Members(s[j]) = {}
    <2>1. CASE i = 1
      BY <1>2, <1>3, <1>4, <1>6, <1>8, <1>11, <1>12, <2>1
    <2>2. CASE j = 1
      BY <1>2, <1>3, <1>4, <1>6, <1>8, <1>11, <1>12, <2>2
    <2>3. CASE i # 1 /\ j # 1
      <3>1. i - 1 # j - 1 /\ i - 1 \in DOMAIN rest /\ j - 1 \in DOMAIN rest
        BY <1>1, <1>3, <1>4, <1>12, <2>3
      <3> QED
        BY <1>2, <1>3, <1>7, <2>3, <3>1
    <2> QED
      BY <2>1, <2>2, <2>3
  <1> QED
    BY <1>1, <1>6, <1>9, <1>10, <1>12 DEF Cover, s

\* The prefixes that rangeToPrefixes returns cover the range, for any width of address.
THEOREM PrefixesCover ==
    ASSUME NEW start \in Addresses, NEW end \in Addresses, start <= end
    PROVE  /\ RangeToPrefixes(start, end) \in Seq(Prefixes)
           /\ Cover(RangeToPrefixes(start, end), start, end)
  <1> DEFINE from == CHOOSE f : f = Loop(f, start, end)
  <1>1. Addresses \subseteq Nat /\ \A a \in Nat : a <= end => a \in Addresses
    BY PowersOfTwo, AddressAssumption DEF Addresses
  <1>2. start \in Nat /\ end \in Nat
    BY <1>1
  <1>3. RangeToPrefixes(start, end) = from[start]
    BY DEF RangeToPrefixes, Loop
  <1>4. from = Loop(from, start, end)
    BY <1>2, LoopExists
  <1> HIDE DEF from
  <1> DEFINE Right(current) == from[current] \in Seq(Prefixes) /\ Cover(from[current], current, end)
             T == {n \in Nat : \A current \in start .. end : current + n >= end => Right(current)}
  <1>5. ASSUME NEW current \in start .. end,
               \A next \in current + 1 .. end : Right(next)
        PROVE  Right(current)
    <2> DEFINE len  == FindLargestPrefix(current, end)
               last == LastIPInPrefix(current, len)
               p == [addr |-> current, len |-> len]
    <2>1. current \in Nat /\ current <= end
      BY <1>2
    <2>2. len \in 0 .. AddressBits /\ last <= end /\ IsAligned(current, len)
      BY <1>2, <2>1, LargestPrefix
    <2>3. last \in Nat /\ current <= last
      BY <2>1, <2>2, AlignedMembers
    <2>4. last \in Addresses
      BY <1>1, <2>2, <2>3
    <2>5. Members(p) = current .. last
      BY <2>1, <2>2, <2>4, AlignedMembers
    <2>6. p \in Prefixes
      BY <2>1, <2>2 DEF Prefixes
    <2> DEFINE rest == IF last >= end THEN <<>> ELSE from[last + 1]
    <2>7. from[current] = <<p>> \o rest
      BY <1>4 DEF Loop
    <2> HIDE DEF len, last, p
    <2>8. /\ rest \in Seq(Prefixes)
          /\ \/ rest = <<>> /\ last = end
             \/ last < end /\ Cover(rest, last + 1, end)
      <3>1. CASE last >= end
        BY <1>2, <2>2, <2>3, <3>1
      <3>2. CASE ~(last >= end)
        <4>1. last < end /\ last + 1 \in current + 1 .. end
          BY <1>2, <2>1, <2>3, <3>2
        <4>2. Right(last + 1)
          BY <1>5, <4>1
        <4> QED
          BY <3>2, <4>1, <4>2
      <3> QED
        BY <3>1, <3>2
    <2> HIDE DEF rest
    <2> QED
      BY <1>2, <2>1, <2>3, <2>5, <2>6, <2>7, <2>8, CoverOneMore
  <1> HIDE DEF Right
  <1>6. 0 \in T
    <2> SUFFICES ASSUME NEW current \in start .. end, current + 0 >= end
                 PROVE  Right(current)
      OBVIOUS
    <2>1. current + 1 .. end = {}
      BY <1>2
    <2> QED
      BY <1>5, <2>1
  <1>7. ASSUME NEW n \in Nat, n \in T
        PROVE  n + 1 \in T
    <2> SUFFICES ASSUME NEW current \in start .. end, current + (n + 1) >= end
                 PROVE  Right(current)
      OBVIOUS
    <2>1. ASSUME NEW next \in current + 1 .. end
          PROVE  Right(next)
      <3>1. next \in start .. end /\ next + n >= end
        BY <1>2
      <3> QED
        BY <1>7, <3>1
    <2> QED
      BY <1>5, <2>1
  <1>8. end \in T
    <2> HIDE DEF T
    <2> QED
      BY <1>2, <1>6, <1>7, Induction
  <1>9. Right(start)
    BY <1>2, <1>8
  <1> QED
    BY <1>3, <1>9 DEF Right

\* For any width of address: the prefixes of every route's range cover it exactly.
THEOREM RangesAreCovered == RangeSpec => []RangeCovered
  <1>1. RangeInit => RangeCovered
    <2> SUFFICES ASSUME RangeInit, range # <<>>
                 PROVE  Cover(RangeToPrefixes(range[1], range[2]), range[1], range[2])
      BY DEF RangeCovered
    <2>1. range[1] \in Addresses /\ range[2] \in Addresses /\ range[1] <= range[2]
      BY DEF RangeInit
    <2> QED
      BY <2>1, PrefixesCover
  <1>2. RangeCovered /\ [UNCHANGED range]_range => RangeCovered'
    <2> SUFFICES ASSUME RangeCovered, range' = range
                 PROVE  RangeCovered'
      OBVIOUS
    <2> QED
      BY DEF RangeCovered
  <1> QED
    BY <1>1, <1>2, PTL DEF RangeSpec
===============================================================================
