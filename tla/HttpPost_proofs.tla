--------------------------- MODULE HttpPost_proofs ---------------------------
(***************************************************************************)
(* Proofs about the posts of the web server, for any number of connections *)
(* and any size of bodies, pages, the pool and the queues.                 *)
(*                                                                         *)
(* The buffer of the upload and the type of the post are statics, so that  *)
(* what is proved of them is for a server on which one client posts; the   *)
(* others, as many as there are, get pages.  The invariant ties the type   *)
(* to the body that is coming in: it is what keeps a late segment or a     *)
(* closed connection from reaching a buffer that has been freed.           *)
(***************************************************************************)
EXTENDS HttpPost, TLAPS

Others(c) == \A d \in Conns \ {c} : conn'[d] = conn[d]

(* The connection keeps its post, or is closed. *)
Carried(c, hs) ==
  /\ conn'[c].left = hs.left /\ conn'[c].first = hs.first
  /\ conn'[c].kind = hs.kind /\ conn'[c].pc = hs.pc

(* A step that gives c the state hs changes no other connection.           *)
LEMMA SetStep ==
  ASSUME TypeOK, NEW c \in Conns, NEW hs \in HttpState, Set(c, hs)
  PROVE  conn' \in [Conns -> HttpState] /\ conn'[c] = hs /\ Others(c)
BY DEF TypeOK, Set, Others

(* Closed connections have the type of a connection and no body.           *)
LEMMA ClosedType ==
  ASSUME NEW pc \in {"closed", "open", "closing"}
  PROVE  /\ [Closed EXCEPT !.pc = pc] \in HttpState
         /\ [Closed EXCEPT !.pc = pc].left = 0
<1>1. Closed \in HttpState
  BY ServerAssumption DEF Closed, HttpState, Kind
<1> QED
  BY <1>1 DEF Closed, HttpState

(* http_close_conn leaves no body and finishes one that was coming in.     *)
LEMMA CloseStep ==
  ASSUME TypeOK, NEW c \in Conns, NEW hs, NEW t, NEW b, Close(c, hs, t, b)
  PROVE  /\ conn' \in [Conns -> HttpState] /\ Others(c)
         /\ conn'[c].left = 0
         /\ buffer' = IF hs.left # 0 THEN BufferAfterFinish(t, b) ELSE b
<1>1. PICK pc \in {"closed", "closing"} : Set(c, [Closed EXCEPT !.pc = pc])
  BY DEF Close
<1>2. /\ [Closed EXCEPT !.pc = pc] \in HttpState
      /\ [Closed EXCEPT !.pc = pc].left = 0
  BY ClosedType
<1>3. /\ conn' \in [Conns -> HttpState] /\ Others(c)
      /\ conn'[c] = [Closed EXCEPT !.pc = pc]
  BY <1>1, <1>2, SetStep
<1> QED
  BY <1>2, <1>3 DEF Close

(* http_send keeps the post of the connection, or closes it.               *)
LEMMA SendStep ==
  ASSUME TypeOK, NEW c \in Conns, NEW hs \in HttpState, NEW t, NEW b,
         Send(c, hs, t, b)
  PROVE  /\ conn' \in [Conns -> HttpState] /\ Others(c)
         /\ \/ Carried(c, hs) /\ buffer' = b
            \/ /\ conn'[c].left = 0
               /\ buffer' = IF hs.left # 0 THEN BufferAfterFinish(t, b) ELSE b
<1>1. CASE Close(c, hs, t, b)
  BY <1>1, CloseStep
<1>2. ASSUME NEW n \in 1 .. hs.page,
             Set(c, [hs EXCEPT !.page = n, !.out = @ + hs.page - n]), buffer' = b
      PROVE  conn' \in [Conns -> HttpState] /\ Others(c) /\ Carried(c, hs)
  <2> DEFINE g == [hs EXCEPT !.page = n, !.out = @ + hs.page - n]
  <2>1. hs.page \in 0 .. Pieces /\ hs.out \in Nat /\ Pieces \in Nat
    BY ServerAssumption DEF HttpState
  <2>2. n \in 0 .. Pieces /\ hs.out + hs.page - n \in Nat
    BY <2>1
  <2>3. g \in HttpState
    BY <2>2 DEF HttpState
  <2>4. /\ g.left = hs.left /\ g.first = hs.first /\ g.kind = hs.kind
        /\ g.pc = hs.pc
    BY DEF HttpState
  <2>5. Set(c, g)
    BY <1>2
  <2> HIDE DEF g
  <2>6. conn' \in [Conns -> HttpState] /\ conn'[c] = g /\ Others(c)
    BY <2>3, <2>5, SetStep
  <2> QED
    BY <2>4, <2>6 DEF Carried
<1> QED
  BY <1>1, <1>2 DEF Send

(* What a segment of a body may do: the body comes to its end and what was *)
(* started is finished, or it goes on with the type it now has.            *)
Segment(c, hs, type, t) ==
  /\ conn' \in [Conns -> HttpState] /\ Others(c)
  /\ current_post_type' = t
  /\ \/ /\ conn'[c].left = 0
        /\ buffer' = BufferAfterFinish(t, BufferAfterData(type, t))
     \/ /\ conn'[c].kind = hs.kind /\ ~conn'[c].first
        /\ conn'[c].pc = hs.pc /\ conn'[c].left # 0
        /\ buffer' = BufferAfterData(type, t)

LEMMA RxPbufStep ==
  ASSUME TypeOK, NEW c \in Conns, NEW hs \in HttpState, NEW type, pool > 0,
         NEW m \in Nat, RxPbuf(c, hs, type, m)
  PROVE  /\ \E t \in TypeOfData(hs, type) : Segment(c, hs, type, t)
         /\ pool' \in Nat
<1> DEFINE after == Taken(hs, m)
<1>1. hs.left \in 0 .. MaxSegments /\ hs.req \in Nat /\ MaxSegments \in Nat
      /\ Pieces \in Nat \ {0} /\ MaxRetries \in Nat \ {0}
  BY ServerAssumption DEF HttpState
<1>2. LeftAfter(hs.left, m) \in 0 .. MaxSegments
  BY <1>1 DEF LeftAfter
<1>3. /\ after \in HttpState /\ ~after.first /\ after.kind = hs.kind
      /\ after.pc = hs.pc
  BY <1>2 DEF Taken, HttpState
<1>4. /\ Reply(after) \in HttpState /\ ~Reply(after).first
      /\ Reply(after).kind = hs.kind /\ Reply(after).left = after.left
      /\ Reply(after).pc = hs.pc
  <2>1. Pieces \in 0 .. Pieces /\ 0 \in 0 .. MaxRetries - 1
    BY <1>1
  <2> HIDE DEF after
  <2> QED
    BY <1>3, <2>1 DEF Reply, HttpState
<1>5. PICK t \in TypeOfData(hs, type) :
        /\ current_post_type' = t
        /\ pool' = pool + hs.req - (IF t = "UNKNOWN" THEN 1 ELSE 0)
        /\ \/ /\ after.left = 0
              /\ Send(c, Reply(after), t,
                      BufferAfterFinish(t, BufferAfterData(type, t)))
           \/ /\ after.left # 0
              /\ Set(c, Reply(after)) /\ buffer' = BufferAfterData(type, t)
           \/ after.left # 0 /\ Set(c, after) /\ buffer' = BufferAfterData(type, t)
  BY DEF RxPbuf
<1>6. pool' \in Nat
  <2>1. pool \in Nat
    BY DEF TypeOK
  <2> HIDE DEF after
  <2> QED
    BY <1>1, <1>5, <2>1
<1> HIDE DEF after
<1>7. CASE /\ after.left = 0
           /\ Send(c, Reply(after), t,
                   BufferAfterFinish(t, BufferAfterData(type, t)))
  <2> DEFINE b == BufferAfterFinish(t, BufferAfterData(type, t))
             r == Reply(after)
  <2>1. r \in HttpState /\ r.left = 0 /\ Send(c, r, t, b)
    BY <1>4, <1>7
  <2> HIDE DEF b, r
  <2>2. /\ conn' \in [Conns -> HttpState] /\ Others(c)
        /\ conn'[c].left = 0 /\ buffer' = b
    BY <2>1, SendStep DEF Carried
  <2> QED
    BY <1>5, <1>6, <2>2 DEF Segment, b
<1>8. CASE after.left # 0 /\ Set(c, Reply(after)) /\ buffer' = BufferAfterData(type, t)
  BY <1>4, <1>5, <1>6, <1>8, SetStep DEF Segment
<1>9. CASE after.left # 0 /\ Set(c, after) /\ buffer' = BufferAfterData(type, t)
  BY <1>3, <1>5, <1>6, <1>9, SetStep DEF Segment
<1> QED
  BY <1>5, <1>7, <1>8, <1>9

-----------------------------------------------------------------------------
(* A step on c that starts no post and takes no data: the post of c goes   *)
(* on undisturbed, or it ends, finished or not.                            *)
Quiet(c) ==
  /\ conn' \in [Conns -> HttpState] /\ Others(c)
  /\ current_post_type' = current_post_type
  /\ pool' \in Nat
  /\ \/ Carried(c, conn[c]) /\ buffer' = buffer
     \/ /\ conn'[c].left = 0
        /\ \/ buffer' = IF conn[c].left # 0
                       THEN BufferAfterFinish(current_post_type, buffer)
                       ELSE buffer
           \/ buffer' = buffer /\ (Err(c) \/ conn[c].pc # "open")

QuietNext(c) ==
  \/ Accept(c) \/ RecvGet(c) \/ RecvPartial(c) \/ RecvUnsized(c)
  \/ RecvBad(c) \/ RecvIgnored(c) \/ Sent(c) \/ Poll(c) \/ PollClosing(c) \/ Fin(c) \/ Err(c)

LEMMA QuietStep ==
  ASSUME TypeOK, NEW c \in Conns, QuietNext(c)
  PROVE  Quiet(c)
<1> DEFINE hs == conn[c]
<1>1. hs \in HttpState /\ pool \in Nat
  BY DEF TypeOK
<1>2. /\ hs.left \in 0 .. MaxSegments /\ hs.page \in 0 .. Pieces /\ hs.out \in Nat
      /\ hs.req \in Nat /\ hs.retries \in 0 .. MaxRetries - 1
      /\ Pieces \in Nat \ {0} /\ MaxRetries \in Nat \ {0}
  BY <1>1, ServerAssumption DEF HttpState
<1>3. ASSUME NEW g \in HttpState, g.left = hs.left, g.first = hs.first,
             g.kind = hs.kind, g.pc = hs.pc, Set(c, g), buffer' = buffer,
             current_post_type' = current_post_type, pool' \in Nat
      PROVE  Quiet(c)
  BY <1>3, SetStep DEF Quiet, Carried
<1>4. ASSUME NEW g, g.left = hs.left, Close(c, g, current_post_type, buffer),
             current_post_type' = current_post_type, pool' \in Nat
      PROVE  Quiet(c)
  <2> HIDE DEF hs
  <2>1. /\ conn' \in [Conns -> HttpState] /\ Others(c) /\ conn'[c].left = 0
        /\ buffer' = IF g.left # 0 THEN BufferAfterFinish(current_post_type, buffer)
                     ELSE buffer
    BY <1>4, CloseStep
  <2> QED
    BY <1>4, <2>1 DEF Quiet, hs
<1>5. ASSUME NEW g \in HttpState, g.left = hs.left, g.first = hs.first,
             g.kind = hs.kind, g.pc = hs.pc, Send(c, g, current_post_type, buffer),
             current_post_type' = current_post_type, pool' \in Nat
      PROVE  Quiet(c)
  <2> HIDE DEF hs
  <2>1. /\ conn' \in [Conns -> HttpState] /\ Others(c)
        /\ \/ Carried(c, g) /\ buffer' = buffer
           \/ /\ conn'[c].left = 0
              /\ buffer' = IF g.left # 0
                           THEN BufferAfterFinish(current_post_type, buffer)
                           ELSE buffer
    BY <1>5, SendStep
  <2> QED
    BY <1>5, <2>1 DEF Quiet, Carried, hs
<1>6. CASE Accept(c)
  <2>1. /\ [Closed EXCEPT !.pc = "open"] \in HttpState
        /\ [Closed EXCEPT !.pc = "open"].left = 0
    BY ClosedType
  <2>2. Set(c, [Closed EXCEPT !.pc = "open"]) /\ buffer' = buffer
        /\ conn[c].pc # "open"
        /\ current_post_type' = current_post_type /\ pool' = pool
    BY <1>6 DEF Accept
  <2> QED
    BY <1>1, <2>1, <2>2, SetStep DEF Quiet
<1>7. CASE RecvGet(c)
  <2>1. /\ Reply(hs) \in HttpState /\ Reply(hs).left = hs.left
        /\ Reply(hs).first = hs.first /\ Reply(hs).kind = hs.kind
        /\ Reply(hs).pc = hs.pc
    <3>1. Pieces \in 0 .. Pieces /\ 0 \in 0 .. MaxRetries - 1
      BY <1>2
    <3> HIDE DEF hs
    <3> QED
      BY <1>1, <3>1 DEF Reply, HttpState
  <2>2. /\ Send(c, Reply(hs), current_post_type, buffer)
        /\ current_post_type' = current_post_type /\ pool' = pool + hs.req
    BY <1>7 DEF RecvGet
  <2>3. pool' \in Nat
    BY <1>1, <1>2, <2>2
  <2> QED
    BY <1>5, <2>1, <2>2, <2>3
<1>8. CASE RecvPartial(c)
  <2> DEFINE g == [hs EXCEPT !.req = @ + 1]
  <2>1. hs.req < QueueLen /\ pool > 0 /\ Set(c, g) /\ pool' = pool - 1
        /\ buffer' = buffer /\ current_post_type' = current_post_type
    BY <1>8 DEF RecvPartial, AwaitsRequest, AwaitsPost, Hears
  <2>2. hs.req + 1 \in Nat /\ pool' \in Nat
    BY <1>1, <1>2, <2>1
  <2>3. /\ g \in HttpState /\ g.left = hs.left /\ g.first = hs.first
        /\ g.kind = hs.kind /\ g.pc = hs.pc
    BY <1>1, <2>2 DEF HttpState
  <2> QED
    BY <1>3, <2>1, <2>2, <2>3
<1>9. CASE RecvBad(c)
  <2>1. Close(c, hs, current_post_type, buffer) /\ pool' = pool + hs.req
        /\ current_post_type' = current_post_type
    BY <1>9 DEF RecvBad
  <2>2. pool' \in Nat
    BY <1>1, <1>2, <2>1
  <2> QED
    BY <1>4, <2>1, <2>2
<1>10. CASE RecvIgnored(c)
  <2>1. conn' = conn /\ buffer' = buffer /\ current_post_type' = current_post_type
        /\ pool' = pool - 1 /\ pool > 0
    BY <1>10 DEF RecvIgnored, Hears
  <2>2. pool' \in Nat
    BY <1>1, <2>1
  <2> QED
    BY <2>1, <2>2 DEF Quiet, Carried, Others, TypeOK
<1>11. CASE Sent(c)
  <2>1. PICK k \in 0 .. hs.out - 1 :
          Send(c, [hs EXCEPT !.out = k, !.retries = 0], current_post_type, buffer)
    BY <1>11 DEF Sent
  <2>2. current_post_type' = current_post_type /\ pool' = pool
    BY <1>11 DEF Sent
  <2> DEFINE g == [hs EXCEPT !.out = k, !.retries = 0]
  <2>3. k \in Nat /\ 0 \in 0 .. MaxRetries - 1
    BY <1>2
  <2>4. /\ g \in HttpState /\ g.left = hs.left /\ g.first = hs.first
        /\ g.kind = hs.kind /\ g.pc = hs.pc
    BY <1>1, <2>3 DEF HttpState
  <2> QED
    BY <1>1, <1>5, <2>1, <2>2, <2>4
<1>12. CASE Poll(c)
  <2> DEFINE g == [hs EXCEPT !.retries = @ + 1]
  <2>1. current_post_type' = current_post_type /\ pool' = pool
    BY <1>12 DEF Poll
  <2>2. g.left = hs.left /\ g.first = hs.first /\ g.kind = hs.kind
        /\ g.retries = hs.retries + 1 /\ g.pc = hs.pc
    BY <1>1 DEF HttpState
  <2>3. ASSUME g.retries # MaxRetries PROVE g \in HttpState
    <3>1. hs.retries + 1 \in 0 .. MaxRetries - 1
      BY <1>2, <2>2, <2>3
    <3> QED
      BY <1>1, <3>1 DEF HttpState
  <2>4. \/ Close(c, g, current_post_type, buffer)
        \/ g.retries # MaxRetries /\ Send(c, g, current_post_type, buffer)
        \/ g.retries # MaxRetries /\ Set(c, g) /\ buffer' = buffer
    BY <1>12 DEF Poll
  <2> HIDE DEF g, hs
  <2> QED
    BY <1>1, <1>3, <1>4, <1>5, <2>1, <2>2, <2>3, <2>4
<1>13. CASE PollClosing(c) \/ Err(c)
  <2>1. Set(c, Closed) /\ buffer' = buffer /\ pool' = pool
        /\ (Err(c) \/ conn[c].pc # "open")
        /\ current_post_type' = current_post_type
    BY <1>13 DEF PollClosing, Err
  <2>2. Closed \in HttpState /\ Closed.left = 0
    BY ServerAssumption DEF Closed, HttpState, Kind
  <2> QED
    BY <1>1, <2>1, <2>2, SetStep DEF Quiet
<1>14. CASE Fin(c)
  <2>1. Close(c, hs, current_post_type, buffer) /\ pool' = pool
        /\ current_post_type' = current_post_type
    BY <1>14 DEF Fin
  <2> QED
    BY <1>1, <1>4, <2>1
<1>15. CASE RecvUnsized(c)
  <2> DEFINE g == [hs EXCEPT !.kind = "unsized", !.req = @ + 1]
  <2>1. hs.left = 0 /\ pool > 0 /\ Set(c, g) /\ pool' = pool - 1
        /\ buffer' = buffer /\ current_post_type' = current_post_type
    BY <1>15 DEF RecvUnsized, AwaitsPost, Hears
  <2>2. hs.req + 1 \in Nat /\ pool' \in Nat
    BY <1>1, <1>2, <2>1
  <2>3. g \in HttpState /\ g.left = 0
    BY <1>1, <2>1, <2>2 DEF HttpState
  <2> HIDE DEF g
  <2>4. conn' \in [Conns -> HttpState] /\ Others(c) /\ conn'[c].left = 0
    BY <2>1, <2>3, SetStep
  <2> QED
    BY <2>1, <2>2, <2>4 DEF Quiet
<1> QED
  BY <1>6, <1>7, <1>8, <1>9, <1>10, <1>11, <1>12, <1>13, <1>14, <1>15 DEF QuietNext

-----------------------------------------------------------------------------
(* A post that comes in begins a body, whose state is hs, with the type    *)
(* UNKNOWN; data goes to the body that is there, with the type there is.   *)
Begun(c, kind, n) ==
  [conn[c] EXCEPT !.kind = kind, !.left = n, !.first = TRUE]

LEMMA PostStep ==
  ASSUME TypeOK, NEW c \in Conns, NEW kind \in Kind, NEW n \in Segments,
         NEW m \in 0 .. MaxSegments, RecvPost(c, kind, n, m)
  PROVE  /\ pool' \in Nat
         /\ \/ \E t \in TypeOfData(Begun(c, kind, n), "UNKNOWN") :
                 Segment(c, Begun(c, kind, n), "UNKNOWN", t)
            \/ /\ conn' \in [Conns -> HttpState] /\ Others(c)
               /\ conn'[c].first /\ conn'[c].pc = "open"
               /\ current_post_type' = "UNKNOWN" /\ buffer' = buffer
<1> DEFINE hs == Begun(c, kind, n)
<1>1. MaxSegments \in Nat
  BY ServerAssumption
<1>2. conn[c] \in HttpState /\ n \in 0 .. MaxSegments /\ m \in Nat /\ pool \in Nat
  BY <1>1 DEF TypeOK, Segments
<1>3. hs \in HttpState /\ hs.first /\ hs.pc = conn[c].pc
  BY <1>2 DEF HttpState, Begun
<1>4. pool > 0 /\ conn[c].pc = "open"
  BY DEF RecvPost, AwaitsRequest, AwaitsPost, Hears
<1>5. \/ RxPbuf(c, hs, "UNKNOWN", m)
      \/ /\ Set(c, [hs EXCEPT !.req = 0]) /\ pool' = pool + hs.req
         /\ current_post_type' = "UNKNOWN" /\ buffer' = buffer
  BY DEF RecvPost, TypeAtBegin, Begun
<1>6. /\ [hs EXCEPT !.req = 0] \in HttpState /\ [hs EXCEPT !.req = 0].first
      /\ hs.req \in Nat /\ [hs EXCEPT !.req = 0].pc = hs.pc
  <2> HIDE DEF hs
  <2> QED
    BY <1>1, <1>3 DEF HttpState
<1>7. CASE RxPbuf(c, hs, "UNKNOWN", m)
  <2> HIDE DEF hs
  <2>1. /\ \E t \in TypeOfData(hs, "UNKNOWN") : Segment(c, hs, "UNKNOWN", t)
        /\ pool' \in Nat
    BY <1>2, <1>3, <1>4, <1>7, RxPbufStep
  <2> QED
    BY <2>1 DEF hs
<1>8. CASE /\ Set(c, [hs EXCEPT !.req = 0]) /\ pool' = pool + hs.req
           /\ current_post_type' = "UNKNOWN" /\ buffer' = buffer
  <2> HIDE DEF hs
  <2>1. pool' \in Nat
    BY <1>2, <1>6, <1>8
  <2> QED
    BY <1>3, <1>4, <1>6, <1>8, <2>1, SetStep
<1> QED
  BY <1>5, <1>7, <1>8

LEMMA DataStep ==
  ASSUME TypeOK, NEW c \in Conns, NEW m \in Segments, RecvData(c, m)
  PROVE  /\ pool' \in Nat
         /\ \E hs \in HttpState :
              /\ hs.first = conn[c].first /\ hs.kind = conn[c].kind
              /\ hs.pc = conn[c].pc
              /\ \E t \in TypeOfData(hs, current_post_type) :
                   Segment(c, hs, current_post_type, t)
<1> DEFINE hs == [conn[c] EXCEPT !.retries = 0]
<1>1. MaxRetries \in Nat \ {0} /\ MaxSegments \in Nat
  BY ServerAssumption
<1>2. conn[c] \in HttpState /\ m \in Nat /\ 0 \in 0 .. MaxRetries - 1
  BY <1>1 DEF TypeOK, Segments
<1>3. /\ hs \in HttpState /\ hs.first = conn[c].first /\ hs.kind = conn[c].kind
      /\ hs.pc = conn[c].pc
  BY <1>2 DEF HttpState
<1>4. RxPbuf(c, hs, current_post_type, m) /\ pool > 0
  BY DEF RecvData, Hears
<1> HIDE DEF hs
<1>5. /\ \E t \in TypeOfData(hs, current_post_type) :
           Segment(c, hs, current_post_type, t)
      /\ pool' \in Nat
  BY <1>2, <1>3, <1>4, RxPbufStep
<1> QED
  BY <1>3, <1>5

-----------------------------------------------------------------------------
(* The values of the buffer stay what they are, whatever a segment is.     *)
LEMMA BufferType ==
  ASSUME NEW type, NEW t, NEW b \in {"null", "live", "freed", "corrupt"},
         buffer \in {"null", "live", "freed", "corrupt"}
  PROVE  /\ BufferAfterData(type, t) \in {"null", "live", "freed", "corrupt"}
         /\ BufferAfterFinish(t, b) \in {"null", "live", "freed", "corrupt"}
BY DEF BufferAfterData, BufferAfterFinish, Used

LEMMA SegmentType ==
  ASSUME TypeOK, NEW c \in Conns, NEW hs, NEW type \in PostType,
         NEW t \in TypeOfData(hs, type), Segment(c, hs, type, t), pool' \in Nat
  PROVE  TypeOK'
<1>1. t \in PostType
  BY DEF TypeOfData, PostType
<1>2. buffer \in {"null", "live", "freed", "corrupt"}
  BY DEF TypeOK
<1>3. BufferAfterData(type, t) \in {"null", "live", "freed", "corrupt"}
  BY <1>2, BufferType
<1>4. BufferAfterFinish(t, BufferAfterData(type, t))
        \in {"null", "live", "freed", "corrupt"}
  BY <1>2, <1>3, BufferType
<1> QED
  BY <1>1, <1>3, <1>4 DEF TypeOK, Segment

LEMMA TypeStep ==
  ASSUME TypeOK, [Next]_vars
  PROVE  TypeOK'
<1>1. CASE UNCHANGED vars
  BY <1>1 DEF TypeOK, vars
<1>2. ASSUME NEW c \in Conns, QuietNext(c)
      PROVE  TypeOK'
  <2>1. Quiet(c)
    BY <1>2, QuietStep
  <2>2. buffer \in {"null", "live", "freed", "corrupt"}
    BY DEF TypeOK
  <2>3. BufferAfterFinish(current_post_type, buffer)
          \in {"null", "live", "freed", "corrupt"}
    BY <2>2, BufferType
  <2> QED
    BY <2>1, <2>2, <2>3 DEF Quiet, TypeOK
<1>3. ASSUME NEW c \in Conns, NEW kind \in Kind, NEW n \in Segments,
             NEW m \in 0 .. MaxSegments, RecvPost(c, kind, n, m)
      PROVE  TypeOK'
  <2>1. "UNKNOWN" \in PostType
    BY DEF PostType
  <2>2. /\ pool' \in Nat
        /\ \/ \E t \in TypeOfData(Begun(c, kind, n), "UNKNOWN") :
                Segment(c, Begun(c, kind, n), "UNKNOWN", t)
           \/ /\ conn' \in [Conns -> HttpState]
              /\ current_post_type' = "UNKNOWN" /\ buffer' = buffer
    BY <1>3, PostStep
  <2> QED
    BY <2>1, <2>2, SegmentType DEF TypeOK
<1>4. ASSUME NEW c \in Conns, NEW m \in Segments, RecvData(c, m)
      PROVE  TypeOK'
  <2>1. current_post_type \in PostType
    BY DEF TypeOK
  <2> QED
    BY <1>4, <2>1, DataStep, SegmentType
<1> QED
  BY <1>1, <1>2, <1>3, <1>4 DEF Next, Request, QuietNext

LEMMA TypeInit == Init => TypeOK
BY ServerAssumption DEF Init, TypeOK, Closed, HttpState, Kind, PostType

(* The connections, the statics and the pool keep their types, and the     *)
(* pool is never taken from when it is empty.                              *)
THEOREM TypeCorrect == Spec => []TypeOK
BY TypeInit, TypeStep, PTL DEF Spec

-----------------------------------------------------------------------------
(* Only p posts. *)
OnlyPosts(p) == p \in Conns /\ \A c \in Conns \ {p} : Forms[c] = {}

(* A body that is coming in is the poster's, and the type of the post is   *)
(* the type of that body; an upload that goes on has its buffer.           *)
PostInv(p) ==
  /\ \A c \in Conns : conn[c].left # 0 => c = p
  /\ buffer # "corrupt"
  /\ conn[p].left # 0 =>
       /\ current_post_type = "FIRMWARE_UPDATE" => buffer = "live"
       /\ conn[p].first => current_post_type = "UNKNOWN"
       /\ ~conn[p].first /\ conn[p].kind = "firmware" =>
            current_post_type = "FIRMWARE_UPDATE"

LEMMA SegmentInv ==
  ASSUME NEW p, NEW hs, NEW type, NEW t \in TypeOfData(hs, type),
         OnlyPosts(p), PostInv(p), Segment(p, hs, type, t),
         type = "FIRMWARE_UPDATE" => buffer = "live",
         hs.first => type = "UNKNOWN",
         ~hs.first /\ hs.kind = "firmware" => type = "FIRMWARE_UPDATE"
  PROVE  PostInv(p)'
<1>1. \A c \in Conns : conn'[c].left # 0 => c = p
  BY DEF OnlyPosts, PostInv, Segment, Others
<1>2. /\ t = "FIRMWARE_UPDATE" => BufferAfterData(type, t) = "live"
      /\ t # "FIRMWARE_UPDATE" => BufferAfterData(type, t) = buffer
  BY DEF TypeOfData, BufferAfterData, Used
<1>3. BufferAfterFinish(t, BufferAfterData(type, t)) # "corrupt"
  BY <1>2 DEF BufferAfterFinish, PostInv
<1>4. hs.kind = "firmware" => t = "FIRMWARE_UPDATE"
  BY DEF TypeOfData
<1> QED
  BY <1>1, <1>2, <1>3, <1>4 DEF PostInv, Segment

LEMMA PostInvStep ==
  ASSUME NEW p, OnlyPosts(p), TypeOK, PostInv(p), [Next]_vars
  PROVE  PostInv(p)'
<1>1. CASE UNCHANGED vars
  BY <1>1 DEF PostInv, vars
<1>2. ASSUME NEW c \in Conns, QuietNext(c)
      PROVE  PostInv(p)'
  <2>1. Quiet(c)
    BY <1>2, QuietStep
  <2>2. conn[c].left # 0 => c = p
    BY DEF PostInv
  <2>3. conn[c].left # 0 =>
          BufferAfterFinish(current_post_type, buffer) # "corrupt"
    BY <2>2 DEF BufferAfterFinish, PostInv
  <2>4. buffer' # "corrupt"
    BY <2>1, <2>3 DEF Quiet, PostInv
  <2>5. \A d \in Conns : conn'[d].left # 0 =>
          /\ d = p /\ Carried(d, conn[d]) /\ buffer' = buffer
          /\ conn[d].left # 0
    BY <2>1, <2>2 DEF Quiet, Others, Carried, PostInv
  <2>6. p \in Conns
    BY DEF OnlyPosts
  <2> QED
    BY <2>1, <2>4, <2>5, <2>6 DEF PostInv, Carried, Quiet
<1>3. ASSUME NEW c \in Conns, NEW kind \in Kind, NEW n \in Segments,
             NEW m \in 0 .. MaxSegments, RecvPost(c, kind, n, m)
      PROVE  PostInv(p)'
  <2>1. c = p
    BY <1>3 DEF RecvPost, OnlyPosts
  <2>2. Begun(c, kind, n).first
    BY DEF Begun, TypeOK, HttpState
  <2>3. CASE \E t \in TypeOfData(Begun(c, kind, n), "UNKNOWN") :
               Segment(c, Begun(c, kind, n), "UNKNOWN", t)
    BY <2>1, <2>2, <2>3, SegmentInv
  <2>4. CASE /\ conn' \in [Conns -> HttpState] /\ Others(c)
             /\ conn'[c].first
             /\ current_post_type' = "UNKNOWN" /\ buffer' = buffer
    BY <2>1, <2>4 DEF PostInv, Others, OnlyPosts
  <2> QED
    BY <1>3, <2>3, <2>4, PostStep
<1>4. ASSUME NEW c \in Conns, NEW m \in Segments, RecvData(c, m)
      PROVE  PostInv(p)'
  <2>1. conn[c].left # 0
    BY <1>4 DEF RecvData, TypeOK, HttpState
  <2>2. c = p
    BY <2>1 DEF PostInv
  <2>3. PICK hs \in HttpState :
          /\ hs.first = conn[c].first /\ hs.kind = conn[c].kind
          /\ \E t \in TypeOfData(hs, current_post_type) :
               Segment(c, hs, current_post_type, t)
    BY <1>4, DataStep
  <2>4. /\ current_post_type = "FIRMWARE_UPDATE" => buffer = "live"
        /\ hs.first => current_post_type = "UNKNOWN"
        /\ ~hs.first /\ hs.kind = "firmware" =>
             current_post_type = "FIRMWARE_UPDATE"
    BY <2>1, <2>2, <2>3 DEF PostInv
  <2> QED
    BY <2>2, <2>3, <2>4, SegmentInv
<1> QED
  BY <1>1, <1>2, <1>3, <1>4 DEF Next, Request, QuietNext

LEMMA PostInvInit ==
  ASSUME NEW p, OnlyPosts(p), Init
  PROVE  PostInv(p)
BY DEF OnlyPosts, Init, PostInv, Closed

(* While one client posts, the buffer of the upload is used and freed only *)
(* while it is allocated, however posts end or follow one another.         *)
THEOREM BufferNeverMisused ==
  ASSUME NEW p, OnlyPosts(p)
  PROVE  Spec => []BufferSafe
<1>1. Init => TypeOK /\ PostInv(p)
  BY TypeInit, PostInvInit
<1>2. TypeOK /\ PostInv(p) /\ [Next]_vars => (TypeOK /\ PostInv(p))'
  BY TypeStep, PostInvStep
<1>3. TypeOK /\ PostInv(p) => BufferSafe
  BY DEF PostInv, BufferSafe
<1> QED
  BY <1>1, <1>2, <1>3, PTL DEF Spec

-----------------------------------------------------------------------------
(* A body comes in on an open connection only.                             *)
BodyOpen == \A c \in Conns : conn[c].left # 0 => conn[c].pc = "open"

LEMMA BodyOpenStep ==
  ASSUME TypeOK, BodyOpen, [Next]_vars
  PROVE  BodyOpen'
<1>1. CASE UNCHANGED vars
  BY <1>1 DEF BodyOpen, vars
<1>2. ASSUME NEW c \in Conns, QuietNext(c)
      PROVE  BodyOpen'
  <2>1. Quiet(c)
    BY <1>2, QuietStep
  <2> QED
    BY <2>1 DEF Quiet, Carried, Others, BodyOpen
<1>3. ASSUME NEW c \in Conns, NEW kind \in Kind, NEW n \in Segments,
             NEW m \in 0 .. MaxSegments, RecvPost(c, kind, n, m)
      PROVE  BodyOpen'
  <2>1. Begun(c, kind, n).pc = "open"
    BY <1>3 DEF RecvPost, AwaitsRequest, AwaitsPost, Hears, Begun, TypeOK, HttpState
  <2>2. Others(c) /\ (conn'[c].left = 0 \/ conn'[c].pc = "open")
    BY <1>3, <2>1, PostStep DEF Segment
  <2> QED
    BY <2>2 DEF Others, BodyOpen
<1>4. ASSUME NEW c \in Conns, NEW m \in Segments, RecvData(c, m)
      PROVE  BodyOpen'
  <2>1. conn[c].pc = "open"
    BY <1>4 DEF RecvData, Hears
  <2>2. Others(c) /\ (conn'[c].left = 0 \/ conn'[c].pc = "open")
    BY <1>4, <2>1, DataStep DEF Segment
  <2> QED
    BY <2>2 DEF Others, BodyOpen
<1> QED
  BY <1>1, <1>2, <1>3, <1>4 DEF Next, Request, QuietNext

(* An upload whose body ends with a step has its buffer freed by that      *)
(* step, which may be any but a reset of its connection.                   *)
LEMMA FinishStep ==
  ASSUME NEW p, OnlyPosts(p), TypeOK, PostInv(p), BodyOpen, Next,
         NEW c \in Conns, conn[c].left > 0, ~conn[c].first,
         conn[c].kind = "firmware", conn'[c].left = 0
  PROVE  Err(c) \/ buffer' # "live"
<1>1. conn[c].left # 0 /\ conn[c].left \in Nat
  BY ServerAssumption DEF TypeOK, HttpState
<1>2. /\ current_post_type = "FIRMWARE_UPDATE" /\ buffer = "live"
      /\ conn[c].pc = "open"
  BY <1>1 DEF PostInv, BodyOpen
<1>3. BufferAfterFinish("FIRMWARE_UPDATE", "live") = "freed"
  BY DEF BufferAfterFinish
<1>4. ASSUME NEW d \in Conns, Others(d)
      PROVE  d = c
  BY <1>1, <1>4 DEF Others
<1>5. ASSUME NEW d \in Conns, QuietNext(d)
      PROVE  Err(c) \/ buffer' # "live"
  <2>1. Quiet(d) /\ d = c
    BY <1>4, <1>5, QuietStep DEF Quiet
  <2> QED
    BY <1>1, <1>2, <1>3, <2>1 DEF Quiet, Carried
<1>6. ASSUME NEW d \in Conns, NEW kind \in Kind, NEW n \in Segments,
             NEW m \in 0 .. MaxSegments, RecvPost(d, kind, n, m)
      PROVE  FALSE
  <2>1. Others(d)
    BY <1>6, PostStep DEF Segment
  <2>2. conn[d].left = 0
    BY <1>6 DEF RecvPost, AwaitsRequest, AwaitsPost
  <2> QED
    BY <1>1, <1>4, <2>1, <2>2
<1>7. ASSUME NEW d \in Conns, NEW m \in Segments, RecvData(d, m)
      PROVE  buffer' # "live"
  <2>1. PICK hs \in HttpState :
          /\ hs.first = conn[d].first /\ hs.kind = conn[d].kind
          /\ hs.pc = conn[d].pc
          /\ \E t \in TypeOfData(hs, current_post_type) :
               Segment(d, hs, current_post_type, t)
    BY <1>7, DataStep
  <2>2. Segment(d, hs, "FIRMWARE_UPDATE", "FIRMWARE_UPDATE")
    BY <1>2, <2>1 DEF TypeOfData
  <2>3. BufferAfterData("FIRMWARE_UPDATE", "FIRMWARE_UPDATE") = "live"
    BY <1>2 DEF BufferAfterData, Used
  <2>4. d = c
    BY <1>4, <2>2 DEF Segment
  <2> QED
    BY <1>3, <2>2, <2>3, <2>4 DEF Segment
<1> QED
  BY <1>5, <1>6, <1>7 DEF Next, Request, QuietNext

(* While one client posts, an upload whose connection ends, other than by  *)
(* a reset, is finished with the step that ends it.                        *)
THEOREM UploadsEndFinished ==
  ASSUME NEW p, OnlyPosts(p)
  PROVE  Spec => UploadFinished
<1> DEFINE Inv == TypeOK /\ PostInv(p) /\ BodyOpen
<1>1. Init => Inv
  <2>1. Init => BodyOpen
    BY DEF Init, BodyOpen, Closed
  <2> QED
    BY <2>1, TypeInit, PostInvInit
<1>2. Inv /\ [Next]_vars => Inv'
  BY TypeStep, PostInvStep, BodyOpenStep
<1>3. Inv /\ [Next]_vars =>
        [\A c \in Conns :
           /\ conn[c].left > 0 /\ ~conn[c].first /\ conn[c].kind = "firmware"
           /\ conn'[c].left = 0
           => Err(c) \/ buffer' # "live"]_vars
  BY FinishStep
<1> HIDE DEF Inv
<1> QED
  BY <1>1, <1>2, <1>3, PTL DEF Spec, UploadFinished

-----------------------------------------------------------------------------
(* With one poster, the session is open while its body is uploaded.        *)
LEMMA SessionIs ==
  ASSUME NEW p, OnlyPosts(p), PostInv(p)
  PROVE  /\ Uploading(p) => /\ SessionUpload = "open" /\ SessionRest = conn[p].left
                            /\ buffer = "live"
         /\ ~Uploading(p) => /\ SessionUpload = IF buffer = "live" THEN "left" ELSE "none"
                             /\ SessionRest = 0
<1>1. p \in Conns
  BY DEF OnlyPosts
<1>2. \A c \in Conns : Uploading(c) => c = p
  BY DEF PostInv, Uploading
<1>3. buffer # "corrupt" /\ (Uploading(p) => buffer = "live")
  BY DEF PostInv, Uploading
<1>4. CASE Uploading(p)
  <2>1. (CHOOSE c \in Conns : Uploading(c)) = p
    BY <1>1, <1>2, <1>4
  <2> QED
    BY <1>1, <1>3, <1>4, <2>1 DEF SessionUpload, SessionRest
<1>5. CASE ~Uploading(p)
  <2>1. ~\E c \in Conns : Uploading(c)
    BY <1>2, <1>5
  <2> QED
    BY <1>3, <1>5, <2>1 DEF SessionUpload, SessionRest
<1> QED
  BY <1>4, <1>5

LEMMA SessionIsNext ==
  ASSUME NEW p, OnlyPosts(p), PostInv(p)'
  PROVE  /\ Uploading(p)' => /\ SessionUpload' = "open" /\ SessionRest' = conn'[p].left
                             /\ buffer' = "live"
         /\ ~Uploading(p)' => /\ SessionUpload' = IF buffer' = "live" THEN "left" ELSE "none"
                              /\ SessionRest' = 0
<1>1. p \in Conns
  BY DEF OnlyPosts
<1>2. \A c \in Conns : Uploading(c)' => c = p
  BY DEF PostInv, Uploading
<1>3. buffer' # "corrupt" /\ (Uploading(p)' => buffer' = "live")
  BY DEF PostInv, Uploading
<1>4. CASE Uploading(p)'
  <2>1. (CHOOSE c \in Conns : Uploading(c)') = p
    BY <1>1, <1>2, <1>4
  <2> QED
    BY <1>1, <1>3, <1>4, <2>1 DEF SessionUpload, SessionRest
<1>5. CASE ~Uploading(p)'
  <2>1. ~\E c \in Conns : Uploading(c)'
    BY <1>2, <1>5
  <2> QED
    BY <1>3, <1>5, <2>1 DEF SessionUpload, SessionRest
<1> QED
  BY <1>4, <1>5

(* A segment that does not end its body leaves less of it to come.         *)
LEMMA DataShrinks ==
  ASSUME TypeOK, NEW c \in Conns, NEW m \in Segments, RecvData(c, m),
         conn'[c].left # 0
  PROVE  conn'[c].left < conn[c].left
<1> DEFINE hs == [conn[c] EXCEPT !.retries = 0]
           after == Taken(hs, m)
<1>1. MaxRetries \in Nat \ {0} /\ MaxSegments \in Nat /\ Pieces \in Nat
  BY ServerAssumption
<1>2. conn[c] \in HttpState /\ m \in Nat /\ m > 0 /\ 0 \in 0 .. MaxRetries - 1
     
  BY <1>1 DEF TypeOK, Segments
<1>3. conn[c].left \in 0 .. MaxSegments
  BY <1>2 DEF HttpState
<1>4. hs \in HttpState /\ hs.left = conn[c].left
  BY <1>2 DEF HttpState
<1>5. RxPbuf(c, hs, current_post_type, m)
  BY DEF RecvData
<1> HIDE DEF hs
<1>6. LeftAfter(hs.left, m) \in 0 .. MaxSegments
      /\ (LeftAfter(hs.left, m) # 0 => LeftAfter(hs.left, m) < conn[c].left)
  BY <1>1, <1>2, <1>3, <1>4 DEF LeftAfter
<1>7. /\ after \in HttpState /\ Reply(after) \in HttpState
      /\ after.left = LeftAfter(hs.left, m) /\ Reply(after).left = after.left
  <2>1. after \in HttpState /\ after.left = LeftAfter(hs.left, m)
    BY <1>2, <1>4, <1>6 DEF Taken, HttpState
  <2>2. Pieces \in 0 .. Pieces
    BY <1>1
  <2> HIDE DEF after
  <2> QED
    BY <1>2, <2>1, <2>2 DEF Reply, HttpState
<1>8. PICK t \in TypeOfData(hs, current_post_type) :
        \/ /\ after.left = 0
           /\ Send(c, Reply(after), t,
                   BufferAfterFinish(t, BufferAfterData(current_post_type, t)))
        \/ Set(c, Reply(after))
        \/ Set(c, after)
  BY <1>5 DEF RxPbuf
<1> HIDE DEF after
<1>9. CASE /\ after.left = 0
           /\ Send(c, Reply(after), t,
                   BufferAfterFinish(t, BufferAfterData(current_post_type, t)))
  BY <1>7, <1>9, SendStep DEF Carried
<1>10. CASE Set(c, Reply(after)) \/ Set(c, after)
  <2>1. conn'[c].left = after.left
    BY <1>7, <1>10, SetStep
  <2> QED
    BY <1>6, <1>7, <2>1
<1> QED
  BY <1>8, <1>9, <1>10

(* What a step of the poster may do to the session.                        *)
LEMMA SessionStep ==
  ASSUME NEW p, OnlyPosts(p), TypeOK, TypeOK', PostInv(p), PostInv(p)', BodyOpen, Next
  PROVE  Session!Next \/ UNCHANGED Session!vars
<1> DEFINE type == current_post_type
<1>1. p \in Conns /\ conn[p] \in HttpState /\ conn'[p] \in HttpState
  BY DEF OnlyPosts, TypeOK
<1>2. /\ Uploading(p) => /\ SessionUpload = "open" /\ SessionRest = conn[p].left
                         /\ buffer = "live"
      /\ ~Uploading(p) => /\ SessionUpload = IF buffer = "live" THEN "left" ELSE "none"
                          /\ SessionRest = 0
  BY SessionIs
<1>3. /\ Uploading(p)' => /\ SessionUpload' = "open" /\ SessionRest' = conn'[p].left
                          /\ buffer' = "live"
      /\ ~Uploading(p)' => /\ SessionUpload' = IF buffer' = "live" THEN "left" ELSE "none"
                           /\ SessionRest' = 0
  BY SessionIsNext
<1>4. /\ Uploading(p) <=> conn[p].left # 0 /\ type = "FIRMWARE_UPDATE"
      /\ Uploading(p)' <=> conn'[p].left # 0 /\ type' = "FIRMWARE_UPDATE"
  BY DEF Uploading
<1>5. MaxSegments \in Nat /\ conn[p].left \in 0 .. MaxSegments
      /\ conn'[p].left \in 0 .. MaxSegments
  BY <1>1, ServerAssumption DEF HttpState
<1>6. ASSUME conn'[p].left = conn[p].left, type' = type, buffer' = buffer
      PROVE  UNCHANGED Session!vars
  <2>1. Uploading(p)' <=> Uploading(p)
    BY <1>4, <1>6
  <2> QED
    BY <1>2, <1>3, <1>6, <2>1 DEF Session!vars
<1>7. ASSUME ~Uploading(p), ~Uploading(p)', buffer' = buffer
      PROVE  UNCHANGED Session!vars
  BY <1>2, <1>3, <1>7 DEF Session!vars
<1>8. ASSUME Uploading(p), conn'[p].left = 0, buffer' = "freed"
      PROVE  Session!Next
  <2>1. ~Uploading(p)'
    BY <1>4, <1>8
  <2> QED
    BY <1>2, <1>3, <1>8, <2>1 DEF Session!Next, Session!Finish
<1>9. ASSUME NEW d, NEW t, NEW old, Segment(p, d, old, t), ~Uploading(p),
              old # "FIRMWARE_UPDATE", old \in PostType, t \in TypeOfData(d, old)
       PROVE  Session!Next \/ UNCHANGED Session!vars
  <2>1. CASE t # "FIRMWARE_UPDATE"
    <3>1. buffer' = buffer /\ type' = t
      BY <1>9, <2>1 DEF Segment, BufferAfterData, BufferAfterFinish
    <3>2. ~Uploading(p)'
      BY <1>4, <2>1, <3>1
    <3> QED
      BY <1>7, <1>9, <3>1, <3>2
  <2>2. CASE t = "FIRMWARE_UPDATE"
    <3>1. old = "UNKNOWN"
      BY <1>9, <2>2 DEF TypeOfData
    <3>2. BufferAfterData(old, t) = "live" /\ BufferAfterFinish(t, "live") = "freed"
      BY <2>2, <3>1 DEF BufferAfterData, BufferAfterFinish
    <3>3. SessionUpload # "open"
      BY <1>2, <1>9
    <3>4. CASE conn'[p].left = 0
      <4>1. ~Uploading(p)'
        BY <1>4, <3>4
      <4>2. buffer' = "freed"
        BY <1>9, <3>2, <3>4 DEF Segment
      <4> QED
        BY <1>3, <3>3, <4>1, <4>2 DEF Session!Next, Session!StartLast
    <3>5. CASE conn'[p].left # 0
      <4>1. Uploading(p)'
        BY <1>4, <1>9, <2>2, <3>5 DEF Segment
      <4>2. conn'[p].left \in 1 .. MaxSegments
        BY <1>5, <3>5
      <4>3. SessionUpload' = "open" /\ SessionRest' = conn'[p].left
        BY <1>3, <4>1
      <4> QED
        BY <3>3, <4>2, <4>3 DEF Session!Next, Session!Start
    <3> QED
      BY <3>4, <3>5
  <2> QED
    BY <2>1, <2>2
<1>10. ASSUME NEW c \in Conns, QuietNext(c)
       PROVE  Session!Next \/ UNCHANGED Session!vars
  <2>1. Quiet(c)
    BY <1>10, QuietStep
  <2>2. CASE c # p
    <3>1. conn[c].left = 0
      BY <2>2 DEF PostInv
    <3>2. buffer' = buffer /\ type' = type
      BY <2>1, <3>1 DEF Quiet
    <3>3. conn'[p] = conn[p]
      BY <1>1, <2>1, <2>2 DEF Quiet, Others
    <3> QED
      BY <1>6, <3>2, <3>3
  <2>3. CASE c = p /\ Carried(p, conn[p])
    BY <1>6, <2>1, <2>3 DEF Quiet, Carried
  <2>4. CASE c = p /\ conn'[p].left = 0
    <3>1. ~Uploading(p)' /\ type' = type
      BY <1>4, <2>1, <2>4 DEF Quiet
    <3>2. CASE ~Uploading(p)
      <4>1. conn[p].left # 0 => type # "FIRMWARE_UPDATE"
        BY <1>4, <3>2
      <4>2. buffer' = buffer
        BY <2>1, <2>4, <4>1 DEF Quiet, Carried, BufferAfterFinish
      <4> QED
        BY <1>7, <3>1, <3>2, <4>2
    <3>3. CASE Uploading(p)
      <4>1. conn[p].left # 0 /\ type = "FIRMWARE_UPDATE" /\ buffer = "live"
            /\ conn[p].pc = "open"
        BY <1>1, <1>2, <1>4, <3>3 DEF BodyOpen
      <4>2. BufferAfterFinish(type, buffer) = "freed"
        BY <4>1 DEF BufferAfterFinish
      <4>3. buffer' = "freed" \/ (buffer' = buffer /\ Err(p))
        BY <2>1, <2>4, <4>1, <4>2 DEF Quiet, Carried
      <4>4. ASSUME buffer' = buffer, Err(p) PROVE Session!Next
        <5>1. Resets /\ SessionUpload' = "left" /\ SessionRest' = 0
          BY <1>3, <3>1, <4>1, <4>4 DEF Err
        <5> QED
          BY <1>2, <3>3, <5>1 DEF Session!Next, Session!Abort
      <4> QED
        BY <1>8, <2>4, <3>3, <4>3, <4>4
    <3> QED
      BY <3>2, <3>3
  <2> QED
    BY <2>1, <2>2, <2>3, <2>4 DEF Quiet
<1>11. ASSUME NEW c \in Conns, NEW kind \in Kind, NEW n \in Segments,
              NEW m \in 0 .. MaxSegments, RecvPost(c, kind, n, m)
       PROVE  Session!Next \/ UNCHANGED Session!vars
  <2>1. c = p /\ conn[p].left = 0
    BY <1>11 DEF RecvPost, OnlyPosts, AwaitsRequest, AwaitsPost
  <2>2. ~Uploading(p) /\ "UNKNOWN" \in PostType
    BY <1>4, <2>1 DEF PostType
  <2>3. CASE \E t \in TypeOfData(Begun(c, kind, n), "UNKNOWN") :
               Segment(c, Begun(c, kind, n), "UNKNOWN", t)
    BY <1>9, <2>1, <2>2, <2>3
  <2>4. CASE type' = "UNKNOWN" /\ buffer' = buffer
    <3>1. ~Uploading(p)'
      BY <1>4, <2>4
    <3> QED
      BY <1>7, <2>2, <2>4, <3>1
  <2> QED
    BY <1>11, <2>3, <2>4, PostStep
<1>12. ASSUME NEW c \in Conns, NEW m \in Segments, RecvData(c, m)
       PROVE  Session!Next \/ UNCHANGED Session!vars
  <2>1. c = p /\ conn[p].left # 0
    BY <1>12 DEF RecvData, TypeOK, HttpState, PostInv
  <2>2. PICK hs \in HttpState : \E t \in TypeOfData(hs, type) : Segment(p, hs, type, t)
    BY <1>12, <2>1, DataStep
  <2>3. PICK t \in TypeOfData(hs, type) : Segment(p, hs, type, t)
    BY <2>2
  <2>4. CASE type # "FIRMWARE_UPDATE"
    <3>1. ~Uploading(p) /\ type \in PostType
      BY <1>4, <2>4 DEF TypeOK
    <3> QED
      BY <1>9, <2>3, <2>4, <3>1
  <2>5. CASE type = "FIRMWARE_UPDATE"
    <3>1. Uploading(p) /\ t = type /\ buffer = "live"
      BY <1>2, <1>4, <2>1, <2>3, <2>5 DEF TypeOfData
    <3>2. BufferAfterData(type, t) = "live" /\ BufferAfterFinish(t, "live") = "freed"
      BY <2>5, <3>1 DEF BufferAfterData, BufferAfterFinish, Used
    <3>3. CASE conn'[p].left = 0
      <4>1. buffer' = "freed"
        BY <2>3, <3>2, <3>3 DEF Segment
      <4> QED
        BY <1>8, <3>1, <3>3, <4>1
    <3>4. CASE conn'[p].left # 0
      <4>1. Uploading(p)'
        BY <1>4, <2>3, <2>5, <3>1, <3>4 DEF Segment
      <4>2. conn'[p].left < conn[p].left
        BY <1>12, <2>1, <3>4, DataShrinks
      <4>3. conn'[p].left \in 1 .. conn[p].left - 1
        BY <1>5, <3>4, <4>2
      <4> QED
        BY <1>2, <1>3, <3>1, <4>1, <4>3 DEF Session!Next, Session!Data
    <3> QED
      BY <3>3, <3>4
  <2> QED
    BY <2>4, <2>5
<1> QED
  BY <1>10, <1>11, <1>12 DEF Next, Request, QuietNext

LEMMA SessionStutter ==
  ASSUME UNCHANGED vars
  PROVE  UNCHANGED Session!vars
BY DEF vars, Session!vars, SessionUpload, SessionRest, Uploading

(* While one client posts, firmware_update.c is called in the order of an  *)
(* upload session, for every number of connections and every way bodies    *)
(* are cut, end or are followed by others.                                 *)
THEOREM ImplementsSession ==
  ASSUME NEW p, OnlyPosts(p)
  PROVE  Spec => KeepsSession
<1> DEFINE Inv == TypeOK /\ PostInv(p) /\ BodyOpen
<1>1. Init => Inv /\ Session!Init
  <2> SUFFICES ASSUME Init PROVE Inv /\ Session!Init
    OBVIOUS
  <2>1. BodyOpen
    BY DEF Init, BodyOpen, Closed
  <2>2. PostInv(p)
    BY PostInvInit
  <2>3. ~Uploading(p) /\ buffer # "live"
    BY DEF Init, Uploading
  <2> QED
    BY <2>1, <2>2, <2>3, TypeInit, SessionIs DEF Session!Init
<1>2. Inv /\ [Next]_vars => Inv'
  BY TypeStep, PostInvStep, BodyOpenStep
<1>3. Inv /\ Inv' /\ [Next]_vars => [Session!Next]_(Session!vars)
  BY SessionStep, SessionStutter
<1> HIDE DEF Inv
<1> QED
  BY <1>1, <1>2, <1>3, PTL DEF Spec, KeepsSession, Session!Spec
=============================================================================
