------------------------------ MODULE HttpPost ------------------------------
(***************************************************************************)
(* The web server of avr32webboot (webserver/httpd.c) as far as it carries *)
(* POST requests to their handler (http_post.c): the connections, the      *)
(* pbufs they hold, and the two statics that all posts share, the type of  *)
(* the current post and the buffer of the upload.                          *)
(*                                                                         *)
(* Every callback runs to its end in the TCP/IP thread, and is an action.  *)
(* A body is counted in segments and a page in pieces of what one          *)
(* tcp_write takes; what tcp_write and tcp_close accept is up to lwIP.     *)
(***************************************************************************)
EXTENDS Integers

CONSTANTS
  Conns,        (* MEMP_NUM_TCP_PCB                                        *)
  Forms,        (* Forms[c]: the forms a client submits on c.              *)
  MaxSegments,  (* Bound of the model: segments of a body.                 *)
  Pieces,       (* Pieces of a page.                                       *)
  PoolSize,     (* PBUF_POOL_SIZE                                          *)
  QueueLen,     (* LWIP_HTTPD_REQ_QUEUELEN                                 *)
  MaxRetries,   (* HTTPD_MAX_RETRIES                                       *)
  Resets        (* TRUE: clients may reset connections.                    *)

(* The form of the upload, a form with a registered action, and a body     *)
(* whose first pbuf has neither: an action nobody registered, another      *)
(* field, or a part header that the pbuf does not hold completely.         *)
Kind == {"firmware", "action", "other"}
PostType == {"UNKNOWN", "ACTION", "FIRMWARE_UPDATE"}

ASSUME ServerAssumption ==
  /\ Forms \in [Conns -> SUBSET Kind]
  /\ MaxSegments \in Nat \ {0}
  /\ Pieces \in Nat \ {0}
  /\ PoolSize \in Nat \ {0}
  /\ QueueLen \in Nat
  /\ MaxRetries \in Nat \ {0}
  /\ Resets \in BOOLEAN

VARIABLES
  conn,               (* The http_state of each connection.                *)
  current_post_type,  (* The static of http_post.c.                        *)
  buffer,             (* EEPROM_buffer; "corrupt" once it was used or      *)
                      (* freed while it was not allocated.                 *)
  pool                (* The pbufs that are free.                          *)

vars == <<conn, current_post_type, buffer, pool>>

Segments == 1 .. MaxSegments

(* left: post_content_len_left; first: no body has come yet; page, out:    *)
(* pieces to send and to be acknowledged; req: pbufs of the request so far.*)
(* kind: the body; "unsized" while the request that is queued is a post    *)
(* with a complete header but no length.                                   *)
HttpState == [pc : {"closed", "open", "closing"}, kind : Kind \cup {"unsized"},
              left : 0 .. MaxSegments, first : BOOLEAN, page : 0 .. Pieces,
              out : Nat, retries : 0 .. MaxRetries - 1, req : Nat]

Closed == [pc |-> "closed", kind |-> "other", left |-> 0, first |-> FALSE,
           page |-> 0, out |-> 0, retries |-> 0, req |-> 0]

TypeOK ==
  /\ conn \in [Conns -> HttpState]
  /\ current_post_type \in PostType
  /\ buffer \in {"null", "live", "freed", "corrupt"}
  /\ pool \in Nat

Set(c, hs) == conn' = [conn EXCEPT ![c] = hs]

-----------------------------------------------------------------------------
(* http_post.c and the calls it makes into firmware_update.c. *)

(* Mutant of TypeAtBegin: httpd_post_begin does not reset the type. *)
TypeAtBegin_Kept == current_post_type

TypeAtBegin == "UNKNOWN"

(* What httpd_post_receive_data takes a segment for.  strstr runs over the *)
(* end of a pbuf that has no delimiter, into whatever lies behind it; a    *)
(* later segment of a body that nobody knew may begin as any form does.    *)
TypeOfData(hs, type) ==
  IF type # "UNKNOWN" THEN {type}
  ELSE IF hs.first /\ hs.kind = "firmware" THEN {"FIRMWARE_UPDATE"}
  ELSE IF hs.first /\ hs.kind = "action" THEN {"ACTION"}
  ELSE IF hs.first THEN {"UNKNOWN", "FIRMWARE_UPDATE"}
  ELSE PostType

Used(b) == IF b = "live" THEN b ELSE "corrupt"

(* The buffer after a segment: firmware_update_application_start allocates *)
(* it, firmware_update_application_do_work writes to it.                   *)
BufferAfterData(type, t) ==
  IF t # "FIRMWARE_UPDATE" THEN buffer
  ELSE IF type = "UNKNOWN" THEN "live"
  ELSE Used(buffer)

(* httpd_post_finished.  Freeing a null pointer does nothing. *)
BufferAfterFinish(t, b) ==
  IF t # "FIRMWARE_UPDATE" THEN b
  ELSE CASE b = "live" -> "freed"
         [] b = "null" -> "null"
         [] OTHER -> "corrupt"

-----------------------------------------------------------------------------
(* httpd.c *)

(* Mutant of Close: a post is finished whether or not its body was coming. *)
Close_AlwaysFinished(c, hs, t, b) ==
  /\ buffer' = BufferAfterFinish(t, b)
  /\ \E pc \in {"closed", "closing"} : Set(c, [Closed EXCEPT !.pc = pc])

(* Mutant of Close: httpd_post_finished is left to the end of the data. *)
Close_NotFinished(c, hs, t, b) ==
  /\ buffer' = b
  /\ \E pc \in {"closed", "closing"} : Set(c, [Closed EXCEPT !.pc = pc])

(* http_close_conn: the queue of a request is not freed; when tcp_close    *)
(* fails the connection is left to http_poll.                              *)
Close(c, hs, t, b) ==
  /\ buffer' = IF hs.left # 0 THEN BufferAfterFinish(t, b) ELSE b
  /\ \E pc \in {"closed", "closing"} : Set(c, [Closed EXCEPT !.pc = pc])

(* http_send: some of the page is sent, or all of it, or there is none. *)
Send(c, hs, t, b) ==
  \/ /\ \E n \in 1 .. hs.page :
          Set(c, [hs EXCEPT !.page = n, !.out = @ + hs.page - n])
     /\ buffer' = b
  \/ Close(c, hs, t, b)

(* Mutant of LeftAfter: a body may not be longer than it said. *)
LeftAfter_Unclamped(left, m) == left - m

LeftAfter(left, m) == IF left < m THEN 0 ELSE left - m

Taken(hs, m) ==
  [hs EXCEPT !.left = LeftAfter(@, m), !.first = FALSE, !.req = 0]

Reply(hs) == [hs EXCEPT !.page = Pieces, !.retries = 0, !.req = 0]

(* http_post_rxpbuf: m segments of the body in one callback. *)
RxPbuf(c, hs, type, m) ==
  \E t \in TypeOfData(hs, type) :
    LET rejected == t = "UNKNOWN"
        after == Taken(hs, m)
        b == BufferAfterData(type, t)
    IN
    /\ current_post_type' = t
    /\ pool' = pool + hs.req - (IF rejected THEN 1 ELSE 0)
    /\ \/ after.left = 0 /\ Send(c, Reply(after), t, BufferAfterFinish(t, b))
       \/ after.left # 0 /\ rejected /\ Set(c, Reply(after)) /\ buffer' = b
       \/ after.left # 0 /\ ~rejected /\ Set(c, after) /\ buffer' = b

-----------------------------------------------------------------------------
(* The callbacks. *)

Hears(c) == conn[c].pc = "open" /\ pool > 0
AwaitsPost(c) == Hears(c) /\ conn[c].left = 0 /\ conn[c].page = 0
AwaitsRequest(c) == AwaitsPost(c) /\ conn[c].kind # "unsized"

Accept(c) ==
  /\ conn[c].pc = "closed"
  /\ Set(c, [Closed EXCEPT !.pc = "open"])
  /\ UNCHANGED <<current_post_type, buffer, pool>>

RecvGet(c) ==
  /\ AwaitsRequest(c)
  /\ pool' = pool + conn[c].req
  /\ Send(c, Reply(conn[c]), current_post_type, buffer)
  /\ UNCHANGED current_post_type

(* The request is queued until its header is complete. *)
RecvPartial(c) ==
  /\ AwaitsRequest(c)
  /\ conn[c].req < QueueLen
  /\ Set(c, [conn[c] EXCEPT !.req = @ + 1])
  /\ pool' = pool - 1
  /\ UNCHANGED <<current_post_type, buffer>>

(* A post whose header is complete and has no Content-Length is "not       *)
(* completely parsed" (httpd.c:1704) whatever follows it, and returns      *)
(* before the length of the queue is looked at.                            *)
RecvUnsized(c) ==
  /\ AwaitsPost(c)
  /\ Set(c, [conn[c] EXCEPT !.kind = "unsized", !.req = @ + 1])
  /\ pool' = pool - 1
  /\ UNCHANGED <<current_post_type, buffer>>

(* Too long, another method or a Content-Length of zero: there is no page  *)
(* for the error.                                                          *)
RecvBad(c) ==
  /\ AwaitsRequest(c)
  /\ pool' = pool + conn[c].req
  /\ Close(c, conn[c], current_post_type, buffer)
  /\ UNCHANGED current_post_type

(* A post of n segments begins; m of them come with the header. *)
RecvPost(c, kind, n, m) ==
  /\ AwaitsRequest(c)
  /\ kind \in Forms[c]
  /\ LET hs == [conn[c] EXCEPT !.kind = kind, !.left = n, !.first = TRUE] IN
     \/ m > 0 /\ RxPbuf(c, hs, TypeAtBegin, m)
     \/ /\ m = 0
        /\ Set(c, [hs EXCEPT !.req = 0])
        /\ current_post_type' = TypeAtBegin
        /\ pool' = pool + hs.req
        /\ UNCHANGED buffer

RecvData(c, m) ==
  /\ Hears(c)
  /\ conn[c].left > 0
  /\ RxPbuf(c, [conn[c] EXCEPT !.retries = 0], current_post_type, m)

(* Data while the reply is sent: the pbuf is neither used nor freed. *)
RecvIgnored(c) ==
  /\ Hears(c)
  /\ conn[c].left = 0 /\ conn[c].page > 0
  /\ pool' = pool - 1
  /\ UNCHANGED <<conn, current_post_type, buffer>>

Sent(c) ==
  /\ conn[c].pc = "open"
  /\ \E k \in 0 .. conn[c].out - 1 :
       Send(c, [conn[c] EXCEPT !.out = k, !.retries = 0],
            current_post_type, buffer)
  /\ UNCHANGED <<current_post_type, pool>>

(* Mutant of Poll: only the retries to send a page are counted. *)
Poll_IdleNotCounted(c) ==
  /\ conn[c].pc = "open" /\ conn[c].page > 0
  /\ LET hs == [conn[c] EXCEPT !.retries = @ + 1] IN
     IF hs.retries = MaxRetries
     THEN Close(c, hs, current_post_type, buffer)
     ELSE Send(c, hs, current_post_type, buffer)
  /\ UNCHANGED <<current_post_type, pool>>

(* http_poll, every two seconds, on a connection with a state ... *)
Poll(c) ==
  /\ conn[c].pc = "open"
  /\ LET hs == [conn[c] EXCEPT !.retries = @ + 1] IN
     \/ hs.retries = MaxRetries /\ Close(c, hs, current_post_type, buffer)
     \/ /\ hs.retries # MaxRetries /\ hs.page > 0
        /\ Send(c, hs, current_post_type, buffer)
     \/ /\ hs.retries # MaxRetries /\ hs.page = 0
        /\ Set(c, hs) /\ UNCHANGED buffer
  /\ UNCHANGED <<current_post_type, pool>>

(* ... and on one that could not be closed. *)
PollClosing(c) ==
  /\ conn[c].pc = "closing"
  /\ Set(c, Closed)
  /\ UNCHANGED <<current_post_type, buffer, pool>>

(* The client closes the connection. *)
Fin(c) ==
  /\ conn[c].pc = "open"
  /\ Close(c, conn[c], current_post_type, buffer)
  /\ UNCHANGED <<current_post_type, pool>>

(* http_err: the client resets the connection, or it is lost. *)
Err(c) ==
  /\ Resets
  /\ conn[c].pc # "closed"
  /\ Set(c, Closed)
  /\ UNCHANGED <<current_post_type, buffer, pool>>

-----------------------------------------------------------------------------
Init ==
  /\ conn = [c \in Conns |-> Closed]
  /\ current_post_type = "UNKNOWN"
  /\ buffer = "null"
  /\ pool = PoolSize

Request(c) ==
  \/ RecvGet(c)
  \/ RecvPartial(c)
  \/ RecvUnsized(c)
  \/ RecvBad(c)
  \/ \E kind \in Kind, n \in Segments, m \in 0 .. MaxSegments :
       RecvPost(c, kind, n, m)

Next ==
  \E c \in Conns :
    \/ Accept(c)
    \/ Request(c)
    \/ \E m \in Segments : RecvData(c, m)
    \/ RecvIgnored(c)
    \/ Sent(c)
    \/ Poll(c)
    \/ PollClosing(c)
    \/ Fin(c)
    \/ Err(c)

Spec == Init /\ [][Next]_vars

(* The timer of lwIP runs the poll functions of every connection. *)
FairSpec == Spec /\ \A c \in Conns : WF_vars(Poll(c)) /\ WF_vars(PollClosing(c))

-----------------------------------------------------------------------------
(* While one client posts: the upload never writes to a buffer it does not *)
(* own and never frees one twice, whatever ends a post or follows it       *)
(* (firmware_update.c allocates in start and frees in finish).  Two posts  *)
(* at a time share the type and the buffer, and this does not hold.        *)
BufferSafe == buffer # "corrupt"

(* httpd_post_finished is "called when all data is received or when the    *)
(* connection is closed" (http_post.c:162): while one client posts, an     *)
(* upload whose connection ends leaves no buffer behind, unless it ends by *)
(* a reset: http_err does leave it.                                        *)
UploadFinished ==
  [][\A c \in Conns :
       /\ conn[c].left > 0 /\ ~conn[c].first /\ conn[c].kind = "firmware"
       /\ conn'[c].left = 0
       => Err(c) \/ buffer' # "live"]_vars

(* Refinement: what firmware_update.c is called for is an upload session.  *)
(* A body is uploaded when it is coming in and its segments are handled as *)
(* a firmware file.                                                        *)
Uploading(c) == conn[c].left # 0 /\ current_post_type = "FIRMWARE_UPDATE"

SessionUpload ==
  IF buffer = "live"
  THEN IF \E c \in Conns : Uploading(c) THEN "open" ELSE "left"
  ELSE IF buffer = "corrupt" \/ \E c \in Conns : Uploading(c) THEN "misused"
  ELSE "none"

SessionRest ==
  IF \E c \in Conns : Uploading(c)
  THEN conn[CHOOSE c \in Conns : Uploading(c)].left
  ELSE 0

Session == INSTANCE UploadSession WITH upload <- SessionUpload, rest <- SessionRest

(* While one client posts, start, do_work and finish are called in this    *)
(* order (http_post.c:118, 139, 188): an upload starts only when none is   *)
(* open, every segment that it takes leaves less to come, and it is        *)
(* finished once, whether its body or its connection ends, but for a reset.*)
KeepsSession == Session!Spec

(* A client that stops sending or acknowledging does not keep one of the   *)
(* two connections: http_poll gives it up.                                 *)
ConnectionsReleased ==
  \A c \in Conns : conn[c].pc # "closed" ~> conn[c].pc = "closed"
=============================================================================
