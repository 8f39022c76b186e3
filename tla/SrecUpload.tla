------------------------------ MODULE SrecUpload ------------------------------
(***************************************************************************)
(* The upload of a firmware file, from the segments of a post to the data  *)
(* flash: httpd_post_receive_data strips the end of the multipart body,    *)
(* firmware_update_application_do_work assembles lines from what is left,  *)
(* and firmware_parse_srec_line takes each line for an S-record.           *)
(*                                                                         *)
(* Two characters are one token: the type of a record, two digits of a     *)
(* byte, the end of a line (CR LF), the two dashes of a boundary, or       *)
(* others.  Every scan of the parser is at an even distance from the start *)
(* of a line, so that a token is what a scan meets.  A byte has ByteSize   *)
(* values instead of 256, and an address has two bytes instead of four.    *)
(* Addresses of the data flash are offsets from                            *)
(* FIRMWARE_NEW_APPLICATION_EEPROM_START.                                  *)
(***************************************************************************)
EXTENDS Integers, Sequences

CONSTANTS
  Files,        (* Firmware files.                                         *)
  Body,         (* Body[f]: the tokens of the file and of the boundary     *)
                (* that ends the part of the form it is in.                *)
  Bytes,        (* Bytes[f]: the image that the file describes, byte by    *)
                (* byte, with 0xff in its gaps.                            *)
  ByteSize,     (* Values of a byte.                                       *)
  Start,        (* FIRMWARE_START_ADDRESS.                                 *)
  LineSize,     (* Tokens of current_line.                                 *)
  Page,         (* EEPROM_PAGE_SIZE.                                       *)
  AreaSize,     (* Bytes of the area of the new application.               *)
  AddressSpace, (* Values of EEPROM_current_address.                       *)
  SegmentSizes, (* Tokens that a segment may have.                         *)
  Faults,       (* What may happen: "retry", another upload after one that *)
                (* arrived as it was sent; "fin" and "abort", the          *)
                (* connection is closed or reset early; "damage", a token  *)
                (* is changed on its way.                                  *)
  S0, S3, S7,   (* The types of records.                                   *)
  NL, Dash,     (* CR LF and "--".                                         *)
  Other,        (* Any other pair of characters.                           *)
  None          (* No file.                                                *)

Byte == 0 .. ByteSize - 1
AddrBytes == 2
Mark == {S0, S3, S7, NL, Dash, Other}
Token == Byte \cup Mark

ASSUME SizeAssumption ==
  /\ ByteSize \in Nat \ {0, 1}
  /\ LineSize \in Nat \ {0}
  /\ Page \in Nat \ {0}
  /\ AreaSize \in Nat \ {0}
  /\ AddressSpace \in Nat \ {0}
  /\ Start \in Nat
  /\ SegmentSizes \subseteq Nat \ {0}

ASSUME FileAssumption ==
  /\ None \notin Files
  /\ \A f \in Files : Body[f] \in Seq(Token)
  /\ Byte \cap Mark = {}
  /\ {S0, S3, S7} \cap {NL, Dash, Other} = {} /\ S0 # S3 /\ S0 # S7 /\ S3 # S7
  /\ NL # Dash /\ NL # Other /\ Dash # Other

Addr == 0 .. AreaSize - 1
Erased == ByteSize - 1    (* 0xff *)
Zero == 0

VARIABLES
  (* The client. *)
  file,        (* The file that is being uploaded, or None.                *)
  sent,        (* The tokens of its body that were sent.                   *)
  last,        (* The file of the latest upload.                           *)
  sound,       (* History: no token of this upload was changed on its way. *)
  regular,     (* History: it began with an empty current_line, and no     *)
               (* length or address in it was changed on its way.          *)
  (* do_work: what is left of its buffer, and its two statics. *)
  chunk, current_line, current_line_index,
  (* The statics of firmware_update.c. *)
  status, address, buffer, index, srec_ok,
  (* The new application area of the data flash. *)
  newApp,
  (* The locals of firmware_parse_srec_line. *)
  pc, i, sum, current_byte, byte_count

client == <<file, sent, last, sound, regular>>
assembly == <<chunk, current_line, current_line_index>>
image == <<address, buffer, index, newApp>>
parser == <<pc, i, sum, current_byte, byte_count>>
vars == <<client, assembly, status, image, srec_ok, parser>>

TypeOK ==
  /\ file \in Files \cup {None} /\ last \in Files \cup {None}
  /\ sent \in Nat
  /\ sound \in BOOLEAN /\ regular \in BOOLEAN
  /\ chunk \in Seq(Token)
  /\ current_line \in [0 .. LineSize - 1 -> Token]
  /\ current_line_index \in 0 .. LineSize
  /\ status \in {"idle", "successful_rebooting", "failed"}
  /\ address \in 0 .. AddressSpace - 1
  /\ buffer \in [0 .. Page - 1 -> Byte]
  /\ index \in 0 .. Page
  /\ srec_ok \in BOOLEAN
  /\ newApp \in [Addr -> Byte]
  /\ pc \in {"read", "parse", "s3", "s7"}
  /\ i \in Byte /\ sum \in Byte /\ current_byte \in Byte /\ byte_count \in Byte

-----------------------------------------------------------------------------
(* eeprom_write of the n bytes of data: closing the write fills the rest   *)
(* of the sector with zeros.                                               *)
SectorEnd(e) == Page * ((e + Page - 1) \div Page)

EepromWrite(area, a, data, n) ==
  [p \in Addr |-> IF a <= p /\ p < a + n THEN data[p - a]
                  ELSE IF a + n <= p /\ p < SectorEnd(a + n) THEN Zero
                  ELSE area[p]]

(* The writes of a single 0xff that fill a gap. *)
EepromFill(area, from, to) ==
  [p \in Addr |-> IF from <= p /\ p < to THEN Erased
                  ELSE IF to <= p /\ p < SectorEnd(to) THEN Zero
                  ELSE area[p]]

Flushed == EepromWrite(newApp, address, buffer, index)

Wrap(a) == a % AddressSpace

-----------------------------------------------------------------------------
(* A post: its first segment starts an upload, its last one or the end of  *)
(* the connection finishes it.                                             *)

Busy == chunk # << >> \/ pc # "read"

(* firmware_update_application_start.  After a success the device resets. *)
UploadStart(f) ==
  /\ ~Busy /\ file = None /\ status # "successful_rebooting"
  /\ last = None \/ ("retry" \in Faults /\ sound)
  /\ file' = f /\ last' = f /\ sent' = 0 /\ sound' = TRUE
  /\ regular' = (current_line_index = 0)
  /\ status' = "idle"
  /\ address' = 0 /\ index' = 0 /\ srec_ok' = FALSE
  /\ UNCHANGED <<assembly, buffer, newApp, parser>>

(* httpd_post_receive_data strips what follows "\r\n----" in a segment.    *)
Delimiter(s, k) == s[k] = NL /\ s[k + 1] = Dash /\ s[k + 2] = Dash

Content(s) ==
  LET first == {k \in 1 .. Len(s) - 2 :
                  Delimiter(s, k) /\ \A e \in 1 .. k - 1 : ~Delimiter(s, e)}
  IN IF first = {} THEN s
     ELSE SubSeq(s, 1, (CHOOSE k \in first : TRUE) - 1)

(* The tokens that say what a record is: the bytes of an address, and a    *)
(* length.                                                                 *)
InAddress(f, k) ==
  \E j \in 2 .. AddrBytes + 1 : k > j /\ Body[f][k - j] = S3
IsLength(f, k) == k > 1 /\ Body[f][k - 1] \in {S3, S7}

(* A segment, with at most one token of an upload changed on its way.      *)
(* Bound of the model: of an upload that began with an empty line.         *)
Arriving(from, n) ==
  LET s == SubSeq(Body[file], from + 1, from + n)
      damaged == IF "damage" \in Faults /\ sound /\ regular THEN 1 .. n ELSE {}
  IN {s} \cup {[s EXCEPT ![k] = t] : k \in damaged, t \in {Erased, NL, Other}}

(* A segment arrives.  do_work does nothing with it after a failure. *)
Segment(n) ==
  /\ ~Busy /\ file # None
  /\ sent + n <= Len(Body[file])
  /\ sent' = sent + n
  /\ \E s \in Arriving(sent, n) :
       /\ sound' = (sound /\ s = SubSeq(Body[file], sent + 1, sent + n))
       /\ regular' = (/\ regular
                      /\ \A k \in 1 .. n :
                           InAddress(file, sent + k) \/ IsLength(file, sent + k) =>
                             s[k] = Body[file][sent + k])
       /\ chunk' = IF status = "failed" THEN << >> ELSE Content(s)
  /\ UNCHANGED <<file, last, current_line, current_line_index, status, image,
                 srec_ok, parser>>

(* Mutant of UploadFinish: a refused line is held against the file. *)
UploadFinish_LooksAtStatus ==
  /\ ~Busy /\ file # None
  /\ sent = Len(Body[file]) \/ "fin" \in Faults
  /\ file' = None
  /\ status' = IF srec_ok /\ status = "idle"
               THEN "successful_rebooting" ELSE "failed"
  /\ UNCHANGED <<sent, last, sound, regular, assembly, image, srec_ok, parser>>

(* firmware_update_application_finish, at the end of the body or of the    *)
(* connection.                                                             *)
UploadFinish ==
  /\ ~Busy /\ file # None
  /\ sent = Len(Body[file]) \/ "fin" \in Faults
  /\ file' = None
  /\ status' = IF srec_ok THEN "successful_rebooting" ELSE "failed"
  /\ UNCHANGED <<sent, last, sound, regular, assembly, image, srec_ok, parser>>

(* http_err: the connection is reset, and firmware_update.c is not told. *)
UploadAborted ==
  /\ "abort" \in Faults
  /\ ~Busy /\ file # None
  /\ file' = None
  /\ UNCHANGED <<sent, last, sound, regular, assembly, status, image, srec_ok,
                 parser>>

(* The device restarts: statics have their initial values again. *)
Restart ==
  /\ status = "successful_rebooting"
  /\ file' = None /\ last' = None /\ sent' = 0 /\ sound' = TRUE /\ regular' = TRUE
  /\ chunk' = << >>
  /\ current_line' = [p \in 0 .. LineSize - 1 |-> Other]
  /\ current_line_index' = 0
  /\ status' = "idle"
  /\ address' = 0 /\ index' = 0 /\ srec_ok' = FALSE
  /\ UNCHANGED <<buffer, newApp, parser>>

-----------------------------------------------------------------------------
(* firmware_update_application_do_work, one token at a time. *)

Reading == pc = "read" /\ chunk # << >>

Fail ==
  /\ status' = "failed"
  /\ chunk' = << >>

(* Mutant of LineTooLong: a line is only too long beyond the array. *)
LineTooLong_Beyond == current_line_index > LineSize

LineTooLong == current_line_index >= LineSize

Overflow ==
  /\ Reading
  /\ LineTooLong
  /\ Fail
  /\ UNCHANGED <<client, current_line, current_line_index, image, srec_ok, parser>>

StoreToken ==
  /\ Reading
  /\ ~LineTooLong
  /\ Head(chunk) # NL
  /\ current_line' = [current_line EXCEPT ![current_line_index] = Head(chunk)]
  /\ current_line_index' = current_line_index + 1
  /\ chunk' = Tail(chunk)
  /\ UNCHANGED <<client, status, image, srec_ok, parser>>

(* An empty line is ignored, any other one is parsed. *)
EndLine ==
  /\ Reading
  /\ ~LineTooLong
  /\ Head(chunk) = NL
  /\ current_line' = [current_line EXCEPT ![current_line_index] = NL]
  /\ chunk' = Tail(chunk)
  /\ pc' = IF current_line_index = 0 THEN "read" ELSE "parse"
  /\ UNCHANGED <<client, current_line_index, status, image, srec_ok, i, sum,
                 current_byte, byte_count>>

-----------------------------------------------------------------------------
(* firmware_parse_srec_line *)

(* What lies at p, in current_line or in the memory behind it. *)
Cell(p, behind) == IF p < LineSize THEN current_line[p] ELSE behind
Behind == Byte \cup {Other}

(* sscanf skips the end of a line, and reads on after it. *)
Skip(p, behind) ==
  CHOOSE q \in p .. p + LineSize :
    Cell(q, behind) # NL /\ \A r \in p .. q - 1 : Cell(r, behind) = NL

(* %8lx at a: the number of bytes it reads, and what they denote. *)
Digits(a, behind) ==
  IF Cell(a, behind) \notin Byte THEN 0
  ELSE IF Cell(a + 1, behind) \notin Byte THEN 1
  ELSE AddrBytes

Number(a, k, behind) ==
  IF k = 0 THEN 0
  ELSE IF k = 1 THEN Cell(a, behind)
  ELSE Cell(a, behind) * ByteSize + Cell(a + 1, behind)

(* sscanf(line, "S3%2x%8lx"): whether both fields were read, and what they *)
(* are.                                                                    *)
Fields(behind) ==
  LET c == Skip(1, behind)
      a == Skip(c + 1, behind)
      k == Digits(a, behind)
  IN [ok |-> Cell(c, behind) \in Byte /\ k > 0,
      count |-> IF Cell(c, behind) \in Byte THEN Cell(c, behind) ELSE 0,
      addr |-> Number(a, k, behind),
      next |-> Skip(a + k, behind)]

(* A scan of %2x that finds no digits leaves current_byte as it was. *)
Scan(p, behind) ==
  LET c == Cell(Skip(p, behind), behind) IN
  IF c \in Byte THEN c ELSE current_byte

Parsing(type) == pc = "parse" /\ current_line[0] = type

Accepted ==
  /\ pc' = "read"
  /\ current_line_index' = 0
  /\ UNCHANGED <<chunk, status>>

(* The line stays where it is, and with it current_line_index. *)
Refused ==
  /\ pc' = "read"
  /\ Fail
  /\ UNCHANGED current_line_index

Locals == <<i, sum, current_byte, byte_count>>

NoRecord ==
  /\ pc = "parse"
  /\ current_line[0] \notin {S0, S3, S7}
  /\ Refused
  /\ UNCHANGED <<client, current_line, image, srec_ok, Locals>>

Header ==
  /\ Parsing(S0)
  /\ IF Wrap(address + index) # 0 THEN Refused ELSE Accepted
  /\ UNCHANGED <<client, current_line, image, srec_ok, Locals>>

(* A data record that adds nothing: it cannot be read, is for the          *)
(* trampoline in front of the image, or for an address that was passed.    *)
DataRefused ==
  /\ Parsing(S3)
  /\ \E behind \in Behind :
       LET f == Fields(behind) IN
       \/ ~f.ok /\ Refused
       \/ f.ok /\ f.addr < Start /\ Accepted
       \/ f.ok /\ f.addr >= Start /\ f.addr - Start < Wrap(address + index) /\ Refused
  /\ UNCHANGED <<client, current_line, image, srec_ok, Locals>>

GapFilled(to) ==
  IF to > Wrap(address + index)
  THEN /\ newApp' = EepromFill(Flushed, Wrap(address + index), to)
       /\ address' = Wrap(to) /\ index' = 0
  ELSE UNCHANGED <<newApp, address, index>>

Looping(loop, count) ==
  /\ pc' = loop
  /\ byte_count' = count
  /\ i' = 1 /\ sum' = 0 /\ current_byte' = 0

(* The gap before the bytes of a data record is filled. *)
DataBegin ==
  /\ Parsing(S3)
  /\ \E behind \in Behind :
       LET f == Fields(behind) IN
       /\ f.ok /\ f.addr >= Start /\ f.addr - Start >= Wrap(address + index)
       /\ GapFilled(f.addr - Start)
       /\ Looping("s3", f.count)
  /\ UNCHANGED <<client, assembly, status, buffer, srec_ok>>

BufferByte(b) ==
  IF index < Page
  THEN /\ buffer' = [buffer EXCEPT ![index] = b]
       /\ index' = index + 1
       /\ UNCHANGED <<newApp, address>>
  ELSE /\ newApp' = Flushed
       /\ address' = Wrap(address + index)
       /\ buffer' = [buffer EXCEPT ![0] = b] /\ index' = 1

(* Mutant of ScanByte: the counter is not advanced. *)
ScanByte_SameByte ==
  /\ pc \in {"s3", "s7"}
  /\ i <= byte_count
  /\ \E behind \in Behind :
       LET b == Scan(i, behind) IN
       /\ current_byte' = b
       /\ sum' = (sum + b) % ByteSize
       /\ IF pc = "s3" /\ i > AddrBytes + 1 THEN BufferByte(b)
          ELSE UNCHANGED image
  /\ UNCHANGED <<client, assembly, status, srec_ok, pc, i, byte_count>>

(* A turn of a loop over the bytes of a record.  Its counter has the width *)
(* of a byte, as the length has.  Bound of the model: a counter that comes *)
(* to 0 again has wrapped below a length of 0xff, and the loop, which will *)
(* never end, is not followed any further: the thread stays in it.         *)
ScanByte ==
  /\ pc \in {"s3", "s7"}
  /\ i <= byte_count /\ i # 0
  /\ \E behind \in Behind :
       LET b == Scan(i, behind) IN
       /\ current_byte' = b
       /\ sum' = (sum + b) % ByteSize
       /\ IF pc = "s3" /\ i > AddrBytes + 1 THEN BufferByte(b)
          ELSE UNCHANGED image
  /\ i' = (i + 1) % ByteSize
  /\ UNCHANGED <<client, assembly, status, srec_ok, pc, byte_count>>

Checksum == ByteSize - 1 - sum

(* The checksum is verified when the bytes are already in the buffer. *)
DataEnd ==
  /\ pc = "s3"
  /\ i > byte_count
  /\ \E behind \in Behind :
       IF Scan(byte_count + 1, behind) = Checksum THEN Accepted ELSE Refused
  /\ UNCHANGED <<client, current_line, image, srec_ok, Locals>>

TerminationBegin ==
  /\ Parsing(S7)
  /\ \E behind \in Behind : Looping("s7", Fields(behind).count)
  /\ UNCHANGED <<client, assembly, status, image, srec_ok>>

(* Mutant of TerminationEnd: the rest of the buffer is not written. *)
TerminationEnd_NoFlush ==
  /\ pc = "s7"
  /\ i > byte_count
  /\ \E behind \in Behind :
       LET f == Fields(behind) IN
       IF f.ok /\ Cell(f.next, behind) = Checksum /\ f.addr = Start
       THEN Accepted /\ srec_ok' = TRUE
       ELSE Refused /\ UNCHANGED srec_ok
  /\ UNCHANGED <<client, current_line, image, Locals>>

TerminationEnd ==
  /\ pc = "s7"
  /\ i > byte_count
  /\ \E behind \in Behind :
       LET f == Fields(behind) IN
       IF f.ok /\ Cell(f.next, behind) = Checksum /\ f.addr = Start
       THEN /\ Accepted
            /\ newApp' = Flushed
            /\ address' = Wrap(address + index) /\ index' = 0
            /\ srec_ok' = TRUE
       ELSE Refused /\ UNCHANGED <<newApp, address, index, srec_ok>>
  /\ UNCHANGED <<client, current_line, buffer, Locals>>

-----------------------------------------------------------------------------
Init ==
  /\ file = None /\ last = None /\ sent = 0 /\ sound = TRUE /\ regular = TRUE
  /\ chunk = << >>
  /\ current_line = [p \in 0 .. LineSize - 1 |-> Other]
  /\ current_line_index = 0
  /\ status = "idle" /\ address = 0 /\ index = 0 /\ srec_ok = FALSE
  /\ buffer = [p \in 0 .. Page - 1 |-> Zero]
  /\ newApp = [p \in Addr |-> Erased]
  /\ pc = "read" /\ i = 0 /\ sum = 0 /\ current_byte = 0 /\ byte_count = 0

Client ==
  \/ \E f \in Files : UploadStart(f)
  \/ \E n \in SegmentSizes : Segment(n)
  \/ UploadFinish
  \/ UploadAborted
  \/ Restart

DoWork == Overflow \/ StoreToken \/ EndLine

Parse ==
  \/ NoRecord
  \/ Header
  \/ DataRefused
  \/ DataBegin
  \/ ScanByte
  \/ DataEnd
  \/ TerminationBegin
  \/ TerminationEnd

Next == Client \/ DoWork \/ Parse

Spec == Init /\ [][Next]_vars

(* The thread that runs the callback runs on. *)
FairSpec == Spec /\ WF_vars(DoWork \/ Parse)

-----------------------------------------------------------------------------
(* A file of S-records, as avr32-objcopy writes it: lines of a type, a     *)
(* length, an address, data and a checksum, each with its end.             *)
Starts(f) == {k \in DOMAIN Body[f] : Body[f][k] \in {S0, S3, S7}}
Length(f, s) == Body[f][s + 1]
LineEnd(f, s) == s + Length(f, s) + 2
RecordAddress(f, s) == Body[f][s + 2] * ByteSize + Body[f][s + 3]

(* Sums(f)[k]: the sum of the bytes in front of k, and k, in its line.     *)
Sums(f) ==
  LET total[k \in 0 .. Len(Body[f])] ==
        IF k > 0 /\ Body[f][k] \in Byte
        THEN (total[k - 1] + Body[f][k]) % ByteSize
        ELSE 0
  IN total

(* The data records behind the trampoline, and where their bytes belong.   *)
Data(f) == {s \in Starts(f) : Body[f][s] = S3 /\ RecordAddress(f, s) >= Start}
From(f, s) == RecordAddress(f, s) - Start
To(f, s) == From(f, s) + Length(f, s) - AddrBytes - 1

(* The records in front of s describe u bytes. *)
Described(f, s, u) ==
  /\ \A l \in Data(f) : l < s => To(f, l) <= u
  /\ u = 0 \/ \E l \in Data(f) : l < s /\ To(f, l) = u

(* A line that firmware_parse_srec_line can hold and count.                *)
IsLine(f, s) ==
  LET e == LineEnd(f, s) IN
  /\ Length(f, s) \in AddrBytes + 1 .. ByteSize - 2
  /\ e - s < LineSize /\ e <= Len(Body[f])
  /\ \A k \in s + 1 .. e - 1 : Body[f][k] \in Byte
  /\ Body[f][e - 1] = ByteSize - 1 - Sums(f)[e - 2]
  /\ Body[f][e] = NL
  /\ CASE Body[f][s] = S0 -> \A l \in Data(f) : l > s
       [] Body[f][s] = S3 -> TRUE
       [] Body[f][s] = S7 -> /\ Length(f, s) = AddrBytes + 1
                             /\ RecordAddress(f, s) = Start
                             /\ \A l \in Starts(f) : l <= s
  /\ Body[f][s] # S7 => e + 1 \in Starts(f)

(* Bytes[f] is the image that the records describe. *)
Image(f) ==
  /\ Bytes[f] \in Seq(Byte)
  /\ Len(Bytes[f]) <= AreaSize /\ Len(Bytes[f]) < AddressSpace
  /\ Described(f, Len(Body[f]) + 1, Len(Bytes[f]))
  /\ \A p \in 0 .. Len(Bytes[f]) - 1 :
       LET of == {s \in Data(f) : From(f, s) <= p /\ p < To(f, s)} IN
       /\ \A s \in of : Bytes[f][p + 1] = Body[f][s + AddrBytes + 2 + p - From(f, s)]
       /\ of = {} => Bytes[f][p + 1] = Erased

(* A whole file, from low to high addresses, and then a boundary that      *)
(* begins with an end of a line of its own.                                *)
WellFormed(f) ==
  /\ 1 \in Starts(f)
  /\ \A s \in Starts(f) : IsLine(f, s)
  /\ \A l, s \in Data(f) : l < s => To(f, l) <= From(f, s)
  /\ Image(f)
  /\ \A s \in Starts(f), k \in DOMAIN Body[f] : Body[f][k] = Dash => k > LineEnd(f, s) + 1

(* A data record does not fit into current_line behind another line.       *)
TooLongTogether(f) ==
  \A s \in Starts(f) : LET next == LineEnd(f, s) + 1 IN
    next \in Data(f) => LineEnd(f, next) - s >= LineSize

-----------------------------------------------------------------------------
Whole(f) ==
  /\ address = Len(Bytes[f])
  /\ \A p \in 0 .. Len(Bytes[f]) - 1 : newApp[p] = Bytes[f][p + 1]

(* An image is announced for the next start only when the data flash holds *)
(* all of it, wherever its segments were cut and whatever became of the    *)
(* connection or of a token on its way (do_work and finish,                *)
(* firmware_update.c:322, 372), if the upload was regular: it began with   *)
(* an empty line, and a changed token was no length and no address.  An    *)
(* address that comes out below Start is passed over at line 132, before   *)
(* any checksum, and an image without its bytes is announced.              *)
AnnouncedIsWhole == status = "successful_rebooting" /\ regular => Whole(last)

(* A file that arrived as it was sent is announced, wherever its segments  *)
(* were cut: in a line, in a record, in the boundary that follows it - if  *)
(* its upload began with an empty line.  Behind an upload that was refused *)
(* or cut off in a line it does not, as nothing resets current_line_index  *)
(* (firmware_update.c:325, 344-353), and the code refuses it.              *)
SoundUploadAccepted ==
  [][UploadFinish /\ sent = Len(Body[last]) /\ sound /\ regular =>
       status' = "successful_rebooting"]_vars

(* The counter of a loop over the bytes of a record cannot pass a length   *)
(* of 0xff (uint8_t i, firmware_update.c:57, 162 and 97).                  *)
Endless == pc \in {"s3", "s7"} /\ byte_count = Erased

(* do_work returns to its caller, whatever it is given, or it has met a    *)
(* record with a length of 0xff.                                           *)
DoWorkReturns == Busy ~> ~Busy \/ Endless
=============================================================================
