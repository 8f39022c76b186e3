-------------------------- MODULE SrecUpload_proofs --------------------------
(***************************************************************************)
(* Proofs about the upload of a file, for any file, any way it is cut into *)
(* segments or damaged, and any size of a byte, a line and a page.         *)
(*                                                                         *)
(* TypeOK is what C does not check here: that no write is outside          *)
(* current_line or EEPROM_buffer, whatever an earlier upload left in the   *)
(* line, and whatever a record says about its length and address.          *)
(*                                                                         *)
(* AnnouncedIsWhole and SoundUploadAccepted follow from UInv, which says   *)
(* at every step what the tokens that were received so far, with at most   *)
(* one of them damaged, made of current_line and of the image.             *)
(***************************************************************************)
EXTENDS SrecUpload, SequenceTheorems, WellFoundedInduction, TLAPS

(* A byte is a token and so is every mark, and 0x00 and 0xff are bytes.    *)
LEMMA ByteFacts ==
  /\ Byte \subseteq Token /\ Mark \subseteq Token
  /\ Zero \in Byte /\ Erased \in Byte
  /\ NL \in Token /\ Other \in Token
BY SizeAssumption DEF Byte, Mark, Token, Zero, Erased

(* Addresses and sums are reduced to their width.                          *)
LEMMA Reduced ==
  /\ \A a \in Int : Wrap(a) \in 0 .. AddressSpace - 1
  /\ \A n \in Int : n % ByteSize \in Byte
<1>1. \A a \in Int : \A m \in Nat \ {0} : a % m \in 0 .. m - 1
  OBVIOUS
<1> QED
  BY <1>1, SizeAssumption DEF Wrap, Byte

(* Writes to the data flash leave bytes there.                             *)
LEMMA WriteType ==
  ASSUME NEW area \in [Addr -> Byte], NEW a \in Nat, NEW n \in 0 .. Page,
         NEW data \in [0 .. Page - 1 -> Byte]
  PROVE  EepromWrite(area, a, data, n) \in [Addr -> Byte]
<1>1. ASSUME NEW p \in Addr, a <= p, p < a + n
      PROVE  data[p - a] \in Byte
  <2>1. p - a \in 0 .. Page - 1
    BY <1>1, SizeAssumption DEF Addr
  <2> QED
    BY <2>1
<1> QED
  BY <1>1, ByteFacts DEF EepromWrite

LEMMA FillType ==
  ASSUME NEW area \in [Addr -> Byte], NEW from, NEW to
  PROVE  EepromFill(area, from, to) \in [Addr -> Byte]
BY ByteFacts DEF EepromFill

LEMMA FlushedType == TypeOK => Flushed \in [Addr -> Byte]
BY WriteType, SizeAssumption DEF TypeOK, Flushed

(* What a segment brings is a sequence of tokens, damaged or not, cut at   *)
(* the delimiter or not.                                                   *)
LEMMA SegmentTokens ==
  ASSUME TypeOK, file # None, NEW n \in SegmentSizes,
         sent + n <= Len(Body[file]), NEW s \in Arriving(sent, n)
  PROVE  s \in Seq(Token)
<1> DEFINE t == SubSeq(Body[file], sent + 1, sent + n)
<1>1. Body[file] \in Seq(Token) /\ n \in Nat /\ sent \in Nat
  BY FileAssumption, SizeAssumption DEF TypeOK
<1>2. \A k \in sent + 1 .. sent + n : Body[file][k] \in Token
  BY <1>1, ElementOfSeq, LenProperties
<1>3. t \in Seq(Token) /\ Len(t) = IF sent + 1 <= sent + n THEN sent + n - (sent + 1) + 1 ELSE 0
  BY <1>1, <1>2, SubSeqProperties
<1>4. CASE s = t
  BY <1>3, <1>4
<1>5. CASE s # t
  <2>1. PICK k \in 1 .. n, u \in {Erased, NL, Other} : s = [t EXCEPT ![k] = u]
    BY <1>5 DEF Arriving
  <2>2. u \in Token
    BY ByteFacts DEF Zero
  <2>3. k \in 1 .. Len(t)
    BY <1>1, <1>3
  <2> HIDE DEF t
  <2> QED
    BY <1>3, <2>1, <2>2, <2>3, ExceptSeq
<1> QED
  BY <1>4, <1>5

LEMMA ContentTokens ==
  ASSUME NEW s \in Seq(Token)
  PROVE  Content(s) \in Seq(Token)
<1> DEFINE first == {k \in 1 .. Len(s) - 2 :
                       Delimiter(s, k) /\ \A e \in 1 .. k - 1 : ~Delimiter(s, e)}
           k == CHOOSE k \in first : TRUE
<1>1. Content(s) = IF first = {} THEN s ELSE SubSeq(s, 1, k - 1)
  BY DEF Content
<1>2. ASSUME first # {}
      PROVE  SubSeq(s, 1, k - 1) \in Seq(Token)
  <2>1. Len(s) \in Nat
    BY LenProperties
  <2>2. k \in 1 .. Len(s) - 2
    BY <1>2
  <2> HIDE DEF k
  <2>3. \A j \in 1 .. k - 1 : j \in 1 .. Len(s)
    BY <2>1, <2>2
  <2>4. \A j \in 1 .. k - 1 : s[j] \in Token
    BY <2>3, ElementOfSeq
  <2>5. k - 1 \in Int
    BY <2>1, <2>2
  <2> QED
    BY <2>4, <2>5, SubSeqProperties
<1> HIDE DEF first, k
<1> QED
  BY <1>1, <1>2

-----------------------------------------------------------------------------
(* The parts of TypeOK that the actions change together. *)
LineOK ==
  /\ chunk \in Seq(Token)
  /\ current_line \in [0 .. LineSize - 1 -> Token]
  /\ current_line_index \in 0 .. LineSize

ImageOK ==
  /\ address \in 0 .. AddressSpace - 1
  /\ buffer \in [0 .. Page - 1 -> Byte]
  /\ index \in 0 .. Page
  /\ newApp \in [Addr -> Byte]

LocalsOK == i \in Byte /\ sum \in Byte /\ current_byte \in Byte /\ byte_count \in Byte

ClientOK ==
  /\ file \in Files \cup {None} /\ last \in Files \cup {None}
  /\ sent \in Nat
  /\ sound \in BOOLEAN /\ regular \in BOOLEAN

StatusOK ==
  /\ status \in {"idle", "successful_rebooting", "failed"}
  /\ srec_ok \in BOOLEAN
  /\ pc \in {"read", "parse", "s3", "s7"}

LEMMA Parts ==
  /\ TypeOK <=> ClientOK /\ LineOK /\ StatusOK /\ ImageOK /\ LocalsOK
  /\ TypeOK' <=> ClientOK' /\ LineOK' /\ StatusOK' /\ ImageOK' /\ LocalsOK'
BY DEF TypeOK, ClientOK, LineOK, StatusOK, ImageOK, LocalsOK

(* What does not change keeps its type.                                    *)
LEMMA Frame ==
  /\ ClientOK /\ UNCHANGED client => ClientOK'
  /\ LineOK /\ UNCHANGED assembly => LineOK'
  /\ ImageOK /\ UNCHANGED image => ImageOK'
  /\ LocalsOK /\ UNCHANGED Locals => LocalsOK'
BY DEF ClientOK, LineOK, ImageOK, LocalsOK, client, assembly, image, Locals

(* Bytes that a scan reads are bytes, wherever it reads.                   *)
LEMMA ScanType ==
  ASSUME current_byte \in Byte, NEW p, NEW behind
  PROVE  Scan(p, behind) \in Byte
BY DEF Scan

LEMMA FieldsType ==
  ASSUME NEW behind
  PROVE  Fields(behind).count \in Byte /\ Fields(behind).addr \in Nat
<1>1. Fields(behind).count \in Byte
  BY ByteFacts DEF Fields, Zero
<1>2. \A a : Number(a, Digits(a, behind), behind) \in Nat
  BY SizeAssumption DEF Number, Digits, AddrBytes, Byte
<1> QED
  BY <1>1, <1>2 DEF Fields

(* The steps of an image: a gap is filled, a byte is buffered, the rest of *)
(* the buffer is written.                                                  *)
LEMMA GapStep ==
  ASSUME TypeOK, NEW to \in Int, GapFilled(to), buffer' = buffer
  PROVE  ImageOK'
<1>1. ImageOK
  BY DEF TypeOK, ImageOK
<1>2. CASE to > Wrap(address + index)
  <2>1. newApp' \in [Addr -> Byte]
    BY <1>2, FlushedType, FillType DEF GapFilled
  <2>2. address' \in 0 .. AddressSpace - 1 /\ index' = 0
    BY <1>2, Reduced DEF GapFilled
  <2> QED
    BY <1>1, <2>1, <2>2, SizeAssumption DEF ImageOK
<1>3. CASE ~(to > Wrap(address + index))
  BY <1>1, <1>3 DEF GapFilled, ImageOK
<1> QED
  BY <1>2, <1>3

LEMMA BufferStep ==
  ASSUME TypeOK, NEW b \in Byte, BufferByte(b)
  PROVE  ImageOK'
<1>1. ImageOK /\ address + index \in Int
  BY SizeAssumption DEF TypeOK, ImageOK
<1>2. CASE index < Page
  BY <1>1, <1>2, SizeAssumption DEF BufferByte, ImageOK
<1>3. CASE ~(index < Page)
  <2>1. newApp' \in [Addr -> Byte]
    BY <1>3, FlushedType DEF BufferByte
  <2>2. address' \in 0 .. AddressSpace - 1
    BY <1>1, <1>3, Reduced DEF BufferByte
  <2>3. buffer' \in [0 .. Page - 1 -> Byte] /\ index' \in 0 .. Page
    BY <1>1, <1>3, SizeAssumption DEF BufferByte, ImageOK
  <2> QED
    BY <2>1, <2>2, <2>3 DEF ImageOK
<1> QED
  BY <1>2, <1>3

(* How a line ends: it is accepted or refused.                             *)
LEMMA EndStep ==
  ASSUME TypeOK, Accepted \/ Refused, UNCHANGED current_line
  PROVE  /\ LineOK' /\ pc' = "read"
         /\ status' \in {"idle", "successful_rebooting", "failed"}
<1>1. LineOK /\ StatusOK /\ << >> \in Seq(Token) /\ 0 \in 0 .. LineSize
  BY Parts, EmptySeq, SizeAssumption
<1>2. CASE Accepted
  BY <1>1, <1>2 DEF LineOK, StatusOK, Accepted
<1>3. CASE Refused
  BY <1>1, <1>3 DEF LineOK, StatusOK, Refused, Fail
<1> QED
  BY <1>2, <1>3

-----------------------------------------------------------------------------
LEMMA ClientType ==
  ASSUME TypeOK, Client
  PROVE  TypeOK'
<1> USE Parts
<1>0. << >> \in Seq(Token) /\ 0 \in 0 .. LineSize /\ 0 \in 0 .. Page /\ 0 \in 0 .. AddressSpace - 1
  BY EmptySeq, SizeAssumption
<1>1. ASSUME NEW f \in Files, UploadStart(f)
      PROVE  TypeOK'
  <2>1. ClientOK'
    BY <1>1 DEF UploadStart, ClientOK
  <2>2. StatusOK' /\ ImageOK'
    BY <1>0, <1>1 DEF UploadStart, StatusOK, ImageOK, parser
  <2> QED
    BY <1>1, <2>1, <2>2, Frame DEF UploadStart, parser, Locals
<1>2. ASSUME NEW n \in SegmentSizes, Segment(n)
      PROVE  TypeOK'
  <2>1. PICK s \in Arriving(sent, n) :
          /\ sound' = (sound /\ s = SubSeq(Body[file], sent + 1, sent + n))
          /\ chunk' = IF status = "failed" THEN << >> ELSE Content(s)
    BY <1>2 DEF Segment
  <2>2. Content(s) \in Seq(Token)
    BY <1>2, SegmentTokens, ContentTokens DEF Segment
  <2>3. LineOK'
    BY <1>0, <1>2, <2>1, <2>2 DEF Segment, LineOK
  <2>4. sent' \in Nat /\ sound' \in BOOLEAN /\ regular' \in BOOLEAN
    BY <1>2, <2>1, SizeAssumption DEF Segment, ClientOK
  <2>5. ClientOK' /\ StatusOK'
    BY <1>2, <2>4 DEF Segment, ClientOK, StatusOK, parser
  <2> QED
    BY <1>2, <2>3, <2>5, Frame DEF Segment, parser, Locals
<1>3. CASE UploadFinish
  <2>1. ClientOK' /\ StatusOK'
    BY <1>3 DEF UploadFinish, ClientOK, StatusOK, parser
  <2> QED
    BY <1>3, <2>1, Frame DEF UploadFinish, parser, Locals
<1>4. CASE UploadAborted
  <2>1. ClientOK' /\ StatusOK'
    BY <1>4 DEF UploadAborted, ClientOK, StatusOK, parser
  <2> QED
    BY <1>4, <2>1, Frame DEF UploadAborted, parser, Locals
<1>5. CASE Restart
  <2>1. ClientOK' /\ StatusOK'
    BY <1>5 DEF Restart, ClientOK, StatusOK, parser
  <2>2. LineOK' /\ ImageOK'
    BY <1>0, <1>5, ByteFacts DEF Restart, LineOK, ImageOK
  <2> QED
    BY <1>5, <2>1, <2>2, Frame DEF Restart, parser, Locals
<1> QED
  BY <1>1, <1>2, <1>3, <1>4, <1>5 DEF Client

LEMMA DoWorkType ==
  ASSUME TypeOK, DoWork
  PROVE  TypeOK'
<1> USE Parts
<1>1. << >> \in Seq(Token) /\ NL \in Token
  BY EmptySeq, ByteFacts
<1>2. CASE Overflow
  <2>1. LineOK' /\ StatusOK'
    BY <1>1, <1>2 DEF Overflow, Fail, LineOK, StatusOK, parser
  <2> QED
    BY <1>2, <2>1, Frame DEF Overflow, parser, Locals
<1>3. ASSUME StoreToken \/ EndLine
      PROVE  /\ current_line_index \in 0 .. LineSize - 1
             /\ Head(chunk) \in Token /\ Tail(chunk) \in Seq(Token)
  <2>1. chunk \in Seq(Token) /\ chunk # << >>
    BY <1>3 DEF StoreToken, EndLine, Reading, LineOK
  <2>2. Head(chunk) \in Token /\ Tail(chunk) \in Seq(Token)
    BY <2>1, HeadTailProperties
  <2>3. current_line_index \in 0 .. LineSize - 1
    BY <1>3, SizeAssumption DEF StoreToken, EndLine, LineTooLong, LineOK
  <2> QED
    BY <2>2, <2>3
<1>4. CASE StoreToken
  <2>1. LineOK'
    BY <1>3, <1>4, SizeAssumption DEF StoreToken, LineOK
  <2>2. StatusOK'
    BY <1>4 DEF StoreToken, StatusOK, parser
  <2> QED
    BY <1>4, <2>1, <2>2, Frame DEF StoreToken, parser, Locals
<1>5. CASE EndLine
  <2>1. LineOK'
    BY <1>1, <1>3, <1>5 DEF EndLine, LineOK
  <2>2. StatusOK'
    BY <1>5 DEF EndLine, StatusOK
  <2> QED
    BY <1>5, <2>1, <2>2, Frame DEF EndLine, Locals
<1> QED
  BY <1>2, <1>4, <1>5 DEF DoWork

LEMMA ParseType ==
  ASSUME TypeOK, Parse
  PROVE  TypeOK'
<1> USE Parts
<1>0. address + index \in Int /\ 0 \in 0 .. Page
  BY SizeAssumption DEF ImageOK
<1>1. CASE NoRecord
  BY <1>1, EndStep, Frame DEF NoRecord, StatusOK
<1>2. CASE Header
  BY <1>2, EndStep, Frame DEF Header, StatusOK
<1>3. CASE DataRefused
  BY <1>3, EndStep, Frame DEF DataRefused, StatusOK
<1>4. CASE DataBegin
  <2>1. PICK behind \in Behind :
          /\ GapFilled(Fields(behind).addr - Start)
          /\ Looping("s3", Fields(behind).count)
    BY <1>4 DEF DataBegin
  <2>2. Fields(behind).count \in Byte /\ Fields(behind).addr - Start \in Int
    BY FieldsType, SizeAssumption
  <2>3. ImageOK'
    BY <1>4, <2>1, <2>2, GapStep DEF DataBegin
  <2>4. LocalsOK' /\ StatusOK'
    BY <1>4, <2>1, <2>2, SizeAssumption DEF DataBegin, Looping, LocalsOK, StatusOK, Byte
  <2> QED
    BY <1>4, <2>3, <2>4, Frame DEF DataBegin
<1>5. CASE ScanByte
  <2>1. PICK behind \in Behind :
          LET b == Scan(i, behind) IN
          /\ current_byte' = b
          /\ sum' = (sum + b) % ByteSize
          /\ IF pc = "s3" /\ i > AddrBytes + 1 THEN BufferByte(b)
             ELSE UNCHANGED image
    BY <1>5 DEF ScanByte
  <2>2. Scan(i, behind) \in Byte
    BY ScanType DEF LocalsOK
  <2>3. ImageOK'
    BY <2>1, <2>2, BufferStep, Frame
  <2>4. sum + Scan(i, behind) \in Int /\ i + 1 \in Int
    BY <2>2 DEF LocalsOK, Byte
  <2>5. sum' \in Byte /\ i' \in Byte
    BY <1>5, <2>1, <2>4, Reduced DEF ScanByte
  <2>6. LocalsOK' /\ StatusOK'
    BY <1>5, <2>1, <2>2, <2>5 DEF ScanByte, LocalsOK, StatusOK
  <2> QED
    BY <1>5, <2>3, <2>6, Frame DEF ScanByte
<1>6. CASE DataEnd
  BY <1>6, EndStep, Frame DEF DataEnd, StatusOK
<1>7. CASE TerminationBegin
  <2>1. PICK behind \in Behind : Looping("s7", Fields(behind).count)
    BY <1>7 DEF TerminationBegin
  <2>2. LocalsOK' /\ StatusOK'
    BY <1>7, <2>1, FieldsType, SizeAssumption DEF TerminationBegin, Looping, LocalsOK, StatusOK, Byte
  <2> QED
    BY <1>7, <2>2, Frame DEF TerminationBegin
<1>8. CASE TerminationEnd
  <2>1. UNCHANGED <<client, current_line, buffer, Locals>>
    BY <1>8 DEF TerminationEnd
  <2>2. CASE /\ Accepted /\ newApp' = Flushed
             /\ address' = Wrap(address + index) /\ index' = 0 /\ srec_ok' = TRUE
    <3>1. ImageOK'
      BY <1>0, <2>1, <2>2, FlushedType, Reduced DEF ImageOK
    <3> QED
      BY <2>1, <2>2, <3>1, EndStep, Frame DEF StatusOK
  <2>3. CASE Refused /\ UNCHANGED <<newApp, address, index, srec_ok>>
    BY <2>1, <2>3, EndStep, Frame DEF StatusOK, image
  <2> QED
    BY <1>8, <2>2, <2>3 DEF TerminationEnd
<1> QED
  BY <1>1, <1>2, <1>3, <1>4, <1>5, <1>6, <1>7, <1>8 DEF Parse

LEMMA InitType == Init => TypeOK
<1> SUFFICES ASSUME Init PROVE TypeOK
  OBVIOUS
<1>1. << >> \in Seq(Token) /\ 0 \in 0 .. LineSize /\ 0 \in 0 .. Page /\ 0 \in 0 .. AddressSpace - 1
  BY EmptySeq, SizeAssumption
<1>2. ClientOK /\ StatusOK
  BY DEF Init, ClientOK, StatusOK
<1>3. LineOK /\ ImageOK /\ LocalsOK
  BY <1>1, ByteFacts DEF Init, LineOK, ImageOK, LocalsOK, Zero
<1> QED
  BY <1>2, <1>3, Parts

(* No step of an upload writes outside current_line or EEPROM_buffer, and  *)
(* every static keeps its type (firmware_update.c:164, 336).               *)
THEOREM TypeCorrect == Spec => []TypeOK
<1>1. TypeOK /\ [Next]_vars => TypeOK'
  <2>1. CASE Next
    BY <2>1, ClientType, DoWorkType, ParseType DEF Next
  <2>2. CASE UNCHANGED vars
    BY <2>2, Parts, Frame DEF vars, assembly, image, parser, client, Locals, StatusOK
  <2> QED
    BY <2>1, <2>2
<1> QED
  BY <1>1, InitType, PTL DEF Spec
-----------------------------------------------------------------------------
(* Induction, over a set of numbers. *)
LEMMA Least ==
  ASSUME NEW T, T \subseteq Nat, T # {}
  PROVE  \E m \in T : \A n \in T : ~(n < m)
<1>1. OpToRel(<, Nat) = {ss \in Nat \X Nat : ss[1] < ss[2]}
  BY Zenon DEF OpToRel
<1>2. PICK R : R = {ss \in Nat \X Nat : ss[1] < ss[2]}
  OBVIOUS
<1>3. IsWellFoundedOn(R, Nat)
  BY <1>1, <1>2, NatLessThanWellFounded, Zenon
<1>4. \A x, y \in Nat : <<x, y>> \in R <=> x < y
  BY <1>2
<1>5. PICK m \in T : \A n \in T : ~(<<n, m>> \in R)
  BY <1>3, WFMin
<1>6. \A n \in T : ~(n < m)
  BY <1>4, <1>5
<1> QED
  BY <1>6

LEMMA Induct ==
  ASSUME NEW S, 0 \in S, \A n \in Nat : n \in S => n + 1 \in S
  PROVE  Nat \subseteq S
<1> SUFFICES ASSUME Nat \ S # {} PROVE FALSE
  OBVIOUS
<1>1. PICK m \in Nat \ S : \A n \in Nat \ S : ~(n < m)
  BY Least
<1>2. m # 0 /\ m - 1 \in Nat /\ m - 1 \in S
  BY <1>1
<1>3. (m - 1) + 1 = m
  BY <1>1
<1> QED
  BY <1>1, <1>2, <1>3

-----------------------------------------------------------------------------
(* Numbers of the width of a byte, and addresses that fit. *)
LEMMA WrapSmall ==
  ASSUME NEW a \in Nat, a < AddressSpace
  PROVE  Wrap(a) = a
<1>1. a % AddressSpace = a
  BY SizeAssumption
<1> QED
  BY <1>1 DEF Wrap

LEMMA SumOfBytes ==
  ASSUME NEW x \in Byte, NEW b \in Byte
  PROVE  (x + b) % ByteSize = (IF x + b < ByteSize THEN x + b ELSE x + b - ByteSize)
<1>1. ByteSize \in Nat /\ ByteSize > 1 /\ x \in Nat /\ b \in Nat /\ x < ByteSize /\ b < ByteSize
  BY SizeAssumption DEF Byte
<1>2. CASE x + b < ByteSize
  BY <1>1, <1>2
<1>3. CASE ~(x + b < ByteSize)
  <2>1. PICK y \in Nat : y = x + b - ByteSize /\ y < ByteSize
    BY <1>1, <1>3
  <2>2. (x + b) % ByteSize = y
    BY <1>1, <2>1
  <2> QED
    BY <1>3, <2>1, <2>2
<1> QED
  BY <1>2, <1>3

(* Two sums to which bytes are added: they differ if one of the two does.  *)
LEMMA SumsDiffer ==
  ASSUME NEW x \in Byte, NEW y \in Byte, NEW a \in Byte, NEW b \in Byte,
         (x # y /\ a = b) \/ (x = y /\ a # b)
  PROVE  (x + a) % ByteSize # (y + b) % ByteSize
<1>1. ByteSize \in Nat /\ x \in 0 .. ByteSize - 1 /\ y \in 0 .. ByteSize - 1
      /\ a \in 0 .. ByteSize - 1 /\ b \in 0 .. ByteSize - 1
  BY SizeAssumption DEF Byte
<1>2. PICK u, v : u = (x + a) % ByteSize /\ v = (y + b) % ByteSize
  OBVIOUS
<1>3. u = (IF x + a < ByteSize THEN x + a ELSE x + a - ByteSize)
      /\ v = (IF y + b < ByteSize THEN y + b ELSE y + b - ByteSize)
  BY <1>2, SumOfBytes
<1>4. u # v
  BY <1>1, <1>3
<1> QED
  BY <1>2, <1>4

(* The sums of a file: what their definition says. *)
SumsAt(t, f, n) ==
  \A k \in 0 .. n : t[k] = IF k > 0 /\ Body[f][k] \in Byte
                           THEN (t[k - 1] + Body[f][k]) % ByteSize ELSE 0

LEMMA SumsExist ==
  ASSUME NEW f
  PROVE  \A n \in Nat : \E t \in [0 .. n -> Byte] : SumsAt(t, f, n)
<1>1. PICK S : S = {n \in Nat : \E t \in [0 .. n -> Byte] : SumsAt(t, f, n)}
  OBVIOUS
<1>2. 0 \in S
  <2>1. PICK t : t = [k \in 0 .. 0 |-> 0]
    OBVIOUS
  <2>2. t \in [0 .. 0 -> Byte] /\ SumsAt(t, f, 0)
    BY <2>1, ByteFacts DEF SumsAt, Zero
  <2> QED
    BY <1>1, <2>2
<1>3. ASSUME NEW n \in Nat, n \in S PROVE n + 1 \in S
  <2>1. PICK t \in [0 .. n -> Byte] : SumsAt(t, f, n)
    BY <1>1, <1>3
  <2>2. PICK b \in Byte : b = IF Body[f][n + 1] \in Byte
                              THEN (t[n] + Body[f][n + 1]) % ByteSize ELSE 0
    <3>1. t[n] \in Byte
      BY <2>1
    <3>2. Body[f][n + 1] \in Byte => t[n] + Body[f][n + 1] \in Int
      BY <3>1 DEF Byte
    <3> QED
      BY <3>2, Reduced, ByteFacts DEF Zero
  <2>3. PICK u : u = [k \in 0 .. n + 1 |-> IF k = n + 1 THEN b ELSE t[k]]
    OBVIOUS
  <2>4. u \in [0 .. n + 1 -> Byte] /\ u[n + 1] = b /\ \A k \in 0 .. n : u[k] = t[k]
    BY <2>1, <2>2, <2>3
  <2>5. ASSUME NEW k \in 0 .. n + 1
        PROVE  u[k] = IF k > 0 /\ Body[f][k] \in Byte
                      THEN (u[k - 1] + Body[f][k]) % ByteSize ELSE 0
    <3>1. CASE k = n + 1
      <4>1. u[k - 1] = t[n] /\ k > 0
        BY <2>4, <3>1
      <4> QED
        BY <2>2, <2>4, <3>1, <4>1
    <3>2. CASE k # n + 1
      <4>1. k \in 0 .. n /\ u[k] = t[k] /\ (k > 0 => u[k - 1] = t[k - 1])
        BY <2>4, <3>2
      <4>2. t[k] = IF k > 0 /\ Body[f][k] \in Byte
                   THEN (t[k - 1] + Body[f][k]) % ByteSize ELSE 0
        BY <2>1, <4>1 DEF SumsAt
      <4> QED
        BY <4>1, <4>2
    <3> QED
      BY <3>1, <3>2
  <2>6. SumsAt(u, f, n + 1)
    BY <2>5 DEF SumsAt
  <2> QED
    BY <1>1, <2>4, <2>6
<1>4. Nat \subseteq S
  BY <1>2, <1>3, Induct
<1> QED
  BY <1>1, <1>4

LEMMA SumsAgree ==
  ASSUME NEW f, NEW n \in Nat, NEW t, NEW u, SumsAt(t, f, n), SumsAt(u, f, n)
  PROVE  \A k \in 0 .. n : u[k] = t[k]
<1>1. PICK S : S = {k \in Nat : k <= n => u[k] = t[k]}
  OBVIOUS
<1>2. 0 \in S
  BY <1>1 DEF SumsAt
<1>3. ASSUME NEW k \in Nat, k \in S PROVE k + 1 \in S
  <2> SUFFICES ASSUME k + 1 <= n PROVE u[k + 1] = t[k + 1]
    BY <1>1
  <2>1. k + 1 \in 0 .. n /\ (k + 1) - 1 = k /\ u[k] = t[k]
    BY <1>1, <1>3
  <2> QED
    BY <2>1 DEF SumsAt
<1>4. Nat \subseteq S
  BY <1>2, <1>3, Induct
<1> QED
  BY <1>1, <1>4

LEMMA SumsAre ==
  ASSUME NEW f \in Files
  PROVE  /\ Sums(f) \in [0 .. Len(Body[f]) -> Byte]
         /\ SumsAt(Sums(f), f, Len(Body[f]))
<1>1. PICK n \in Nat : n = Len(Body[f])
  BY FileAssumption, LenProperties
<1>2. PICK t \in [0 .. n -> Byte] : SumsAt(t, f, n)
  BY SumsExist
<1>3. t = [k \in 0 .. n |-> IF k > 0 /\ Body[f][k] \in Byte
                            THEN (t[k - 1] + Body[f][k]) % ByteSize ELSE 0]
  <2>1. \A k \in 0 .. n : t[k] = IF k > 0 /\ Body[f][k] \in Byte
                                 THEN (t[k - 1] + Body[f][k]) % ByteSize ELSE 0
    BY <1>2 DEF SumsAt
  <2> QED
    BY <1>2, <2>1
<1>4. PICK u : u = Sums(f)
  OBVIOUS
<1>5. u = [k \in 0 .. n |-> IF k > 0 /\ Body[f][k] \in Byte
                            THEN (u[k - 1] + Body[f][k]) % ByteSize ELSE 0]
  BY <1>1, <1>3, <1>4, Zenon DEF Sums
<1>6. SumsAt(u, f, n)
  BY <1>5 DEF SumsAt
<1>7. \A k \in 0 .. n : u[k] = t[k]
  BY <1>2, <1>6, SumsAgree
<1>8. u \in [0 .. n -> Byte]
  BY <1>2, <1>5, <1>7
<1> QED
  BY <1>1, <1>4, <1>6, <1>8

-----------------------------------------------------------------------------
(* What is announced is whole.  The invariant relates the parser to the    *)
(* file by the tokens that do_work was given so far, R, of which the first *)
(* m are the file's, but for the one at d if there is one (d > 0).         *)

(* A token that is damaged on its way, while the upload stays regular:     *)
(* none of a length or of a data record's address.                         *)
Damage(f, R, d) ==
  /\ "damage" \in Faults
  /\ R[d] \in {Erased, NL, Other} /\ R[d] # Body[f][d]
  /\ ~IsLength(f, d) /\ ~InAddress(f, d)

(* Behind the records, what a segment brought may have been stripped.      *)
Received(f, R, d, m) ==
  /\ m <= Len(R) /\ m <= sent /\ sent <= Len(Body[f]) /\ d <= m
  /\ \A k \in 1 .. m : k # d => R[k] = Body[f][k]
  /\ d > 0 => Damage(f, R, d)
  /\ \A k \in m + 1 .. Len(R) : R[k] \notin {S0, S3, S7}
  /\ (m = Len(R) /\ m = sent) \/ \A s \in Starts(f) : LineEnd(f, s) <= m

(* The line that begins at s is in current_line, up to its end if it is    *)
(* parsed, and what follows is in chunk.                                   *)
InLine(R, s) ==
  /\ s > 0
  /\ s + current_line_index + Len(chunk) = Len(R) + (IF pc = "read" THEN 1 ELSE 0)
  /\ \A k \in 1 .. Len(chunk) : chunk[k] = R[Len(R) - Len(chunk) + k]
  /\ \A c \in 0 .. current_line_index - 1 :
       R[s + c] # NL /\ (c < LineSize => current_line[c] = R[s + c])
  /\ pc # "read" => /\ current_line_index \in 1 .. LineSize - 1
                    /\ current_line[current_line_index] = NL
                    /\ R[s + current_line_index] = NL

(* The image up to where it was received, in the data flash and the buffer. *)
Stored(f) ==
  /\ address + index <= Len(Bytes[f])
  /\ \A p \in 0 .. address - 1 : newApp[p] = Bytes[f][p + 1]
  /\ \A j \in 0 .. index - 1 : buffer[j] = Bytes[f][address + j + 1]

Before(f, s) == ~srec_ok /\ Stored(f) /\ Described(f, s, address + index)

(* An upload that can only end as it is.                                   *)
Ended(f) == (srec_ok => Whole(f)) /\ (sound => srec_ok)

(* What a line that begins at s is: a record's; the end of a line whose    *)
(* last token became one; the rest of a line that was cut in two, which is *)
(* no record; or what follows the last record.                             *)
AtRecord(f, s) == s \in Starts(f) /\ Before(f, s)
AtEnd(f, d, s) ==
  /\ \E l \in Starts(f) : s = LineEnd(f, l) /\ Body[f][l] # S7
  /\ 0 < d /\ d < s /\ Before(f, s + 1)
AtRest(f, d, s) ==
  /\ \E l \in Starts(f) : l < s /\ s < LineEnd(f, l)
  /\ 0 < d /\ d < s /\ ~srec_ok
AtTail(f, s) == (\A l \in Starts(f) : l < s) /\ Ended(f)

AtLine(f, d, s) ==
  AtRecord(f, s) \/ AtEnd(f, d, s) \/ AtRest(f, d, s) \/ AtTail(f, s)

(* The bytes of a data record: i - 1 of them were scanned.  They are right; *)
(* or one was damaged, and the sum is not that of the file; or they were    *)
(* cut short.                                                               *)
Exact(f, s) ==
  /\ sum = Sums(f)[s + i - 1] /\ Stored(f)
  /\ address + index = From(f, s) + (IF i > AddrBytes + 2 THEN i - AddrBytes - 2 ELSE 0)
Astray(f, R, d, s) ==
  s < d /\ d < s + i /\ R[d] # NL /\ sum # Sums(f)[s + i - 1]
Short(f, R, d, s) == s < d /\ d <= s + Length(f, s) /\ R[d] = NL

InData(f, R, d, s) ==
  /\ s \in Data(f) /\ s # d /\ ~srec_ok
  /\ byte_count = Length(f, s) /\ i \in 1 .. Length(f, s) + 1
  /\ Exact(f, s) \/ Astray(f, R, d, s) \/ Short(f, R, d, s)

InTermination(f, d, s) ==
  /\ s \in Starts(f) /\ Body[f][s] = S7 /\ s # d /\ Before(f, s)
  /\ sound => /\ byte_count = Length(f, s) /\ i \in 1 .. Length(f, s) + 1
              /\ sum = Sums(f)[s + i - 1]

Follows(f, R, d, m, s) ==
  /\ Received(f, R, d, m) /\ InLine(R, s) /\ (sound => d = 0)
  /\ pc \in {"read", "parse"} => AtLine(f, d, s)
  /\ pc = "s3" => InData(f, R, d, s)
  /\ pc = "s7" => InTermination(f, d, s)

Uploading(f) ==
  \E R \in Seq(Token) : \E d, m, s \in Nat : Follows(f, R, d, m, s)

Goes(f) == IF status = "failed" THEN ~Busy /\ Ended(f) ELSE Uploading(f)

UInv ==
  /\ TypeOK
  /\ file = None => ~Busy
  /\ file # None => last = file /\ status # "successful_rebooting"
  /\ regular => \A f \in Files : file = f => Goes(f)
  /\ regular /\ status = "successful_rebooting" => Whole(last)

-----------------------------------------------------------------------------
(* What is where in a file. *)
LEMMA Sizes ==
  /\ ByteSize \in Nat /\ ByteSize > 1 /\ LineSize \in Nat /\ LineSize > 0
  /\ Page \in Nat /\ Page > 0 /\ AreaSize \in Nat /\ AddressSpace \in Nat
  /\ AddressSpace > 0 /\ Start \in Nat /\ AddrBytes = 2
  /\ Erased \in Byte /\ NL \notin Byte /\ Other \notin Byte
  /\ \A t \in {S0, S3, S7} : t \notin Byte /\ t \notin {Erased, NL, Other, Dash}
  /\ S0 # S3 /\ S0 # S7 /\ S3 # S7 /\ NL # Dash /\ NL # Other /\ Dash # Other
  /\ Dash \notin Byte
<1>1. \A t \in {S0, S3, S7, NL, Dash, Other} : t \notin Byte
  BY FileAssumption DEF Mark
<1>2. \A t \in {S0, S3, S7} : t \notin {NL, Dash, Other}
  BY FileAssumption
<1>3. ByteSize \in Nat /\ ByteSize > 1 /\ LineSize > 0 /\ Page > 0 /\ AddressSpace > 0
  BY SizeAssumption
<1>4. S0 # S3 /\ S0 # S7 /\ S3 # S7 /\ NL # Dash /\ NL # Other /\ Dash # Other
  BY FileAssumption
<1> QED
  BY <1>1, <1>2, <1>3, <1>4, SizeAssumption, ByteFacts DEF AddrBytes

LEMMA BodyIs ==
  ASSUME NEW f \in Files
  PROVE  /\ Body[f] \in Seq(Token) /\ Len(Body[f]) \in Nat
         /\ DOMAIN Body[f] = 1 .. Len(Body[f])
         /\ \A k \in 1 .. Len(Body[f]) : Body[f][k] \in Token
         /\ Starts(f) \subseteq 1 .. Len(Body[f])
BY FileAssumption DEF Starts

LEMMA LineIs ==
  ASSUME NEW f \in Files, WellFormed(f), NEW s \in Starts(f)
  PROVE  /\ s \in Nat /\ s > 0 /\ Body[f][s] \in {S0, S3, S7}
         /\ Length(f, s) \in Nat /\ Length(f, s) >= 3 /\ Length(f, s) <= ByteSize - 2
         /\ LineEnd(f, s) \in Nat /\ LineEnd(f, s) = s + Length(f, s) + 2
         /\ s < LineEnd(f, s) /\ s + 5 <= LineEnd(f, s)
         /\ LineEnd(f, s) - s < LineSize /\ LineEnd(f, s) <= Len(Body[f])
         /\ \A k \in s + 1 .. LineEnd(f, s) - 1 : Body[f][k] \in Byte
         /\ Body[f][LineEnd(f, s) - 1] = ByteSize - 1 - Sums(f)[LineEnd(f, s) - 2]
         /\ Body[f][LineEnd(f, s)] = NL
         /\ Body[f][s] # S7 => LineEnd(f, s) + 1 \in Starts(f)
<1>1. s \in 1 .. Len(Body[f]) /\ Len(Body[f]) \in Nat
  BY BodyIs
<1>2. IsLine(f, s)
  BY DEF WellFormed
<1>3. Length(f, s) \in AddrBytes + 1 .. ByteSize - 2
  BY <1>2 DEF IsLine
<1>4. Length(f, s) \in Nat /\ Length(f, s) >= 3 /\ Length(f, s) <= ByteSize - 2
  BY <1>3, Sizes
<1>5. LineEnd(f, s) \in Nat /\ LineEnd(f, s) = s + Length(f, s) + 2
  BY <1>1, <1>4 DEF LineEnd
<1>6. s < LineEnd(f, s) /\ s + 5 <= LineEnd(f, s)
  BY <1>1, <1>4, <1>5
<1>7. PICK e : e = LineEnd(f, s)
  OBVIOUS
<1>8. /\ e - s < LineSize /\ e <= Len(Body[f])
      /\ \A k \in s + 1 .. e - 1 : Body[f][k] \in Byte
      /\ Body[f][e - 1] = ByteSize - 1 - Sums(f)[e - 2]
      /\ Body[f][e] = NL
      /\ Body[f][s] # S7 => e + 1 \in Starts(f)
  BY <1>2, <1>7 DEF IsLine
<1>9. Body[f][s] \in {S0, S3, S7}
  BY DEF Starts
<1> QED
  BY <1>1, <1>4, <1>5, <1>6, <1>7, <1>8, <1>9

(* Its numbers alone, and its bytes, counted from its type.                *)
LEMMA LineBounds ==
  ASSUME NEW f \in Files, WellFormed(f), NEW s \in Starts(f)
  PROVE  /\ s \in Nat /\ s > 0
         /\ Length(f, s) \in Nat /\ Length(f, s) >= 3
         /\ LineEnd(f, s) \in Nat /\ LineEnd(f, s) = s + Length(f, s) + 2
         /\ s < LineEnd(f, s)
BY LineIs

LEMMA LineByte ==
  ASSUME NEW f \in Files, WellFormed(f), NEW s \in Starts(f),
         NEW n \in Nat, 1 <= n, n <= Length(f, s) + 1
  PROVE  Body[f][s + n] \in Byte
<1>1. PICK e, l \in Nat : /\ e = LineEnd(f, s) /\ l = Length(f, s)
                          /\ e = s + l + 2 /\ s \in Nat
  BY LineBounds
<1>2. s + n \in s + 1 .. e - 1
  BY <1>1
<1>3. \A k \in s + 1 .. e - 1 : Body[f][k] \in Byte
  BY <1>1, LineIs
<1> QED
  BY <1>2, <1>3

(* No line begins in another one. *)
LEMMA LinesApart ==
  ASSUME NEW f \in Files, WellFormed(f), NEW s \in Starts(f)
  PROVE  /\ \A k \in s + 1 .. LineEnd(f, s) : k \notin Starts(f)
         /\ \A l \in Starts(f) : l > s => l > LineEnd(f, s)
<1>1. ASSUME NEW k \in s + 1 .. LineEnd(f, s) PROVE k \notin Starts(f)
  <2>1. PICK e \in Nat : e = LineEnd(f, s) /\ s \in Nat
    BY LineIs
  <2>2. k = e \/ k \in s + 1 .. e - 1
    BY <2>1
  <2>3. Body[f][k] \in Byte \/ Body[f][k] = NL
    BY <2>1, <2>2, LineIs
  <2> QED
    BY <2>3, Sizes DEF Starts
<1>2. \A l \in Starts(f) : l \in Nat
  BY BodyIs
<1> QED
  BY <1>1, <1>2, LineIs

LEMMA LastLine ==
  ASSUME NEW f \in Files, WellFormed(f), NEW s \in Starts(f), Body[f][s] = S7
  PROVE  /\ Length(f, s) = 3 /\ RecordAddress(f, s) = Start
         /\ \A l \in Starts(f) : l <= s
<1>1. IsLine(f, s)
  BY DEF WellFormed
<1> QED
  BY <1>1, Sizes DEF IsLine

LEMMA HeaderLine ==
  ASSUME NEW f \in Files, WellFormed(f), NEW s \in Starts(f), Body[f][s] = S0
  PROVE  \A l \in Data(f) : l > s
<1>1. IsLine(f, s)
  BY DEF WellFormed
<1> QED
  BY <1>1, Sizes DEF IsLine

(* Where the bytes of a data record belong. *)
LEMMA DataIs ==
  ASSUME NEW f \in Files, WellFormed(f), NEW s \in Data(f)
  PROVE  /\ s \in Starts(f) /\ Body[f][s] = S3
         /\ From(f, s) \in Nat /\ To(f, s) \in Nat
         /\ To(f, s) = From(f, s) + Length(f, s) - 3 /\ From(f, s) <= To(f, s)
         /\ To(f, s) <= Len(Bytes[f])
         /\ RecordAddress(f, s) \in Nat /\ From(f, s) = RecordAddress(f, s) - Start
         /\ RecordAddress(f, s) >= Start
<1>1. s \in Starts(f) /\ Body[f][s] = S3 /\ RecordAddress(f, s) >= Start
  BY DEF Data
<1>2. Body[f][s + 2] \in Nat /\ Body[f][s + 3] \in Nat
  <2>0. PICK n \in Nat : n = Length(f, s) /\ n >= 3 /\ s \in Nat /\ LineEnd(f, s) = s + n + 2
    BY <1>1, LineIs
  <2>1. s + 2 \in s + 1 .. LineEnd(f, s) - 1 /\ s + 3 \in s + 1 .. LineEnd(f, s) - 1
    BY <2>0
  <2>2. Body[f][s + 2] \in Byte /\ Body[f][s + 3] \in Byte
    BY <1>1, <2>1, LineIs
  <2> QED
    BY <2>2 DEF Byte
<1>3. RecordAddress(f, s) \in Nat
  BY <1>2, Sizes DEF RecordAddress
<1>4. From(f, s) \in Nat /\ From(f, s) = RecordAddress(f, s) - Start
  BY <1>1, <1>3, Sizes DEF From
<1>5. To(f, s) \in Nat /\ To(f, s) = From(f, s) + Length(f, s) - 3 /\ From(f, s) <= To(f, s)
  <2>1. Length(f, s) \in Nat /\ Length(f, s) >= 3
    BY <1>1, LineIs
  <2>2. To(f, s) = From(f, s) + Length(f, s) - 2 - 1
    BY DEF To, AddrBytes
  <2> QED
    BY <1>4, <2>1, <2>2
<1>6. s < Len(Body[f]) + 1
  BY <1>1, BodyIs
<1>7. To(f, s) <= Len(Bytes[f])
  BY <1>6 DEF WellFormed, Image, Described
<1> QED
  BY <1>1, <1>3, <1>4, <1>5, <1>7

LEMMA BytesAre ==
  ASSUME NEW f \in Files, WellFormed(f)
  PROVE  /\ Len(Bytes[f]) \in Nat /\ Len(Bytes[f]) <= AreaSize
         /\ Len(Bytes[f]) < AddressSpace
         /\ \A p \in 1 .. Len(Bytes[f]) : Bytes[f][p] \in Byte
         /\ Described(f, Len(Body[f]) + 1, Len(Bytes[f]))
<1>1. Bytes[f] \in Seq(Byte)
  BY DEF WellFormed, Image
<1> QED
  BY <1>1 DEF WellFormed, Image

LEMMA DataByte ==
  ASSUME NEW f \in Files, WellFormed(f), NEW s \in Data(f), NEW n \in Nat
  PROVE  4 <= n /\ n <= Length(f, s) =>
           /\ From(f, s) + n - 4 < Len(Bytes[f])
           /\ Bytes[f][From(f, s) + n - 3] = Body[f][s + n]
<1>1. SUFFICES ASSUME 4 <= n, n <= Length(f, s)
               PROVE  /\ From(f, s) + n - 4 < Len(Bytes[f])
                      /\ Bytes[f][From(f, s) + n - 3] = Body[f][s + n]
  OBVIOUS
<1>2. PICK a, t, b, e, r \in Nat : /\ a = From(f, s) /\ t = To(f, s) /\ e = Length(f, s)
                               /\ b = Len(Bytes[f]) /\ r = s
  BY DataIs, LineIs, BytesAre
<1>3. t = a + e - 3 /\ t <= b /\ n <= e /\ 4 <= n
  BY <1>1, <1>2, DataIs
<1>4. PICK p \in Nat : p = a + n - 4
  BY <1>3
<1>5. p \in 0 .. b - 1 /\ a <= p /\ p < t /\ p < b
  BY <1>3, <1>4
<1>6. Bytes[f][p + 1] = Body[f][r + 2 + 2 + p - a]
  BY <1>2, <1>5 DEF WellFormed, Image, AddrBytes
<1>7. p + 1 = a + n - 3 /\ r + 2 + 2 + p - a = r + n
  BY <1>4
<1>8. a + n - 4 < b
  BY <1>4, <1>5
<1>9. Bytes[f][a + n - 3] = Body[f][r + n]
  BY <1>6, <1>7
<1> QED
  BY <1>2, <1>8, <1>9

(* The gap in front of a data record holds 0xff. *)
LEMMA GapByte ==
  ASSUME NEW f \in Files, WellFormed(f), NEW s \in Data(f), NEW u \in Nat,
         Described(f, s, u), NEW p \in Nat, u <= p, p < From(f, s)
  PROVE  p < Len(Bytes[f]) /\ Bytes[f][p + 1] = Erased
<1>1. p \in 0 .. Len(Bytes[f]) - 1
  BY DataIs, BytesAre
<1>2. ASSUME NEW l \in Data(f), From(f, l) <= p, p < To(f, l) PROVE FALSE
  <2>1. l \in Nat /\ s \in Nat /\ From(f, l) \in Nat /\ To(f, l) \in Nat /\ From(f, s) \in Nat
    BY DataIs, LineIs
  <2>2. CASE l < s
    <3>1. To(f, l) <= u
      BY <2>2 DEF Described
    <3> QED
      BY <1>2, <2>1, <3>1
  <2>3. CASE l = s
    BY <1>2, <2>1, <2>3
  <2>4. CASE l > s
    <3>1. To(f, s) <= From(f, l)
      BY <2>4, <2>1 DEF WellFormed
    <3>2. From(f, s) <= To(f, s) /\ To(f, s) \in Nat
      BY DataIs
    <3> QED
      BY <1>2, <2>1, <3>1, <3>2
  <2> QED
    BY <2>1, <2>2, <2>3, <2>4
<1>3. {l \in Data(f) : From(f, l) <= p /\ p < To(f, l)} = {}
  BY <1>2
<1>4. Bytes[f][p + 1] = Erased
  BY <1>1, <1>3 DEF WellFormed, Image
<1> QED
  BY <1>1, <1>4, BytesAre

(* How far the image goes is determined by the records. *)
LEMMA DescribedOnce ==
  ASSUME NEW f \in Files, WellFormed(f), NEW s \in Nat, NEW t \in Nat,
         NEW u \in Nat, NEW v \in Nat,
         Described(f, s, u), Described(f, t, v), \A l \in Data(f) : l < s /\ l < t
  PROVE  u = v
<1>1. \A l \in Data(f) : To(f, l) \in Nat /\ To(f, l) <= u /\ To(f, l) <= v
  BY DataIs DEF Described
<1>2. u = 0 \/ \E l \in Data(f) : To(f, l) = u
  BY DEF Described
<1>3. v = 0 \/ \E l \in Data(f) : To(f, l) = v
  BY DEF Described
<1> QED
  BY <1>1, <1>2, <1>3

LEMMA DescribedNone ==
  ASSUME NEW f, NEW s, NEW u, Described(f, s, u), \A l \in Data(f) : ~(l < s)
  PROVE  u = 0
BY DEF Described

LEMMA DescribedFirst ==
  ASSUME NEW f \in Files PROVE Described(f, 1, 0)
<1>1. \A l \in Data(f) : ~(l < 1)
  BY BodyIs DEF Data
<1> QED
  BY <1>1 DEF Described

LEMMA DescribedFrom ==
  ASSUME NEW f \in Files, WellFormed(f), NEW s \in Data(f), NEW u \in Nat, Described(f, s, u)
  PROVE  u <= From(f, s)
<1>1. CASE u = 0
  BY <1>1, DataIs
<1>2. ASSUME NEW l \in Data(f), l < s, To(f, l) = u PROVE u <= From(f, s)
  BY <1>2 DEF WellFormed
<1> QED
  BY <1>1, <1>2 DEF Described

(* What a line adds. *)
LEMMA DescribedData ==
  ASSUME NEW f \in Files, WellFormed(f), NEW s \in Data(f)
  PROVE  Described(f, LineEnd(f, s) + 1, To(f, s))
<1>1. s \in Starts(f) /\ s \in Nat /\ s < LineEnd(f, s) + 1 /\ LineEnd(f, s) \in Nat
  BY DataIs, LineIs
<1>2. ASSUME NEW l \in Data(f), l < LineEnd(f, s) + 1
      PROVE  To(f, l) <= To(f, s)
  <2>1. l \in Starts(f) /\ l \in Nat /\ To(f, l) \in Nat /\ To(f, s) \in Nat /\ From(f, s) \in Nat
    BY DataIs, LineIs
  <2>2. l <= s
    BY <1>1, <1>2, <2>1, LinesApart
  <2>3. CASE l = s
    BY <2>1, <2>3
  <2>4. CASE l < s
    <3>1. To(f, l) <= From(f, s)
      BY <2>4 DEF WellFormed
    <3> QED
      BY <2>1, <3>1, DataIs
  <2> QED
    BY <1>1, <2>1, <2>2, <2>3, <2>4
<1> QED
  BY <1>1, <1>2 DEF Described

LEMMA DescribedOther ==
  ASSUME NEW f \in Files, WellFormed(f), NEW s \in Starts(f), s \notin Data(f), NEW u,
         Described(f, s, u)
  PROVE  Described(f, LineEnd(f, s) + 1, u)
<1>1. s \in Nat /\ s < LineEnd(f, s) + 1 /\ LineEnd(f, s) \in Nat
  BY LineIs
<1>2. ASSUME NEW l \in Data(f) PROVE l < LineEnd(f, s) + 1 <=> l < s
  <2>1. l \in Starts(f) /\ l \in Nat
    BY DataIs, LineIs
  <2>2. l # s
    OBVIOUS
  <2>3. l > s => l > LineEnd(f, s)
    BY <2>1, LinesApart
  <2> QED
    BY <1>1, <2>1, <2>2, <2>3
<1> QED
  BY <1>2 DEF Described

-----------------------------------------------------------------------------
(* The tokens that were given to do_work, and the lines they make. *)
LEMMA LineKnown ==
  ASSUME NEW f \in Files, WellFormed(f), sent \in Nat,
         NEW R \in Seq(Token), NEW d \in Nat, NEW m \in Nat, Received(f, R, d, m),
         NEW s \in Starts(f), NEW k \in Nat, k > 0
  PROVE  k <= LineEnd(f, s) /\ k <= Len(R) =>
           k <= m /\ k <= Len(Body[f]) /\ (k # d => R[k] = Body[f][k])
<1>1. SUFFICES ASSUME k <= LineEnd(f, s), k <= Len(R)
               PROVE  k <= m /\ k <= Len(Body[f]) /\ (k # d => R[k] = Body[f][k])
  OBVIOUS
<1>2. PICK n, e, b \in Nat : n = Len(R) /\ e = LineEnd(f, s) /\ b = Len(Body[f])
  BY LineIs, BodyIs, LenProperties
<1>3. k <= e /\ k <= n /\ e <= b /\ m <= n /\ m <= sent /\ sent <= b /\ (m = n \/ e <= m)
  BY <1>1, <1>2, LineIs DEF Received
<1>4. k <= m /\ k <= b
  BY <1>3
<1>5. k \in 1 .. m
  BY <1>4
<1> QED
  BY <1>2, <1>4, <1>5 DEF Received

(* A damaged token of a record that has its type is behind its length, and *)
(* behind its address if it is a data record.                              *)
LEMMA DamagedAt ==
  ASSUME NEW f \in Files, WellFormed(f), NEW R, NEW d \in Nat, Damage(f, R, d),
         NEW s \in Starts(f)
  PROVE  /\ Body[f][s] = S3 => ~(s < d /\ d < s + 4)
         /\ Body[f][s] = S7 => ~(s < d /\ d < s + 2)
         /\ R[d] \in {Erased, NL, Other} /\ R[d] # Body[f][d]
<1>1. s \in Nat /\ s > 0
  BY LineIs
<1>2. ASSUME Body[f][s] \in {S3, S7} PROVE d # s + 1
  <2>1. ASSUME d = s + 1 PROVE IsLength(f, d)
    <3>1. d > 1 /\ d - 1 = s
      BY <1>1, <2>1
    <3> QED
      BY <1>2, <3>1 DEF IsLength
  <2> QED
    BY <2>1 DEF Damage
<1>3. ASSUME Body[f][s] = S3, d = s + 2 \/ d = s + 3 PROVE FALSE
  <2>1. \E j \in 2 .. 3 : d > j /\ d - j = s
    BY <1>1, <1>3
  <2>2. InAddress(f, d)
    BY <1>3, <2>1 DEF InAddress, AddrBytes
  <2> QED
    BY <2>2 DEF Damage
<1>4. Body[f][s] = S3 => ~(s < d /\ d < s + 4)
  BY <1>1, <1>2, <1>3
<1>5. Body[f][s] = S7 => ~(s < d /\ d < s + 2)
  BY <1>1, <1>2
<1> QED
  BY <1>4, <1>5 DEF Damage

(* A line that begins with the type of a record ends where the file says,  *)
(* or where its damaged token is, or its damaged end joins it to the next. *)
LEMMA FirstEnd ==
  ASSUME NEW f \in Files, WellFormed(f), sent \in Nat,
         NEW R \in Seq(Token), NEW d \in Nat, NEW m \in Nat, Received(f, R, d, m),
         NEW s \in Starts(f), s # d, NEW p \in Nat, s < p,
         R[p] = NL, \A k \in s .. p - 1 : R[k] # NL
  PROVE  p <= Len(R) =>
           \/ p = LineEnd(f, s) /\ p # d
           \/ p = d /\ p < LineEnd(f, s)
           \/ d = LineEnd(f, s) /\ p > LineEnd(f, s)
<1>1. SUFFICES ASSUME p <= Len(R)
               PROVE  \/ p = LineEnd(f, s) /\ p # d
                      \/ p = d /\ p < LineEnd(f, s)
                      \/ d = LineEnd(f, s) /\ p > LineEnd(f, s)
  OBVIOUS
<1>2. PICK n, e \in Nat : /\ n = Len(R) /\ e = LineEnd(f, s) /\ s < e
                         /\ s \in Nat /\ s > 0 /\ p <= n /\ Body[f][e] = NL
  <2>1. Len(R) \in Nat
    BY LenProperties
  <2> QED
    BY <1>1, <2>1, LineIs
<1>3. \A k \in 1 .. n : k <= e /\ k # d => R[k] = Body[f][k]
  BY <1>2, LineKnown
<1>4. ASSUME p < e, p # d PROVE FALSE
  <2>1. R[p] = Body[f][p]
    BY <1>2, <1>3, <1>4
  <2>2. p \in s + 1 .. LineEnd(f, s) - 1
    BY <1>2, <1>4
  <2>3. Body[f][p] \in Byte
    BY <2>2, LineIs
  <2> QED
    BY <2>1, <2>3, Sizes
<1>5. ASSUME p = e, p = d PROVE FALSE
  <2>1. d > 0 /\ Body[f][d] = NL
    BY <1>2, <1>5
  <2>2. R[d] # Body[f][d]
    BY <2>1 DEF Received, Damage
  <2> QED
    BY <1>5, <2>1, <2>2
<1>6. ASSUME p > e, d # e PROVE FALSE
  <2>1. e \in 1 .. n
    BY <1>2, <1>6
  <2>2. R[e] = Body[f][e] /\ Body[f][e] = NL
    BY <1>2, <1>3, <1>6, <2>1
  <2>3. e \in s .. p - 1
    BY <1>2, <1>6
  <2> QED
    BY <2>2, <2>3
<1>7. (p = e /\ p # d) \/ (p = d /\ p < e) \/ (d = e /\ p > e)
  <2>1. p < e \/ p = e \/ p > e
    BY <1>2
  <2> QED
    BY <1>4, <1>5, <1>6, <2>1
<1> QED
  BY <1>2, <1>7

(* Where a record that was taken for one leaves the next line. *)
LEMMA NextLine ==
  ASSUME NEW f \in Files, WellFormed(f), "damage" \in Faults => TooLongTogether(f),
         sent \in Nat,
         NEW R \in Seq(Token), NEW d \in Nat, NEW m \in Nat, Received(f, R, d, m),
         NEW s \in Starts(f), s # d, Body[f][s] # S7, NEW p \in Nat, s < p,
         R[p] = NL, \A k \in s .. p - 1 : R[k] # NL, p < s + LineSize
  PROVE  p <= Len(R) =>
           \/ /\ p + 1 \in Starts(f)
              /\ \A u \in Nat : Described(f, LineEnd(f, s) + 1, u) => Described(f, p + 1, u)
           \/ /\ s < p + 1 /\ p + 1 <= LineEnd(f, s) /\ d = p /\ d > 0
           \/ 0 < d /\ \A l \in Starts(f) : l < p + 1
<1>1. SUFFICES ASSUME p <= Len(R)
               PROVE  \/ /\ p + 1 \in Starts(f)
                         /\ \A u \in Nat : Described(f, LineEnd(f, s) + 1, u) => Described(f, p + 1, u)
                      \/ /\ s < p + 1 /\ p + 1 <= LineEnd(f, s) /\ d = p /\ d > 0
                      \/ 0 < d /\ \A l \in Starts(f) : l < p + 1
  OBVIOUS
<1>2. PICK e \in Nat : e = LineEnd(f, s) /\ s < e /\ s \in Nat /\ s > 0 /\ e + 1 \in Starts(f)
  BY LineIs
<1>3. s < e /\ s \in Nat /\ s > 0
  BY <1>2
<1>4. \/ p = LineEnd(f, s) /\ p # d
      \/ p = d /\ p < LineEnd(f, s)
      \/ d = LineEnd(f, s) /\ p > LineEnd(f, s)
  BY <1>1, FirstEnd
<1>5. CASE p = LineEnd(f, s)
  BY <1>2, <1>5
<1>6. CASE p = d /\ p < LineEnd(f, s)
  <2>1. s < p + 1 /\ p + 1 <= e /\ d > 0
    BY <1>2, <1>6
  <2> QED
    BY <1>2, <1>6, <2>1
<1>7. CASE d = LineEnd(f, s) /\ p > LineEnd(f, s)
  <2>1. PICK t \in Starts(f) : t = e + 1
    BY <1>2
  <2>2. t \in Nat /\ t # d /\ t > d /\ p > e /\ d = e /\ p >= t
    BY <1>2, <1>7, <2>1
  <2>3. p # t
    <3>1. p = t => p <= LineEnd(f, t)
      BY <2>2, LineIs
    <3>2. p = t => R[p] = Body[f][t]
      BY <1>1, <2>2, <3>1, LineKnown
    <3>3. Body[f][t] # NL
      BY LineIs, Sizes
    <3> QED
      BY <1>1, <3>2, <3>3
  <2>4. p > t /\ \A k \in t .. p - 1 : R[k] # NL
    BY <1>2, <2>1, <2>2, <2>3
  <2>5. \/ p = LineEnd(f, t)
        \/ p = d /\ p < LineEnd(f, t)
        \/ d = LineEnd(f, t) /\ p > LineEnd(f, t)
    BY <1>1, <2>2, <2>4, FirstEnd
  <2>6. p = LineEnd(f, t)
    <3>1. PICK g \in Nat : g = LineEnd(f, t) /\ g > t
      BY LineIs
    <3> QED
      BY <2>2, <2>5, <3>1
  <2>7. CASE Body[f][t] = S7
    <3>1. \A l \in Starts(f) : l <= t /\ l \in Nat
      BY <2>7, LastLine, LineBounds
    <3>2. d > 0 /\ t < p + 1
      BY <1>3, <2>2, <2>4
    <3>3. \A l \in Nat : l <= t => l < p + 1
      BY <2>2, <3>2
    <3> QED
      BY <3>1, <3>2, <3>3
  <2>8. CASE Body[f][t] # S7
    <3>1. p + 1 \in Starts(f)
      BY <2>6, <2>8, LineIs
    <3>2. t \notin Data(f)
      <4>1. TooLongTogether(f)
        BY <1>2, <2>2 DEF Received, Damage
      <4>2. t \in Data(f) => LineEnd(f, t) - s >= LineSize
        BY <1>2, <2>1, <4>1 DEF TooLongTogether
      <4>3. ~(p - s >= LineSize)
        <5>1. PICK z \in Nat : z = LineSize
          BY Sizes
        <5> QED
          BY <1>3, <5>1
      <4> QED
        BY <2>6, <4>2, <4>3
    <3>3. \A u \in Nat : Described(f, t, u) => Described(f, p + 1, u)
      BY <2>6, <3>2, DescribedOther
    <3> QED
      BY <1>2, <2>1, <3>1, <3>3
  <2> QED
    BY <2>7, <2>8
<1> QED
  BY <1>4, <1>5, <1>6, <1>7

-----------------------------------------------------------------------------
(* What the scans of a line meet. *)
LEMMA SkipHere ==
  ASSUME NEW p \in Nat, NEW behind, Cell(p, behind) # NL
  PROVE  Skip(p, behind) = p
<1>1. LineSize \in Nat
  BY Sizes
<1>2. p \in p .. p + LineSize /\ Cell(p, behind) # NL
      /\ \A r \in p .. p - 1 : Cell(r, behind) = NL
  BY <1>1
<1>3. ASSUME NEW q \in p .. p + LineSize, \A r \in p .. q - 1 : Cell(r, behind) = NL
      PROVE  q = p
  <2> SUFFICES ASSUME q # p PROVE FALSE
    OBVIOUS
  <2>1. p \in p .. q - 1
    BY <1>1
  <2> QED
    BY <1>3, <2>1
<1> QED
  BY <1>2, <1>3 DEF Skip

LEMMA FieldsRead ==
  ASSUME NEW behind,
         Cell(1, behind) \in Byte, Cell(2, behind) \in Byte, Cell(3, behind) \in Byte
  PROVE  /\ Fields(behind).ok
         /\ Fields(behind).count = Cell(1, behind)
         /\ Fields(behind).addr = Cell(2, behind) * ByteSize + Cell(3, behind)
         /\ Fields(behind).next = Skip(4, behind)
<1>1. NL \notin Byte /\ AddrBytes = 2
  BY Sizes
<1>2. Skip(1, behind) = 1 /\ Skip(1 + 1, behind) = 2
  BY <1>1, SkipHere
<1>3. PICK k \in Nat : k = Digits(2, behind) /\ k = 2
  BY <1>1 DEF Digits
<1>4. Number(2, k, behind) = Cell(2, behind) * ByteSize + Cell(3, behind)
  BY <1>3 DEF Number
<1>5. PICK c, a \in Nat : c = Skip(1, behind) /\ a = Skip(c + 1, behind) /\ c = 1 /\ a = 2
  BY <1>2
<1>6. PICK o : o = (Cell(c, behind) \in Byte /\ k > 0)
  OBVIOUS
<1>7. Fields(behind) =
        [ok |-> o,
         count |-> IF Cell(c, behind) \in Byte THEN Cell(c, behind) ELSE 0,
         addr |-> Number(a, k, behind), next |-> Skip(a + k, behind)]
  BY <1>3, <1>5, <1>6, Zenon DEF Fields
<1>8. a + k = 4 /\ k > 0
  BY <1>3, <1>5
<1>9. o = TRUE
  BY <1>5, <1>6, <1>8
<1>10. PICK v : v = Number(a, k, behind)
  OBVIOUS
<1>11. v = Cell(2, behind) * ByteSize + Cell(3, behind)
  BY <1>4, <1>5, <1>10
<1>12. Fields(behind).ok
  BY <1>7, <1>9
<1>13. Fields(behind).count = Cell(c, behind) /\ Fields(behind).addr = v
  BY <1>5, <1>7, <1>10
<1>14. Fields(behind).next = Skip(4, behind)
  BY <1>7, <1>8
<1> QED
  BY <1>5, <1>11, <1>12, <1>13, <1>14

LEMMA LineCells ==
  ASSUME TypeOK, NEW R \in Seq(Token), NEW s \in Nat, InLine(R, s), pc # "read"
  PROVE  \E p \in Nat :
           /\ p = s + current_line_index /\ s < p /\ p <= Len(R) /\ p < s + LineSize
           /\ R[p] = NL /\ \A k \in s .. p - 1 : R[k] # NL
           /\ \A c \in Nat : \A behind : c <= current_line_index => Cell(c, behind) = R[s + c]
<1>1. current_line_index \in 1 .. LineSize - 1 /\ LineSize \in Nat
  BY Sizes DEF InLine
<1>2. PICK p \in Nat : p = s + current_line_index
  BY <1>1
<1>3. Len(R) \in Nat /\ Len(chunk) \in Nat
  BY LenProperties DEF TypeOK
<1>4. p + Len(chunk) = Len(R)
  BY <1>2, <1>3 DEF InLine
<1>5. s < p /\ p <= Len(R) /\ p < s + LineSize
  BY <1>1, <1>2, <1>3, <1>4
<1>6. R[p] = NL /\ current_line[current_line_index] = NL
  BY <1>2 DEF InLine
<1>7. ASSUME NEW k \in s .. p - 1 PROVE R[k] # NL
  <2>1. PICK c \in 0 .. current_line_index - 1 : k = s + c
    <3>1. k - s \in 0 .. current_line_index - 1 /\ k = s + (k - s)
      BY <1>1, <1>2
    <3> QED
      BY <3>1
  <2> QED
    BY <2>1 DEF InLine
<1>8. ASSUME NEW c \in Nat, NEW behind, c <= current_line_index
      PROVE  Cell(c, behind) = R[s + c]
  <2>1. c < LineSize /\ (c = current_line_index \/ c \in 0 .. current_line_index - 1)
    BY <1>1, <1>8
  <2>2. Cell(c, behind) = current_line[c]
    BY <2>1 DEF Cell
  <2> QED
    BY <1>2, <1>6, <2>1, <2>2 DEF InLine
<1> QED
  BY <1>2, <1>5, <1>6, <1>7, <1>8

(* The record that begins at s, with the type it has in the file, is being *)
(* parsed.                                                                 *)
Parsed(f, R, d, m, s) ==
  /\ Received(f, R, d, m) /\ InLine(R, s) /\ pc # "read"
  /\ s \in Starts(f) /\ s # d

LEMMA CellIs ==
  ASSUME TypeOK, NEW f \in Files, WellFormed(f),
         NEW R \in Seq(Token), NEW d \in Nat, NEW m \in Nat, NEW s \in Nat,
         Parsed(f, R, d, m, s), NEW n \in Nat, NEW behind
  PROVE  n <= Length(f, s) + 1 /\ (s < d /\ d <= s + n => R[d] # NL) =>
           /\ Cell(n, behind) = R[s + n]
           /\ s + n # d => Cell(n, behind) = Body[f][s + n]
<1>1. SUFFICES ASSUME n <= Length(f, s) + 1, s < d /\ d <= s + n => R[d] # NL
               PROVE  /\ Cell(n, behind) = R[s + n]
                      /\ s + n # d => Cell(n, behind) = Body[f][s + n]
  OBVIOUS
<1>2. PICK p \in Nat :
        /\ p = s + current_line_index /\ s < p /\ p <= Len(R)
        /\ R[p] = NL /\ \A k \in s .. p - 1 : R[k] # NL
        /\ \A c \in Nat : \A b : c <= current_line_index => Cell(c, b) = R[s + c]
  BY LineCells DEF Parsed
<1>3. \/ p = LineEnd(f, s) /\ p # d
      \/ p = d /\ p < LineEnd(f, s)
      \/ d = LineEnd(f, s) /\ p > LineEnd(f, s)
  BY <1>2, FirstEnd DEF Parsed, TypeOK
<1>4. PICK e, l, r \in Nat : /\ e = LineEnd(f, s) /\ l = Length(f, s) /\ e = s + l + 2
                             /\ s > 0 /\ r = Len(R) /\ p <= r
  <2>1. Len(R) \in Nat
    BY LenProperties
  <2>2. s \in Starts(f)
    BY DEF Parsed
  <2> QED
    BY <1>2, <2>1, <2>2, LineBounds
<1>5. n <= l + 1 /\ (s < d /\ d <= s + n => R[d] # NL) /\ s < p /\ s > 0 /\ p <= r
      /\ R[p] = NL
  BY <1>1, <1>2, <1>4
<1>6. (p = e /\ p # d) \/ (p = d /\ p < e) \/ (d = e /\ p > e)
  BY <1>3, <1>4
<1>7. e = s + l + 2
  BY <1>4
<1>8. s + n < e /\ s + n < p
  <2>1. s + n < e
    BY <1>5, <1>7
  <2>2. p = d /\ p < e => s + n < p
    <3> SUFFICES ASSUME p = d, ~(s + n < p) PROVE FALSE
      OBVIOUS
    <3> QED
      BY <1>5
  <2> QED
    BY <1>6, <2>1, <2>2
<1>9. n <= current_line_index
  BY <1>2, <1>8 DEF TypeOK
<1>10. Cell(n, behind) = R[s + n]
  BY <1>2, <1>9
<1>11. ASSUME s + n # d PROVE R[s + n] = Body[f][s + n]
  <2>1. PICK k \in Nat : k = s + n /\ k > 0 /\ k <= e /\ k <= r
    BY <1>8, <1>5
  <2>2. k <= LineEnd(f, s) /\ k <= Len(R)
    BY <1>4, <2>1
  <2>3. sent \in Nat /\ Received(f, R, d, m) /\ s \in Starts(f)
    BY DEF Parsed, TypeOK
  <2> QED
    BY <1>11, <2>1, <2>2, <2>3, LineKnown
<1> QED
  BY <1>10, <1>11

LEMMA RecordFields ==
  ASSUME TypeOK, NEW f \in Files, WellFormed(f),
         NEW R \in Seq(Token), NEW d \in Nat, NEW m \in Nat, NEW s \in Nat,
         Parsed(f, R, d, m, s), NEW behind
  PROVE  Body[f][s] = S3 \/ d = 0 =>
           /\ Fields(behind).ok
           /\ Fields(behind).count = Length(f, s)
           /\ Fields(behind).addr = RecordAddress(f, s)
           /\ Fields(behind).next = Skip(4, behind)
<1>1. SUFFICES ASSUME Body[f][s] = S3 \/ d = 0
               PROVE  /\ Fields(behind).ok
                      /\ Fields(behind).count = Length(f, s)
                      /\ Fields(behind).addr = RecordAddress(f, s)
                      /\ Fields(behind).next = Skip(4, behind)
  OBVIOUS
<1>2. s \in Starts(f) /\ s > 0
  BY LineIs DEF Parsed
<1>3. ~(s < d /\ d < s + 4)
  <2>1. d > 0 => Damage(f, R, d)
    BY DEF Parsed, Received
  <2>2. d > 0 => ~(s < d /\ d < s + 4)
    BY <1>1, <1>2, <2>1, DamagedAt
  <2> QED
    BY <2>2
<1>4. ASSUME NEW n \in 1 .. 3
      PROVE  Cell(n, behind) = Body[f][s + n] /\ Body[f][s + n] \in Byte
  <2>1. s + n # d /\ ~(s < d /\ d <= s + n)
    BY <1>3
  <2>2. n \in Nat /\ 1 <= n
    OBVIOUS
  <2>3. n <= Length(f, s) + 1
    <3>1. PICK l \in Nat : l = Length(f, s) /\ l >= 3
      BY <1>2, LineBounds
    <3> QED
      BY <3>1
  <2>4. Body[f][s + n] \in Byte
    BY <1>2, <2>2, <2>3, LineByte
  <2>5. Cell(n, behind) = Body[f][s + n]
    BY <2>1, <2>2, <2>3, CellIs
  <2> QED
    BY <2>4, <2>5
<1>5. /\ Cell(1, behind) = Body[f][s + 1] /\ Cell(2, behind) = Body[f][s + 2]
      /\ Cell(3, behind) = Body[f][s + 3]
      /\ Cell(1, behind) \in Byte /\ Cell(2, behind) \in Byte /\ Cell(3, behind) \in Byte
  BY <1>4
<1> QED
  BY <1>5, FieldsRead DEF Length, RecordAddress

(* A scan meets the byte of the file, unless it was damaged. *)
LEMMA ScanIs ==
  ASSUME TypeOK, NEW f \in Files, WellFormed(f),
         NEW R \in Seq(Token), NEW d \in Nat, NEW m \in Nat, NEW s \in Nat,
         Parsed(f, R, d, m, s), NEW n \in Nat, NEW behind
  PROVE  /\ 1 <= n /\ n <= Length(f, s) + 1 => Body[f][s + n] \in Byte
         /\ 1 <= n /\ n <= Length(f, s) + 1 /\ s + n # d
            /\ (s < d /\ d <= s + n => R[d] # NL) => Scan(n, behind) = Body[f][s + n]
<1>1. s \in Starts(f)
  BY DEF Parsed
<1>2. ASSUME 1 <= n, n <= Length(f, s) + 1 PROVE Body[f][s + n] \in Byte
  BY <1>1, <1>2, LineByte
<1>3. ASSUME 1 <= n, n <= Length(f, s) + 1, s + n # d, s < d /\ d <= s + n => R[d] # NL
      PROVE  Scan(n, behind) = Body[f][s + n]
  <2>1. Cell(n, behind) = Body[f][s + n]
    BY <1>3, CellIs
  <2>2. Cell(n, behind) \in Byte /\ Cell(n, behind) # NL
    BY <1>2, <1>3, <2>1, Sizes
  <2>3. Skip(n, behind) = n
    BY <2>2, SkipHere
  <2> QED
    BY <2>1, <2>2, <2>3 DEF Scan
<1> QED
  BY <1>2, <1>3

LEMMA SumsStep ==
  ASSUME NEW f \in Files, WellFormed(f), NEW s \in Starts(f), NEW n \in Nat
  PROVE  /\ Sums(f)[s] = 0
         /\ n <= Length(f, s) + 1 => Sums(f)[s + n] \in Byte
         /\ 1 <= n /\ n <= Length(f, s) + 1 =>
              Sums(f)[s + n] = (Sums(f)[s + n - 1] + Body[f][s + n]) % ByteSize
<1>1. PICK t, l, b \in Nat : /\ t = s /\ t > 0 /\ l = Length(f, s) /\ b = Len(Body[f])
                                /\ t + l + 2 <= b /\ LineEnd(f, s) = t + l + 2
                                /\ Body[f][t] \in {S0, S3, S7}
                                /\ \A k \in t + 1 .. t + l + 1 : Body[f][k] \in Byte
  <2>1. PICK t, l, b, e \in Nat : t = s /\ l = Length(f, s) /\ b = Len(Body[f]) /\ e = LineEnd(f, s)
    BY LineIs, BodyIs
  <2>2. e = t + l + 2 /\ t > 0 /\ e <= b /\ Body[f][t] \in {S0, S3, S7}
    BY <2>1, LineIs
  <2>3. e - 1 = t + l + 1
    BY <2>2
  <2>4. \A k \in t + 1 .. e - 1 : Body[f][k] \in Byte
    BY <2>1, LineIs
  <2> QED
    BY <2>1, <2>2, <2>3, <2>4
<1>2. Sums(f) \in [0 .. b -> Byte] /\ SumsAt(Sums(f), f, b)
  BY <1>1, SumsAre
<1>3. t > 0 /\ t + l + 2 <= b
  BY <1>1
<1>4. Sums(f)[t] = 0
  <2>1. t \in 0 .. b
    BY <1>3
  <2>2. Body[f][t] \notin Byte
    BY <1>1, Sizes
  <2> QED
    BY <1>2, <2>1, <2>2 DEF SumsAt
<1>5. ASSUME n <= l + 1 PROVE t + n \in 0 .. b
  BY <1>5, <1>3
<1>6. ASSUME 1 <= n, n <= l + 1
      PROVE  Sums(f)[t + n] = (Sums(f)[t + n - 1] + Body[f][t + n]) % ByteSize
  <2>1. t + n \in t + 1 .. t + l + 1 /\ t + n > 0
    BY <1>6, <1>3
  <2>2. Body[f][t + n] \in Byte
    BY <1>1, <2>1
  <2>3. t + n \in 0 .. b
    BY <1>5, <1>6
  <2>4. PICK k \in Nat : k = t + n
    OBVIOUS
  <2>5. Sums(f)[k] = (Sums(f)[k - 1] + Body[f][k]) % ByteSize
    BY <1>2, <2>1, <2>2, <2>3, <2>4 DEF SumsAt
  <2> QED
    BY <2>4, <2>5
<1> QED
  BY <1>1, <1>2, <1>4, <1>5, <1>6

-----------------------------------------------------------------------------
(* What is written of the image stays what the file describes. *)
LEMMA ImageTypes ==
  ASSUME TypeOK, NEW f \in Files, WellFormed(f), Stored(f)
  PROVE  /\ address \in Nat /\ index \in Nat /\ index <= Page
         /\ newApp \in [Addr -> Byte] /\ buffer \in [0 .. Page - 1 -> Byte]
         /\ address + index \in Nat /\ address + index <= Len(Bytes[f])
         /\ Wrap(address + index) = address + index
         /\ \A p \in Nat : p < Len(Bytes[f]) => p \in Addr /\ p < AddressSpace
<1>1. address \in Nat /\ index \in Nat /\ index <= Page /\ Page \in Nat /\ AreaSize \in Nat
      /\ AddressSpace \in Nat
  BY Sizes DEF TypeOK
<1>2. newApp \in [Addr -> Byte] /\ buffer \in [0 .. Page - 1 -> Byte]
  BY DEF TypeOK
<1>3. PICK b \in Nat : b = Len(Bytes[f]) /\ b <= AreaSize /\ b < AddressSpace
  BY BytesAre
<1>4. address + index \in Nat /\ address + index <= b
  BY <1>1, <1>3 DEF Stored
<1>5. address + index < AddressSpace
  BY <1>1, <1>3, <1>4
<1>6. Wrap(address + index) = address + index
  BY <1>4, <1>5, WrapSmall
<1>7. \A p \in Nat : p < b => p \in 0 .. AreaSize - 1 /\ p < AddressSpace
  BY <1>1, <1>3
<1> QED
  BY <1>1, <1>2, <1>3, <1>4, <1>6, <1>7 DEF Addr

LEMMA FlushedIs ==
  ASSUME TypeOK, NEW f \in Files, WellFormed(f), Stored(f)
  PROVE  /\ Flushed \in [Addr -> Byte]
         /\ \A p \in 0 .. address + index - 1 : Flushed[p] = Bytes[f][p + 1]
<1>1. Flushed \in [Addr -> Byte]
  BY FlushedType
<1>2. ASSUME NEW p \in 0 .. address + index - 1
      PROVE  Flushed[p] = Bytes[f][p + 1]
  <2>1. address \in Nat /\ index \in Nat /\ p \in Nat /\ p < address + index
    BY ImageTypes
  <2>2. p \in Addr
    <3>1. PICK b \in Nat : b = Len(Bytes[f])
      BY BytesAre
    <3>2. p < b
      BY <2>1, <3>1, ImageTypes
    <3> QED
      BY <2>1, <3>1, <3>2, ImageTypes
  <2>3. Flushed[p] = IF address <= p /\ p < address + index THEN buffer[p - address]
                     ELSE IF address + index <= p /\ p < SectorEnd(address + index) THEN Zero
                     ELSE newApp[p]
    BY <2>2 DEF Flushed, EepromWrite
  <2>4. CASE p < address
    <3>1. ~(address <= p) /\ ~(address + index <= p) /\ p \in 0 .. address - 1
      BY <2>1, <2>4
    <3>2. Flushed[p] = newApp[p]
      BY <2>3, <3>1
    <3> QED
      BY <3>1, <3>2 DEF Stored
  <2>5. CASE ~(p < address)
    <3>1. PICK j \in 0 .. index - 1 : j = p - address /\ address + j + 1 = p + 1
      BY <2>1, <2>5
    <3>2. Flushed[p] = buffer[j]
      BY <2>1, <2>3, <2>5, <3>1
    <3> QED
      BY <3>1, <3>2 DEF Stored
  <2> QED
    BY <2>4, <2>5
<1> QED
  BY <1>1, <1>2

LEMMA Buffered ==
  ASSUME TypeOK, NEW f \in Files, WellFormed(f), Stored(f), NEW b \in Byte, BufferByte(b)
  PROVE  address + index < Len(Bytes[f]) /\ b = Bytes[f][address + index + 1] =>
           Stored(f)' /\ address' + index' = address + index + 1
<1>1. SUFFICES ASSUME address + index < Len(Bytes[f]), b = Bytes[f][address + index + 1]
               PROVE  Stored(f)' /\ address' + index' = address + index + 1
  OBVIOUS
<1>2. PICK n \in Nat : n = Len(Bytes[f]) /\ address + index < n
  BY <1>1, BytesAre
<1>3. /\ address \in Nat /\ index \in Nat /\ index <= Page
      /\ Wrap(address + index) = address + index
      /\ buffer \in [0 .. Page - 1 -> Byte] /\ Page \in Nat /\ Page > 0
  BY ImageTypes, Sizes
<1>4. CASE index < Page
  <2>1. /\ index' = index + 1 /\ address' = address /\ newApp' = newApp
        /\ buffer' = [buffer EXCEPT ![index] = b]
    BY <1>4 DEF BufferByte
  <2>2. address' + index' = address + index + 1 /\ address' + index' <= n
    BY <1>2, <1>3, <2>1
  <2>3. ASSUME NEW j \in 0 .. index' - 1
        PROVE  buffer'[j] = Bytes[f][address' + j + 1]
    <3>1. j \in 0 .. Page - 1 /\ (j = index \/ (j # index /\ j \in 0 .. index - 1))
      BY <1>3, <1>4, <2>1
    <3>2. CASE j = index
      BY <1>1, <1>3, <2>1, <3>1, <3>2
    <3>3. CASE j # index /\ j \in 0 .. index - 1
      <4>1. buffer[j] = Bytes[f][address + j + 1]
        BY <3>3 DEF Stored
      <4>2. buffer'[j] = buffer[j]
        BY <1>3, <2>1, <3>1, <3>3
      <4> QED
        BY <2>1, <4>1, <4>2
    <3> QED
      BY <3>1, <3>2, <3>3
  <2>4. \A p \in 0 .. address' - 1 : newApp'[p] = Bytes[f][p + 1]
    BY <2>1 DEF Stored
  <2> QED
    BY <1>2, <2>2, <2>3, <2>4 DEF Stored
<1>5. CASE ~(index < Page)
  <2>1. /\ index' = 1 /\ newApp' = Flushed /\ buffer' = [buffer EXCEPT ![0] = b]
        /\ address' = address + index
    BY <1>3, <1>5 DEF BufferByte
  <2>2. address' + index' = address + index + 1 /\ address' + index' <= n
    BY <1>2, <1>3, <2>1
  <2>3. ASSUME NEW j \in 0 .. index' - 1
        PROVE  buffer'[j] = Bytes[f][address' + j + 1]
    <3>1. j = 0 /\ 0 \in 0 .. Page - 1
      BY <1>3, <2>1
    <3>2. buffer'[0] = b
      BY <1>3, <2>1, <3>1
    <3>3. address' + 0 + 1 = address + index + 1
      BY <1>3, <2>1
    <3> QED
      BY <1>1, <3>1, <3>2, <3>3
  <2>4. ASSUME NEW p \in 0 .. address' - 1
        PROVE  newApp'[p] = Bytes[f][p + 1]
    <3>1. p \in 0 .. address + index - 1
      BY <1>3, <2>1
    <3>2. Flushed[p] = Bytes[f][p + 1]
      BY <3>1, FlushedIs
    <3> QED
      BY <2>1, <3>2
  <2> QED
    BY <1>2, <2>2, <2>3, <2>4 DEF Stored
<1> QED
  BY <1>4, <1>5

LEMMA GapStored ==
  ASSUME TypeOK, NEW f \in Files, WellFormed(f), Stored(f), NEW s \in Data(f),
         Described(f, s, address + index), GapFilled(From(f, s)), buffer' = buffer
  PROVE  Stored(f)' /\ address' + index' = From(f, s)
<1>1. PICK g, n, u \in Nat : g = From(f, s) /\ n = Len(Bytes[f]) /\ u = address + index
  BY DataIs, BytesAre, ImageTypes
<1>2. u <= g
  BY <1>1, DescribedFrom
<1>3. g <= n
  <2>1. PICK t \in Nat : t = To(f, s)
    BY DataIs
  <2>2. g <= t /\ t <= n
    BY <1>1, <2>1, DataIs
  <2> QED
    BY <2>2
<1>4. address \in Nat /\ index \in Nat /\ Wrap(address + index) = u /\ n < AddressSpace
      /\ AddressSpace \in Nat
  BY <1>1, ImageTypes, BytesAre, Sizes
<1>5. CASE g > u
  <2>1. Wrap(g) = g
    <3>1. g < AddressSpace
      BY <1>3, <1>4
    <3> QED
      BY <3>1, WrapSmall
  <2>2. /\ newApp' = EepromFill(Flushed, u, g) /\ address' = g /\ index' = 0
    BY <1>1, <1>4, <1>5, <2>1 DEF GapFilled
  <2>3. ASSUME NEW p \in 0 .. g - 1
        PROVE  newApp'[p] = Bytes[f][p + 1]
    <3>1. p \in Nat /\ p < g /\ p < n
      BY <1>3
    <3>2. p \in Addr
      BY <1>1, <3>1, ImageTypes
    <3>3. newApp'[p] = IF u <= p /\ p < g THEN Erased
                       ELSE IF g <= p /\ p < SectorEnd(g) THEN Zero
                       ELSE Flushed[p]
      BY <2>2, <3>2 DEF EepromFill
    <3>4. CASE u <= p
      <4>1. newApp'[p] = Erased
        BY <3>1, <3>3, <3>4
      <4>2. p < From(f, s) /\ Described(f, s, u)
        BY <1>1, <3>1
      <4>3. Bytes[f][p + 1] = Erased
        BY <3>1, <3>4, <4>2, GapByte
      <4> QED
        BY <4>1, <4>3
    <3>5. CASE ~(u <= p)
      <4>1. newApp'[p] = Flushed[p]
        BY <3>1, <3>3, <3>5
      <4>2. p \in 0 .. u - 1
        BY <3>1, <3>5
      <4>3. u = address + index
        BY <1>1
      <4>4. p \in 0 .. address + index - 1
        BY <1>4, <4>2, <4>3
      <4>5. Flushed[p] = Bytes[f][p + 1]
        BY <4>4, FlushedIs
      <4> QED
        BY <4>1, <4>5
    <3> QED
      BY <3>4, <3>5
  <2>4. address' + index' = g /\ address' + index' <= n
    BY <1>3, <2>2
  <2>5. \A p \in 0 .. address' - 1 : newApp'[p] = Bytes[f][p + 1]
    BY <2>2, <2>3
  <2>6. \A j \in 0 .. index' - 1 : buffer'[j] = Bytes[f][address' + j + 1]
    BY <2>2
  <2> QED
    BY <1>1, <2>4, <2>5, <2>6 DEF Stored
<1>6. CASE ~(g > u)
  <2>1. UNCHANGED <<newApp, address, index>> /\ g = u
    BY <1>1, <1>2, <1>4, <1>6 DEF GapFilled
  <2> QED
    BY <1>1, <2>1 DEF Stored
<1> QED
  BY <1>5, <1>6

-----------------------------------------------------------------------------
(* How a line ends, and what follows it. *)
LEMMA RefuseStep ==
  ASSUME NEW f, Refused, srec_ok' => Whole(f)', sound' => srec_ok'
  PROVE  Goes(f)'
BY DEF Refused, Fail, Goes, Busy, Ended

LEMMA AcceptStep ==
  ASSUME TypeOK, NEW f \in Files, status # "failed",
         NEW R \in Seq(Token), NEW d \in Nat, NEW m \in Nat, NEW s \in Nat,
         Received(f, R, d, m), InLine(R, s), pc # "read", sound => d = 0,
         Accepted, UNCHANGED <<client, current_line>>,
         NEW p \in Nat, p = s + current_line_index, AtLine(f, d, p + 1)'
  PROVE  Goes(f)'
<1>1. pc' = "read" /\ current_line_index' = 0 /\ chunk' = chunk /\ status' = status
  BY DEF Accepted
<1>2. Received(f, R, d, m)' /\ (sound' => d = 0)
  BY DEF Received, client
<1>3. Len(R) \in Nat /\ Len(chunk) \in Nat
  BY LenProperties DEF TypeOK
<1>4. InLine(R, p + 1)'
  <2>1. p + Len(chunk) = Len(R)
    BY <1>3 DEF InLine
  <2>2. p + 1 + 0 + Len(chunk) = Len(R) + 1 /\ p + 1 > 0
    <3>1. PICK x, y \in Nat : x = Len(chunk) /\ y = Len(R)
      BY <1>3
    <3>2. p + x = y /\ current_line_index \in Nat
      BY <2>1, <3>1 DEF TypeOK
    <3>3. p + 1 + 0 + x = y + 1 /\ p + 1 > 0
      BY <3>2
    <3> QED
      BY <3>1, <3>3
  <2>3. \A k \in 1 .. Len(chunk) : chunk[k] = R[Len(R) - Len(chunk) + k]
    BY DEF InLine
  <2> QED
    BY <1>1, <2>2, <2>3 DEF InLine
<1>5. Follows(f, R, d, m, p + 1)'
  BY <1>1, <1>2, <1>4 DEF Follows
<1>6. p + 1 \in Nat
  OBVIOUS
<1> QED
  BY <1>1, <1>5, <1>6 DEF Goes, Uploading

LEMMA GoOn ==
  ASSUME NEW f \in Files, status # "failed",
         NEW R \in Seq(Token), NEW d \in Nat, NEW m \in Nat, NEW s \in Nat,
         Received(f, R, d, m), InLine(R, s), pc # "read", sound => d = 0,
         pc' \in {"s3", "s7"}, UNCHANGED <<client, assembly, status>>,
         pc' = "s3" => InData(f, R, d, s)', pc' = "s7" => InTermination(f, d, s)'
  PROVE  Goes(f)'
<1>1. Received(f, R, d, m)' /\ (sound' => d = 0)
  BY DEF Received, client
<1>2. InLine(R, s)'
  BY DEF InLine, assembly
<1>3. Follows(f, R, d, m, s)'
  BY <1>1, <1>2 DEF Follows
<1> QED
  BY <1>3 DEF Goes, Uploading

LEMMA SizeIsNat ==
  ASSUME TypeOK'
  PROVE  address' + index' \in Nat
<1>1. address' \in Nat /\ index' \in Nat
  BY Sizes DEF TypeOK
<1>2. PICK a, n \in Nat : a = address' /\ n = index'
  BY <1>1
<1>3. a + n \in Nat
  OBVIOUS
<1> QED
  BY <1>2, <1>3

LEMMA NextAt ==
  ASSUME TypeOK, TypeOK', NEW f \in Files, WellFormed(f),
         "damage" \in Faults => TooLongTogether(f),
         NEW R \in Seq(Token), NEW d \in Nat, NEW m \in Nat, NEW s \in Nat,
         Parsed(f, R, d, m, s), Body[f][s] # S7, sound => d = 0, UNCHANGED client,
         Before(f, LineEnd(f, s) + 1)',
         NEW p \in Nat, p = s + current_line_index
  PROVE  AtLine(f, d, p + 1)'
<1>1. /\ s < p /\ p <= Len(R) /\ p < s + LineSize
      /\ R[p] = NL /\ \A k \in s .. p - 1 : R[k] # NL
  BY LineCells DEF Parsed
<1>2. \/ /\ p + 1 \in Starts(f)
         /\ \A u \in Nat : Described(f, LineEnd(f, s) + 1, u) => Described(f, p + 1, u)
      \/ /\ s < p + 1 /\ p + 1 <= LineEnd(f, s) /\ d = p /\ d > 0
      \/ 0 < d /\ \A l \in Starts(f) : l < p + 1
  BY <1>1, NextLine DEF Parsed, TypeOK
<1>3. address' + index' \in Nat
  BY SizeIsNat
<1>4. ~srec_ok' /\ Stored(f)' /\ Described(f, LineEnd(f, s) + 1, address' + index')
  BY DEF Before
<1>5. CASE /\ p + 1 \in Starts(f)
           /\ \A u \in Nat : Described(f, LineEnd(f, s) + 1, u) => Described(f, p + 1, u)
  <2>1. Described(f, p + 1, address' + index')
    BY <1>3, <1>4, <1>5
  <2>2. AtRecord(f, p + 1)'
    BY <1>4, <1>5, <2>1 DEF AtRecord, Before
  <2> QED
    BY <2>2 DEF AtLine
<1>6. CASE s < p + 1 /\ p + 1 <= LineEnd(f, s) /\ d = p /\ d > 0
  <2>1. s \in Starts(f) /\ LineEnd(f, s) \in Nat
    BY LineIs DEF Parsed
  <2>2. d < p + 1
    BY <1>6
  <2>3. CASE p + 1 = LineEnd(f, s)
    <3>1. Before(f, p + 1 + 1)'
      BY <2>3 DEF Before
    <3>2. AtEnd(f, d, p + 1)'
      BY <1>6, <2>1, <2>2, <2>3, <3>1 DEF AtEnd
    <3> QED
      BY <3>2 DEF AtLine
  <2>4. CASE p + 1 < LineEnd(f, s)
    <3>1. AtRest(f, d, p + 1)'
      BY <1>4, <1>6, <2>1, <2>2, <2>4 DEF AtRest
    <3> QED
      BY <3>1 DEF AtLine
  <2>5. p + 1 = LineEnd(f, s) \/ p + 1 < LineEnd(f, s)
    <3>1. PICK e \in Nat : e = LineEnd(f, s)
      BY <2>1
    <3>2. p + 1 <= e
      BY <1>6, <3>1
    <3>3. p + 1 = e \/ p + 1 < e
      BY <3>2
    <3> QED
      BY <3>1, <3>3
  <2> QED
    BY <2>3, <2>4, <2>5
<1>7. CASE 0 < d /\ \A l \in Starts(f) : l < p + 1
  <2>1. ~sound'
    BY <1>7 DEF client
  <2>2. AtTail(f, p + 1)'
    BY <1>4, <1>7, <2>1 DEF AtTail, Ended
  <2> QED
    BY <2>2 DEF AtLine
<1> QED
  BY <1>2, <1>5, <1>6, <1>7

(* What is taken for a record is one of the file. *)
LEMMA LineType ==
  ASSUME TypeOK, NEW f \in Files, WellFormed(f),
         NEW R \in Seq(Token), NEW d \in Nat, NEW m \in Nat, NEW s \in Nat,
         Follows(f, R, d, m, s), pc = "parse"
  PROVE  /\ current_line[0] \in {S0, S3, S7} =>
              /\ Parsed(f, R, d, m, s) /\ Before(f, s)
              /\ current_line[0] = Body[f][s]
         /\ current_line[0] \notin {S0, S3, S7} => ~(s \in Starts(f) /\ s # d)
<1>1. Received(f, R, d, m) /\ InLine(R, s) /\ AtLine(f, d, s) /\ s > 0 /\ sent \in Nat
  BY DEF Follows, InLine, TypeOK
<1>2. PICK p, r, b \in Nat :
        /\ s < p /\ p <= r /\ r = Len(R) /\ b = Len(Body[f])
        /\ \A c \in Nat : \A behind : c <= current_line_index => Cell(c, behind) = R[s + c]
  BY <1>1, LineCells, LenProperties, BodyIs
<1>3. current_line[0] = R[s]
  <2>1. 0 <= current_line_index /\ 0 < LineSize
    BY Sizes DEF TypeOK
  <2>2. \A behind : Cell(0, behind) = R[s + 0]
    BY <1>2, <2>1
  <2>3. s + 0 = s
    OBVIOUS
  <2> QED
    BY <2>1, <2>2, <2>3 DEF Cell
<1>4. ASSUME R[s] \in {S0, S3, S7}
      PROVE  s \in Starts(f) /\ s # d /\ R[s] = Body[f][s]
  <2>1. s # d
    <3>1. s = d => R[s] \in {Erased, NL, Other}
      BY <1>1 DEF Received, Damage
    <3> QED
      BY <1>4, <3>1, Sizes
  <2>2. s <= m
    <3>1. ~(s \in m + 1 .. r)
      BY <1>1, <1>2, <1>4 DEF Received
    <3> QED
      BY <1>2, <3>1
  <2>3. R[s] = Body[f][s]
    BY <1>1, <2>1, <2>2 DEF Received
  <2>4. m <= b
    <3>1. m <= sent /\ sent <= b
      BY <1>1, <1>2 DEF Received
    <3> QED
      BY <1>1, <3>1
  <2>5. s \in 1 .. b
    BY <1>1, <2>2, <2>4
  <2>6. s \in DOMAIN Body[f]
    BY <1>2, <2>5, BodyIs
  <2> QED
    BY <1>4, <2>1, <2>3, <2>6 DEF Starts
<1>5. ASSUME s \in Starts(f) PROVE AtRecord(f, s)
  <2>1. ~AtEnd(f, d, s)
    <3> SUFFICES ASSUME NEW l \in Starts(f), s = LineEnd(f, l) PROVE FALSE
      BY DEF AtEnd
    <3>1. l \in Nat /\ l < s
      BY LineIs
    <3>2. s > LineEnd(f, l)
      BY <1>5, <3>1, LinesApart
    <3> QED
      BY <3>2
  <2>2. ~AtRest(f, d, s)
    <3> SUFFICES ASSUME NEW l \in Starts(f), l < s, s < LineEnd(f, l) PROVE FALSE
      BY DEF AtRest
    <3>1. l \in Nat /\ LineEnd(f, l) \in Nat
      BY LineIs
    <3>2. s > LineEnd(f, l)
      BY <1>5, <3>1, LinesApart
    <3> QED
      BY <3>1, <3>2
  <2>3. ~AtTail(f, s)
    <3>1. ~(s < s)
      OBVIOUS
    <3> QED
      BY <1>5, <3>1 DEF AtTail
  <2> QED
    BY <1>1, <2>1, <2>2, <2>3 DEF AtLine
<1>6. ASSUME s \in Starts(f), s # d PROVE R[s] \in {S0, S3, S7}
  <2>1. PICK e \in Nat : e = LineEnd(f, s) /\ s < e
    BY <1>6, LineIs
  <2>2. s <= e /\ s <= r
    BY <1>2, <2>1
  <2>3. s <= LineEnd(f, s) /\ s <= Len(R)
    BY <1>2, <2>1, <2>2
  <2>4. R[s] = Body[f][s]
    BY <1>1, <1>6, <2>3, LineKnown
  <2> QED
    BY <1>6, <2>4, LineIs
<1>7. s \in Starts(f) => Before(f, s)
  BY <1>5 DEF AtRecord
<1> QED
  BY <1>1, <1>3, <1>4, <1>6, <1>7 DEF Parsed

-----------------------------------------------------------------------------
(* An upload of f is under way. *)
Doing(f, R, d, m, s) ==
  /\ WellFormed(f) /\ ("damage" \in Faults => TooLongTogether(f))
  /\ Follows(f, R, d, m, s) /\ status # "failed"

LEMMA NoRecordGoes ==
  ASSUME TypeOK, NEW f \in Files,
         NEW R \in Seq(Token), NEW d \in Nat, NEW m \in Nat, NEW s \in Nat,
         Doing(f, R, d, m, s), NoRecord
  PROVE  Goes(f)'
<1>1. /\ Refused /\ UNCHANGED <<client, image, srec_ok>>
      /\ pc = "parse" /\ current_line[0] \notin {S0, S3, S7}
  BY DEF NoRecord
<1>2. WellFormed(f) /\ Follows(f, R, d, m, s)
  BY DEF Doing
<1>3. ~(s \in Starts(f) /\ s # d)
  BY <1>1, <1>2, LineType
<1>4. AtLine(f, d, s) /\ s > 0 /\ (sound => d = 0)
  BY <1>1, <1>2 DEF Follows, InLine
<1>5. srec_ok' = srec_ok /\ sound' = sound /\ Whole(f)' = Whole(f)
  BY <1>1 DEF client, image, Whole
<1>6. CASE AtRecord(f, s)
  <2>1. d > 0
    BY <1>3, <1>4, <1>6 DEF AtRecord
  <2> QED
    BY <1>1, <1>4, <1>5, <1>6, <2>1, RefuseStep DEF AtRecord, Before
<1>7. CASE AtEnd(f, d, s) \/ AtRest(f, d, s)
  <2>1. d > 0 /\ ~srec_ok
    BY <1>7 DEF AtEnd, AtRest, Before
  <2> QED
    BY <1>1, <1>4, <1>5, <2>1, RefuseStep
<1>8. CASE AtTail(f, s)
  BY <1>1, <1>5, <1>8, RefuseStep DEF AtTail, Ended
<1> QED
  BY <1>4, <1>6, <1>7, <1>8 DEF AtLine

LEMMA HeaderGoes ==
  ASSUME TypeOK, TypeOK', NEW f \in Files,
         NEW R \in Seq(Token), NEW d \in Nat, NEW m \in Nat, NEW s \in Nat,
         Doing(f, R, d, m, s), Header
  PROVE  Goes(f)'
<1>1. /\ pc = "parse" /\ current_line[0] = S0 /\ UNCHANGED <<client, current_line, image, srec_ok>>
      /\ IF Wrap(address + index) # 0 THEN Refused ELSE Accepted
  BY DEF Header, Parsing
<1>2. /\ WellFormed(f) /\ Follows(f, R, d, m, s) /\ status # "failed"
      /\ "damage" \in Faults => TooLongTogether(f)
  BY DEF Doing
<1>3. Parsed(f, R, d, m, s) /\ Before(f, s) /\ Body[f][s] = S0 /\ s \in Starts(f)
      /\ (sound => d = 0)
  BY <1>1, <1>2, LineType DEF Parsed, Follows
<1>4. s \notin Data(f) /\ \A l \in Data(f) : ~(l < s)
  <2>1. \A l \in Data(f) : l > s /\ l \in Nat
    BY <1>2, <1>3, HeaderLine, DataIs, LineIs
  <2>2. \A l \in Nat : l > s => ~(l < s) /\ l # s
    OBVIOUS
  <2> QED
    BY <2>1, <2>2
<1>5. Described(f, s, address + index) /\ Stored(f) /\ ~srec_ok
  BY <1>3 DEF Before
<1>6. address + index = 0
  BY <1>4, <1>5, DescribedNone
<1>7. Accepted
  <2>1. Wrap(address + index) = 0
    BY <1>2, <1>5, <1>6, ImageTypes
  <2> QED
    BY <1>1, <2>1
<1>8. Before(f, LineEnd(f, s) + 1)'
  <2>1. Described(f, LineEnd(f, s) + 1, address + index)
    BY <1>2, <1>3, <1>4, <1>5, DescribedOther
  <2> QED
    BY <1>1, <1>5, <2>1 DEF Before, Stored, image
<1>9. PICK p \in Nat : p = s + current_line_index
  BY DEF TypeOK
<1>10. AtLine(f, d, p + 1)'
  <2>1. Body[f][s] # S7
    BY <1>3, Sizes
  <2> QED
    BY <1>1, <1>2, <1>3, <1>8, <1>9, <2>1, NextAt
<1> QED
  BY <1>1, <1>2, <1>3, <1>7, <1>9, <1>10, AcceptStep DEF Parsed

LEMMA DataRefusedGoes ==
  ASSUME TypeOK, TypeOK', NEW f \in Files,
         NEW R \in Seq(Token), NEW d \in Nat, NEW m \in Nat, NEW s \in Nat,
         Doing(f, R, d, m, s), DataRefused
  PROVE  Goes(f)'
<1>1. /\ pc = "parse" /\ current_line[0] = S3 /\ UNCHANGED <<client, current_line, image, srec_ok>>
  BY DEF DataRefused, Parsing
<1>2. /\ WellFormed(f) /\ Follows(f, R, d, m, s) /\ status # "failed"
      /\ "damage" \in Faults => TooLongTogether(f)
  BY DEF Doing
<1>3. Parsed(f, R, d, m, s) /\ Before(f, s) /\ Body[f][s] = S3 /\ s \in Starts(f)
      /\ (sound => d = 0)
  BY <1>1, <1>2, LineType DEF Parsed, Follows
<1>4. \A behind : Fields(behind).ok /\ Fields(behind).addr = RecordAddress(f, s)
  BY <1>2, <1>3, RecordFields
<1>5. \/ RecordAddress(f, s) < Start /\ Accepted
      \/ RecordAddress(f, s) >= Start /\ RecordAddress(f, s) - Start < Wrap(address + index)
  BY <1>4 DEF DataRefused
<1>6. Described(f, s, address + index) /\ Stored(f) /\ ~srec_ok
  BY <1>3 DEF Before
<1>7. CASE RecordAddress(f, s) >= Start /\ RecordAddress(f, s) - Start < Wrap(address + index)
  <2>1. s \in Data(f)
    BY <1>3, <1>7 DEF Data
  <2>2. PICK g, u \in Nat : g = From(f, s) /\ u = address + index
    BY <1>2, <1>6, <2>1, DataIs, ImageTypes
  <2>3. u <= g
    BY <1>2, <1>6, <2>1, <2>2, DescribedFrom
  <2>4. g < u
    <3>1. Wrap(address + index) = u
      BY <1>2, <1>6, <2>2, ImageTypes
    <3> QED
      BY <1>7, <2>2, <3>1 DEF From
  <2> QED
    BY <2>3, <2>4
<1>8. CASE RecordAddress(f, s) < Start /\ Accepted
  <2>1. s \notin Data(f)
    <3> SUFFICES ASSUME s \in Data(f) PROVE FALSE
      OBVIOUS
    <3>1. PICK a \in Nat : a = RecordAddress(f, s) /\ a >= Start /\ a < Start
      BY <1>2, <1>8, DataIs
    <3> QED
      BY <3>1, Sizes
  <2>2. Before(f, LineEnd(f, s) + 1)'
    <3>1. Described(f, LineEnd(f, s) + 1, address + index)
      BY <1>2, <1>3, <1>6, <2>1, DescribedOther
    <3> QED
      BY <1>1, <1>6, <3>1 DEF Before, Stored, image
  <2>3. PICK p \in Nat : p = s + current_line_index
    BY DEF TypeOK
  <2>4. AtLine(f, d, p + 1)'
    <3>1. Body[f][s] # S7
      BY <1>3, Sizes
    <3> QED
      BY <1>1, <1>2, <1>3, <2>2, <2>3, <3>1, NextAt
  <2> QED
    BY <1>1, <1>2, <1>3, <1>8, <2>3, <2>4, AcceptStep DEF Parsed
<1> QED
  BY <1>5, <1>7, <1>8

LEMMA DataBeginGoes ==
  ASSUME TypeOK, TypeOK', NEW f \in Files,
         NEW R \in Seq(Token), NEW d \in Nat, NEW m \in Nat, NEW s \in Nat,
         Doing(f, R, d, m, s), DataBegin
  PROVE  Goes(f)'
<1>1. /\ pc = "parse" /\ current_line[0] = S3
      /\ UNCHANGED <<client, assembly, status, buffer, srec_ok>>
  BY DEF DataBegin, Parsing
<1>2. /\ WellFormed(f) /\ Follows(f, R, d, m, s) /\ status # "failed"
  BY DEF Doing
<1>3. Parsed(f, R, d, m, s) /\ Before(f, s) /\ Body[f][s] = S3 /\ s \in Starts(f)
      /\ (sound => d = 0)
  BY <1>1, <1>2, LineType DEF Parsed, Follows
<1>4. \A behind : Fields(behind).addr = RecordAddress(f, s)
                  /\ Fields(behind).count = Length(f, s)
  BY <1>2, <1>3, RecordFields
<1>5. /\ RecordAddress(f, s) >= Start /\ GapFilled(From(f, s))
      /\ Looping("s3", Length(f, s))
  BY <1>4 DEF DataBegin, From
<1>6. s \in Data(f)
  BY <1>3, <1>5 DEF Data
<1>7. Described(f, s, address + index) /\ Stored(f) /\ ~srec_ok
  BY <1>3 DEF Before
<1>8. Stored(f)' /\ address' + index' = From(f, s)
  BY <1>1, <1>2, <1>5, <1>6, <1>7, GapStored
<1>9. /\ pc' = "s3" /\ byte_count' = Length(f, s) /\ i' = 1 /\ sum' = 0
  BY <1>5 DEF Looping
<1>10. Exact(f, s)'
  <2>1. Sums(f)[s] = 0
    BY <1>2, <1>3, SumsStep
  <2>2. sum' = Sums(f)[s + i' - 1]
    <3>1. s + 1 - 1 = s
      OBVIOUS
    <3> QED
      BY <1>9, <2>1, <3>1
  <2>3. PICK g \in Nat : g = From(f, s)
    BY <1>2, <1>6, DataIs
  <2>4. g = g + (IF i' > AddrBytes + 2 THEN i' - AddrBytes - 2 ELSE 0)
    BY <1>9, Sizes
  <2> QED
    BY <1>8, <2>2, <2>3, <2>4 DEF Exact
<1>11. InData(f, R, d, s)'
  <2>1. 1 \in 1 .. Length(f, s) + 1
    BY <1>2, <1>3, LineIs
  <2>2. s # d
    BY <1>3 DEF Parsed
  <2> QED
    BY <1>1, <1>6, <1>7, <1>9, <1>10, <2>1, <2>2 DEF InData
<1>12. Received(f, R, d, m) /\ InLine(R, s) /\ pc # "read"
  BY <1>3 DEF Parsed
<1> QED
  BY <1>1, <1>2, <1>3, <1>9, <1>11, <1>12, GoOn

-----------------------------------------------------------------------------
(* The bytes of a data record. *)
LEMMA ChecksumIs ==
  ASSUME NEW f \in Files, WellFormed(f), NEW s \in Starts(f), NEW l \in Nat
  PROVE  l = Length(f, s) =>
           /\ Body[f][s + l + 1] = ByteSize - 1 - Sums(f)[s + l]
           /\ Sums(f)[s + l] \in Byte
<1>1. SUFFICES ASSUME l = Length(f, s)
               PROVE  /\ Body[f][s + l + 1] = ByteSize - 1 - Sums(f)[s + l]
                      /\ Sums(f)[s + l] \in Byte
  OBVIOUS
<1>2. PICK e, t \in Nat : e = LineEnd(f, s) /\ t = s /\ e = t + l + 2
  BY <1>1, LineIs
<1>3. e - 1 = t + l + 1 /\ e - 2 = t + l
  BY <1>2
<1>4. Body[f][e - 1] = ByteSize - 1 - Sums(f)[e - 2]
  BY <1>2, LineIs
<1>5. Sums(f)[s + l] \in Byte
  <2>1. PICK n \in Nat : n = Length(f, s) /\ n = l
    BY <1>1
  <2>2. l <= n + 1
    BY <2>1
  <2>3. l <= Length(f, s) + 1
    BY <2>1, <2>2
  <2> QED
    BY <2>3, SumsStep
<1> QED
  BY <1>2, <1>3, <1>4, <1>5

LEMMA ScanDataGoes ==
  ASSUME TypeOK, TypeOK', NEW f \in Files,
         NEW R \in Seq(Token), NEW d \in Nat, NEW m \in Nat, NEW s \in Nat,
         Doing(f, R, d, m, s), pc = "s3", ScanByte
  PROVE  Goes(f)'
<1>1. /\ UNCHANGED <<client, assembly, status, srec_ok, pc, byte_count>>
      /\ i <= byte_count /\ i' = (i + 1) % ByteSize
  BY DEF ScanByte
<1>2. /\ WellFormed(f) /\ Follows(f, R, d, m, s) /\ status # "failed"
      /\ InData(f, R, d, s) /\ s \in Data(f) /\ s \in Starts(f) /\ s # d /\ ~srec_ok
      /\ byte_count = Length(f, s) /\ (sound => d = 0)
  BY DEF Doing, Follows, InData, Data
<1>3. Parsed(f, R, d, m, s)
  BY <1>2 DEF Parsed, Follows
<1>4. PICK n, l \in Nat : n = i /\ l = Length(f, s) /\ l <= ByteSize - 2 /\ 1 <= n /\ n <= l
  <2>1. PICK l \in Nat : l = Length(f, s) /\ l <= ByteSize - 2
    BY <1>2, LineIs
  <2>2. i \in 1 .. l + 1 /\ i <= l
    BY <1>1, <1>2, <2>1 DEF InData
  <2>3. i \in Nat /\ 1 <= i
    BY <2>2
  <2> QED
    BY <2>1, <2>2, <2>3
<1>5. i' = n + 1
  <2>1. ByteSize \in Nat /\ n + 1 < ByteSize
    BY <1>4, Sizes
  <2>2. (n + 1) % ByteSize = n + 1
    BY <2>1
  <2> QED
    BY <1>1, <1>4, <2>2
<1>6. PICK behind, b : /\ b = Scan(i, behind) /\ b \in Byte
                       /\ sum' = (sum + b) % ByteSize
                       /\ IF i > AddrBytes + 1 THEN BufferByte(b) ELSE UNCHANGED image
  <2>1. \A behind : Scan(i, behind) \in Byte
    BY ScanType DEF TypeOK
  <2> QED
    BY <2>1 DEF ScanByte
<1>7. i' \in 1 .. Length(f, s) + 1
  <2>1. n + 1 \in 1 .. l + 1
    BY <1>4
  <2> QED
    BY <1>4, <1>5, <2>1
<1>8. ASSUME Exact(f, s)' \/ Astray(f, R, d, s)' \/ Short(f, R, d, s)'
      PROVE  Goes(f)'
  <2>1. InData(f, R, d, s)'
    BY <1>1, <1>2, <1>7, <1>8 DEF InData
  <2>2. Received(f, R, d, m) /\ InLine(R, s) /\ pc' = "s3" /\ pc # "read"
    BY <1>1, <1>3 DEF Parsed
  <2> QED
    BY <1>1, <1>2, <2>1, <2>2, GoOn
<1>9. CASE Short(f, R, d, s)
  BY <1>8, <1>9 DEF Short
<1>10. CASE ~Short(f, R, d, s)
  <2>1. s < d /\ d <= s + n => R[d] # NL
    <3>1. s < d /\ d <= s + n => s < d /\ d <= s + l
      BY <1>4
    <3> QED
      BY <1>4, <1>10, <3>1 DEF Short
  <2>2. n <= Length(f, s) + 1
    <3>1. n <= l + 1
      BY <1>4
    <3> QED
      BY <1>4, <3>1
  <2>3. PICK v : v = Body[f][s + n]
    OBVIOUS
  <2>4. v \in Byte /\ (s + n # d => b = v)
    BY <1>2, <1>3, <1>4, <1>6, <2>1, <2>2, <2>3, ScanIs
  <2>5. PICK x : x = Sums(f)[s + n - 1]
    OBVIOUS
  <2>6. Sums(f)[s + n] = (x + v) % ByteSize
    BY <1>2, <1>4, <2>2, <2>3, <2>5, SumsStep
  <2>7. x \in Byte
    <3>1. n - 1 \in Nat /\ s + (n - 1) = s + n - 1 /\ n - 1 <= l + 1
      BY <1>4
    <3>2. n - 1 <= Length(f, s) + 1
      BY <1>4, <3>1
    <3>3. Sums(f)[s + (n - 1)] \in Byte
      BY <1>2, <3>1, <3>2, SumsStep
    <3> QED
      BY <2>5, <3>1, <3>3
  <2>8. sum \in Byte
    BY DEF TypeOK
  <2>9. s + i' - 1 = s + n
    <3>1. s + (n + 1) - 1 = s + n
      BY <1>4
    <3> QED
      BY <1>5, <3>1
  <2>10. CASE Exact(f, s) /\ b = v
    <3>1. sum = x /\ Stored(f) /\ address + index = From(f, s) + (IF n > 4 THEN n - 4 ELSE 0)
      <4>1. \A k \in Nat : k - 2 - 2 = k - 4
        OBVIOUS
      <4> QED
        BY <1>4, <2>5, <2>10, <4>1 DEF Exact, AddrBytes
    <3>2. sum' = Sums(f)[s + i' - 1]
      BY <1>6, <2>6, <2>9, <2>10, <3>1
    <3>3. PICK g, u \in Nat : g = From(f, s) /\ u = address + index
      BY <1>2, <3>1, DataIs, ImageTypes
    <3>4. u = g + (IF n > 4 THEN n - 4 ELSE 0)
      BY <3>1, <3>3
    <3>5. ASSUME Stored(f)', address' + index' = g + (IF n + 1 > 4 THEN n + 1 - 4 ELSE 0)
          PROVE  Exact(f, s)'
      <4>1. g + (IF n + 1 > 4 THEN n + 1 - 4 ELSE 0)
              = g + (IF n + 1 > 2 + 2 THEN n + 1 - 2 - 2 ELSE 0)
        BY <1>4
      <4>2. address' + index' = g + (IF i' > AddrBytes + 2 THEN i' - AddrBytes - 2 ELSE 0)
        BY <1>5, <3>5, <4>1 DEF AddrBytes
      <4> QED
        BY <3>2, <3>3, <3>5, <4>2 DEF Exact
    <3>6. CASE n > 3
      <4>1. BufferByte(b)
        BY <1>4, <1>6, <3>6, Sizes
      <4>2. 4 <= n /\ u = g + n - 4 /\ u + 1 = g + n - 3
        BY <3>4, <3>6
      <4>3. n <= Length(f, s)
        BY <1>4
      <4>4. g + n - 4 < Len(Bytes[f]) /\ Bytes[f][g + n - 3] = v
        BY <1>2, <2>3, <3>3, <4>2, <4>3, DataByte
      <4>5. address + index < Len(Bytes[f]) /\ b = Bytes[f][address + index + 1]
        BY <2>10, <3>3, <4>2, <4>4
      <4>6. Stored(f)' /\ address' + index' = u + 1
        BY <1>2, <1>6, <3>1, <3>3, <4>1, <4>5, Buffered
      <4>7. u + 1 = g + (IF n + 1 > 4 THEN n + 1 - 4 ELSE 0)
        BY <3>6, <4>2
      <4> QED
        BY <1>8, <3>5, <4>6, <4>7
    <3>7. CASE ~(n > 3)
      <4>1. UNCHANGED image
        BY <1>4, <1>6, <3>7, Sizes
      <4>2. Stored(f)' /\ address' + index' = u
        BY <3>1, <3>3, <4>1 DEF Stored, image
      <4>3. u = g + (IF n + 1 > 4 THEN n + 1 - 4 ELSE 0)
        BY <3>4, <3>7
      <4> QED
        BY <1>8, <3>5, <4>2, <4>3
    <3> QED
      BY <3>6, <3>7
  <2>11. ASSUME s < d, d <= s + n, (sum # x /\ b = v) \/ (sum = x /\ b # v)
         PROVE  Goes(f)'
    <3>1. sum' # Sums(f)[s + i' - 1]
      BY <1>6, <2>4, <2>6, <2>7, <2>8, <2>9, <2>11, SumsDiffer
    <3>2. d < s + i'
      <4>1. d < s + (n + 1)
        BY <2>11
      <4> QED
        BY <1>5, <4>1
    <3> QED
      BY <1>8, <2>1, <2>11, <3>1, <3>2 DEF Astray
  <2>12. CASE Exact(f, s) /\ b # v
    <3>1. s + n = d /\ sum = x
      BY <1>4, <2>4, <2>5, <2>12 DEF Exact
    <3>2. s < d /\ d <= s + n
      BY <1>4, <3>1
    <3> QED
      BY <2>11, <2>12, <3>1, <3>2
  <2>13. CASE Astray(f, R, d, s)
    <3>1. s < d /\ d < s + n /\ sum # x
      BY <1>4, <2>5, <2>13 DEF Astray
    <3>2. d <= s + n /\ s + n # d
      BY <3>1
    <3> QED
      BY <2>4, <2>11, <3>1, <3>2
  <2> QED
    BY <1>2, <1>10, <2>10, <2>12, <2>13 DEF InData
<1> QED
  BY <1>9, <1>10

LEMMA DataEndGoes ==
  ASSUME TypeOK, TypeOK', NEW f \in Files,
         NEW R \in Seq(Token), NEW d \in Nat, NEW m \in Nat, NEW s \in Nat,
         Doing(f, R, d, m, s), DataEnd
  PROVE  Goes(f)'
<1>1. /\ UNCHANGED <<client, current_line, image, srec_ok>>
      /\ pc = "s3" /\ i > byte_count
  BY DEF DataEnd
<1>2. /\ WellFormed(f) /\ Follows(f, R, d, m, s) /\ status # "failed"
      /\ InData(f, R, d, s) /\ s \in Data(f) /\ s \in Starts(f) /\ s # d /\ ~srec_ok
      /\ byte_count = Length(f, s) /\ (sound => d = 0)
      /\ "damage" \in Faults => TooLongTogether(f)
      /\ Received(f, R, d, m) /\ InLine(R, s) /\ pc # "read" /\ s > 0
  BY <1>1 DEF Doing, Follows, InData, Data, InLine
<1>3. Parsed(f, R, d, m, s)
  BY <1>2 DEF Parsed
<1>4. PICK l \in Nat : l = Length(f, s) /\ i = l + 1
  <2>1. PICK l \in Nat : l = Length(f, s)
    BY <1>2, LineIs
  <2>2. i \in 1 .. l + 1 /\ i > l
    BY <1>1, <1>2, <2>1 DEF InData
  <2>3. i = l + 1
    BY <2>2
  <2> QED
    BY <2>1, <2>3
<1>5. PICK x : x = Sums(f)[s + l]
  OBVIOUS
<1>6. x \in Byte /\ Body[f][s + l + 1] = ByteSize - 1 - x
  BY <1>2, <1>4, <1>5, ChecksumIs
<1>7. s + i - 1 = s + l /\ s + (l + 1) = s + l + 1 /\ l + 1 \in Nat /\ 1 <= l + 1
  <2>1. s + (l + 1) - 1 = s + l /\ s + (l + 1) = s + l + 1 /\ l + 1 \in Nat /\ 1 <= l + 1
    OBVIOUS
  <2> QED
    BY <1>4, <2>1
<1>8. ASSUME s + l + 1 # d, s < d /\ d <= s + l + 1 => R[d] # NL
      PROVE  \A behind : Scan(l + 1, behind) = ByteSize - 1 - x
  <2> SUFFICES ASSUME NEW behind PROVE Scan(l + 1, behind) = ByteSize - 1 - x
    OBVIOUS
  <2>1. l + 1 <= Length(f, s) + 1
    <3>1. l + 1 <= l + 1
      OBVIOUS
    <3> QED
      BY <1>4, <3>1
  <2>2. Scan(l + 1, behind) = Body[f][s + (l + 1)]
    BY <1>2, <1>3, <1>7, <1>8, <2>1, ScanIs
  <2> QED
    BY <1>6, <1>7, <2>2
<1>9. \/ Accepted /\ \E behind : Scan(l + 1, behind) = Checksum
      \/ Refused /\ \E behind : Scan(l + 1, behind) # Checksum
  BY <1>2, <1>4 DEF DataEnd
<1>10. CASE Refused /\ \E behind : Scan(l + 1, behind) # Checksum
  <2>1. ~sound
    <3> SUFFICES ASSUME sound PROVE FALSE
      OBVIOUS
    <3>1. d = 0 /\ s + l + 1 # d /\ ~(s < d)
      <4>1. s + l + 1 # 0 /\ ~(s < 0)
        OBVIOUS
      <4> QED
        BY <1>2, <4>1
    <3>2. Exact(f, s)
      BY <1>2, <3>1 DEF InData, Astray, Short
    <3>3. sum = x
      BY <1>5, <1>7, <3>2 DEF Exact
    <3> QED
      BY <1>8, <1>10, <3>1, <3>3 DEF Checksum
  <2>2. sound' = sound /\ srec_ok' = srec_ok
    BY <1>1 DEF client
  <2> QED
    BY <1>2, <1>10, <2>1, <2>2, RefuseStep
<1>11. CASE Accepted /\ \E behind : Scan(l + 1, behind) = Checksum
  <2>1. PICK p \in Nat :
          /\ p = s + current_line_index /\ s < p /\ p <= Len(R)
          /\ R[p] = NL /\ \A k \in s .. p - 1 : R[k] # NL
    BY <1>2, LineCells
  <2>2. ASSUME AtLine(f, d, p + 1)' PROVE Goes(f)'
    BY <1>1, <1>2, <1>11, <2>1, <2>2, AcceptStep
  <2>3. CASE Short(f, R, d, s)
    <3>1. PICK e \in Nat : e = LineEnd(f, s) /\ e = s + l + 2
      BY <1>2, <1>4, LineIs
    <3>2. s < d /\ d <= s + l /\ R[d] = NL
      BY <1>4, <2>3 DEF Short
    <3>3. p <= d
      <4>1. ~(d \in s .. p - 1)
        BY <2>1, <3>2
      <4> QED
        BY <3>2, <4>1
    <3>4. (p = e /\ p # d) \/ (p = d /\ p < e) \/ (d = e /\ p > e)
      <4>1. sent \in Nat
        BY DEF TypeOK
      <4>2. \/ p = LineEnd(f, s) /\ p # d
            \/ p = d /\ p < LineEnd(f, s)
            \/ d = LineEnd(f, s) /\ p > LineEnd(f, s)
        BY <1>2, <2>1, <4>1, FirstEnd
      <4> QED
        BY <3>1, <4>2
    <3>5. e = s + l + 2
      BY <3>1
    <3>6. p = d /\ p + 1 < e
      BY <3>2, <3>3, <3>4, <3>5
    <3>7. s < p + 1 /\ 0 < d /\ d < p + 1
      BY <3>2, <3>6
    <3>8. p + 1 < LineEnd(f, s)
      BY <3>1, <3>6
    <3>9. AtRest(f, d, p + 1)'
      BY <1>1, <1>2, <3>7, <3>8 DEF AtRest
    <3> QED
      BY <2>2, <3>9 DEF AtLine
  <2>4. CASE Astray(f, R, d, s)
    <3>1. s < d /\ d < s + l + 1 /\ R[d] # NL /\ sum # x
      <4>1. s + i = s + l + 1
        BY <1>4, <1>7
      <4> QED
        BY <1>5, <1>7, <2>4, <4>1 DEF Astray
    <3>2. s + l + 1 # d
      BY <3>1
    <3>3. ByteSize - 1 - x = ByteSize - 1 - sum
      BY <1>8, <1>11, <3>1, <3>2 DEF Checksum
    <3>4. x \in Int /\ sum \in Int /\ ByteSize \in Int
      BY <1>6, Sizes DEF TypeOK, Byte
    <3>5. x = sum
      BY <3>3, <3>4
    <3> QED
      BY <3>1, <3>5
  <2>5. CASE Exact(f, s)
    <3>1. PICK g, t \in Nat : g = From(f, s) /\ t = To(f, s) /\ t = g + l - 3 /\ l >= 3
      BY <1>2, <1>4, DataIs, LineIs
    <3>2. t = g + (IF l + 1 > 2 + 2 THEN l + 1 - 2 - 2 ELSE 0)
      <4>1. t = g + l - 3 /\ l >= 3
        BY <3>1
      <4> QED
        BY <4>1
    <3>3. address + index = t
      <4>1. i = l + 1 /\ g = From(f, s)
        BY <1>4, <3>1
      <4>2. address + index = From(f, s) + (IF i > AddrBytes + 2 THEN i - AddrBytes - 2 ELSE 0)
        BY <2>5 DEF Exact
      <4>3. address + index = g + (IF l + 1 > 2 + 2 THEN l + 1 - 2 - 2 ELSE 0)
        BY <4>1, <4>2 DEF AddrBytes
      <4> QED
        BY <3>2, <4>3
    <3>4. Described(f, LineEnd(f, s) + 1, t) /\ Stored(f)
      BY <1>2, <2>5, <3>1, DescribedData DEF Exact
    <3>5. Before(f, LineEnd(f, s) + 1)'
      BY <1>1, <1>2, <3>3, <3>4 DEF Before, Stored, image
    <3>6. Body[f][s] # S7
      BY <1>2, DataIs, Sizes
    <3>7. AtLine(f, d, p + 1)'
      BY <1>1, <1>2, <1>3, <2>1, <3>5, <3>6, NextAt
    <3> QED
      BY <2>2, <3>7
  <2> QED
    BY <1>2, <2>3, <2>4, <2>5 DEF InData
<1> QED
  BY <1>9, <1>10, <1>11

-----------------------------------------------------------------------------
(* The record that ends the file. *)
LEMMA TerminationBeginGoes ==
  ASSUME TypeOK, NEW f \in Files,
         NEW R \in Seq(Token), NEW d \in Nat, NEW m \in Nat, NEW s \in Nat,
         Doing(f, R, d, m, s), TerminationBegin
  PROVE  Goes(f)'
<1>1. /\ pc = "parse" /\ current_line[0] = S7
      /\ UNCHANGED <<client, assembly, status, image, srec_ok>>
  BY DEF TerminationBegin, Parsing
<1>2. /\ WellFormed(f) /\ Follows(f, R, d, m, s) /\ status # "failed"
  BY DEF Doing
<1>3. Parsed(f, R, d, m, s) /\ Before(f, s) /\ Body[f][s] = S7 /\ s \in Starts(f)
      /\ (sound => d = 0) /\ s # d
  BY <1>1, <1>2, LineType DEF Parsed, Follows
<1>4. pc' = "s7" /\ i' = 1 /\ sum' = 0 /\ (sound => byte_count' = Length(f, s))
  <2>1. ASSUME NEW behind, sound PROVE Fields(behind).count = Length(f, s)
    <3>1. d = 0 /\ (Body[f][s] = S3 \/ d = 0)
      BY <1>3, <2>1
    <3>2. WellFormed(f) /\ Parsed(f, R, d, m, s)
      BY <1>2, <1>3
    <3> QED
      BY <3>1, <3>2, RecordFields, SMTT(30)
  <2> QED
    BY <2>1 DEF TerminationBegin, Looping
<1>5. sum' = Sums(f)[s + i' - 1]
  <2>1. Sums(f)[s] = 0
    BY <1>2, <1>3, SumsStep
  <2>2. s + 1 - 1 = s
    OBVIOUS
  <2> QED
    BY <1>4, <2>1, <2>2
<1>6. 1 \in 1 .. Length(f, s) + 1
  BY <1>2, <1>3, LineIs
<1>7. Before(f, s)' /\ sound' = sound
  BY <1>1, <1>3 DEF Before, Stored, image, client
<1>8. InTermination(f, d, s)'
  BY <1>3, <1>4, <1>5, <1>6, <1>7 DEF InTermination
<1>9. Received(f, R, d, m) /\ InLine(R, s) /\ pc # "read"
  BY <1>3 DEF Parsed
<1> QED
  BY <1>1, <1>2, <1>3, <1>4, <1>8, <1>9, GoOn

LEMMA ScanTerminationGoes ==
  ASSUME TypeOK, NEW f \in Files,
         NEW R \in Seq(Token), NEW d \in Nat, NEW m \in Nat, NEW s \in Nat,
         Doing(f, R, d, m, s), pc = "s7", ScanByte
  PROVE  Goes(f)'
<1>1. /\ UNCHANGED <<client, assembly, status, srec_ok, pc, byte_count>>
      /\ i <= byte_count /\ i' = (i + 1) % ByteSize
  BY DEF ScanByte
<1>2. PICK behind : sum' = (sum + Scan(i, behind)) % ByteSize /\ UNCHANGED image
  BY DEF ScanByte
<1>3. /\ WellFormed(f) /\ Follows(f, R, d, m, s) /\ status # "failed"
      /\ InTermination(f, d, s) /\ s \in Starts(f) /\ s # d /\ (sound => d = 0)
      /\ Received(f, R, d, m) /\ InLine(R, s) /\ pc # "read" /\ pc' = "s7" /\ s > 0
  BY <1>1 DEF Doing, Follows, InTermination, InLine
<1>4. Parsed(f, R, d, m, s)
  BY <1>3 DEF Parsed
<1>5. Before(f, s)' /\ Body[f][s] = S7
  BY <1>1, <1>2, <1>3 DEF InTermination, Before, Stored, image
<1>6. ASSUME sound
      PROVE  /\ byte_count' = Length(f, s) /\ i' \in 1 .. Length(f, s) + 1
             /\ sum' = Sums(f)[s + i' - 1]
  <2>1. d = 0 /\ byte_count = Length(f, s) /\ sum = Sums(f)[s + i - 1]
    BY <1>3, <1>6 DEF InTermination
  <2>2. PICK n, l \in Nat : n = i /\ l = Length(f, s) /\ l <= ByteSize - 2 /\ 1 <= n /\ n <= l
    <3>1. PICK l \in Nat : l = Length(f, s) /\ l <= ByteSize - 2
      BY <1>3, LineIs
    <3>2. i \in 1 .. l + 1 /\ i <= l
      BY <1>1, <1>3, <1>6, <3>1 DEF InTermination
    <3>3. i \in Nat /\ 1 <= i
      BY <3>2
    <3> QED
      BY <3>1, <3>2, <3>3
  <2>3. i' = n + 1
    <3>1. ByteSize \in Nat /\ n + 1 < ByteSize
      BY <2>2, Sizes
    <3>2. (n + 1) % ByteSize = n + 1
      BY <3>1
    <3> QED
      BY <1>1, <2>2, <3>2
  <2>4. n <= Length(f, s) + 1 /\ n + 1 \in 1 .. Length(f, s) + 1
    <3>1. n <= l + 1 /\ n + 1 \in 1 .. l + 1
      BY <2>2
    <3> QED
      BY <2>2, <3>1
  <2>5. s + n # d /\ ~(s < d)
    <3>1. s + n # 0 /\ ~(s < 0)
      BY <2>2
    <3> QED
      BY <2>1, <3>1
  <2>6. Scan(i, behind) = Body[f][s + n]
    BY <1>3, <1>4, <2>2, <2>4, <2>5, ScanIs
  <2>7. Sums(f)[s + n] = (Sums(f)[s + n - 1] + Body[f][s + n]) % ByteSize
    BY <1>3, <2>2, <2>4, SumsStep
  <2>8. sum' = Sums(f)[s + n]
    BY <1>2, <2>1, <2>2, <2>6, <2>7
  <2>9. s + (n + 1) - 1 = s + n
    BY <2>2
  <2> QED
    BY <1>1, <2>1, <2>3, <2>4, <2>8, <2>9
<1>7. InTermination(f, d, s)'
  BY <1>1, <1>3, <1>5, <1>6 DEF InTermination, client
<1> QED
  BY <1>1, <1>3, <1>7, GoOn

LEMMA TerminationEndGoes ==
  ASSUME TypeOK, NEW f \in Files,
         NEW R \in Seq(Token), NEW d \in Nat, NEW m \in Nat, NEW s \in Nat,
         Doing(f, R, d, m, s), TerminationEnd
  PROVE  Goes(f)'
<1>1. /\ UNCHANGED <<client, current_line, buffer, Locals>>
      /\ pc = "s7" /\ i > byte_count
  BY DEF TerminationEnd
<1>2. /\ WellFormed(f) /\ Follows(f, R, d, m, s) /\ status # "failed"
      /\ InTermination(f, d, s) /\ s \in Starts(f) /\ s # d /\ (sound => d = 0)
      /\ Received(f, R, d, m) /\ InLine(R, s) /\ pc # "read" /\ s > 0
      /\ Body[f][s] = S7 /\ Before(f, s)
  BY <1>1 DEF Doing, Follows, InTermination, InLine
<1>3. Parsed(f, R, d, m, s)
  BY <1>2 DEF Parsed
<1>4. Stored(f) /\ Described(f, s, address + index) /\ ~srec_ok
  BY <1>2 DEF Before
<1>5. \A l \in Starts(f) : l <= s /\ l \in Nat
  BY <1>2, LastLine, LineIs
<1>6. PICK behind :
        IF Fields(behind).ok /\ Cell(Fields(behind).next, behind) = Checksum
           /\ Fields(behind).addr = Start
        THEN /\ Accepted
             /\ newApp' = Flushed
             /\ address' = Wrap(address + index) /\ index' = 0
             /\ srec_ok' = TRUE
        ELSE Refused /\ UNCHANGED <<newApp, address, index, srec_ok>>
  BY DEF TerminationEnd
<1>7. CASE /\ Accepted /\ newApp' = Flushed
           /\ address' = Wrap(address + index) /\ index' = 0 /\ srec_ok' = TRUE
  <2>1. address + index = Len(Bytes[f])
    <3>1. PICK u, n, b \in Nat : u = address + index /\ n = Len(Bytes[f]) /\ b = Len(Body[f])
      BY <1>2, <1>4, ImageTypes, BytesAre, BodyIs
    <3>2. Described(f, b + 1, n) /\ b + 1 \in Nat
      BY <1>2, <3>1, BytesAre
    <3>3. \A l \in Data(f) : l < s /\ l < b + 1
      <4>1. ASSUME NEW l \in Data(f) PROVE l < s /\ l < b + 1
        <5>1. l \in Nat /\ l <= s /\ l # s
          BY <1>2, <1>5, DataIs, Sizes
        <5>2. s <= b
          BY <1>2, <3>1, BodyIs
        <5> QED
          BY <5>1, <5>2
      <4> QED
        BY <4>1
    <3>4. u = n
      BY <1>2, <1>4, <3>1, <3>2, <3>3, DescribedOnce
    <3> QED
      BY <3>1, <3>4
  <2>2. address' = Len(Bytes[f])
    BY <1>2, <1>4, <1>7, <2>1, ImageTypes
  <2>3. \A p \in 0 .. Len(Bytes[f]) - 1 : newApp'[p] = Bytes[f][p + 1]
    <3>1. \A p \in 0 .. address + index - 1 : Flushed[p] = Bytes[f][p + 1]
      BY <1>2, <1>4, FlushedIs
    <3>2. PICK n \in Nat : n = address + index /\ address \in Nat /\ index \in Nat
      BY <1>2, <1>4, ImageTypes
    <3>3. ASSUME NEW p \in 0 .. n - 1 PROVE newApp'[p] = Bytes[f][p + 1]
      <4>1. p \in 0 .. address + index - 1
        BY <3>2
      <4>2. Flushed[p] = Bytes[f][p + 1]
        BY <3>1, <4>1
      <4> QED
        BY <1>7, <4>2
    <3>4. n = Len(Bytes[f])
      BY <2>1, <3>2
    <3> QED
      BY <3>3, <3>4
  <2>4. Whole(f)'
    BY <2>2, <2>3 DEF Whole
  <2>5. PICK p \in Nat : p = s + current_line_index
    BY DEF TypeOK
  <2>6. \A l \in Starts(f) : l < p + 1
    <3>1. s < p + 1 /\ \A l \in Nat : l <= s => l < p + 1
      <4>1. current_line_index \in Nat
        BY DEF TypeOK
      <4> QED
        BY <2>5, <4>1
    <3> QED
      BY <1>5, <3>1
  <2>7. AtTail(f, p + 1)'
    BY <1>7, <2>4, <2>6 DEF AtTail, Ended
  <2>8. AtLine(f, d, p + 1)'
    BY <2>7 DEF AtLine
  <2> QED
    BY <1>1, <1>2, <1>7, <2>5, <2>8, AcceptStep
<1>8. CASE /\ ~(Fields(behind).ok /\ Cell(Fields(behind).next, behind) = Checksum
                /\ Fields(behind).addr = Start)
           /\ Refused /\ UNCHANGED <<newApp, address, index, srec_ok>>
  <2>1. ~sound
    <3> SUFFICES ASSUME sound PROVE FALSE
      OBVIOUS
    <3>1. d = 0 /\ byte_count = Length(f, s) /\ sum = Sums(f)[s + i - 1]
          /\ i \in 1 .. Length(f, s) + 1
      BY <1>2 DEF InTermination
    <3>2. Length(f, s) = 3 /\ RecordAddress(f, s) = Start
      BY <1>2, LastLine
    <3>3. i = 4
      <4>1. i \in 1 .. 3 + 1 /\ i > 3
        BY <1>1, <3>1, <3>2
      <4> QED
        BY <4>1
    <3>4. Fields(behind).ok /\ Fields(behind).addr = Start
          /\ Fields(behind).next = Skip(4, behind)
      BY <1>2, <1>3, <3>1, <3>2, RecordFields
    <3>5. PICK x : x = Sums(f)[s + 3]
      OBVIOUS
    <3>6. x \in Byte /\ Body[f][s + 3 + 1] = ByteSize - 1 - x
      BY <1>2, <3>2, <3>5, ChecksumIs
    <3>7. sum = x
      <4>1. s + 4 - 1 = s + 3
        OBVIOUS
      <4> QED
        BY <3>1, <3>3, <3>5, <4>1
    <3>8. s + 3 + 1 = s + 4 /\ s + 4 # d /\ ~(s < d)
      <4>1. s + 3 + 1 = s + 4 /\ s + 4 # 0 /\ ~(s < 0)
        OBVIOUS
      <4> QED
        BY <3>1, <4>1
    <3>9. 4 <= Length(f, s) + 1 /\ 1 <= 4
      BY <3>2
    <3>10. Cell(4, behind) = Body[f][s + 4] /\ Body[f][s + 4] \in Byte
      <4>1. Body[f][s + 4] \in Byte
        BY <1>2, <1>3, <3>9, LineByte
      <4> QED
        BY <1>2, <1>3, <3>8, <3>9, <4>1, CellIs
    <3>11. Skip(4, behind) = 4
      BY <3>10, SkipHere, Sizes
    <3>12. Cell(Fields(behind).next, behind) = Checksum
      BY <3>4, <3>6, <3>7, <3>8, <3>10, <3>11 DEF Checksum
    <3> QED
      BY <1>8, <3>4, <3>12
  <2>2. sound' = sound /\ ~srec_ok'
    BY <1>1, <1>4, <1>8 DEF client
  <2> QED
    BY <1>8, <2>1, <2>2, RefuseStep
<1> QED
  BY <1>6, <1>7, <1>8

-----------------------------------------------------------------------------
(* The tokens of a segment, one by one. *)
LEMMA HeadIs ==
  ASSUME TypeOK, NEW R \in Seq(Token), NEW s \in Nat, InLine(R, s), Reading
  PROVE  /\ Head(chunk) = R[s + current_line_index]
         /\ s + current_line_index + Len(Tail(chunk)) = Len(R)
         /\ s + current_line_index <= Len(R) /\ s > 0
         /\ \A k \in 1 .. Len(Tail(chunk)) :
              Tail(chunk)[k] = R[Len(R) - Len(Tail(chunk)) + k]
<1>1. chunk \in Seq(Token) /\ chunk # << >> /\ pc = "read" /\ current_line_index \in Nat
  BY DEF TypeOK, Reading
<1>2. PICK n, r, c \in Nat : n = Len(chunk) /\ r = Len(R) /\ c = current_line_index
  BY <1>1, LenProperties
<1>3. n > 0
  BY <1>1, <1>2, EmptySeq, LenProperties
<1>4. s + c + n = r + 1 /\ s > 0
  BY <1>1, <1>2 DEF InLine
<1>5. \A k \in 1 .. n : chunk[k] = R[r - n + k]
  BY <1>2 DEF InLine
<1>6. Head(chunk) = R[s + c]
  <2>1. Head(chunk) = chunk[1]
    BY <1>1, HeadTailProperties
  <2>2. r - n + 1 = s + c /\ 1 \in 1 .. n
    BY <1>3, <1>4
  <2> QED
    BY <1>5, <2>1, <2>2
<1>7. /\ Tail(chunk) \in Seq(Token) /\ Len(Tail(chunk)) = n - 1
      /\ \A k \in 1 .. n - 1 : Tail(chunk)[k] = chunk[k + 1]
  BY <1>1, <1>2, HeadTailProperties
<1>8. ASSUME NEW k \in 1 .. n - 1 PROVE Tail(chunk)[k] = R[r - (n - 1) + k]
  <2>1. k + 1 \in 1 .. n /\ r - n + (k + 1) = r - (n - 1) + k
    BY <1>3
  <2> QED
    BY <1>5, <1>7, <2>1
<1>9. s + c + (n - 1) = r /\ s + c <= r
  BY <1>3, <1>4
<1> QED
  BY <1>2, <1>4, <1>6, <1>7, <1>8, <1>9

LEMMA StoreTokenGoes ==
  ASSUME TypeOK, NEW f \in Files,
         NEW R \in Seq(Token), NEW d \in Nat, NEW m \in Nat, NEW s \in Nat,
         Doing(f, R, d, m, s), StoreToken
  PROVE  Goes(f)'
<1>1. /\ Reading /\ pc = "read" /\ ~LineTooLong /\ Head(chunk) # NL
      /\ current_line' = [current_line EXCEPT ![current_line_index] = Head(chunk)]
      /\ current_line_index' = current_line_index + 1 /\ chunk' = Tail(chunk)
      /\ UNCHANGED <<client, status, image, srec_ok, parser>>
  BY DEF StoreToken, Reading
<1>2. /\ Received(f, R, d, m) /\ InLine(R, s) /\ (sound => d = 0) /\ AtLine(f, d, s)
      /\ status # "failed"
  BY <1>1 DEF Doing, Follows
<1>3. /\ Head(chunk) = R[s + current_line_index]
      /\ s + current_line_index + Len(chunk') = Len(R) /\ s > 0
      /\ \A k \in 1 .. Len(chunk') : chunk'[k] = R[Len(R) - Len(chunk') + k]
  BY <1>1, <1>2, HeadIs
<1>4. PICK c \in Nat : c = current_line_index /\ c \in 0 .. LineSize - 1
  <2>1. current_line_index \in 0 .. LineSize /\ ~(current_line_index >= LineSize)
    BY <1>1 DEF TypeOK, LineTooLong
  <2> QED
    BY <2>1, Sizes
<1>5. s + (c + 1) + Len(chunk') = Len(R) + 1
  <2>1. Len(chunk') \in Nat /\ Len(R) \in Nat
    <3>1. Tail(chunk) \in Seq(Token)
      BY <1>1, HeadTailProperties DEF TypeOK, Reading
    <3> QED
      BY <1>1, <3>1, LenProperties
  <2>2. PICK x, y \in Nat : x = Len(chunk') /\ y = Len(R)
    BY <2>1
  <2>3. s + c + x = y
    BY <1>3, <1>4, <2>2
  <2>4. s + (c + 1) + x = y + 1
    BY <2>3
  <2> QED
    BY <2>2, <2>4
<1>6. ASSUME NEW k \in 0 .. current_line_index' - 1
      PROVE  R[s + k] # NL /\ (k < LineSize => current_line'[k] = R[s + k])
  <2>1. k = c \/ (k # c /\ k \in 0 .. c - 1)
    BY <1>1, <1>4
  <2>2. k \in 0 .. LineSize - 1 /\ current_line \in [0 .. LineSize - 1 -> Token]
    BY <1>4, <2>1, Sizes DEF TypeOK
  <2>3. CASE k = c
    BY <1>1, <1>3, <1>4, <2>2, <2>3
  <2>4. CASE k # c /\ k \in 0 .. c - 1
    <3>1. R[s + k] # NL /\ (k < LineSize => current_line[k] = R[s + k])
      BY <1>2, <1>4, <2>4 DEF InLine
    <3>2. current_line'[k] = current_line[k]
      BY <1>1, <1>4, <2>2, <2>4
    <3> QED
      BY <3>1, <3>2
  <2> QED
    BY <2>1, <2>3, <2>4
<1>7. InLine(R, s)'
  BY <1>1, <1>3, <1>4, <1>5, <1>6 DEF InLine, parser
<1>8. Received(f, R, d, m)' /\ (sound' => d = 0)
  BY <1>1, <1>2 DEF Received, client
<1>9. AtLine(f, d, s)'
  BY <1>1, <1>2 DEF AtLine, AtRecord, AtEnd, AtRest, AtTail, Before, Stored, Ended, Whole,
                    image, client
<1>10. Follows(f, R, d, m, s)'
  BY <1>1, <1>7, <1>8, <1>9 DEF Follows, parser
<1> QED
  BY <1>1, <1>2, <1>10 DEF Goes, Uploading

(* An empty line: the end of a line that was left. *)
LEMMA EmptyLineAt ==
  ASSUME TypeOK, NEW f \in Files, WellFormed(f),
         NEW R \in Seq(Token), NEW d \in Nat, NEW m \in Nat, NEW s \in Nat,
         Received(f, R, d, m), (sound => d = 0), AtLine(f, d, s), s > 0,
         s <= Len(R), R[s] = NL
  PROVE  AtLine(f, d, s + 1)
<1>1. sent \in Nat
  BY DEF TypeOK
<1>2. CASE AtRecord(f, s)
  <2>1. s \in Starts(f) /\ ~srec_ok
    BY <1>2 DEF AtRecord, Before
  <2>2. PICK e \in Nat : e = LineEnd(f, s) /\ s + 5 <= e
    BY <2>1, LineIs
  <2>3. s < s + 1 /\ s + 1 < e /\ s <= e
    BY <2>2
  <2>4. s <= LineEnd(f, s)
    BY <2>2, <2>3
  <2>5. s = d
    <3>1. s # d => R[s] = Body[f][s]
      BY <1>1, <2>1, <2>4, LineKnown
    <3>2. Body[f][s] # NL
      BY <2>1, LineIs, Sizes
    <3> QED
      BY <3>1, <3>2
  <2>6. 0 < d /\ d < s + 1
    BY <2>5
  <2>7. s + 1 < LineEnd(f, s)
    BY <2>2, <2>3
  <2>8. AtRest(f, d, s + 1)
    BY <2>1, <2>3, <2>6, <2>7 DEF AtRest
  <2> QED
    BY <2>8 DEF AtLine
<1>3. CASE AtEnd(f, d, s)
  <2>1. s + 1 \in Starts(f) /\ Before(f, s + 1)
    BY <1>3, LineIs DEF AtEnd
  <2> QED
    BY <2>1 DEF AtLine, AtRecord
<1>4. CASE AtRest(f, d, s)
  <2>1. PICK l \in Starts(f) : l < s /\ s < LineEnd(f, l) /\ d < s
    BY <1>4 DEF AtRest
  <2>2. PICK a, e, r \in Nat : a = l /\ e = LineEnd(f, l) /\ r = Len(R)
    BY LineIs, LenProperties
  <2>3. s \in a + 1 .. e - 1 /\ s # d
    BY <2>1, <2>2
  <2>4. Body[f][s] \in Byte
    BY <2>2, <2>3, LineIs
  <2>5. s <= LineEnd(f, l)
    <3>1. s <= e
      BY <2>3
    <3> QED
      BY <2>2, <3>1
  <2>6. R[s] = Body[f][s]
    BY <1>1, <2>3, <2>5, LineKnown
  <2> QED
    BY <2>4, <2>6, Sizes
<1>5. CASE AtTail(f, s)
  <2>1. \A l \in Starts(f) : l \in Nat /\ l < s
    BY <1>5, BodyIs DEF AtTail
  <2>2. \A l \in Nat : l < s => l < s + 1
    OBVIOUS
  <2> QED
    BY <1>5, <2>1, <2>2 DEF AtLine, AtTail
<1> QED
  BY <1>2, <1>3, <1>4, <1>5 DEF AtLine

LEMMA EndLineGoes ==
  ASSUME TypeOK, NEW f \in Files,
         NEW R \in Seq(Token), NEW d \in Nat, NEW m \in Nat, NEW s \in Nat,
         Doing(f, R, d, m, s), EndLine
  PROVE  Goes(f)'
<1>1. /\ Reading /\ pc = "read" /\ ~LineTooLong /\ Head(chunk) = NL
      /\ current_line' = [current_line EXCEPT ![current_line_index] = NL]
      /\ chunk' = Tail(chunk)
      /\ pc' = (IF current_line_index = 0 THEN "read" ELSE "parse")
      /\ UNCHANGED <<client, current_line_index, status, image, srec_ok>>
  BY DEF EndLine, Reading
<1>2. /\ Received(f, R, d, m) /\ InLine(R, s) /\ (sound => d = 0) /\ AtLine(f, d, s)
      /\ status # "failed" /\ WellFormed(f) /\ s > 0
  BY <1>1 DEF Doing, Follows, InLine
<1>3. /\ R[s + current_line_index] = NL
      /\ s + current_line_index + Len(chunk') = Len(R)
      /\ s + current_line_index <= Len(R)
      /\ \A k \in 1 .. Len(chunk') : chunk'[k] = R[Len(R) - Len(chunk') + k]
  BY <1>1, <1>2, HeadIs
<1>4. PICK c \in Nat : c = current_line_index /\ c \in 0 .. LineSize - 1
  <2>1. current_line_index \in 0 .. LineSize /\ ~(current_line_index >= LineSize)
    BY <1>1 DEF TypeOK, LineTooLong
  <2> QED
    BY <2>1, Sizes
<1>5. PICK x, y \in Nat : x = Len(chunk') /\ y = Len(R)
  <2>1. Tail(chunk) \in Seq(Token)
    BY <1>1, HeadTailProperties DEF TypeOK, Reading
  <2> QED
    BY <1>1, <2>1, LenProperties
<1>6. s + c + x = y /\ s + c <= y
  BY <1>3, <1>4, <1>5
<1>7. Received(f, R, d, m)' /\ (sound' => d = 0)
  BY <1>1, <1>2 DEF Received, client
<1>8. \A t : AtLine(f, d, t) => AtLine(f, d, t)'
  BY <1>1 DEF AtLine, AtRecord, AtEnd, AtRest, AtTail, Before, Stored, Ended, Whole,
              image, client
<1>9. CASE current_line_index = 0
  <2>1. AtLine(f, d, s + 1)
    <3>1. s + c = s /\ s <= y
      BY <1>4, <1>6, <1>9
    <3>2. R[s] = NL /\ s <= Len(R)
      BY <1>3, <1>4, <1>5, <3>1
    <3> QED
      BY <1>2, <3>2, EmptyLineAt
  <2>2. InLine(R, s + 1)'
    <3>1. s + 1 + 0 + x = y + 1 /\ s + 1 > 0
      BY <1>4, <1>6, <1>9
    <3>2. pc' = "read" /\ current_line_index' = 0
      BY <1>1, <1>9
    <3>3. s + 1 + current_line_index' + Len(chunk')
            = Len(R) + (IF pc' = "read" THEN 1 ELSE 0)
      BY <1>5, <3>1, <3>2
    <3>4. ~\E k : k \in 0 .. current_line_index' - 1
      BY <3>2
    <3> QED
      BY <1>3, <3>1, <3>2, <3>3, <3>4 DEF InLine
  <2>3. Follows(f, R, d, m, s + 1)' /\ s + 1 \in Nat
    BY <1>1, <1>7, <1>8, <1>9, <2>1, <2>2 DEF Follows
  <2> QED
    BY <1>1, <1>2, <2>3 DEF Goes, Uploading
<1>10. CASE current_line_index # 0
  <2>1. c \in 1 .. LineSize - 1 /\ pc' = "parse" /\ s + c + x = y + 0
    BY <1>1, <1>4, <1>6, <1>10
  <2>2. current_line \in [0 .. LineSize - 1 -> Token]
    BY DEF TypeOK
  <2>3. current_line'[c] = NL
    BY <1>1, <1>4, <2>2
  <2>4. ASSUME NEW k \in 0 .. c - 1
        PROVE  R[s + k] # NL /\ (k < LineSize => current_line'[k] = R[s + k])
    <3>1. R[s + k] # NL /\ (k < LineSize => current_line[k] = R[s + k])
      BY <1>2, <1>4 DEF InLine
    <3>2. k \in 0 .. LineSize - 1 /\ k # c
      BY <1>4, Sizes
    <3>3. current_line'[k] = current_line[k]
      BY <1>1, <1>4, <2>2, <3>2
    <3> QED
      BY <3>1, <3>3
  <2>5. InLine(R, s)'
    BY <1>1, <1>2, <1>3, <1>4, <1>5, <2>1, <2>3, <2>4 DEF InLine
  <2>6. Follows(f, R, d, m, s)'
    BY <1>2, <1>7, <1>8, <2>1, <2>5 DEF Follows
  <2> QED
    BY <1>1, <1>2, <2>6 DEF Goes, Uploading
<1> QED
  BY <1>9, <1>10

(* A line of the file fits, so that a line that does not was damaged. *)
LEMMA OverflowGoes ==
  ASSUME TypeOK, NEW f \in Files,
         NEW R \in Seq(Token), NEW d \in Nat, NEW m \in Nat, NEW s \in Nat,
         Doing(f, R, d, m, s), Overflow
  PROVE  Goes(f)'
<1>1. /\ Reading /\ pc = "read" /\ current_line_index >= LineSize
      /\ status' = "failed" /\ chunk' = << >> /\ pc' = "read"
      /\ UNCHANGED <<client, image, srec_ok>>
  BY DEF Overflow, Reading, LineTooLong, Fail, parser
<1>2. /\ Received(f, R, d, m) /\ InLine(R, s) /\ (sound => d = 0) /\ AtLine(f, d, s)
      /\ WellFormed(f)
  BY <1>1 DEF Doing, Follows
<1>3. Ended(f)
  <2>1. CASE AtRecord(f, s)
    <3>1. s \in Starts(f) /\ ~srec_ok
      BY <2>1 DEF AtRecord, Before
    <3>2. ~sound
      <4> SUFFICES ASSUME sound PROVE FALSE
        OBVIOUS
      <4>1. PICK e, r, c \in Nat : /\ e = LineEnd(f, s) /\ r = Len(R) /\ c = current_line_index
                                   /\ s < e /\ e - s < LineSize /\ Body[f][e] = NL
        <5>1. Len(R) \in Nat /\ current_line_index \in Nat
          BY LenProperties DEF TypeOK
        <5> QED
          BY <1>2, <3>1, <5>1, LineIs
      <4>2. s + c <= r
        BY <1>1, <1>2, <4>1, HeadIs
      <4>3. e - s < LineSize /\ c >= LineSize /\ s < e
        BY <1>1, <4>1
      <4>4. LineSize \in Nat
        BY Sizes
      <4>5. e <= r /\ e - s \in 0 .. c - 1 /\ e # 0 /\ s + (e - s) = e
        BY <4>2, <4>3, <4>4
      <4>6. R[e] # NL
        BY <1>2, <4>1, <4>5 DEF InLine
      <4>7. e <= e /\ e > 0
        BY <4>5
      <4>8. e <= LineEnd(f, s) /\ e <= Len(R) /\ e # d
        BY <1>2, <4>1, <4>5, <4>7
      <4>9. R[e] = Body[f][e]
        BY <1>2, <3>1, <4>7, <4>8, LineKnown DEF TypeOK
      <4> QED
        BY <4>1, <4>6, <4>9
    <3> QED
      BY <3>1, <3>2 DEF Ended
  <2>2. CASE AtEnd(f, d, s) \/ AtRest(f, d, s)
    <3>1. d > 0 /\ ~srec_ok
      BY <2>2 DEF AtEnd, AtRest, Before
    <3> QED
      BY <1>2, <3>1 DEF Ended
  <2>3. CASE AtTail(f, s)
    BY <2>3 DEF AtTail
  <2> QED
    BY <1>2, <2>1, <2>2, <2>3 DEF AtLine
<1>4. Ended(f)'
  BY <1>1, <1>3 DEF Ended, Whole, image, client
<1> QED
  BY <1>1, <1>4 DEF Goes, Busy

-----------------------------------------------------------------------------
(* What a segment brings. *)
LEMMA ContentIs ==
  ASSUME NEW q \in Seq(Token)
  PROVE  \E k \in Nat :
           /\ Content(q) \in Seq(Token) /\ Len(Content(q)) = k /\ k <= Len(q)
           /\ \A j \in 1 .. k : Content(q)[j] = q[j]
           /\ k = Len(q) \/ (k + 2 <= Len(q) /\ q[k + 2] = Dash)
<1> DEFINE first == {k \in 1 .. Len(q) - 2 :
                       Delimiter(q, k) /\ \A e \in 1 .. k - 1 : ~Delimiter(q, e)}
<1>1. Content(q) = IF first = {} THEN q ELSE SubSeq(q, 1, (CHOOSE k \in first : TRUE) - 1)
  BY DEF Content
<1>2. PICK n \in Nat : n = Len(q)
  BY LenProperties
<1>3. CASE first = {}
  <2>1. Content(q) = q /\ n <= n
    BY <1>1, <1>3
  <2> QED
    BY <1>2, <2>1
<1>4. CASE first # {}
  <2>1. PICK c : c = CHOOSE k \in first : TRUE
    OBVIOUS
  <2>2. c \in 1 .. n - 2 /\ Delimiter(q, c)
    BY <1>2, <1>4, <2>1
  <2> HIDE DEF first
  <2>3. Content(q) = SubSeq(q, 1, c - 1)
    BY <1>1, <1>4, <2>1
  <2>4. PICK k \in Nat : k = c - 1 /\ k + 1 = c /\ k + 2 <= n /\ k <= n /\ k + 2 = c + 1
    BY <2>2
  <2>5. \A j \in 1 .. k : q[j] \in Token
    <3>1. \A j \in 1 .. k : j \in 1 .. n
      BY <2>4
    <3> QED
      BY <1>2, <3>1, ElementOfSeq
  <2>6. /\ SubSeq(q, 1, k) \in Seq(Token)
        /\ Len(SubSeq(q, 1, k)) = IF 1 <= k THEN k - 1 + 1 ELSE 0
        /\ \A j \in 1 .. k - 1 + 1 : SubSeq(q, 1, k)[j] = q[1 + j - 1]
    BY <2>5, SubSeqProperties
  <2>7. Len(SubSeq(q, 1, k)) = k
    <3>1. (IF 1 <= k THEN k - 1 + 1 ELSE 0) = k
      BY <2>4
    <3> QED
      BY <2>6, <3>1
  <2>8. \A j \in 1 .. k : SubSeq(q, 1, k)[j] = q[j]
    <3>1. k - 1 + 1 = k /\ \A j \in 1 .. k : 1 + j - 1 = j
      BY <2>4
    <3> QED
      BY <2>6, <3>1
  <2>9. q[k + 2] = Dash
    <3>1. q[c + 1] = Dash
      BY <2>2 DEF Delimiter
    <3> QED
      BY <2>4, <3>1
  <2> QED
    BY <1>2, <2>3, <2>4, <2>6, <2>7, <2>8, <2>9
<1> HIDE DEF first
<1> QED
  BY <1>3, <1>4

(* One token at most is not the file's. *)
LEMMA ArrivingIs ==
  ASSUME TypeOK, NEW f \in Files, f = file,
         NEW n \in Nat, sent + n <= Len(Body[f]), NEW q \in Arriving(sent, n),
         \A k \in 1 .. n : InAddress(f, sent + k) \/ IsLength(f, sent + k) =>
                             q[k] = Body[f][sent + k]
  PROVE  /\ q \in Seq(Token) /\ Len(q) = n
         /\ \E k \in 0 .. n :
              /\ \A j \in 1 .. n : j # k => q[j] = Body[f][sent + j]
              /\ q = SubSeq(Body[f], sent + 1, sent + n) => k = 0
              /\ k > 0 => /\ sound /\ "damage" \in Faults
                          /\ ~IsLength(f, sent + k) /\ ~InAddress(f, sent + k)
                          /\ q[k] \in {Erased, NL, Other}
<1>1. PICK a, b \in Nat : a = sent /\ b = Len(Body[f]) /\ a + n <= b
  <2>1. sent \in Nat /\ Len(Body[f]) \in Nat
    BY BodyIs DEF TypeOK
  <2> QED
    BY <2>1
<1>2. PICK t : t = SubSeq(Body[f], sent + 1, sent + n)
  OBVIOUS
<1>3. t \in Seq(Token) /\ Len(t) = n /\ \A j \in 1 .. n : t[j] = Body[f][sent + j]
  <2>1. \A j \in a + 1 .. a + n : j \in 1 .. b
    BY <1>1
  <2>2. \A j \in a + 1 .. a + n : Body[f][j] \in Token
    BY <1>1, <2>1, BodyIs
  <2>3. /\ SubSeq(Body[f], a + 1, a + n) \in Seq(Token)
        /\ Len(SubSeq(Body[f], a + 1, a + n))
             = IF a + 1 <= a + n THEN a + n - (a + 1) + 1 ELSE 0
        /\ \A j \in 1 .. a + n - (a + 1) + 1 :
             SubSeq(Body[f], a + 1, a + n)[j] = Body[f][a + 1 + j - 1]
    BY <2>2, SubSeqProperties
  <2>4. /\ (IF a + 1 <= a + n THEN a + n - (a + 1) + 1 ELSE 0) = n
        /\ a + n - (a + 1) + 1 = n
    BY <1>1
  <2>5. \A j \in 1 .. n : a + 1 + j - 1 = a + j
    BY <1>1
  <2>6. t = SubSeq(Body[f], a + 1, a + n)
    BY <1>1, <1>2
  <2>7. t \in Seq(Token) /\ Len(t) = n /\ \A j \in 1 .. n : t[j] = Body[f][a + j]
    BY <2>3, <2>4, <2>5, <2>6
  <2> QED
    BY <1>1, <2>7
<1>4. CASE q = t
  <2>1. 0 \in 0 .. n /\ ~(0 > 0)
    OBVIOUS
  <2> QED
    BY <1>2, <1>3, <1>4, <2>1
<1>5. CASE q # t
  <2>1. PICK k \in 1 .. n, u \in {Erased, NL, Other} :
          q = [t EXCEPT ![k] = u] /\ sound /\ "damage" \in Faults
    <3>1. PICK D : D = IF "damage" \in Faults /\ sound /\ regular THEN 1 .. n ELSE {}
      OBVIOUS
    <3>2. PICK v : v = SubSeq(Body[file], sent + 1, sent + n)
      OBVIOUS
    <3>3. q \in {v} \cup {[v EXCEPT ![k] = u] : k \in D, u \in {Erased, NL, Other}}
      BY <3>1, <3>2 DEF Arriving
    <3>4. v = t
      BY <1>2, <3>2
    <3>5. PICK k \in D, u \in {Erased, NL, Other} : q = [t EXCEPT ![k] = u]
      BY <1>5, <3>3, <3>4
    <3>6. k \in 1 .. n /\ sound /\ "damage" \in Faults
      BY <3>1, <3>5
    <3> QED
      BY <3>5, <3>6
  <2>2. q # t => u # t[k]
    <3>1. k \in 1 .. Len(t) /\ t \in Seq(Token)
      BY <1>3, <2>1
    <3>2. u = t[k] => [t EXCEPT ![k] = u] = t
      BY <3>1
    <3> QED
      BY <2>1, <3>2
  <2>3. u \in Token
    BY ByteFacts, Sizes
  <2>4. q = [t EXCEPT ![k] = u] /\ k \in 1 .. Len(t)
    BY <1>3, <2>1
  <2>5. q \in Seq(Token) /\ Len(q) = n /\ q[k] = u /\ \A j \in 1 .. n : j # k => q[j] = t[j]
    BY <1>3, <2>3, <2>4, ExceptSeq
  <2>6. /\ "damage" \in Faults /\ ~IsLength(f, sent + k) /\ ~InAddress(f, sent + k) /\ sound
    BY <1>3, <1>5, <2>1, <2>2, <2>5
  <2>7. k \in 0 .. n
    OBVIOUS
  <2>8. \A j \in 1 .. n : j # k => q[j] = Body[f][sent + j]
    BY <1>3, <2>5
  <2> QED
    BY <1>2, <1>5, <2>1, <2>5, <2>6, <2>7, <2>8
<1> QED
  BY <1>4, <1>5

(* What a line is does not depend on the tokens that come after. *)
LEMMA LineStays ==
  ASSUME NEW f, NEW d, NEW e, NEW s, AtLine(f, d, s), ~(0 < d) \/ e = d,
         UNCHANGED <<image, srec_ok>>, sound' => sound
  PROVE  AtLine(f, e, s)'
<1>1. CASE AtRecord(f, s)
  BY <1>1 DEF AtLine, AtRecord, Before, Stored, image
<1>2. CASE AtEnd(f, d, s)
  BY <1>2 DEF AtLine, AtEnd, Before, Stored, image
<1>3. CASE AtRest(f, d, s)
  BY <1>3 DEF AtLine, AtRest
<1>4. CASE AtTail(f, s)
  BY <1>4 DEF AtLine, AtTail, Ended, Whole, image
<1> QED
  BY <1>1, <1>2, <1>3, <1>4 DEF AtLine

LEMMA SegmentGoes ==
  ASSUME TypeOK, NEW f \in Files, f = file, ~Busy, regular',
         NEW R \in Seq(Token), NEW d \in Nat, NEW m \in Nat, NEW s \in Nat,
         Doing(f, R, d, m, s), NEW n \in SegmentSizes, Segment(n)
  PROVE  Goes(f)'
<1>1. /\ WellFormed(f) /\ Received(f, R, d, m) /\ InLine(R, s) /\ (sound => d = 0)
      /\ AtLine(f, d, s) /\ status # "failed" /\ pc = "read" /\ chunk = << >>
  BY DEF Doing, Follows, Busy
<1>2. PICK q \in Arriving(sent, n) :
        /\ sound' = (sound /\ q = SubSeq(Body[f], sent + 1, sent + n))
        /\ chunk' = Content(q)
        /\ \A k \in 1 .. n : InAddress(f, sent + k) \/ IsLength(f, sent + k) =>
                               q[k] = Body[f][sent + k]
  BY <1>1 DEF Segment
<1>3. /\ sent + n <= Len(Body[f]) /\ sent' = sent + n
      /\ UNCHANGED <<current_line, current_line_index, status, image, srec_ok, pc>>
  BY DEF Segment, parser
<1>4. n \in Nat /\ n > 0
  BY SizeAssumption
<1>5. /\ q \in Seq(Token) /\ Len(q) = n
      /\ \E w \in 0 .. n :
           /\ \A j \in 1 .. n : j # w => q[j] = Body[f][sent + j]
           /\ q = SubSeq(Body[f], sent + 1, sent + n) => w = 0
           /\ w > 0 => /\ sound /\ "damage" \in Faults
                       /\ ~IsLength(f, sent + w) /\ ~InAddress(f, sent + w)
                       /\ q[w] \in {Erased, NL, Other}
  BY <1>2, <1>3, <1>4, ArrivingIs
<1>6. PICK w \in Nat :
        /\ w <= n /\ \A j \in 1 .. n : j # w => q[j] = Body[f][sent + j]
        /\ q = SubSeq(Body[f], sent + 1, sent + n) => w = 0
        /\ w > 0 => /\ sound /\ "damage" \in Faults
                    /\ ~IsLength(f, sent + w) /\ ~InAddress(f, sent + w)
                    /\ q[w] \in {Erased, NL, Other}
  <2>1. 0 .. n \subseteq Nat /\ \A w \in 0 .. n : w <= n
    BY <1>4
  <2> QED
    BY <1>5, <2>1
<1>7. PICK c \in Nat :
        /\ chunk' \in Seq(Token) /\ Len(chunk') = c /\ c <= n
        /\ \A j \in 1 .. c : chunk'[j] = q[j]
        /\ c = n \/ (c + 2 <= n /\ q[c + 2] = Dash)
  BY <1>2, <1>5, ContentIs
<1>8. PICK r, a, b \in Nat : r = Len(R) /\ a = sent /\ b = Len(Body[f])
  BY LenProperties, BodyIs DEF TypeOK
<1>9. PICK T \in Seq(Token) :
        /\ Len(T) = r + c
        /\ \A k \in 1 .. r : T[k] = R[k]
        /\ \A j \in 1 .. c : T[r + j] = q[j] /\ T[r + j] = chunk'[j]
  <2>1. PICK T : T = R \o chunk'
    OBVIOUS
  <2>2. /\ T \in Seq(Token) /\ Len(T) = Len(R) + Len(chunk')
        /\ \A k \in 1 .. Len(R) + Len(chunk') :
             T[k] = IF k <= Len(R) THEN R[k] ELSE chunk'[k - Len(R)]
    BY <1>7, <2>1, ConcatProperties
  <2>3. /\ Len(T) = r + c
        /\ \A k \in 1 .. r + c : T[k] = IF k <= r THEN R[k] ELSE chunk'[k - r]
    BY <1>7, <1>8, <2>2
  <2>4. \A k \in 1 .. r : T[k] = R[k]
    <3>1. \A k \in 1 .. r : k \in 1 .. r + c /\ k <= r
      OBVIOUS
    <3> QED
      BY <2>3, <3>1
  <2>5. \A j \in 1 .. c : T[r + j] = chunk'[j]
    <3>1. \A j \in 1 .. c : r + j \in 1 .. r + c /\ ~(r + j <= r) /\ r + j - r = j
      OBVIOUS
    <3> QED
      BY <2>3, <3>1
  <2>6. \A j \in 1 .. c : T[r + j] = q[j]
    BY <1>7, <2>5
  <2>7. T \in Seq(Token) /\ Len(T) = r + c
    BY <2>2, <2>3
  <2> QED
    BY <2>4, <2>5, <2>6, <2>7
<1>10. InLine(T, s)'
  <2>1. PICK z \in Nat : z = current_line_index
    BY DEF TypeOK
  <2>2. s > 0 /\ s + z = r + 1
    <3>1. Len(chunk) = 0
      BY <1>1, EmptySeq
    <3>2. s > 0 /\ s + z + 0 = r + 1
      BY <1>1, <1>8, <2>1, <3>1 DEF InLine
    <3> QED
      BY <3>2
  <2>3. s + z + c = r + c + 1 /\ \A k \in 1 .. c : r + c - c + k = r + k
    BY <2>2
  <2>4. \A k \in 1 .. c : chunk'[k] = T[r + c - c + k]
    BY <1>9, <2>3
  <2>5. ASSUME NEW k \in 0 .. z - 1
        PROVE  T[s + k] # NL /\ (k < LineSize => current_line[k] = T[s + k])
    <3>1. R[s + k] # NL /\ (k < LineSize => current_line[k] = R[s + k])
      BY <1>1, <2>1 DEF InLine
    <3>2. s + k \in 1 .. r
      BY <2>2
    <3> QED
      BY <1>9, <3>1, <3>2
  <2>6. pc' = "read" /\ current_line_index' = z /\ current_line' = current_line
    BY <1>1, <1>3, <2>1
  <2>7. s + current_line_index' + Len(chunk') = Len(T) + (IF pc' = "read" THEN 1 ELSE 0)
    BY <1>7, <1>9, <2>3, <2>6
  <2>8. \A k \in 1 .. Len(chunk') : chunk'[k] = T[Len(T) - Len(chunk') + k]
    BY <1>7, <1>9, <2>4
  <2> QED
    BY <2>2, <2>5, <2>6, <2>7, <2>8 DEF InLine
<1>11. /\ m <= r /\ m <= a /\ a <= b /\ d <= m
       /\ \A k \in 1 .. m : k # d => R[k] = Body[f][k]
       /\ d > 0 => Damage(f, R, d)
       /\ \A k \in m + 1 .. r : R[k] \notin {S0, S3, S7}
       /\ (m = r /\ m = a) \/ \A l \in Starts(f) : LineEnd(f, l) <= m
  BY <1>1, <1>8 DEF Received
<1>12. sent' = a + n /\ a + n <= b
  BY <1>3, <1>8
<1>13. d > 0 => Damage(f, T, d)
  <2>1. d > 0 => d \in 1 .. r
    BY <1>11
  <2>2. d > 0 => T[d] = R[d]
    BY <1>9, <2>1
  <2> QED
    BY <1>11, <2>2 DEF Damage
<1>14. n \in Nat /\ c <= n /\ w <= n
  BY <1>4, <1>6, <1>7
<1>15. m <= r /\ m <= a /\ a <= b /\ d <= m /\ a + n <= b
  BY <1>11, <1>12
<1>16. ASSUME NEW x \in Nat, NEW y \in Nat, Received(f, T, x, y)', ~(0 < d) \/ x = d,
              sound' => x = 0
       PROVE  Goes(f)'
  <2>1. AtLine(f, x, s)'
    BY <1>1, <1>2, <1>3, <1>16, LineStays
  <2>2. Follows(f, T, x, y, s)'
    BY <1>1, <1>3, <1>10, <1>16, <2>1 DEF Follows
  <2> QED
    BY <1>1, <1>3, <2>2 DEF Goes, Uploading
<1>17. CASE m = r /\ m = a
  <2>1. PICK x \in Nat :
          \/ x = d /\ ~(w > 0 /\ w <= c /\ q[w] # Body[f][a + w])
          \/ x = a + w /\ w > 0 /\ w <= c /\ q[w] # Body[f][a + w]
    <3>1. CASE w > 0 /\ w <= c /\ q[w] # Body[f][a + w]
      <4>1. PICK x \in Nat : x = a + w
        OBVIOUS
      <4> QED
        BY <3>1, <4>1
    <3>2. CASE ~(w > 0 /\ w <= c /\ q[w] # Body[f][a + w])
      BY <3>2
    <3> QED
      BY <3>1, <3>2
  <2>2. w > 0 => d = 0
    BY <1>1, <1>6
  <2>3. x <= r + c /\ r + c <= a + n
    <3>1. x = d \/ (x = a + w /\ w <= c)
      BY <2>1
    <3> QED
      BY <1>17, <1>14, <1>15, <3>1
  <2>4. ASSUME NEW k \in 1 .. r + c, k # x PROVE T[k] = Body[f][k]
    <3>1. CASE k <= r
      <4>1. k \in 1 .. r /\ k \in 1 .. m
        BY <1>17, <3>1
      <4>2. k # d
        <5>1. x = a + w /\ w > 0 => d = 0
          BY <2>2
        <5> QED
          BY <2>1, <2>4, <5>1
      <4> QED
        BY <1>9, <1>11, <4>1, <4>2
    <3>2. CASE ~(k <= r)
      <4>1. PICK j \in 1 .. c : k = r + j
        <5>1. k - r \in 1 .. c /\ k = r + (k - r)
          BY <3>2
        <5> QED
          BY <5>1
      <4>2. T[k] = q[j]
        BY <1>9, <4>1
      <4>3. j \in 1 .. n /\ k = a + j
        <5>1. r = a
          BY <1>17
        <5>2. j \in 1 .. n
          BY <1>14, <4>1
        <5> QED
          BY <4>1, <5>1, <5>2
      <4>4. j # w => q[j] = Body[f][a + j]
        BY <1>6, <1>8, <4>3
      <4>5. j = w => q[w] = Body[f][a + w]
        <5>1. j = w => w > 0 /\ w <= c /\ x # a + w
          BY <2>4, <4>3
        <5> QED
          BY <2>1, <5>1
      <4> QED
        BY <4>2, <4>3, <4>4, <4>5
    <3> QED
      BY <3>1, <3>2
  <2>5. x > 0 => Damage(f, T, x)
    <3>1. CASE x = d
      BY <1>13, <3>1
    <3>2. CASE x = a + w /\ w > 0 /\ w <= c /\ q[w] # Body[f][a + w]
      <4>1. w \in 1 .. c /\ r + w = x
        BY <1>17, <3>2
      <4>2. T[x] = q[w]
        BY <1>9, <4>1
      <4>3. /\ "damage" \in Faults /\ ~IsLength(f, x) /\ ~InAddress(f, x)
            /\ q[w] \in {Erased, NL, Other}
        BY <1>6, <1>8, <3>2
      <4> QED
        BY <3>2, <4>2, <4>3 DEF Damage
    <3> QED
      BY <2>1, <3>1, <3>2
  <2>6. r + c = a + n \/ \A l \in Starts(f) : LineEnd(f, l) <= r + c
    <3>1. CASE c = n
      BY <1>17, <3>1
    <3>2. CASE c + 2 <= n /\ q[c + 2] = Dash
      <4>1. c + 2 # w
        <5>1. c + 2 = w => q[c + 2] \in {Erased, NL, Other}
          BY <1>6
        <5> QED
          BY <3>2, <5>1, Sizes
      <4>2. c + 2 \in 1 .. n /\ a + (c + 2) \in 1 .. b
        <5>1. c + 2 <= n
          BY <3>2
        <5> QED
          BY <1>14, <1>15, <5>1
      <4>3. Body[f][a + (c + 2)] = Dash
        BY <1>6, <1>8, <3>2, <4>1, <4>2
      <4>4. a + (c + 2) \in DOMAIN Body[f]
        BY <1>8, <4>2, BodyIs
      <4>5. \A l \in Starts(f) : a + (c + 2) > LineEnd(f, l) + 1
        BY <1>1, <4>3, <4>4 DEF WellFormed
      <4>6. \A l \in Starts(f) : LineEnd(f, l) \in Nat
        BY <1>1, LineIs
      <4>7. \A e \in Nat : a + (c + 2) > e + 1 => e <= r + c
        BY <1>17
      <4> QED
        BY <4>5, <4>6, <4>7
    <3> QED
      BY <1>7, <3>1, <3>2
  <2>7. ~\E k : k \in r + c + 1 .. r + c
    OBVIOUS
  <2>8. r + c <= r + c
    OBVIOUS
  <2>9. Received(f, T, x, r + c)'
    BY <1>8, <1>9, <1>12, <2>3, <2>4, <2>5, <2>6, <2>7, <2>8 DEF Received
  <2>10. ~(0 < d) \/ x = d
    BY <2>1, <2>2
  <2>11. sound' => x = 0
    <3>1. sound' => w = 0 /\ d = 0
      BY <1>1, <1>2, <1>6
    <3> QED
      BY <2>1, <3>1
  <2>12. r + c \in Nat
    OBVIOUS
  <2> QED
    BY <1>16, <2>9, <2>10, <2>11, <2>12
<1>18. CASE ~(m = r /\ m = a)
  <2>1. \A l \in Starts(f) : LineEnd(f, l) <= m
    BY <1>11, <1>18
  <2>2. m <= r + c /\ m <= a + n
    BY <1>14, <1>15
  <2>3. \A k \in 1 .. m : k # d => T[k] = Body[f][k]
    <3>1. \A k \in 1 .. m : k \in 1 .. r
      BY <1>11
    <3> QED
      BY <1>9, <1>11, <3>1
  <2>4. ASSUME NEW k \in m + 1 .. r + c PROVE T[k] \notin {S0, S3, S7}
    <3>1. CASE k <= r
      <4>1. k \in 1 .. r /\ k \in m + 1 .. r
        BY <3>1
      <4> QED
        BY <1>9, <1>11, <4>1
    <3>2. CASE ~(k <= r)
      <4>1. PICK j \in 1 .. c : k = r + j
        <5>1. k - r \in 1 .. c /\ k = r + (k - r)
          BY <3>2
        <5> QED
          BY <5>1
      <4>2. T[k] = q[j]
        BY <1>9, <4>1
      <4>3. j \in 1 .. n /\ a + j \in 1 .. b /\ a + j > m
        <5>1. n \in Nat /\ c <= n /\ m <= a /\ a + n <= b
          BY <1>14, <1>15
        <5> QED
          BY <4>1, <5>1
      <4>4. CASE j = w
        <5>1. q[j] \in {Erased, NL, Other}
          BY <1>6, <4>3, <4>4
        <5> QED
          BY <4>2, <5>1, Sizes
      <4>5. CASE j # w
        <5>1. q[j] = Body[f][a + j]
          BY <1>6, <1>8, <4>3, <4>5
        <5>2. a + j \notin Starts(f)
          <6> SUFFICES ASSUME a + j \in Starts(f) PROVE FALSE
            OBVIOUS
          <6>1. PICK e, l \in Nat : l = a + j /\ e = LineEnd(f, a + j) /\ l < e
            BY <1>1, LineBounds
          <6>2. e <= m
            BY <2>1, <6>1
          <6>3. l > m
            BY <4>3, <6>1
          <6> QED
            BY <6>1, <6>2, <6>3
        <5>3. a + j \in DOMAIN Body[f]
          BY <1>8, <4>3, BodyIs
        <5> QED
          BY <4>2, <5>1, <5>2, <5>3 DEF Starts
      <4> QED
        BY <4>4, <4>5
    <3> QED
      BY <3>1, <3>2
  <2>5. Received(f, T, d, m)'
    BY <1>8, <1>9, <1>11, <1>12, <1>13, <2>1, <2>2, <2>3, <2>4 DEF Received
  <2>6. sound' => d = 0
    BY <1>1, <1>2
  <2> QED
    BY <1>16, <2>5, <2>6
<1> QED
  BY <1>17, <1>18

-----------------------------------------------------------------------------
(* The whole upload. *)

(* Files are as avr32-objcopy writes them, and if anything is damaged on   *)
(* its way, no line leaves room in current_line for a data record.         *)
FilesAssumption ==
  \A f \in Files : WellFormed(f) /\ ("damage" \in Faults => TooLongTogether(f))

LEMMA AllWellFormed ==
  ASSUME FilesAssumption, NEW f \in Files
  PROVE  WellFormed(f)
BY DEF FilesAssumption

LEMMA NoneIsNoFile ==
  None \notin Files
BY FileAssumption

LEMMA StartUploads ==
  ASSUME NEW f \in Files, WellFormed(f), UploadStart(f), regular'
  PROVE  Goes(f)'
<1>1. /\ pc' = "read" /\ chunk' = << >> /\ current_line_index' = 0 /\ sent' = 0
      /\ status' = "idle" /\ address' = 0 /\ index' = 0 /\ srec_ok' = FALSE
  BY DEF UploadStart, Busy, assembly, parser
<1>2. << >> \in Seq(Token) /\ Len(<< >>) = 0
  BY EmptySeq
<1>3. PICK b, n \in Nat : b = Len(Body[f]) /\ n = Len(Bytes[f])
  BY BodyIs, BytesAre
<1>4. Received(f, << >>, 0, 0)'
  <2>1. 0 <= b /\ ~\E k : k \in 1 .. 0
    OBVIOUS
  <2>2. ~\E k : k \in 0 + 1 .. 0
    OBVIOUS
  <2> QED
    BY <1>1, <1>2, <1>3, <2>1, <2>2 DEF Received
<1>5. InLine(<< >>, 1)'
  <2>1. (~\E k : k \in 1 .. 0) /\ (~\E c : c \in 0 .. 0 - 1) /\ 1 + 0 + 0 = 0 + 1 /\ 1 > 0
    OBVIOUS
  <2> QED
    BY <1>1, <1>2, <2>1 DEF InLine
<1>6. AtLine(f, 0, 1)'
  <2>1. 1 \in Starts(f)
    BY DEF WellFormed
  <2>2. Stored(f)'
    <3>1. (~\E k : k \in 0 .. 0 - 1) /\ 0 + 0 <= n
      OBVIOUS
    <3> QED
      BY <1>1, <1>3, <3>1 DEF Stored
  <2>3. Described(f, 1, address' + index')
    <3>1. 0 + 0 = 0
      OBVIOUS
    <3> QED
      BY <1>1, <3>1, DescribedFirst
  <2> QED
    BY <1>1, <2>1, <2>2, <2>3 DEF AtLine, AtRecord, Before
<1>7. Follows(f, << >>, 0, 0, 1)'
  BY <1>1, <1>4, <1>5, <1>6 DEF Follows
<1> QED
  BY <1>1, <1>2, <1>7 DEF Goes, Uploading

(* Between two segments: what finish finds. *)
LEMMA AtFinish ==
  ASSUME TypeOK, NEW f \in Files, WellFormed(f), Goes(f), ~Busy
  PROVE  /\ srec_ok => Whole(f)
         /\ sound /\ sent = Len(Body[f]) => srec_ok
<1>1. CASE status = "failed"
  BY <1>1 DEF Goes, Ended
<1>2. CASE status # "failed"
  <2>1. PICK R \in Seq(Token), d \in Nat, m \in Nat, s \in Nat : Follows(f, R, d, m, s)
    BY <1>2 DEF Goes, Uploading
  <2>2. /\ Received(f, R, d, m) /\ InLine(R, s) /\ (sound => d = 0) /\ AtLine(f, d, s)
        /\ pc = "read" /\ chunk = << >>
    BY <2>1 DEF Follows, Busy
  <2>3. srec_ok => Whole(f)
    BY <2>2 DEF AtLine, AtRecord, AtEnd, AtRest, AtTail, Before, Ended
  <2>4. ASSUME sound, sent = Len(Body[f]) PROVE srec_ok
    <3>1. CASE AtRecord(f, s)
      <4>1. s \in Starts(f)
        BY <3>1 DEF AtRecord
      <4>2. PICK e, r, c, b \in Nat : /\ e = LineEnd(f, s) /\ r = Len(R) /\ b = Len(Body[f])
                                      /\ c = current_line_index
                                      /\ s < e /\ e <= b /\ Body[f][e] = NL
        <5>1. Len(R) \in Nat /\ current_line_index \in Nat /\ Len(Body[f]) \in Nat
          BY LenProperties, BodyIs DEF TypeOK
        <5>2. LineEnd(f, s) \in Nat /\ s < LineEnd(f, s)
          BY <4>1, LineBounds
        <5>3. LineEnd(f, s) <= Len(Body[f]) /\ Body[f][LineEnd(f, s)] = NL
          BY <4>1, LineIs
        <5> QED
          BY <5>1, <5>2, <5>3
      <4>3. e <= r
        <5>1. m <= r /\ ((m = r /\ m = b) \/ e <= m)
          BY <2>2, <2>4, <4>1, <4>2 DEF Received
        <5>2. e <= b
          BY <4>2
        <5> QED
          BY <5>1, <5>2
      <4>4. s + c = r + 1
        <5>1. Len(chunk) = 0
          BY <2>2, EmptySeq
        <5>2. s + c + 0 = r + 1
          BY <2>2, <4>2, <5>1 DEF InLine
        <5> QED
          BY <5>2
      <4>5. e - s \in 0 .. c - 1 /\ s + (e - s) = e
        <5>1. s < e
          BY <4>2
        <5> QED
          BY <4>3, <4>4, <5>1
      <4>6. R[e] # NL
        BY <2>2, <4>2, <4>5 DEF InLine
      <4>7. e <= LineEnd(f, s) /\ e <= Len(R) /\ e > 0 /\ e # d
        <5>1. s < e /\ e <= e /\ e > 0
          BY <4>2, <4>5
        <5> QED
          BY <2>2, <2>4, <4>2, <4>3, <5>1
      <4>8. R[e] = Body[f][e]
        BY <2>2, <4>1, <4>7, LineKnown DEF TypeOK
      <4> QED
        BY <4>2, <4>6, <4>8
    <3>2. CASE AtEnd(f, d, s) \/ AtRest(f, d, s)
      <4>1. 0 < d
        BY <3>2 DEF AtEnd, AtRest
      <4> QED
        BY <2>2, <2>4, <4>1
    <3>3. CASE AtTail(f, s)
      BY <2>4, <3>3 DEF AtTail, Ended
    <3> QED
      BY <2>2, <3>1, <3>2, <3>3 DEF AtLine
  <2> QED
    BY <2>3, <2>4
<1> QED
  BY <1>1, <1>2

(* do_work and the parser keep to the file. *)
LEMMA WorkGoes ==
  ASSUME FilesAssumption, TypeOK, TypeOK', NEW f \in Files, Goes(f), DoWork \/ Parse
  PROVE  Goes(f)' /\ UNCHANGED client /\ (status' = status \/ status' = "failed")
<1>1. Busy
  BY DEF DoWork, Parse, Overflow, StoreToken, EndLine, Reading, NoRecord, Header, DataRefused,
         DataBegin, ScanByte, DataEnd, TerminationBegin, TerminationEnd, Parsing, Busy
<1>2. status # "failed"
  BY <1>1 DEF Goes
<1>3. PICK R \in Seq(Token), d \in Nat, m \in Nat, s \in Nat : Doing(f, R, d, m, s)
  BY <1>2 DEF Goes, Uploading, Doing, FilesAssumption
<1>4. CASE DoWork
  <2>1. Goes(f)'
    BY <1>3, <1>4, OverflowGoes, StoreTokenGoes, EndLineGoes DEF DoWork
  <2>2. UNCHANGED client /\ (status' = status \/ status' = "failed")
    BY <1>4 DEF DoWork, Overflow, StoreToken, EndLine, Fail
  <2> QED
    BY <2>1, <2>2
<1>5. CASE Parse
  <2>1. CASE NoRecord
    BY <1>3, <2>1, NoRecordGoes DEF NoRecord, Refused, Fail
  <2>2. CASE Header
    BY <1>3, <2>2, HeaderGoes DEF Header, Accepted, Refused, Fail
  <2>3. CASE DataRefused
    BY <1>3, <2>3, DataRefusedGoes DEF DataRefused, Accepted, Refused, Fail
  <2>4. CASE DataBegin
    BY <1>3, <2>4, DataBeginGoes DEF DataBegin
  <2>5. CASE ScanByte
    BY <1>3, <2>5, ScanDataGoes, ScanTerminationGoes DEF ScanByte
  <2>6. CASE DataEnd
    BY <1>3, <2>6, DataEndGoes DEF DataEnd, Accepted, Refused, Fail
  <2>7. CASE TerminationBegin
    BY <1>3, <2>7, TerminationBeginGoes DEF TerminationBegin
  <2>8. CASE TerminationEnd
    BY <1>3, <2>8, TerminationEndGoes DEF TerminationEnd, Accepted, Refused, Fail
  <2> QED
    BY <1>5, <2>1, <2>2, <2>3, <2>4, <2>5, <2>6, <2>7, <2>8 DEF Parse
<1> QED
  BY <1>4, <1>5

LEMMA UInvStep ==
  ASSUME FilesAssumption, UInv, Next
  PROVE  UInv'
<1>1. TypeOK /\ TypeOK'
  BY ClientType, DoWorkType, ParseType DEF UInv, Next
<1>2. /\ file = None => ~Busy
      /\ file # None => last = file /\ status # "successful_rebooting" /\ file \in Files
      /\ regular => \A f \in Files : file = f => Goes(f)
      /\ regular /\ status = "successful_rebooting" => Whole(last)
  BY <1>1 DEF UInv, TypeOK
<1>3. \A f \in Files : WellFormed(f) /\ f # None
  BY AllWellFormed, NoneIsNoFile, Zenon
<1>4. ASSUME /\ file' = None => ~Busy'
             /\ file' # None => last' = file' /\ status' # "successful_rebooting"
             /\ regular' => \A f \in Files : file' = f => Goes(f)'
             /\ regular' /\ status' = "successful_rebooting" => Whole(last)'
      PROVE  UInv'
  BY <1>1, <1>4 DEF UInv
<1>5. ASSUME NEW f \in Files, UploadStart(f) PROVE UInv'
  <2>1. file' = f /\ last' = f /\ status' = "idle" /\ f # None
    BY <1>5, FileAssumption DEF UploadStart
  <2>2. regular' => Goes(f)'
    BY <1>3, <1>5, StartUploads
  <2> QED
    BY <1>4, <2>1, <2>2
<1>6. ASSUME NEW n \in SegmentSizes, Segment(n) PROVE UInv'
  <2>1. /\ file # None /\ file' = file /\ last' = last /\ status' = status
        /\ (regular' => regular) /\ ~Busy /\ file \in Files
    BY <1>2, <1>6 DEF Segment
  <2>2. ASSUME regular', NEW f \in Files, file = f PROVE Goes(f)'
    <3>1. CASE status = "failed"
      <4>1. Ended(f) /\ pc' = "read" /\ chunk' = << >> /\ status' = "failed"
        BY <1>2, <1>6, <2>1, <2>2, <3>1 DEF Goes, Segment, Busy, parser
      <4>2. UNCHANGED <<image, srec_ok>> /\ (sound' => sound)
        BY <1>6 DEF Segment
      <4>3. Ended(f)'
        BY <4>1, <4>2 DEF Ended, Whole, image
      <4> QED
        BY <4>1, <4>3 DEF Goes, Busy
    <3>2. CASE status # "failed"
      <4>1. PICK R \in Seq(Token), d \in Nat, m \in Nat, s \in Nat : Doing(f, R, d, m, s)
        BY <1>2, <2>1, <2>2, <3>2 DEF Goes, Uploading, Doing, FilesAssumption
      <4> QED
        BY <1>1, <1>6, <2>1, <2>2, <4>1, SegmentGoes
    <3> QED
      BY <3>1, <3>2
  <2> QED
    BY <1>2, <1>4, <2>1, <2>2
<1>7. CASE UploadFinish
  <2>1. /\ file # None /\ file' = None /\ UNCHANGED <<last, regular, chunk, pc>> /\ ~Busy
        /\ status' = IF srec_ok THEN "successful_rebooting" ELSE "failed"
        /\ UNCHANGED <<image, srec_ok>>
    BY <1>7 DEF UploadFinish, assembly, parser
  <2>2. ASSUME regular, srec_ok PROVE Whole(last)
    BY <1>1, <1>2, <1>3, <2>1, <2>2, AtFinish
  <2>3. regular' /\ status' = "successful_rebooting" => Whole(last)'
    BY <2>1, <2>2 DEF Whole, image
  <2>4. ~Busy'
    BY <2>1 DEF Busy
  <2>5. \A f \in Files : file' # f
    BY <1>3, <2>1
  <2> QED
    BY <1>4, <2>1, <2>3, <2>4, <2>5
<1>8. CASE UploadAborted
  <2>1. /\ file # None /\ file' = None /\ UNCHANGED <<status, chunk, pc>> /\ ~Busy
    BY <1>8 DEF UploadAborted, assembly, parser
  <2>2. ~Busy'
    BY <2>1 DEF Busy
  <2>3. \A f \in Files : file' # f
    BY <1>3, <2>1
  <2>4. status' # "successful_rebooting"
    BY <1>2, <2>1
  <2> QED
    BY <1>4, <2>1, <2>2, <2>3, <2>4
<1>9. CASE Restart
  <2>1. file = None /\ pc = "read"
    BY <1>2, <1>9 DEF Restart, Busy
  <2>2. file' = None /\ status' = "idle" /\ chunk' = << >> /\ pc' = "read"
    BY <1>9, <2>1 DEF Restart, parser
  <2>3. ~Busy'
    BY <2>2 DEF Busy
  <2>4. \A f \in Files : file' # f
    BY <1>3, <2>2
  <2> QED
    BY <1>4, <2>2, <2>3, <2>4
<1>10. CASE DoWork \/ Parse
  <2>1. Busy
    BY <1>10 DEF DoWork, Parse, Overflow, StoreToken, EndLine, Reading, NoRecord, Header,
       DataRefused, DataBegin, ScanByte, DataEnd, TerminationBegin, TerminationEnd, Parsing, Busy
  <2>2. file # None /\ file \in Files /\ last = file /\ status # "successful_rebooting"
    BY <1>2, <2>1
  <2>3. UNCHANGED client /\ (status' = status \/ status' = "failed")
    BY <1>10 DEF DoWork, Parse, Overflow, StoreToken, EndLine, NoRecord, Header, DataRefused,
       DataBegin, ScanByte, DataEnd, TerminationBegin, TerminationEnd, Accepted, Refused, Fail
  <2>4. ASSUME regular, NEW f \in Files, file = f PROVE Goes(f)'
    <3>1. Goes(f)
      BY <1>2, <2>4
    <3> QED
      BY <1>1, <1>10, <3>1, WorkGoes
  <2> QED
    BY <1>4, <2>2, <2>3, <2>4 DEF client
<1> QED
  BY <1>5, <1>6, <1>7, <1>8, <1>9, <1>10 DEF Next, Client

LEMMA GoesStutter ==
  ASSUME NEW f, Goes(f), UNCHANGED vars
  PROVE  Goes(f)'
<1>1. UNCHANGED <<sent, sound, chunk, current_line, current_line_index, status, srec_ok,
                  address, index, buffer, newApp, pc, i, sum, byte_count>>
  BY DEF vars, client, assembly, image, parser
<1>2. CASE status = "failed"
  BY <1>1, <1>2 DEF Goes, Busy, Ended, Whole
<1>3. CASE status # "failed"
  <2>1. PICK R \in Seq(Token), d \in Nat, m \in Nat, s \in Nat : Follows(f, R, d, m, s)
    BY <1>3 DEF Goes, Uploading
  <2>2. Received(f, R, d, m)' /\ InLine(R, s)' /\ (sound' => d = 0)
    BY <1>1, <2>1 DEF Follows, Received, InLine
  <2>3. pc' \in {"read", "parse"} => AtLine(f, d, s)'
    <3>1. pc' \in {"read", "parse"} => AtLine(f, d, s)
      BY <1>1, <2>1 DEF Follows
    <3> QED
      BY <1>1, <3>1, LineStays DEF image
  <2>4. Stored(f)' <=> Stored(f)
    BY <1>1 DEF Stored
  <2>5. pc' = "s3" => InData(f, R, d, s)'
    BY <1>1, <2>1, <2>4 DEF Follows, InData, Exact, Astray, Short
  <2>6. pc' = "s7" => InTermination(f, d, s)'
    BY <1>1, <2>1, <2>4 DEF Follows, InTermination, Before
  <2>7. Follows(f, R, d, m, s)'
    BY <2>2, <2>3, <2>5, <2>6 DEF Follows
  <2> QED
    BY <1>1, <1>3, <2>7 DEF Goes, Uploading
<1> QED
  BY <1>2, <1>3

LEMMA UInvHolds ==
  ASSUME FilesAssumption
  PROVE  Spec => []UInv
<1>1. Init => UInv
  <2> SUFFICES ASSUME Init PROVE UInv
    OBVIOUS
  <2>1. TypeOK
    BY InitType
  <2>2. file = None /\ status = "idle" /\ ~Busy
    BY DEF Init, Busy
  <2>3. \A f \in Files : file # f
    BY <2>2, NoneIsNoFile
  <2> QED
    BY <2>1, <2>2, <2>3 DEF UInv
<1>2. UInv /\ [Next]_vars => UInv'
  <2>1. CASE Next
    BY <2>1, UInvStep
  <2>2. CASE UNCHANGED vars
    <3>1. UNCHANGED <<file, last, status, regular>> /\ (Busy <=> Busy')
          /\ (Whole(last)' <=> Whole(last)) /\ (TypeOK' <=> TypeOK)
      BY <2>2 DEF vars, client, assembly, image, parser, Busy, Whole, TypeOK
    <3>2. \A f \in Files : Goes(f) => Goes(f)'
      BY <2>2, GoesStutter
    <3> QED
      BY <3>1, <3>2 DEF UInv
  <2> QED
    BY <2>1, <2>2
<1> QED
  BY <1>1, <1>2, PTL DEF Spec

(* A success is announced for the next start only when the data flash      *)
(* holds all of the image, wherever the segments of the upload were cut,   *)
(* whichever one token was damaged on its way and whenever the connection  *)
(* ended - if the upload was regular: it began with an empty line, and the *)
(* damaged token is no length and no address (do_work and finish,          *)
(* firmware_update.c:322, 372).                                            *)
THEOREM AnnouncedWhole ==
  ASSUME FilesAssumption
  PROVE  Spec => []AnnouncedIsWhole
<1>1. UInv => AnnouncedIsWhole
  BY DEF UInv, AnnouncedIsWhole
<1> QED
  BY <1>1, UInvHolds, PTL

(* A file that arrived as it was sent is announced, wherever its segments  *)
(* were cut, if its upload began with an empty line (firmware_update.c:322,*)
(* 372).                                                                   *)
THEOREM SoundAccepted ==
  ASSUME FilesAssumption
  PROVE  Spec => SoundUploadAccepted
<1>1. UInv /\ [Next]_vars =>
        [UploadFinish /\ sent = Len(Body[last]) /\ sound /\ regular =>
           status' = "successful_rebooting"]_vars
  <2> SUFFICES ASSUME UInv, UploadFinish, sent = Len(Body[last]), sound, regular
               PROVE  status' = "successful_rebooting"
    OBVIOUS
  <2>1. TypeOK /\ file # None /\ ~Busy
    BY DEF UInv, UploadFinish
  <2>2. PICK f \in Files : f = file /\ last = f /\ Goes(f)
    BY <2>1 DEF UInv, TypeOK
  <2>3. srec_ok
    BY <2>1, <2>2, AtFinish DEF FilesAssumption
  <2> QED
    BY <2>3 DEF UploadFinish
<1> QED
  BY <1>1, UInvHolds, PTL DEF Spec, SoundUploadAccepted
=============================================================================
