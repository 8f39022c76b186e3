----------------------------- MODULE MCSrecUpload -----------------------------
(***************************************************************************)
(* A file for SrecUpload: as avr32-objcopy writes it, with a header, a     *)
(* line of the trampoline, a line that is as long as current_line and a    *)
(* gap.                                                                    *)
(***************************************************************************)
EXTENDS SrecUpload, TLC

CONSTANT Plain

MCByteSize == 8
MCStart == 8

Sum8(s) ==
  LET total[k \in 0 .. Len(s)] == IF k = 0 THEN 0 ELSE total[k - 1] + s[k]
  IN total[Len(s)] % 8

Record(type, a, data) ==
  LET bytes == <<Len(data) + 3, a \div 8, a % 8>> \o data
  IN <<type>> \o bytes \o <<7 - Sum8(bytes), NL>>

Boundary == <<NL, Dash, Dash, Other, Dash, NL>>

Records ==
  Record(S0, 0, << >>) \o Record(S3, 0, <<5>>) \o Record(S3, 8, <<1, 2>>)
  \o Record(S3, 11, <<4>>)

MCBody == Plain :> Records \o Record(S7, 8, << >>) \o Boundary
MCBytes == Plain :> <<1, 2, 7, 4>>

ASSUME FileIsWhole == \A f \in Files : WellFormed(f) /\ TooLongTogether(f)
=============================================================================
