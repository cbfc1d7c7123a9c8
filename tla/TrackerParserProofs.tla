------------------------- MODULE TrackerParserProofs -------------------------
(***************************************************************************)
(* Proofs about TrackerParser for every set of files that satisfies        *)
(* FilesAssumption: files of any size with any number of markers.          *)
(***************************************************************************)
EXTENDS TrackerParser, TLAPS

\* The offsets of the modules that lie in the file.
Fitting == {o \in DOMAIN file.modules : Fits(o, file.modules[o])}

Parsing == PcValues \ {"open", "scan", "failed", "undefined", "not_found"}

\* The scan has passed no module that fits, and a module that is parsed is
\* the first one.
ScanInv ==
  /\ file \in Files
  /\ pc = "open" => i = 0
  /\ pc = "scan" => \A o \in Fitting : i <= o
  /\ pc = "not_found" => Fitting = {}
  /\ pc \in Parsing =>
       /\ i \in Fitting
       /\ \A o \in Fitting : i <= o
       /\ len = file.modules[i]

\* The bytes of a target before each of its fields.
FieldOffsets == <<0, 1, 3, 5, 7, 8, 9, 11, 13, 15, 17, 18, 22, 26, 27, 28>>

\* Where the parsers are in the module: the first has read the header, the
\* targets counted and the fields before the next one; the second every byte
\* before its position.
ParseInv ==
  /\ pc \in {"open", "scan", "signature", "length", "reserve"} =>
       targets = 0 /\ field = 1 /\ sum = 0
  /\ pc \in {"open", "scan", "signature"} => pos = 0
  /\ pc = "length" => pos = 2
  /\ pc = "reserve" => pos = HeaderLength
  /\ pc \in {"targets", "sum", "tail", "done"} => len >= HeaderLength + 1
  /\ pc = "targets" =>
       /\ targets <= TargetCount
       /\ targets = TargetCount => field = 1
       /\ pos = HeaderLength + TARGET_INFO_LENGTH * targets
                + FieldOffsets[field]
       /\ sum = 0
  /\ pc \in {"sum", "tail", "done"} => targets = TargetCount /\ field = 1
  /\ pc \in {"sum", "tail"} =>
       pos = HeaderLength + TARGET_INFO_LENGTH * targets
  /\ pc = "sum" => sum <= len - 1 /\ Bytes(i, sum) \subseteq read
  /\ pc \in {"tail", "done"} => sum = len /\ Bytes(i, len) \subseteq read
  /\ pc = "done" => pos = len
  /\ pc = "error" => len < HeaderLength + 1

----------------------------------------------------------------------------
\* The widths of the fields are one, two and four bytes.
LEMMA WidthsAreNat == /\ Len(FieldWidths) = 16
                      /\ \A f \in 1 .. Len(FieldWidths) : FieldWidths[f] \in Nat
  BY DEF FieldWidths

\* What FilesAssumption says of the file of a state.
LEMMA FileFacts ==
  ASSUME file \in Files
  PROVE  /\ file.size \in Int
         /\ \A o \in DOMAIN file.modules :
              /\ o \in Nat
              /\ file.modules[o] \in Nat
              /\ o + HeaderLength <= file.size
  <1>1. file.size \in Int
    BY FilesAssumption
  <1>2. DOMAIN file.modules \subseteq Nat
    BY FilesAssumption
  <1>3. \A o \in DOMAIN file.modules :
          file.modules[o] \in Nat /\ o + HeaderLength <= file.size
    BY FilesAssumption
  <1> QED BY <1>1, <1>2, <1>3

\* Offsets are integers, whatever the arguments.
LEMMA BytesAreInt == \A o, n : Bytes(o, n) \subseteq Int
  BY DEF Bytes

\* The two ways a read by the module's parser ends.
LEMMA ReadEnds ==
  ASSUME NEW n, NEW next, NEW failed, Read(n, next, failed)
  PROVE  \/ /\ Available(pos, n)
            /\ pos' = pos + n /\ read' = read \cup Bytes(i + pos, n)
            /\ pc' = next
         \/ pos' = pos /\ read' = read /\ pc' = failed
  <1>1. CASE Available(pos, n) BY <1>1 DEF Read
  <1>2. CASE ~Available(pos, n) BY <1>2 DEF Read
  <1> QED BY <1>1, <1>2

\* The two ways a read by checksumParser ends.
LEMMA SumEnds ==
  ASSUME NEW p, NEW next, ReadForSum(p, next)
  PROVE  \/ /\ Available(p, 1)
            /\ sum' = p + 1 /\ read' = read \cup {i + p} /\ pc' = next
         \/ sum' = sum /\ read' = read /\ pc' = "error"
  <1>1. CASE Available(p, 1) BY <1>1 DEF ReadForSum
  <1>2. CASE ~Available(p, 1) BY <1>2 DEF ReadForSum
  <1> QED BY <1>1, <1>2

\* The two ways the last read ends.
LEMMA TailEnds ==
  ASSUME ReadTail
  PROVE  \E at \in {pos, len - 1} :
           /\ at = IF pos < len - 1 THEN len - 1 ELSE pos
           /\ \/ /\ Available(at, 1)
                 /\ pos' = at + 1 /\ read' = read \cup {i + at}
                 /\ pc' = "done"
              \/ /\ ~Available(at, 1)
                 /\ pos' = at /\ read' = read /\ pc' = "error"
  <1> DEFINE at == IF pos < len - 1 THEN len - 1 ELSE pos
  <1>1. at \in {pos, len - 1} OBVIOUS
  <1>2. \/ /\ Available(at, 1)
           /\ pos' = at + 1 /\ read' = read \cup {i + at}
           /\ pc' = "done"
        \/ /\ ~Available(at, 1)
           /\ pos' = at /\ read' = read /\ pc' = "error"
    <2>1. CASE Available(at, 1) BY <2>1 DEF ReadTail
    <2>2. CASE ~Available(at, 1) BY <2>2 DEF ReadTail
    <2> QED BY <2>1, <2>2
  <1> QED BY <1>1, <1>2

\* The initial state has its type, and nothing is scanned or read.
LEMMA InitInv == Init => TypeOK /\ ScanInv /\ ParseInv /\ ReadsInside
  <1> SUFFICES ASSUME Init PROVE TypeOK /\ ScanInv /\ ParseInv /\ ReadsInside
    OBVIOUS
  <1>1. TypeOK
    BY WidthsAreNat DEF Init, TypeOK, PcValues, Final
  <1>2. ScanInv
    BY DEF Init, ScanInv, Parsing, PcValues, Final
  <1>3. ReadsInside
    BY DEF Init, ReadsInside
  <1>4. ParseInv
    BY DEF Init, ParseInv
  <1> QED BY <1>1, <1>2, <1>3, <1>4

\* Every step keeps the types.
LEMMA TypeStep == TypeOK /\ ScanInv /\ [Next]_vars => TypeOK'
  <1> SUFFICES ASSUME TypeOK, ScanInv, [Next]_vars PROVE TypeOK'
    OBVIOUS
  <1> USE DEF TypeOK, PcValues, Final
  <1>1. CASE Open BY <1>1 DEF Open
  <1>2. CASE ScanPastEnd BY <1>2 DEF ScanPastEnd
  <1>3. CASE ScanNext BY <1>3 DEF ScanNext, Bytes, HeaderLength
  <1>4. CASE ScanFound
    BY <1>4, FileFacts DEF ScanFound, Bytes, HeaderLength, ScanInv
  <1>5. CASE NotFound BY <1>5 DEF NotFound
  <1>6. CASE ReadSignature
    <2>1. Read(2, "length", "error") BY <1>6 DEF ReadSignature
    <2>2. pc' \in PcValues BY <2>1, ReadEnds
    <2>3. pos' \in Nat BY <2>1, ReadEnds
    <2>4. read' \subseteq Int BY <2>1, ReadEnds, BytesAreInt
    <2> QED BY <1>6, <2>2, <2>3, <2>4 DEF ReadSignature
  <1>7. CASE ReadLength
    <2>1. Read(2, "reserve", "error") BY <1>7 DEF ReadLength
    <2>2. pc' \in PcValues BY <2>1, ReadEnds
    <2>3. pos' \in Nat BY <2>1, ReadEnds
    <2>4. read' \subseteq Int BY <2>1, ReadEnds, BytesAreInt
    <2> QED BY <1>7, <2>2, <2>3, <2>4 DEF ReadLength
  <1>8. CASE Reserve BY <1>8 DEF Reserve
  <1>9. CASE ReadField
    <2>1. FieldWidths[field] \in Nat BY WidthsAreNat
    <2>2. Read(FieldWidths[field], "targets", "sum") BY <1>9 DEF ReadField
    <2>3. field' \in 1 .. Len(FieldWidths) /\ targets' \in Nat
      BY <1>9, WidthsAreNat DEF ReadField
    <2>4. pc' \in PcValues BY <2>2, ReadEnds
    <2>5. pos' \in Nat BY <2>1, <2>2, ReadEnds
    <2>6. read' \subseteq Int BY <2>2, ReadEnds, BytesAreInt
    <2> QED BY <1>9, <2>3, <2>4, <2>5, <2>6 DEF ReadField
  <1>10. CASE TargetsRead BY <1>10 DEF TargetsRead
  <1>11. CASE AddToSum
    <2>1. ReadForSum(sum, "sum") BY <1>11 DEF AddToSum
    <2>2. pc' \in PcValues BY <2>1, SumEnds
    <2>3. sum' \in Nat BY <2>1, SumEnds
    <2>4. i + sum \in Int OBVIOUS
    <2>5. read' \subseteq Int BY ONLY <2>1, <2>4, SumEnds, read \subseteq Int
    <2> QED BY <1>11, <2>2, <2>3, <2>5 DEF AddToSum
  <1>12. CASE ReadChecksum
    <2>1. ReadForSum(len - 1, "tail") BY <1>12 DEF ReadChecksum
    <2>2. pc' \in PcValues BY <2>1, SumEnds
    <2>3. sum' \in Nat BY <2>1, SumEnds
    <2>4. i + (len - 1) \in Int OBVIOUS
    <2>5. read' \subseteq Int BY ONLY <2>1, <2>4, SumEnds, read \subseteq Int
    <2> QED BY <1>12, <2>2, <2>3, <2>5 DEF ReadChecksum
  <1>13. CASE ReadTail
    <2>1. PICK at \in {pos, len - 1} :
            /\ at = IF pos < len - 1 THEN len - 1 ELSE pos
            /\ \/ pos' = at + 1 /\ read' = read \cup {i + at} /\ pc' = "done"
               \/ pos' = at /\ read' = read /\ pc' = "error"
      BY <1>13, TailEnds
    <2>2. at \in Nat BY <2>1
    <2>3. pc' \in PcValues BY <2>1
    <2>4. pos' \in Nat BY <2>1, <2>2
    <2>5. i + at \in Int BY <2>2
    <2>6. read' \subseteq Int BY ONLY <2>1, <2>5, read \subseteq Int
    <2> QED BY <1>13, <2>3, <2>4, <2>6 DEF ReadTail
  <1>14. CASE Exited BY <1>14 DEF Exited, vars
  <1>15. CASE UNCHANGED vars BY <1>15 DEF vars
  <1> QED
    BY <1>1, <1>2, <1>3, <1>4, <1>5, <1>6, <1>7, <1>8, <1>9, <1>10, <1>11,
       <1>12, <1>13, <1>14, <1>15 DEF Next

\* Every step keeps ScanInv: the scan passes only what does not fit, and the
\* parsers leave the module chosen alone.
LEMMA ScanStep == TypeOK /\ ScanInv /\ [Next]_vars => ScanInv'
  <1> SUFFICES ASSUME TypeOK, ScanInv, [Next]_vars PROVE ScanInv'
    OBVIOUS
  <1> USE DEF TypeOK, ScanInv, Parsing, PcValues, Final, Fitting
  <1>1. CASE Open
    <2>1. \A o \in Fitting : 0 <= o BY FileFacts
    <2>2. i = 0 BY <1>1 DEF Open
    <2> QED BY <1>1, <2>1, <2>2 DEF Open, Fits
  <1>2. CASE ScanPastEnd BY <1>2 DEF ScanPastEnd, Fits
  <1>3. CASE ScanNext
    <2>1. i \notin Fitting BY <1>3 DEF ScanNext
    <2>2. \A o \in Fitting : i + 1 <= o BY <1>3, <2>1, FileFacts DEF ScanNext
    <2> QED BY <1>3, <2>2 DEF ScanNext, Fits
  <1>4. CASE ScanFound BY <1>4 DEF ScanFound, Fits
  <1>5. CASE NotFound
    <2>1. \A o \in DOMAIN file.modules : o < i
      BY <1>5, FileFacts DEF NotFound, InScan, HeaderLength
    <2>2. Fitting = {} BY <1>5, <2>1, FileFacts DEF NotFound
    <2> QED BY <1>5, <2>2 DEF NotFound, Fits
  <1>6. CASE pc \in Parsing /\ pc' \in Parsing /\ UNCHANGED <<file, i, len>>
    BY <1>6 DEF Fits
  <1>7. CASE ReadSignature
    <2>1. Read(2, "length", "error") BY <1>7 DEF ReadSignature
    <2> QED BY <1>6, <1>7, <2>1, ReadEnds DEF ReadSignature
  <1>8. CASE ReadLength
    <2>1. Read(2, "reserve", "error") BY <1>8 DEF ReadLength
    <2> QED BY <1>6, <1>8, <2>1, ReadEnds DEF ReadLength
  <1>9. CASE Reserve BY <1>6, <1>9 DEF Reserve
  <1>10. CASE ReadField
    <2>1. Read(FieldWidths[field], "targets", "sum") BY <1>10 DEF ReadField
    <2> QED BY <1>6, <1>10, <2>1, ReadEnds DEF ReadField
  <1>11. CASE TargetsRead BY <1>6, <1>11 DEF TargetsRead
  <1>12. CASE AddToSum
    <2>1. ReadForSum(sum, "sum") BY <1>12 DEF AddToSum
    <2> QED BY <1>6, <1>12, <2>1, SumEnds DEF AddToSum
  <1>13. CASE ReadChecksum
    <2>1. ReadForSum(len - 1, "tail") BY <1>13 DEF ReadChecksum
    <2> QED BY <1>6, <1>13, <2>1, SumEnds DEF ReadChecksum
  <1>14. CASE ReadTail
    <2>1. pc' \in {"done", "error"} BY <1>14, TailEnds
    <2> QED BY <1>6, <1>14, <2>1 DEF ReadTail
  <1>15. CASE Exited BY <1>15 DEF Exited, vars, Fits
  <1>16. CASE UNCHANGED vars BY <1>16 DEF vars, Fits
  <1> QED
    BY <1>1, <1>2, <1>3, <1>4, <1>5, <1>7, <1>8, <1>9, <1>10, <1>11, <1>12,
       <1>13, <1>14, <1>15, <1>16 DEF Next

\* The fields of a target follow each other and fill its 29 bytes.
LEMMA Offsets ==
  /\ FieldOffsets[1] = 0
  /\ \A f \in 1 .. 16 :
       /\ FieldOffsets[f] \in Nat
       /\ FieldOffsets[f] + FieldWidths[f] <= TARGET_INFO_LENGTH
       /\ f < 16 => FieldOffsets[f] + FieldWidths[f] = FieldOffsets[f + 1]
  /\ FieldOffsets[16] + FieldWidths[16] = TARGET_INFO_LENGTH
  BY DEF FieldOffsets, FieldWidths, TARGET_INFO_LENGTH

\* The targets counted fit between the header and the checksum, and no more.
LEMMA CountFits ==
  ASSUME len \in Nat, len >= HeaderLength + 1
  PROVE  /\ TargetCount \in Nat
         /\ HeaderLength + TARGET_INFO_LENGTH * TargetCount <= len - 1
         /\ len - 1 < HeaderLength + TARGET_INFO_LENGTH * (TargetCount + 1)
  BY DEF TargetCount, HeaderLength, TARGET_INFO_LENGTH

\* One more byte.
LEMMA NextByte ==
  \A o \in Int, n \in Nat : Bytes(o, n + 1) = Bytes(o, n) \cup {o + n}
  BY DEF Bytes

\* Every step keeps ParseInv: no read of a parser fails once there is room for
\* a checksum.
LEMMA ParseStep == TypeOK /\ ParseInv /\ [Next]_vars => ParseInv'
  <1> SUFFICES ASSUME TypeOK, ParseInv, [Next]_vars PROVE ParseInv'
    OBVIOUS
  <1> USE DEF TypeOK, ParseInv
  <1>1. CASE Open BY <1>1 DEF Open
  <1>2. CASE ScanPastEnd BY <1>2 DEF ScanPastEnd
  <1>3. CASE ScanNext BY <1>3 DEF ScanNext
  <1>4. CASE ScanFound BY <1>4 DEF ScanFound
  <1>5. CASE NotFound BY <1>5 DEF NotFound
  <1>6. CASE ReadSignature
    <2>1. Read(2, "length", "error") BY <1>6 DEF ReadSignature
    <2>2. CASE Available(pos, 2)
      BY <1>6, <2>1, <2>2 DEF ReadSignature, Read
    <2>3. CASE ~Available(pos, 2)
      <3>1. len < 2 BY <1>6, <2>3 DEF ReadSignature, Available
      <3> QED BY <1>6, <2>1, <2>3, <3>1 DEF ReadSignature, Read, HeaderLength
    <2> QED BY <2>2, <2>3
  <1>7. CASE ReadLength
    <2>1. Read(2, "reserve", "error") BY <1>7 DEF ReadLength
    <2>2. CASE Available(pos, 2)
      BY <1>7, <2>1, <2>2 DEF ReadLength, Read, HeaderLength
    <2>3. CASE ~Available(pos, 2)
      <3>1. len < 4 BY <1>7, <2>3 DEF ReadLength, Available
      <3> QED BY <1>7, <2>1, <2>3, <3>1 DEF ReadLength, Read, HeaderLength
    <2> QED BY <2>2, <2>3
  <1>8. CASE Reserve
    <2>1. CASE len < HeaderLength + 1 BY <1>8, <2>1 DEF Reserve
    <2>2. CASE ~(len < HeaderLength + 1)
      <3>1. len >= HeaderLength + 1 BY <2>2 DEF HeaderLength
      <3>2. 0 <= TargetCount BY <3>1, CountFits
      <3>3. pos = HeaderLength + TARGET_INFO_LENGTH * 0 + FieldOffsets[1]
        BY <1>8, Offsets DEF Reserve, HeaderLength, TARGET_INFO_LENGTH
      <3> QED BY <1>8, <2>2, <3>1, <3>2, <3>3 DEF Reserve, TargetCount
    <2> QED BY <2>1, <2>2
  <1>9. CASE ReadField
    <2> DEFINE w == FieldWidths[field]
               before == FieldOffsets[field]
    <2>1. /\ pc = "targets" /\ targets < TargetCount
          /\ Read(w, "targets", "sum")
          /\ UNCHANGED <<file, i, len, sum>>
      BY <1>9 DEF ReadField
    <2>2. /\ len >= HeaderLength + 1
          /\ pos = HeaderLength + TARGET_INFO_LENGTH * targets
                   + before
      BY <2>1
    <2>3. /\ w \in Nat /\ before \in Nat
          /\ before + w <= 29
          /\ field = 16 => before + w = 29
          /\ field # 16 => before + w = FieldOffsets[field + 1]
      BY WidthsAreNat, Offsets DEF TARGET_INFO_LENGTH
    <2> HIDE DEF w, before
    <2>4. pos + w <= 4 + 29 * (targets + 1)
      BY <2>2, <2>3 DEF HeaderLength, TARGET_INFO_LENGTH
    <2>5. Available(pos, w)
      <3>1. TargetCount \in Nat /\ 4 + 29 * TargetCount <= len - 1
        BY <2>2, CountFits DEF HeaderLength, TARGET_INFO_LENGTH
      <3>2. 29 * (targets + 1) <= 29 * TargetCount BY <2>1, <3>1
      <3> QED BY <2>3, <2>4, <3>1, <3>2 DEF Available
    <2>6. pc' = "targets" /\ pos' = pos + w BY <2>1, <2>5 DEF Read
    <2>7. targets' <= TargetCount /\ (targets' = TargetCount => field' = 1)
      BY <1>9, <2>1, <2>2, WidthsAreNat, CountFits DEF ReadField
    <2>8. pos' = HeaderLength + TARGET_INFO_LENGTH * targets'
                 + FieldOffsets[field']
      <3>1. CASE field = 16
        <4>1. field' = 1 /\ targets' = targets + 1
          BY <1>9, <2>5, <3>1, WidthsAreNat DEF ReadField, w
        <4>2. pos' = HeaderLength + TARGET_INFO_LENGTH * (targets + 1)
          BY <2>2, <2>3, <2>6, <3>1 DEF HeaderLength, TARGET_INFO_LENGTH
        <4> QED
          BY <4>1, <4>2, Offsets DEF HeaderLength, TARGET_INFO_LENGTH
      <3>2. CASE field # 16
        <4>1. field' = field + 1 /\ targets' = targets
          BY <1>9, <3>2, WidthsAreNat DEF ReadField
        <4> QED
          BY <2>2, <2>3, <2>6, <3>2, <4>1 DEF HeaderLength, TARGET_INFO_LENGTH
      <3> QED BY <3>1, <3>2
    <2>9. TargetCount' = TargetCount BY <2>1 DEF TargetCount
    <2> QED BY <2>1, <2>2, <2>6, <2>7, <2>8, <2>9
  <1>10. CASE TargetsRead
    <2>1. field = 1 /\ targets = TargetCount BY <1>10 DEF TargetsRead
    <2>2. pos = HeaderLength + TARGET_INFO_LENGTH * targets
      BY <1>10, <2>1, Offsets DEF TargetsRead, HeaderLength, TARGET_INFO_LENGTH
    <2>3. sum <= len - 1 /\ Bytes(i, sum) = {}
      BY <1>10 DEF TargetsRead, Bytes, HeaderLength
    <2> QED
      BY <1>10, <2>1, <2>2, <2>3 DEF TargetsRead, TargetCount, Bytes
  <1>11. CASE AddToSum
    <2>1. /\ pc = "sum" /\ sum < len - 1
          /\ ReadForSum(sum, "sum")
          /\ UNCHANGED <<file, i, len, pos, field, targets>>
      BY <1>11 DEF AddToSum
    <2>2. sum' = sum + 1 /\ read' = read \cup {i + sum} /\ pc' = "sum"
      BY <2>1 DEF ReadForSum, Available
    <2>3. Bytes(i, sum + 1) = Bytes(i, sum) \cup {i + sum}
      BY NextByte
    <2>4. Bytes(i, sum)' \subseteq read'
      BY <2>1, <2>2, <2>3 DEF Bytes
    <2>5. TargetCount' = TargetCount BY <2>1 DEF TargetCount
    <2> QED BY <2>1, <2>2, <2>4, <2>5
  <1>12. CASE ReadChecksum
    <2>1. /\ pc = "sum" /\ sum >= len - 1
          /\ ReadForSum(len - 1, "tail")
          /\ UNCHANGED <<file, i, len, pos, field, targets>>
      BY <1>12 DEF ReadChecksum
    <2>2. sum = len - 1 BY <2>1
    <2>3. sum' = len /\ read' = read \cup {i + sum} /\ pc' = "tail"
      BY <2>1, <2>2 DEF ReadForSum, Available
    <2>4. Bytes(i, sum + 1) = Bytes(i, sum) \cup {i + sum}
      BY NextByte
    <2>5. Bytes(i, len)' \subseteq read'
      BY <2>1, <2>2, <2>3, <2>4 DEF Bytes
    <2>6. TargetCount' = TargetCount BY <2>1 DEF TargetCount
    <2> QED BY <2>1, <2>3, <2>5, <2>6
  <1>13. CASE ReadTail
    <2>1. /\ len >= HeaderLength + 1
          /\ pos = HeaderLength + TARGET_INFO_LENGTH * TargetCount
          /\ sum = len /\ Bytes(i, len) \subseteq read
          /\ targets = TargetCount /\ field = 1
          /\ UNCHANGED <<file, i, len, field, targets, sum>>
      BY <1>13 DEF ReadTail
    <2>2. pos <= len - 1 BY <2>1, CountFits
    <2>3. PICK at \in {pos, len - 1} :
            /\ at = IF pos < len - 1 THEN len - 1 ELSE pos
            /\ \/ pos' = at + 1 /\ read' = read \cup {i + at} /\ pc' = "done"
               \/ ~Available(at, 1)
      BY <1>13, TailEnds
    <2>4. at = len - 1 BY <2>2, <2>3
    <2>5. pos' = len /\ read \subseteq read' /\ pc' = "done"
      BY <2>3, <2>4 DEF Available
    <2>6. TargetCount' = TargetCount BY <2>1 DEF TargetCount
    <2>7. Bytes(i, len)' \subseteq read' BY <2>1, <2>5 DEF Bytes
    <2> QED BY <2>1, <2>5, <2>6, <2>7
  <1>14. CASE Exited BY <1>14 DEF Exited, vars, TargetCount
  <1>15. CASE UNCHANGED vars BY <1>15 DEF vars, TargetCount
  <1> QED
    BY <1>1, <1>2, <1>3, <1>4, <1>5, <1>6, <1>7, <1>8, <1>9, <1>10, <1>11,
       <1>12, <1>13, <1>14, <1>15 DEF Next

\* The module that is parsed lies in the file.
LEMMA ModuleInside ==
  ASSUME TypeOK, ScanInv, pc \in Parsing
  PROVE  i + len <= file.size
  <1>1. i \in Fitting /\ len = file.modules[i] BY DEF ScanInv
  <1> QED BY <1>1 DEF Fitting, Fits

\* A read of bytes of the file stays inside of it.
LEMMA MoreInside ==
  ASSUME TypeOK, ScanInv, ReadsInside, pc # "undefined",
         NEW o \in Nat, NEW n \in Nat, o + n <= file.size,
         file' = file, read' = read \cup Bytes(o, n)
  PROVE  ReadsInside'
  <1>1. file.size \in Int BY FileFacts DEF ScanInv
  <1>2. Bytes(o, n) \subseteq 0 .. (file.size - 1) BY <1>1 DEF Bytes
  <1> QED BY <1>2 DEF ReadsInside

\* A step that reads nothing keeps ReadsInside.
LEMMA NothingRead ==
  ASSUME ReadsInside, pc # "undefined", file' = file, read' = read
  PROVE  ReadsInside'
  BY DEF ReadsInside

\* Every step reads inside of the file.
LEMMA ReadStep ==
  TypeOK /\ ScanInv /\ ParseInv /\ ReadsInside /\ [Next]_vars => ReadsInside'
  <1> SUFFICES ASSUME TypeOK, ScanInv, ParseInv, ReadsInside, [Next]_vars
               PROVE  ReadsInside'
    OBVIOUS
  <1> USE DEF TypeOK
  <1>1. CASE Open BY <1>1, NothingRead DEF Open
  <1>2. CASE ScanPastEnd BY <1>2 DEF ScanPastEnd, ReadsInside
  <1>3. CASE ScanNext
    <2> DEFINE n == IF i \in DOMAIN file.modules THEN HeaderLength ELSE 2
    <2>1. n \in Nat /\ n <= 4 BY DEF HeaderLength
    <2>2. i + 4 <= file.size
      BY <1>3, FileFacts DEF ScanNext, InScan, HeaderLength, ScanInv
    <2>3. file.size \in Int BY FileFacts DEF ScanInv
    <2>4. read' = read \cup Bytes(i, n) BY <1>3 DEF ScanNext
    <2> HIDE DEF n
    <2>5. i + n <= file.size BY <2>1, <2>2, <2>3
    <2> QED BY <1>3, <2>1, <2>4, <2>5, MoreInside DEF ScanNext
  <1>4. CASE ScanFound
    <2>1. i + 4 <= file.size
      BY <1>4, FileFacts DEF ScanFound, InScan, HeaderLength, ScanInv
    <2> QED BY <1>4, <2>1, MoreInside DEF ScanFound, HeaderLength
  <1>5. CASE NotFound BY <1>5, NothingRead DEF NotFound
  <1>6. ASSUME NEW n \in Nat, NEW next, NEW failed,
               pc \in Parsing, Read(n, next, failed), file' = file
        PROVE  ReadsInside'
    <2>1. CASE Available(pos, n)
      <3>1. i + pos + n <= file.size
        <4>1. pos + n <= len BY <2>1 DEF Available
        <4>2. file.size \in Int BY FileFacts DEF ScanInv
        <4>3. i + len <= file.size BY <1>6, ModuleInside
        <4> QED BY <4>1, <4>2, <4>3
      <3>2. read' = read \cup Bytes(i + pos, n) BY <1>6, <2>1 DEF Read
      <3>3. i + pos \in Nat /\ pc # "undefined" BY <1>6 DEF Parsing
      <3> QED BY <1>6, <3>1, <3>2, <3>3, MoreInside
    <2>2. CASE ~Available(pos, n)
      BY <1>6, <2>2, NothingRead DEF Read, Parsing
    <2> QED BY <2>1, <2>2
  <1>7. CASE ReadSignature
    BY <1>6, <1>7 DEF ReadSignature, Parsing, PcValues
  <1>8. CASE ReadLength
    BY <1>6, <1>8 DEF ReadLength, Parsing, PcValues
  <1>9. CASE Reserve BY <1>9, NothingRead DEF Reserve
  <1>10. CASE ReadField
    <2>1. FieldWidths[field] \in Nat BY WidthsAreNat
    <2>2. Read(FieldWidths[field], "targets", "sum") BY <1>10 DEF ReadField
    <2> QED BY <1>6, <1>10, <2>1, <2>2 DEF ReadField, Parsing, PcValues
  <1>11. CASE TargetsRead BY <1>11, NothingRead DEF TargetsRead
  <1>12. ASSUME NEW p \in Nat, p + 1 <= len, pc \in Parsing,
                read' = read \cup {i + p}, file' = file
         PROVE  ReadsInside'
    <2>1. file.size \in Int BY FileFacts DEF ScanInv
    <2>2. i + len <= file.size BY <1>12, ModuleInside
    <2>3. i + p \in Nat /\ i + p + 1 <= file.size BY <1>12, <2>1, <2>2
    <2>4. {i + p} = Bytes(i + p, 1) BY <2>3 DEF Bytes
    <2> QED BY <1>12, <2>3, <2>4, MoreInside DEF Parsing
  <1>13. CASE AddToSum
    <2>1. pc = "sum" /\ sum + 1 <= len /\ ReadForSum(sum, "sum") /\ file' = file
      BY <1>13 DEF AddToSum
    <2>2. read' = read \cup {i + sum} BY <2>1 DEF ReadForSum, Available
    <2> QED BY <1>12, <2>1, <2>2 DEF Parsing, PcValues
  <1>14. CASE ReadChecksum
    <2>1. pc = "sum" /\ ReadForSum(len - 1, "tail") /\ file' = file
      BY <1>14 DEF ReadChecksum
    <2>2. len - 1 \in Nat /\ (len - 1) + 1 <= len
      BY <2>1 DEF ParseInv, HeaderLength
    <2>3. read' = read \cup {i + (len - 1)}
      BY <2>1, <2>2 DEF ReadForSum, Available
    <2> QED BY <1>12, <2>1, <2>2, <2>3 DEF Parsing, PcValues
  <1>15. CASE ReadTail
    <2>1. pc = "tail" /\ file' = file BY <1>15 DEF ReadTail
    <2>2. len >= HeaderLength + 1 BY <2>1 DEF ParseInv
    <2>3. PICK at \in {pos, len - 1} :
            \/ Available(at, 1) /\ read' = read \cup {i + at}
            \/ read' = read
      BY <1>15, TailEnds
    <2>4. at \in Nat BY <2>2, <2>3 DEF HeaderLength
    <2>5. CASE Available(at, 1) /\ read' = read \cup {i + at}
      BY <1>12, <2>1, <2>4, <2>5 DEF Available, Parsing, PcValues
    <2>6. CASE read' = read BY <2>1, <2>6, NothingRead
    <2> QED BY <2>3, <2>5, <2>6
  <1>16. CASE Exited BY <1>16 DEF Exited, vars, ReadsInside
  <1>17. CASE UNCHANGED vars BY <1>17 DEF vars, ReadsInside
  <1> QED
    BY <1>1, <1>2, <1>3, <1>4, <1>5, <1>7, <1>8, <1>9, <1>10, <1>11, <1>13,
       <1>14, <1>15, <1>16, <1>17 DEF Next

----------------------------------------------------------------------------
\* The conjunction of all of the above is an inductive invariant.
LEMMA Invariant == Spec => [](TypeOK /\ ScanInv /\ ParseInv /\ ReadsInside)
  <1>1. TypeOK /\ ScanInv /\ ParseInv /\ ReadsInside /\ [Next]_vars
          => (TypeOK /\ ScanInv /\ ParseInv /\ ReadsInside)'
    BY TypeStep, ScanStep, ParseStep, ReadStep
  <1> QED BY <1>1, InitInv, PTL DEF Spec

\* Every variable keeps its type, and the parser reads a field of a target.
THEOREM TypeCorrect == Spec => []TypeOK
  BY Invariant, PTL

\* Whatever the lengths in the file say, neither the scan nor a parser reads a
\* byte outside of it, unless the file is shorter than a header.
THEOREM ReadsStayInside == Spec => []ReadsInside
  BY Invariant, PTL

\* The module parsed is the first that fits, and none is said to be missing
\* that fits.
THEOREM FirstFittingIsParsed == Spec => []ParsesFirstFitting
  <1>1. ScanInv => ParsesFirstFitting
    BY DEF ScanInv, ParsesFirstFitting, Parsing, Fitting
  <1> QED BY <1>1, Invariant, PTL

\* A module with room for a checksum is parsed to its last byte, without an
\* exception.
THEOREM ParsedToChecksum == Spec => []EndsAtChecksum
  <1>1. TypeOK /\ ParseInv => EndsAtChecksum
    <2> SUFFICES ASSUME TypeOK, ParseInv, pc = "done"
                 PROVE  /\ pos = len /\ sum = len /\ field = 1
                        /\ targets * TARGET_INFO_LENGTH
                              <= len - (HeaderLength + 1)
                        /\ len - (HeaderLength + 1)
                              < (targets + 1) * TARGET_INFO_LENGTH
                        /\ Bytes(i, len) \subseteq read
      BY DEF EndsAtChecksum, ParseInv
    <2>1. /\ pos = len /\ sum = len /\ field = 1
          /\ len >= HeaderLength + 1
          /\ targets = TargetCount
          /\ Bytes(i, len) \subseteq read
      BY DEF ParseInv
    <2>2. len \in Nat BY DEF TypeOK
    <2> QED
      BY <2>1, <2>2, CountFits DEF HeaderLength, TARGET_INFO_LENGTH
  <1> QED BY <1>1, Invariant, PTL

==============================================================================
