---------------------------- MODULE TrackerParser ----------------------------
(***************************************************************************)
(* The reader of radar files (src/tracker_bin_file/main.cpp): it scans a   *)
(* file for the marker 0x4D42 of a target module, takes the first module   *)
(* whose declared length fits in the file, parses its targets field by     *)
(* field and compares its checksum byte.                                   *)
(*                                                                         *)
(* A file is abstracted to its size and to its markers: the function       *)
(* `modules' maps the offset of a marker to the length that the two bytes  *)
(* after it declare.  The other bytes have no influence on what is read,   *)
(* so the model keeps the offsets that the program reads and no values.    *)
(* A size of -1 stands for a file that does not open, as tellg() says it.  *)
(***************************************************************************)
EXTENDS Integers, Sequences, FiniteSets

CONSTANT Files          \* the files the program may be started on

HeaderLength == 4       \* a marker and a length, two bytes each

\* The two bytes of a marker and the two of its length lie in the file.
ASSUME FilesAssumption ==
  \A f \in Files :
    /\ f.size \in Int
    /\ DOMAIN f.modules \subseteq Nat
    /\ \A o \in DOMAIN f.modules :
         f.modules[o] \in Nat /\ o + HeaderLength <= f.size

\* What parseTarget reads of a target, in order, in bytes.
FieldWidths == <<1, 2, 2, 2, 1, 1, 2, 2, 2, 2, 1, 4, 4, 1, 1, 1>>

TARGET_INFO_LENGTH == 29

VARIABLES
  file,     \* the file named on the command line
  pc,       \* where main and parseTargetModuleFixed are
  i,        \* main: the offset looked at, later the offset of the module
  len,      \* the module's length, as declared and as given to the parsers
  pos,      \* pos_ of the module's parser
  field,    \* the field parseTarget reads next
  targets,  \* how many targets were parsed
  sum,      \* pos_ of checksumParser
  read      \* history: the offsets of the file read so far

vars == <<file, pc, i, len, pos, field, targets, sum, read>>

----------------------------------------------------------------------------
(* What is asked of a file and of a parser. *)

\* The offsets of n bytes at o.
Bytes(o, n) == o .. (o + n - 1)

Fits_Unchecked(o, n) == o < file.size

\* The declared module lies in the file: i + totalModuleLength <= size.
Fits(o, n) == o + n <= file.size

InScan_Strict(o) == file.size < HeaderLength \/ o < file.size - HeaderLength

\* i <= buffer.size() - 4, where the difference is a size_t: under four
\* bytes it wraps around and bounds nothing.
InScan(o) == file.size < HeaderLength \/ o <= file.size - HeaderLength

\* BinaryParser::available.
Available(p, n) == p + n <= len

TargetCount_HeaderOnly == (len - HeaderLength) \div TARGET_INFO_LENGTH

\* totalModuleLength - 5 as a size_t, divided by the length of a target; it
\* is used only where the difference has not wrapped around.
TargetCount == (len - (HeaderLength + 1)) \div TARGET_INFO_LENGTH

Init ==
  /\ file \in Files
  /\ pc = "open"
  /\ i = 0 /\ len = 0 /\ pos = 0 /\ field = 1 /\ targets = 0 /\ sum = 0
  /\ read = {}

----------------------------------------------------------------------------
(* main *)

\* A file that does not open has size -1, a size_t no vector can have; the
\* exception ends the program.
Open ==
  /\ pc = "open"
  /\ pc' = IF file.size < 0 THEN "failed" ELSE "scan"
  /\ UNCHANGED <<file, i, len, pos, field, targets, sum, read>>

\* A file shorter than a header: the loop runs past the end of the buffer.
ScanPastEnd ==
  /\ pc = "scan" /\ file.size < HeaderLength
  /\ InScan(i)
  /\ pc' = "undefined"
  /\ UNCHANGED <<file, i, len, pos, field, targets, sum, read>>

\* No marker here, or one whose module does not fit: on to the next byte.
ScanNext ==
  /\ pc = "scan" /\ file.size >= HeaderLength
  /\ InScan(i)
  /\ i \in DOMAIN file.modules => ~Fits(i, file.modules[i])
  /\ i' = i + 1
  /\ read' = read \cup
       Bytes(i, IF i \in DOMAIN file.modules THEN HeaderLength ELSE 2)
  /\ UNCHANGED <<file, pc, len, pos, field, targets, sum>>

\* A marker whose module fits is handed to parseTargetModuleFixed.
ScanFound ==
  /\ pc = "scan" /\ file.size >= HeaderLength
  /\ InScan(i)
  /\ i \in DOMAIN file.modules
  /\ Fits(i, file.modules[i])
  /\ len' = file.modules[i]
  /\ read' = read \cup Bytes(i, HeaderLength)
  /\ pc' = "signature"
  /\ UNCHANGED <<file, i, pos, field, targets, sum>>

\* The loop ended without a module.
NotFound ==
  /\ pc = "scan"
  /\ ~InScan(i)
  /\ pc' = "not_found"
  /\ UNCHANGED <<file, i, len, pos, field, targets, sum, read>>

----------------------------------------------------------------------------
(* parseTargetModuleFixed.  An exception of a parser ends it with a message *)
(* ("error"), and main still returns 0.                                     *)

\* A read of n bytes by the module's parser, then the state next; without n
\* bytes the parser throws, and the state is failed.
Read(n, next, failed) ==
  IF Available(pos, n)
  THEN /\ pos' = pos + n
       /\ read' = read \cup Bytes(i + pos, n)
       /\ pc' = next
  ELSE /\ pc' = failed
       /\ UNCHANGED <<pos, read>>

\* The test of the value (main.cpp:205) cannot fail: the scan has compared
\* the same two bytes.
ReadSignature ==
  /\ pc = "signature"
  /\ Read(2, "length", "error")
  /\ UNCHANGED <<file, i, len, field, targets, sum>>

ReadLength ==
  /\ pc = "length"
  /\ Read(2, "reserve", "error")
  /\ UNCHANGED <<file, i, len, field, targets, sum>>

\* targets.reserve(targetCount): under five bytes the count has wrapped
\* around, and reserve throws.
Reserve ==
  /\ pc = "reserve"
  /\ pc' = IF len < HeaderLength + 1 THEN "error" ELSE "targets"
  /\ UNCHANGED <<file, i, len, pos, field, targets, sum, read>>

\* The body of parseTarget; after the last field the target is pushed.  An
\* exception here only ends the loop over the targets.
ReadField ==
  /\ pc = "targets" /\ targets < TargetCount
  /\ Read(FieldWidths[field], "targets", "sum")
  /\ LET last == field = Len(FieldWidths) IN
     /\ field' = IF last THEN 1 ELSE field + 1
     /\ targets' = IF last /\ Available(pos, FieldWidths[field])
                   THEN targets + 1 ELSE targets
  /\ UNCHANGED <<file, i, len, sum>>

TargetsRead ==
  /\ pc = "targets" /\ targets = TargetCount
  /\ pc' = "sum"
  /\ UNCHANGED <<file, i, len, pos, field, targets, sum, read>>

\* A byte read by checksumParser, from offset p of the module.
ReadForSum(p, next) ==
  IF Available(p, 1)
  THEN /\ sum' = p + 1
       /\ read' = read \cup {i + p}
       /\ pc' = next
  ELSE /\ pc' = "error"
       /\ UNCHANGED <<sum, read>>

AddToSum ==
  /\ pc = "sum" /\ sum < len - 1
  /\ ReadForSum(sum, "sum")
  /\ UNCHANGED <<file, i, len, pos, field, targets>>

\* seek(totalModuleLength - 1) and the checksum byte.
ReadChecksum ==
  /\ pc = "sum" /\ sum >= len - 1
  /\ ReadForSum(len - 1, "tail")
  /\ UNCHANGED <<file, i, len, pos, field, targets>>

\* The bytes between the last target and the checksum are skipped, and the
\* module's parser reads the checksum too.
ReadTail ==
  /\ pc = "tail"
  /\ LET at == IF pos < len - 1 THEN len - 1 ELSE pos IN
     IF Available(at, 1)
     THEN /\ pos' = at + 1
          /\ read' = read \cup {i + at}
          /\ pc' = "done"
     ELSE /\ pos' = at
          /\ pc' = "error"
          /\ UNCHANGED read
  /\ UNCHANGED <<file, i, len, field, targets, sum>>

----------------------------------------------------------------------------
Final == {"failed", "undefined", "not_found", "error", "done"}

Exited == pc \in Final /\ UNCHANGED vars

Next ==
  \/ Open \/ ScanPastEnd \/ ScanNext \/ ScanFound \/ NotFound
  \/ ReadSignature \/ ReadLength \/ Reserve \/ ReadField \/ TargetsRead
  \/ AddToSum \/ ReadChecksum \/ ReadTail
  \/ Exited

Spec == Init /\ [][Next]_vars

----------------------------------------------------------------------------
(* Properties *)

PcValues ==
  Final \cup {"open", "scan", "signature", "length", "reserve", "targets",
              "sum", "tail"}

\* The type invariant; field is always one of the fields of a target.
TypeOK ==
  /\ pc \in PcValues
  /\ i \in Nat /\ len \in Nat /\ pos \in Nat /\ targets \in Nat /\ sum \in Nat
  /\ field \in 1 .. Len(FieldWidths)
  /\ read \subseteq Int

\* No byte outside of the file is read, by the scan or by either parser, as
\* long as the file has the four bytes of a header: the size that main tests
\* and the sizes that the parsers are given are three different ones.
ReadsInside ==
  pc # "undefined" => read \subseteq 0 .. (file.size - 1)

\* The module that is parsed is the first one that fits, and "not found" is
\* said only if there is none: a marker whose length is wrong neither hides
\* nor displaces a later module that is whole.
ParsesFirstFitting ==
  LET fitting == {o \in DOMAIN file.modules : Fits(o, file.modules[o])} IN
  /\ pc = "not_found" => fitting = {}
  /\ pc \in PcValues \ {"open", "scan", "failed", "undefined", "not_found"} =>
       /\ i \in fitting
       /\ \A o \in fitting : i <= o
       /\ len = file.modules[i]

\* A module that has room for a checksum is parsed to its last byte: all the
\* targets that fit in it are complete, every byte before the checksum is
\* summed, and the two parsers end behind the same checksum byte.  Only a
\* module too short for a header and a checksum ends with an error.
EndsAtChecksum ==
  /\ pc = "error" => len < HeaderLength + 1
  /\ pc = "done" =>
       /\ pos = len /\ sum = len
       /\ field = 1
       /\ targets * TARGET_INFO_LENGTH <= len - (HeaderLength + 1)
       /\ len - (HeaderLength + 1) < (targets + 1) * TARGET_INFO_LENGTH
       /\ Bytes(i, len) \subseteq read

==============================================================================
