--------------------------- MODULE MCTrackerParser ---------------------------
(***************************************************************************)
(* Files for TLC: none, too short ones, and files with room for at most    *)
(* two targets that hold up to two markers, at the first and last offsets  *)
(* that matter, with lengths around every bound of the parser.             *)
(***************************************************************************)
EXTENDS TrackerParser, TLC

MCSizes == {4, 5, 9, 34, 40, 68}

\* Lengths of no module, of a module without and with a target, with a spare
\* byte, and with two targets.
MCLengths == {0, 3, 4, 5, 33, 34, 36, 63, 64}

MCFirst(size) == {o \in {0, 1, 5} : o + HeaderLength <= size}

MCSecond(size) == {o \in {2, 4, 30, 34, size - 5, size - 4} : o >= 0}

\* A file with one marker or two.  A marker right behind another stands where
\* the length of the first does, which is then 0x4D42.
MCFileOf(size, first, second, m, n) ==
  [size |-> size,
   modules |->
     CASE second + HeaderLength > size -> first :> m
       [] second = first + 2 -> (first :> 19778) @@ (second :> n)
       [] second >= first + HeaderLength -> (first :> m) @@ (second :> n)
       [] OTHER -> first :> m]

MCFiles ==
  {[size |-> n, modules |-> <<>>] : n \in {-1, 0, 3} \cup MCSizes} \cup
  UNION {{MCFileOf(size, first, second, m, n) :
            first \in MCFirst(size), second \in MCSecond(size),
            m, n \in MCLengths} : size \in MCSizes}
==============================================================================
