------------------------- MODULE SeabattleGameProofs -------------------------
(* Theorems about SeabattleGame and SeabattlePlacement, for fields of any    *)
(* size, any fleets and whatever lines the players type.                     *)
(*                                                                           *)
(* CountInv holds whatever is typed: the counts are those of the arrays.     *)
(* TurnInv holds while only proper shots are typed: the two programs and the *)
(* two streams between them are in one of four phases, and what each player  *)
(* has drawn of the other field is right once the answer on its way is       *)
(* marked, by the lemmas of SeabattleShotsProofs.  From both follow that     *)
(* turns alternate, that both programs see the same end, and that they       *)
(* implement SeabattleShots.  The last part is about the placement, which    *)
(* delivers the fleets that the game assumes.                                *)
EXTENDS SeabattleGame, SeabattlePlacement, SequenceTheorems, FiniteSetTheorems, TLAPS

At(p, places) == pc[p] \in places \cup {"quit", "error"}

(* While only proper shots are typed, the two programs are in one of four    *)
(* phases, seen from the player p who shoots.                                *)

(* No message is on its way, and p has the initiative.                       *)
Calm(p) ==
    /\ initiative[p] /\ ~initiative[Other(p)]
    /\ wire[p] = <<>> /\ wire[Other(p)] = <<>>
    /\ At(p, {"loop", "over"}) /\ At(Other(p), {"loop", "over"})

(* p's shot is on its way.                                                   *)
Fired(p) ==
    /\ initiative[p] /\ ~initiative[Other(p)]
    /\ wire[p] = <<>> /\ wire[Other(p)] = data[p] /\ data[p] \in ProperShots
    /\ At(p, {"read_answer"}) /\ At(Other(p), {"loop"})
    /\ ~IsGameEnded(p) /\ ~IsGameEnded(Other(p))

(* The answer to p is on its way; after a miss the other player has the      *)
(* initiative already, and only a KILL may have been the last one.           *)
Replied(p) ==
    /\ \E r \in DOMAIN AnswerByte :
           /\ wire[p] = <<AnswerByte[r]>> /\ (initiative[Other(p)] <=> r = "MISS")
           /\ r # "KILL" => ~IsLoser(own[Other(p)])
    /\ initiative[p]
    /\ wire[Other(p)] = <<>> /\ data[p] \in ProperShots
    /\ At(p, {"read_answer"}) /\ At(Other(p), {"loop", "over"})

(* p missed, and the other player has shot before p read so.                 *)
Crossing(p) ==
    /\ initiative[p] /\ initiative[Other(p)]
    /\ wire[p] = <<AnswerByte["MISS"]>> \o data[Other(p)] /\ wire[Other(p)] = <<>>
    /\ data[p] \in ProperShots /\ data[Other(p)] \in ProperShots
    /\ At(p, {"read_answer"}) /\ At(Other(p), {"read_answer"})
    /\ ~IsGameEnded(Other(p))

InPhase == \E p \in Players : Calm(p) \/ Fired(p) \/ Replied(p) \/ Crossing(p)

(* Who is over has seen the end, and a read fails only when the other player *)
(* has quit.                                                                 *)
LeftInv ==
    \A p \in Players :
        /\ pc[p] = "over" => IsGameEnded(p)
        /\ pc[p] = "error" => pc[Other(p)] = "quit"

(* SeabattleShots and its proofs; of the instance only what is said of any   *)
(* two fields is used, for both players.                                     *)
Shots == INSTANCE SeabattleShotsProofs WITH
    MaxColumn <- FieldSize - 1, own <- own[Server], view <- Picture(Client)

(* p's picture is right, once the answer on its way is marked.               *)
PairSound(p) == \E fleet \in Fleets : Shots!Sound(own[Other(p)], Picture(p), fleet)

PairsSound == \A p \in Players : PairSound(p)

TurnInv == strays = 0 => InPhase /\ LeftInv /\ PairsSound

-----------------------------------------------------------------------------
(* Lemmas *)

LEMMA TwoPlayers ==
    ASSUME NEW p \in Players
    PROVE  /\ Other(p) \in Players /\ Other(p) # p /\ Other(Other(p)) = p
           /\ Players = {p, Other(p)}
BY DEF Players, Other, Client, Server

(* A row-major position is one of the array.                                 *)
LEMMA IndexInRange ==
    ASSUME NEW x \in Coords, NEW y \in Coords
    PROVE  Index(x, y) \in Indices
<1>1. FieldSize \in Nat /\ x \in Nat /\ y \in Nat /\ x <= FieldSize - 1 /\ y + 1 <= FieldSize
  BY FieldSizeAssumption DEF Coords
<1>2. (y + 1) * FieldSize <= FieldSize * FieldSize
  BY <1>1
<1>3. (y + 1) * FieldSize = y * FieldSize + FieldSize /\ y * FieldSize \in Nat
  BY <1>1
<1>. QED
  BY <1>1, <1>2, <1>3 DEF Index, Indices

(* A proper shot is read as the cell it names, and no part of it passes for  *)
(* an answer before the first byte has been taken.                           *)
LEMMA ProperShotRead ==
    ASSUME NEW s \in ProperShots
    PROVE  /\ s \in Seq(Bytes) /\ Len(s) = 2 /\ s # <<>>
           /\ ~IsAnswer(s[1])
           /\ ParseMove(s) \in Coords \X Coords /\ Exists(ParseMove(s))
           /\ SubSeq(s, 1, 2) = s /\ SubSeq(s, 3, Len(s)) = <<>>
<1>1. PICK x \in Coords, y \in Coords : s = <<Letter(y), Digit(x + 1)>>
  BY DEF ProperShots
<1>2. x \in 0..(FieldSize - 1) /\ y \in 0..(FieldSize - 1) /\ FieldSize \in Nat
  BY FieldSizeAssumption DEF Coords
<1>3. Letter(y) \in Bytes /\ Digit(x + 1) \in Bytes
  <2>1. y \in 0..FieldSize /\ x + 1 \in 0..(FieldSize + 1)
    BY <1>2
  <2>. QED
    BY <2>1 DEF Bytes
<1>4. s \in Seq(Bytes) /\ Len(s) = 2 /\ s # <<>> /\ s[1] = Letter(y) /\ s[2] = Digit(x + 1)
  BY <1>1, <1>3
<1>5. ~IsAnswer(s[1])
  BY <1>4 DEF IsAnswer, AnswerByte, Letter, Digit
<1>6. ParseMove(s) = <<x, y>>
  <2>1. s[1][1] = "letter" /\ s[1][2] = y /\ s[2][1] = "digit" /\ s[2][2] = x + 1
    BY <1>4 DEF Letter, Digit
  <2>2. x + 1 - 1 = x /\ x \in 0..FieldSize /\ y \in 0..FieldSize
    BY <1>2
  <2>. QED
    BY <1>4, <2>1, <2>2 DEF ParseMove
<1>7. Exists(ParseMove(s))
  BY <1>6, IndexInRange, GameAssumption DEF Exists
<1>8. SubSeq(s, 1, 2) = s
  BY <1>4, SubSeqFull
<1>9. SubSeq(s, 3, Len(s)) = <<>>
  BY <1>4, SubSeqEmpty
<1>. QED
  BY <1>4, <1>5, <1>6, <1>7, <1>8, <1>9

(* What is behind an answer becomes readable once the answer is read.        *)
LEMMA BehindAnswer ==
    ASSUME NEW b \in Bytes, NEW s \in Seq(Bytes)
    PROVE  /\ Tail(<<b>> \o s) = s /\ Head(<<b>> \o s) = b
           /\ Tail(<<b>>) = <<>> /\ Head(<<b>>) = b
           /\ <<b>> \o s # <<>> /\ (<<b>> \o s)[1] = b
           /\ Append(<<>>, b) = <<b>> /\ <<>> \o s = s
<1>1. <<b>> \in Seq(Bytes) /\ Len(<<b>>) = 1 /\ <<b>>[1] = b
  OBVIOUS
<1>2. /\ <<b>> \o s \in Seq(Bytes) /\ Len(<<b>> \o s) = 1 + Len(s)
      /\ (<<b>> \o s)[1] = b
      /\ \A i \in 1..Len(s) : (<<b>> \o s)[i + 1] = s[i]
  BY <1>1, ConcatProperties
<1>3. <<b>> \o s # <<>>
  BY <1>2, EmptySeq
<1>4. Head(<<b>> \o s) = b
  BY <1>2, <1>3
<1>5. Tail(<<b>> \o s) = s
  <2>1. /\ Tail(<<b>> \o s) \in Seq(Bytes) /\ Len(Tail(<<b>> \o s)) = Len(s)
        /\ \A i \in 1..Len(s) : Tail(<<b>> \o s)[i] = (<<b>> \o s)[i + 1]
    BY <1>2, <1>3, HeadTailProperties
  <2>. QED
    BY <1>2, <2>1, SeqEqual
<1>. QED
  BY <1>1, <1>2, <1>3, <1>4, <1>5, ConcatEmptySeq

LEMMA AnswersAreBytes ==
    ASSUME NEW r \in {"MISS", "HIT", "KILL"}
    PROVE  /\ r \in DOMAIN AnswerByte /\ AnswerByte[r] \in Bytes /\ IsAnswer(AnswerByte[r])
           /\ AnswerByte[r] = AnswerByte["MISS"] <=> r = "MISS"
<1>1. AnswerByte[r] = Digit(0) \/ AnswerByte[r] = Digit(1) \/ AnswerByte[r] = Digit(2)
  BY DEF AnswerByte
<1>2. 0 \in 0..(FieldSize + 1) /\ 1 \in 0..(FieldSize + 1) /\ 2 \in 0..(FieldSize + 1)
  BY FieldSizeAssumption
<1>3. AnswerByte[r] \in Bytes
  BY <1>1, <1>2 DEF Bytes
<1>. QED
  BY <1>3 DEF AnswerByte, IsAnswer, Digit

Afloat(f) == {i \in Indices : f.cell[i] = "SHIP"}
Hits(f) == {i \in Indices : f.cell[i] = "KILLED"}

LEMMA IndicesFinite == IsFiniteSet(Indices)
<1>1. 0 \in Int /\ FieldSize * FieldSize - 1 \in Int
  BY FieldSizeAssumption
<1>. QED
  BY <1>1, FS_Interval DEF Indices

LEMMA Counts ==
    ASSUME NEW f \in Fields
    PROVE  Cardinality(Afloat(f)) \in Nat /\ Cardinality(Hits(f)) \in Nat
BY IndicesFinite, FS_Subset, FS_CardinalityType DEF Afloat, Hits

LEMMA PutIsField ==
    ASSUME NEW f \in Fields, NEW i \in Indices, NEW s \in States
    PROVE  /\ Put(f, i, s) \in Fields
           /\ Put(f, i, s).weight = f.weight
           /\ Put(f, i, s).cell = [f.cell EXCEPT ![i] = s]
BY DEF Put, Fields

(* A shot takes off the array what it takes off weight_.                     *)
LEMMA ShotIsCounted ==
    ASSUME NEW f \in Fields, NEW x, NEW y, Index(x, y) \in Indices,
           f.weight = Cardinality(Afloat(f))
    PROVE  /\ Shoot(f, x, y) \in Fields
           /\ Shoot(f, x, y).weight = Cardinality(Afloat(Shoot(f, x, y)))
           /\ ShotResult(f, x, y) \in {"MISS", "HIT", "KILL"}
<1> DEFINE i == Index(x, y)
           g == Shoot(f, x, y)
<1>1. ShotResult(f, x, y) \in {"MISS", "HIT", "KILL"} /\ f.weight \in Int
  BY DEF ShotResult, Fields
<1>2. CASE f.cell[i] # "SHIP"
  BY <1>1, <1>2 DEF Shoot, Get
<1>3. CASE f.cell[i] = "SHIP"
  <2>1. g = [Put(f, i, "KILLED") EXCEPT !.weight = @ - 1]
    BY <1>3 DEF Shoot, Get
  <2>2. /\ g \in Fields /\ g.weight = f.weight - 1
        /\ g.cell = [f.cell EXCEPT ![i] = "KILLED"]
    <3>1. i \in Indices /\ "KILLED" \in States
      BY DEF States
    <3>2. /\ Put(f, i, "KILLED") \in Fields
          /\ Put(f, i, "KILLED").weight = f.weight
          /\ Put(f, i, "KILLED").cell = [f.cell EXCEPT ![i] = "KILLED"]
      BY <3>1, PutIsField
    <3>. QED
      BY <1>1, <2>1, <3>2 DEF Fields
  <2>3. Afloat(g) = Afloat(f) \ {i}
    BY <2>2 DEF Afloat, Fields
  <2>4. IsFiniteSet(Afloat(f)) /\ i \in Afloat(f)
    BY <1>3, IndicesFinite, FS_Subset DEF Afloat
  <2>5. Cardinality(Afloat(g)) = Cardinality(Afloat(f)) - 1
    BY <2>3, <2>4, FS_RemoveElement
  <2>. QED
    BY <1>1, <2>2, <2>5
<1>. QED
  BY <1>2, <1>3

(* A view whose weight_ counts the hits still to come, and is not negative.  *)
ViewCounts(f) == f.weight = Weight - Cardinality(Hits(f))

LEMMA HitIsCounted ==
    ASSUME NEW f \in Fields, NEW x, NEW y, Index(x, y) \in Indices, ViewCounts(f)
    PROVE  /\ MarkHit(f, x, y) \in Fields
           /\ ViewCounts(MarkHit(f, x, y))
           /\ f.weight > 0 => MarkHit(f, x, y).weight >= 0
<1> DEFINE i == Index(x, y)
           g == MarkHit(f, x, y)
<1>1. f.weight \in Int
  BY DEF Fields
<1>2. CASE f.cell[i] # "UNKNOWN"
  BY <1>1, <1>2 DEF MarkHit, Get
<1>3. CASE f.cell[i] = "UNKNOWN"
  <2>1. g = [Put(f, i, "KILLED") EXCEPT !.weight = @ - 1]
    BY <1>3 DEF MarkHit, Get
  <2>2. /\ g \in Fields /\ g.weight = f.weight - 1
        /\ g.cell = [f.cell EXCEPT ![i] = "KILLED"]
    <3>1. i \in Indices /\ "KILLED" \in States
      BY DEF States
    <3>2. /\ Put(f, i, "KILLED") \in Fields
          /\ Put(f, i, "KILLED").weight = f.weight
          /\ Put(f, i, "KILLED").cell = [f.cell EXCEPT ![i] = "KILLED"]
      BY <3>1, PutIsField
    <3>. QED
      BY <1>1, <2>1, <3>2 DEF Fields
  <2>3. Hits(g) = Hits(f) \cup {i}
    BY <2>2 DEF Hits, Fields
  <2>4. IsFiniteSet(Hits(f)) /\ i \notin Hits(f)
    BY <1>3, IndicesFinite, FS_Subset DEF Hits
  <2>5. Cardinality(Hits(g)) = Cardinality(Hits(f)) + 1 /\ Cardinality(Hits(f)) \in Nat
    BY <2>3, <2>4, FS_AddElement, Counts
  <2>. QED
    BY <1>1, <2>2, <2>5, GameAssumption DEF ViewCounts
<1>. QED
  BY <1>2, <1>3

LEMMA MissIsCounted ==
    ASSUME NEW f \in Fields, NEW x, NEW y, Index(x, y) \in Indices, ViewCounts(f)
    PROVE  /\ MarkMiss(f, x, y) \in Fields
           /\ ViewCounts(MarkMiss(f, x, y))
           /\ f.weight > 0 => MarkMiss(f, x, y).weight >= 0
<1> DEFINE i == Index(x, y)
           g == MarkMiss(f, x, y)
<1>1. f.weight \in Int
  BY DEF Fields
<1>2. CASE f.cell[i] # "UNKNOWN"
  BY <1>1, <1>2 DEF MarkMiss, Get
<1>3. CASE f.cell[i] = "UNKNOWN"
  <2>1. g = Put(f, i, "EMPTY")
    BY <1>3 DEF MarkMiss, Get
  <2>2. /\ g \in Fields /\ g.weight = f.weight
        /\ g.cell = [f.cell EXCEPT ![i] = "EMPTY"]
    <3>1. i \in Indices /\ "EMPTY" \in States
      BY DEF States
    <3>2. /\ Put(f, i, "EMPTY") \in Fields
          /\ Put(f, i, "EMPTY").weight = f.weight
          /\ Put(f, i, "EMPTY").cell = [f.cell EXCEPT ![i] = "EMPTY"]
      BY <3>1, PutIsField
    <3>. QED
      BY <2>1, <3>2
  <2>3. Hits(g) = Hits(f)
    BY <1>3, <2>2 DEF Hits, Fields
  <2>. QED
    BY <1>1, <2>2, <2>3 DEF ViewCounts
<1>. QED
  BY <1>2, <1>3

(* Around a ship that is complete only unknown cells change.                 *)
LEMMA KillIsCounted ==
    ASSUME NEW f \in Fields, NEW x, NEW y, Index(x, y) \in Indices, ViewCounts(f)
    PROVE  /\ MarkKill(f, x, y) \in Fields
           /\ ViewCounts(MarkKill(f, x, y))
           /\ f.weight > 0 => MarkKill(f, x, y).weight >= 0
<1> DEFINE hit == MarkHit(f, x, y)
           shore == {Index(c[1], c[2]) : c \in {a \in Around(hit, x, y) : InField(a[1], a[2])}}
           cells == [i \in Indices |-> IF i \in shore /\ hit.cell[i] = "UNKNOWN"
                                       THEN "EMPTY" ELSE hit.cell[i]]
           g == [hit EXCEPT !.cell = cells]
<1>1. f.weight \in Int
  BY DEF Fields
<1>2. CASE Get(f, x, y) # "UNKNOWN"
  BY <1>1, <1>2 DEF MarkKill
<1>3. CASE Get(f, x, y) = "UNKNOWN"
  <2>1. MarkKill(f, x, y) = g
    BY <1>3 DEF MarkKill
  <2>2. hit \in Fields /\ ViewCounts(hit) /\ (f.weight > 0 => hit.weight >= 0)
    BY HitIsCounted
  <2> HIDE DEF hit, shore
  <2>3. cells \in [Indices -> States]
    BY <2>2 DEF Fields, States
  <2>4. g \in Fields /\ g.cell = cells /\ g.weight = hit.weight
    BY <2>2, <2>3 DEF Fields
  <2>5. \A i \in Indices : g.cell[i] = "KILLED" <=> hit.cell[i] = "KILLED"
    BY <2>4
  <2>6. Hits(g) = Hits(hit)
    BY <2>5 DEF Hits
  <2>. QED
    BY <2>1, <2>2, <2>4, <2>6 DEF ViewCounts
<1>. QED
  BY <1>2, <1>3

LEMMA MarkIsCounted ==
    ASSUME NEW f \in Fields, NEW byte, IsAnswer(byte), NEW move,
           Index(move[1], move[2]) \in Indices, ViewCounts(f)
    PROVE  /\ Mark(f, byte, move) \in Fields
           /\ ViewCounts(Mark(f, byte, move))
           /\ f.weight > 0 => Mark(f, byte, move).weight >= 0
<1>1. PICK r \in {"MISS", "HIT", "KILL"} : byte = AnswerByte[r]
  BY DEF IsAnswer, AnswerByte
<1>2. AnswerByte["MISS"] # AnswerByte["HIT"] /\ AnswerByte["MISS"] # AnswerByte["KILL"]
      /\ AnswerByte["HIT"] # AnswerByte["KILL"]
  BY DEF AnswerByte, Digit
<1>3. CASE byte = AnswerByte["MISS"]
  <2>1. Mark(f, byte, move) = MarkMiss(f, move[1], move[2])
    BY <1>2, <1>3 DEF Mark
  <2>. QED
    BY <2>1, MissIsCounted
<1>4. CASE byte = AnswerByte["HIT"]
  <2>1. Mark(f, byte, move) = MarkHit(f, move[1], move[2])
    BY <1>2, <1>4 DEF Mark
  <2>. QED
    BY <2>1, HitIsCounted
<1>5. CASE byte = AnswerByte["KILL"]
  <2>1. Mark(f, byte, move) = MarkKill(f, move[1], move[2])
    BY <1>2, <1>5 DEF Mark
  <2>. QED
    BY <2>1, KillIsCounted
<1>. QED
  BY <1>1, <1>3, <1>4, <1>5

-----------------------------------------------------------------------------
(* Types and counts, whatever is typed                                       *)

(* A shot is answered only by a player who has not seen the end, so the      *)
(* answer finds a count to take one from.                                    *)
CountInv ==
    \A p \in Players :
        /\ own[p].weight = Cardinality(Afloat(own[p]))
        /\ ViewCounts(view[p]) /\ view[p].weight >= 0
        /\ pc[p] = "read_answer" => view[p].weight > 0

LEMMA CountsAtStart == Init => TypeOK /\ CountInv
<1> SUFFICES ASSUME Init
             PROVE  TypeOK /\ CountInv
  OBVIOUS
<1>1. ASSUME NEW p \in Players
      PROVE  own[p] \in Fields /\ own[p].weight = Cardinality(Afloat(own[p]))
  <2>1. PICK fleet \in Fleets : own[p] = [FieldOf(fleet) EXCEPT !.weight = Weight]
    BY DEF Init
  <2> DEFINE afloat == CellsOf(fleet)
  <2>2. FieldOf(fleet) = [cell |-> [i \in Indices |-> IF i \in afloat THEN "SHIP" ELSE "EMPTY"],
                          weight |-> Cardinality(afloat)]
    BY DEF FieldOf
  <2>3. afloat \subseteq Indices
    BY GameAssumption, IndexInRange DEF IsFleet, CellsOf
  <2> HIDE DEF afloat
  <2>4. /\ own[p] = [cell |-> [i \in Indices |-> IF i \in afloat THEN "SHIP" ELSE "EMPTY"],
                     weight |-> Weight]
        /\ Weight = Cardinality(afloat)
    BY <2>1, <2>2, GameAssumption
  <2>5. Afloat(own[p]) = afloat
    BY <2>3, <2>4 DEF Afloat
  <2>. QED
    BY <2>4, <2>5, GameAssumption DEF Fields, States
<1>2. ASSUME NEW p \in Players
      PROVE  view[p] \in Fields /\ ViewCounts(view[p]) /\ view[p].weight >= 0
  <2>1. view[p] = [cell |-> [i \in Indices |-> "UNKNOWN"], weight |-> Weight]
    BY DEF Init, Filled
  <2>2. Hits(view[p]) = {}
    BY <2>1 DEF Hits
  <2>3. view[p].weight = Weight /\ Weight \in Nat
    BY <2>1, GameAssumption
  <2>4. Cardinality(Hits(view[p])) = 0
    BY <2>2, FS_EmptySet
  <2>5. view[p] \in Fields
    BY <2>1, <2>3 DEF Fields, States
  <2>. QED
    BY <2>3, <2>4, <2>5 DEF ViewCounts
<1>3. own \in [Players -> Fields] /\ view \in [Players -> Fields]
  BY <1>1, <1>2 DEF Init
<1>4. /\ initiative \in [Players -> BOOLEAN] /\ pc \in [Players -> Pc]
      /\ data \in [Players -> Lines \cup {<<>>}] /\ wire \in [Players -> Seq(Bytes)]
      /\ strays \in Nat /\ \A p \in Players : pc[p] # "read_answer"
  BY DEF Init, Pc
<1>. QED
  BY <1>1, <1>2, <1>3, <1>4 DEF TypeOK, CountInv

LEMMA CountsStep == TypeOK /\ CountInv /\ [Next]_vars => TypeOK' /\ CountInv'
<1> SUFFICES ASSUME TypeOK, CountInv, [Next]_vars
             PROVE  TypeOK' /\ CountInv'
  OBVIOUS
<1>1. CASE UNCHANGED vars
  BY <1>1 DEF vars, fields, TypeOK, CountInv
<1>2. ASSUME NEW p \in Players, TypeShot(p)
      PROVE  TypeOK' /\ CountInv'
  <2>1. PICK line \in Lines :
           /\ data' = [data EXCEPT ![p] = line]
           /\ wire' = [wire EXCEPT ![Other(p)] = @ \o line]
           /\ strays' = IF line \in ProperShots THEN strays ELSE strays + 1
    BY <1>2 DEF TypeShot
  <2>2. line \in Seq(Bytes)
    BY GameAssumption
  <2>3. wire[Other(p)] \o line \in Seq(Bytes)
    BY <2>2, TwoPlayers, ConcatProperties DEF TypeOK
  <2>4. view[p].weight \in Int /\ view[p].weight > 0
    BY <1>2 DEF TypeOK, CountInv, Fields, TypeShot, IsGameEnded, IsLoser
  <2>5. /\ pc' = [pc EXCEPT ![p] = "read_answer"]
        /\ UNCHANGED <<own, view, initiative>>
    BY <1>2 DEF TypeShot, fields
  <2>6. TypeOK'
    <3>1. strays' \in Nat
      BY <2>1 DEF TypeOK
    <3>2. wire' \in [Players -> Seq(Bytes)]
      BY <2>1, <2>3 DEF TypeOK
    <3>3. data' \in [Players -> Lines \cup {<<>>}] /\ pc' \in [Players -> Pc]
      BY <2>1, <2>5 DEF TypeOK, Pc
    <3>. QED
      BY <2>5, <3>1, <3>2, <3>3 DEF TypeOK
  <2>7. CountInv'
    BY <2>4, <2>5 DEF CountInv, TypeOK
  <2>. QED
    BY <2>6, <2>7
<1>3. ASSUME NEW p \in Players, Quit(p)
      PROVE  TypeOK' /\ CountInv'
  BY <1>3 DEF Quit, fields, TypeOK, CountInv, Pc
<1>4. ASSUME NEW p \in Players, UNCHANGED strays,
             EndGame(p) \/ ReadFails(p)
      PROVE  TypeOK' /\ CountInv'
  BY <1>4 DEF EndGame, ReadFails, fields, TypeOK, CountInv, Pc
<1>5. ASSUME NEW p \in Players, ReadAnswerByte(p)
      PROVE  /\ own' = own
             /\ data' \in [Players -> Lines \cup {<<>>}] /\ wire' \in [Players -> Seq(Bytes)]
  <2>1. Tail(wire[p]) \in Seq(Bytes)
    BY <1>5, HeadTailProperties DEF ReadAnswerByte, TypeOK
  <2>. QED
    BY <1>5, <2>1 DEF ReadAnswerByte, TypeOK
<1>6. ASSUME NEW p \in Players, UNCHANGED strays,
             MarkOutside(p) \/ IgnoreAnswer(p)
      PROVE  TypeOK' /\ CountInv'
  <2>1. ReadAnswerByte(p)
    BY <1>6 DEF MarkOutside, IgnoreAnswer
  <2>2. /\ pc' = [pc EXCEPT ![p] = "loop"] \/ pc' = [pc EXCEPT ![p] = "undefined"]
        /\ UNCHANGED <<view, initiative>>
    BY <1>6 DEF MarkOutside, IgnoreAnswer
  <2>. QED
    BY <1>5, <1>6, <2>1, <2>2 DEF TypeOK, CountInv, Pc
<1>7. ASSUME NEW p \in Players, UNCHANGED strays, ReadAnswer(p)
      PROVE  TypeOK' /\ CountInv'
  <2>1. PICK move : /\ Exists(move)
                    /\ view' = [view EXCEPT ![p] = Mark(@, Head(wire[p]), move)]
    BY <1>7 DEF ReadAnswer
  <2>2. /\ pc[p] = "read_answer" /\ pc' = [pc EXCEPT ![p] = "loop"]
        /\ initiative' = [initiative EXCEPT ![p] = KeepsTurn(p, Head(wire[p]))]
        /\ ReadAnswerByte(p) /\ IsAnswer(Head(wire[p]))
    BY <1>7 DEF ReadAnswer, ReadAnswerByte
  <2> DEFINE g == Mark(view[p], Head(wire[p]), move)
  <2>3. g \in Fields /\ ViewCounts(g) /\ g.weight >= 0
    BY <2>1, <2>2, MarkIsCounted DEF TypeOK, CountInv, Exists
  <2>4. view' = [view EXCEPT ![p] = g]
    BY <2>1
  <2> HIDE DEF g
  <2>5. KeepsTurn(p, Head(wire[p])) \in BOOLEAN
    BY DEF KeepsTurn, TypeOK
  <2>6. TypeOK'
    BY <1>5, <1>7, <2>2, <2>3, <2>4, <2>5 DEF TypeOK, Pc
  <2>7. CountInv'
    BY <1>5, <2>2, <2>3, <2>4 DEF TypeOK, CountInv
  <2>. QED
    BY <2>6, <2>7
<1>8. ASSUME NEW p \in Players, Len(wire[p]) >= 2
      PROVE  AfterTwoBytes(p) \in [Players -> Seq(Bytes)]
  <2>1. wire[p] \in Seq(Bytes)
    BY DEF TypeOK
  <2>2. SubSeq(wire[p], 3, Len(wire[p])) \in Seq(Bytes)
    BY <1>8, <2>1, SubSeqProperties
  <2>. QED
    BY <2>2 DEF AfterTwoBytes, TypeOK
<1>9. ASSUME NEW p \in Players, UNCHANGED strays,
             ShootOutside(p) \/ IgnoreShot(p)
      PROVE  TypeOK' /\ CountInv'
  <2>1. /\ wire' = AfterTwoBytes(p) /\ wire' \in [Players -> Seq(Bytes)]
        /\ pc' = pc \/ pc' = [pc EXCEPT ![p] = "undefined"]
        /\ UNCHANGED <<own, view, initiative, data>>
    BY <1>8, <1>9 DEF ShootOutside, IgnoreShot, fields
  <2>. QED
    BY <1>9, <2>1 DEF TypeOK, CountInv, Pc
<1>10. ASSUME NEW p \in Players, UNCHANGED strays, ReadShot(p)
       PROVE  TypeOK' /\ CountInv'
  <2> DEFINE move == ParseMove(TwoBytes(p))
             r == ShotResult(own[p], move[1], move[2])
             g == Shoot(own[p], move[1], move[2])
  <2>1. /\ Exists(move) /\ Len(wire[p]) >= 2
        /\ own' = [own EXCEPT ![p] = g]
        /\ initiative' = [initiative EXCEPT ![p] = r = "MISS"]
        /\ wire' = [AfterTwoBytes(p) EXCEPT ![Other(p)] = Append(@, AnswerByte[r])]
        /\ UNCHANGED <<view, pc, data>>
    BY <1>10 DEF ReadShot
  <2>2. g \in Fields /\ g.weight = Cardinality(Afloat(g)) /\ r \in {"MISS", "HIT", "KILL"}
    BY <2>1, ShotIsCounted DEF TypeOK, CountInv, Exists
  <2> HIDE DEF move, r, g
  <2>3. wire' \in [Players -> Seq(Bytes)]
    <3>1. AnswerByte[r] \in Bytes
      BY <2>2, AnswersAreBytes
    <3>2. AfterTwoBytes(p) \in [Players -> Seq(Bytes)]
      BY <1>8, <2>1
    <3>3. Append(AfterTwoBytes(p)[Other(p)], AnswerByte[r]) \in Seq(Bytes)
      BY <3>1, <3>2, TwoPlayers, AppendProperties
    <3>. QED
      BY <2>1, <3>2, <3>3
  <2>4. (r = "MISS") \in BOOLEAN
    OBVIOUS
  <2>5. TypeOK'
    BY <1>10, <2>1, <2>2, <2>3, <2>4 DEF TypeOK
  <2>6. CountInv'
    BY <2>1, <2>2 DEF TypeOK, CountInv
  <2>. QED
    BY <2>5, <2>6
<1>. QED
  BY <1>1, <1>2, <1>3, <1>4, <1>6, <1>7, <1>9, <1>10 DEF Next, Step

-----------------------------------------------------------------------------
(* The operators of the instance are those of SeabattleField                 *)

LEMMA SameField ==
    /\ Shots!Coords = Coords /\ Shots!Indices = Indices /\ Shots!Fields = Fields
    /\ \A s : (Shots!IsFleet(s) <=> IsFleet(s)) /\ Shots!FieldOf(s) = FieldOf(s)
    /\ \A s, w : Shots!Filled(s, w) = Filled(s, w)
    /\ \A x, y : Shots!Index(x, y) = Index(x, y)
    /\ \A f : Shots!IsLoser(f) <=> IsLoser(f)
<1>1. Shots!Coords = Coords /\ Shots!Indices = Indices /\ \A x, y : Shots!Index(x, y) = Index(x, y)
  BY DEF Shots!Coords, Coords, Shots!Indices, Indices, Shots!Index, Index
<1>2. Shots!Fields = Fields
  BY <1>1 DEF Shots!Fields, Fields, Shots!States, States
<1>3. \A s : (Shots!IsFleet(s) <=> IsFleet(s))
  BY <1>1 DEF Shots!IsFleet, IsFleet, Shots!ShipCells, ShipCells, Shots!DxDy, DxDy,
              Shots!Apart, Apart, Shots!Near, Near
<1>4. \A s : Shots!FieldOf(s) = FieldOf(s)
  <2>1. \A S : Shots!Cardinality(S) = Cardinality(S)
    BY Zenon DEF Shots!Cardinality, Cardinality
  <2>. QED
    BY <1>1, <2>1 DEF Shots!FieldOf, FieldOf, Shots!CellsOf, CellsOf
<1>5. \A s, w : Shots!Filled(s, w) = Filled(s, w)
  BY <1>1 DEF Shots!Filled, Filled
<1>6. \A f : Shots!IsLoser(f) <=> IsLoser(f)
  BY DEF Shots!IsLoser, IsLoser
<1>. QED
  BY <1>1, <1>2, <1>3, <1>4, <1>5, <1>6

LEMMA SameShots ==
    \A f, x, y :
        /\ Shots!Shoot(f, x, y) = Shoot(f, x, y)
        /\ Shots!ShotResult(f, x, y) = ShotResult(f, x, y)
        /\ Shots!MarkMiss(f, x, y) = MarkMiss(f, x, y)
        /\ Shots!MarkHit(f, x, y) = MarkHit(f, x, y)
        /\ Shots!MarkKill(f, x, y) = MarkKill(f, x, y)
<1>1. \A f, x, y : Shots!Shoot(f, x, y) = Shoot(f, x, y)
  BY DEF Shots!Shoot, Shoot, Shots!Get, Get, Shots!Put, Put, Shots!Index, Index
<1>2. \A f, x, y, d : Shots!Walk(f, x, y, d) = Walk(f, x, y, d)
  BY DEF Shots!Walk, Walk, Shots!InField, InField, Shots!Coords, Coords,
         Shots!Get, Get, Shots!Index, Index
<1>3. \A f, x, y : Shots!IsKilled(f, x, y) <=> IsKilled(f, x, y)
  BY <1>2 DEF Shots!IsKilled, IsKilled, Shots!Get, Get, Shots!Index, Index,
              Shots!Directions, Directions
<1>4. \A f, x, y : Shots!ShotResult(f, x, y) = ShotResult(f, x, y)
  BY <1>1, <1>3 DEF Shots!ShotResult, ShotResult, Shots!Get, Get, Shots!Index, Index
<1>5. \A f, x, y : Shots!MarkMiss(f, x, y) = MarkMiss(f, x, y)
  BY DEF Shots!MarkMiss, MarkMiss, Shots!Get, Get, Shots!Put, Put, Shots!Index, Index
<1>6. \A f, x, y : Shots!MarkHit(f, x, y) = MarkHit(f, x, y)
  BY DEF Shots!MarkHit, MarkHit, Shots!Get, Get, Shots!Put, Put, Shots!Index, Index
<1>7. \A f, x, y : Shots!Around(f, x, y) = Around(f, x, y)
  BY <1>2 DEF Shots!Around, Around, Shots!Directions, Directions
<1>8. \A f, x, y : Shots!MarkKill(f, x, y) = MarkKill(f, x, y)
  BY <1>6, <1>7, SameField DEF Shots!MarkKill, MarkKill, Shots!Get, Get, Shots!InField, InField
<1>. QED
  BY <1>1, <1>4, <1>5, <1>6, <1>8
-----------------------------------------------------------------------------
(* Shots as both ends see them, while only proper shots are typed            *)

PairKept(p) == own'[Other(p)] = own[Other(p)] /\ Picture(p)' = Picture(p)

(* p's shot at (x, y): what Shoot does on one side and, once the answer is   *)
(* marked, Mark on the other.                                                *)
FireOf(p, x, y) ==
    /\ ~IsLoser(own[Other(p)])
    /\ own'[Other(p)] = Shoot(own[Other(p)], x, y)
    /\ Picture(p)' = Mark(Picture(p), AnswerByte[ShotResult(own[Other(p)], x, y)], <<x, y>>)

LEMMA WeightsAgree ==
    ASSUME NEW p \in Players, PairSound(p)
    PROVE  own[Other(p)].weight = Picture(p).weight
BY DEF PairSound, Shots!Sound

(* With no answer on its way both programs see the end or neither does.      *)
LEMMA EndsAgree ==
    ASSUME PairsSound, NEW p \in Players, ~Pending(p), ~Pending(Other(p))
    PROVE  IsGameEnded(p) <=> IsGameEnded(Other(p))
<1>1. PairSound(p) /\ PairSound(Other(p)) /\ Other(Other(p)) = p /\ Other(p) \in Players
  BY TwoPlayers DEF PairsSound
<1>2. own[Other(p)].weight = view[p].weight
  BY <1>1, WeightsAgree DEF Picture
<1>3. own[p].weight = view[Other(p)].weight
  BY <1>1, WeightsAgree DEF Picture
<1>. QED
  BY <1>2, <1>3 DEF IsGameEnded, IsLoser

(* No answer is on its way to a program that waits for none.                *)
LEMMA NoAnswerInLoop ==
    ASSUME InPhase, NEW r \in Players, pc[r] = "loop", wire[r] # <<>>
    PROVE  ~IsAnswer(wire[r][1])
<1>1. PICK p \in Players : Calm(p) \/ Fired(p) \/ Replied(p) \/ Crossing(p)
  BY DEF InPhase
<1>2. r = p \/ r = Other(p)
  BY TwoPlayers
<1>3. r = Other(p) /\ Fired(p)
  BY <1>1, <1>2 DEF Calm, Fired, Replied, Crossing, At
<1>. QED
  BY <1>3, ProperShotRead DEF Fired

(* Who reads an answer has shot and not yet been answered.                   *)
LEMMA AnswerExpected ==
    ASSUME InPhase, NEW r \in Players, ReadAnswerByte(r)
    PROVE  /\ Replied(r) \/ Crossing(r)
           /\ IsAnswer(Head(wire[r])) /\ Head(wire[r]) = wire[r][1]
           /\ Exists(ParseMove(data[r])) /\ ParseMove(data[r]) # None
<1>1. PICK p \in Players : Calm(p) \/ Fired(p) \/ Replied(p) \/ Crossing(p)
  BY DEF InPhase
<1>2. pc[r] = "read_answer" /\ wire[r] # <<>>
  BY DEF ReadAnswerByte
<1>3. r = p \/ r = Other(p)
  BY TwoPlayers
<1>4. Replied(r) \/ Crossing(r)
  <2>1. ~Calm(p)
    BY <1>2, <1>3 DEF Calm, At
  <2>2. ~Fired(p)
    BY <1>2, <1>3 DEF Fired, At
  <2>3. Replied(p) \/ Crossing(p) => wire[Other(p)] = <<>>
    BY DEF Replied, Crossing
  <2>. QED
    BY <1>1, <1>2, <1>3, <2>1, <2>2, <2>3
<1>5. Exists(ParseMove(data[r])) /\ ParseMove(data[r]) # None
  BY <1>4, ProperShotRead DEF Replied, Crossing, Exists
<1>6. CASE Replied(r)
  <2>1. PICK a \in {"MISS", "HIT", "KILL"} : wire[r] = <<AnswerByte[a]>>
    BY <1>6 DEF Replied, AnswerByte
  <2>. QED
    BY <1>4, <1>5, <2>1, AnswersAreBytes, BehindAnswer
<1>7. CASE Crossing(r)
  <2>1. data[Other(r)] \in Seq(Bytes)
    BY <1>7, ProperShotRead DEF Crossing
  <2>2. wire[r] = <<AnswerByte["MISS"]>> \o data[Other(r)]
    BY <1>7 DEF Crossing
  <2>. QED
    BY <1>4, <1>5, <2>1, <2>2, AnswersAreBytes, BehindAnswer
<1>. QED
  BY <1>4, <1>6, <1>7

(* Who reads two bytes reads the shot that the other player typed.           *)
LEMMA ShotExpected ==
    ASSUME TypeOK, InPhase, NEW r \in Players, AtReadShot(r), Len(wire[r]) >= 2
    PROVE  /\ Fired(Other(r))
           /\ TwoBytes(r) = data[Other(r)] /\ SubSeq(wire[r], 3, Len(wire[r])) = <<>>
           /\ Exists(ParseMove(TwoBytes(r))) /\ ParseMove(TwoBytes(r)) \in Coords \X Coords
<1>1. PICK p \in Players : Calm(p) \/ Fired(p) \/ Replied(p) \/ Crossing(p)
  BY DEF InPhase
<1>2. pc[r] = "loop" /\ ~initiative[r] /\ wire[r] # <<>>
  BY DEF AtReadShot
<1>3. r = p \/ r = Other(p)
  BY TwoPlayers
<1>4. r = Other(p) /\ Fired(p)
  BY <1>1, <1>2, <1>3 DEF Calm, Fired, Replied, Crossing, At
<1>5. p = Other(r)
  BY <1>4, TwoPlayers
<1>. QED
  BY <1>4, <1>5, ProperShotRead DEF Fired, TwoBytes

LEMMA LeavingKeepsPairs ==
    ASSUME TypeOK, InPhase, NEW r \in Players, Quit(r) \/ EndGame(r) \/ ReadFails(r), NEW p \in Players
    PROVE  PairKept(p)
<1>1. /\ own' = own /\ view' = view /\ data' = data /\ wire' = wire
      /\ \E g \in Gone : pc' = [pc EXCEPT ![r] = g]
  BY DEF Quit, EndGame, ReadFails, fields, Gone
<1>2. p # r => pc'[p] = pc[p]
  BY <1>1 DEF TypeOK
<1>3. CASE p # r
  BY <1>1, <1>2, <1>3 DEF PairKept, Picture, Pending
<1>4. CASE p = r /\ Quit(r)
  <2>1. pc[p] \in {"loop", "read_answer"} /\ pc'[p] = "quit"
    BY <1>4 DEF Quit, TypeOK
  <2>2. pc[p] = "loop" => wire[p] = <<>> \/ ~IsAnswer(wire[p][1])
    BY NoAnswerInLoop
  <2>3. Pending(p) <=> Pending(p)'
    BY <1>1, <2>1, <2>2 DEF Pending
  <2>. QED
    BY <1>1, <2>3 DEF PairKept, Picture
<1>5. CASE p = r /\ (EndGame(r) \/ ReadFails(r))
  <2>1. pc'[p] \in {"over", "error"} /\ (pc[p] = "loop" \/ wire[p] = <<>>)
    BY <1>5 DEF EndGame, ReadFails, AtReadShot, TypeOK
  <2>2. ~Pending(p) /\ ~(Pending(p)')
    BY <2>1 DEF Pending
  <2>. QED
    BY <1>1, <2>2 DEF PairKept, Picture
<1>. QED
  BY <1>3, <1>4, <1>5

LEMMA ShotKeepsPairs ==
    ASSUME TypeOK, InPhase, NEW r \in Players, TypeShot(r), strays = 0, strays' = 0,
           NEW p \in Players
    PROVE  PairKept(p)
<1>1. PICK line \in Lines :
        /\ data' = [data EXCEPT ![r] = line]
        /\ wire' = [wire EXCEPT ![Other(r)] = @ \o line]
        /\ strays' = IF line \in ProperShots THEN strays ELSE strays + 1
  BY DEF TypeShot
<1>2. line \in Seq(Bytes) /\ ~IsAnswer(line[1])
  BY <1>1, ProperShotRead
<1>3. /\ pc[r] = "loop" /\ pc' = [pc EXCEPT ![r] = "read_answer"]
      /\ own' = own /\ view' = view
  BY DEF TypeShot, fields
<1>4. CASE p = r
  <2>1. ~Pending(p) /\ wire'[p] = wire[p]
    BY <1>1, <1>3, <1>4, TwoPlayers DEF Pending, TypeOK
  <2>2. ~(Pending(p)')
    BY <1>4, <1>3, <2>1, NoAnswerInLoop DEF Pending
  <2>. QED
    BY <1>3, <2>1, <2>2 DEF PairKept, Picture
<1>5. CASE p = Other(r)
  <2>1. pc'[p] = pc[p] /\ data'[p] = data[p] /\ wire'[p] = wire[p] \o line
    BY <1>1, <1>3, <1>5, TwoPlayers DEF TypeOK
  <2>2. CASE wire[p] = <<>>
    <3>1. wire'[p] = line
      BY <1>2, <2>1, <2>2, ConcatEmptySeq
    <3>. QED
      BY <1>2, <1>3, <2>2, <3>1 DEF PairKept, Picture, Pending
  <2>3. CASE wire[p] # <<>>
    <3>1. wire'[p] # <<>> /\ wire'[p][1] = wire[p][1]
      <4>1. wire[p] \in Seq(Bytes) /\ Len(wire[p]) > 0
        BY <2>3, EmptySeq, LenProperties DEF TypeOK
      <4>2. /\ wire'[p] \in Seq(Bytes) /\ Len(wire'[p]) = Len(wire[p]) + Len(line)
            /\ \A i \in 1..Len(wire[p]) : wire'[p][i] = wire[p][i]
        BY <1>2, <2>1, <4>1, ConcatProperties
      <4>. QED
        BY <1>2, <4>1, <4>2, EmptySeq, LenProperties
    <3>2. Pending(p) <=> Pending(p)'
      BY <2>1, <2>3, <3>1 DEF Pending
    <3>. QED
      BY <1>3, <2>1, <3>1, <3>2 DEF PairKept, Picture
  <2>. QED
    BY <2>2, <2>3
<1>. QED
  BY <1>4, <1>5, TwoPlayers

LEMMA AnswerKeepsPairs ==
    ASSUME TypeOK, InPhase, NEW r \in Players, ReadAnswer(r), NEW p \in Players
    PROVE  PairKept(p)
<1>1. /\ pc[r] = "read_answer" /\ wire[r] # <<>> /\ own' = own
      /\ wire' = [wire EXCEPT ![r] = Tail(@)]
      /\ data' = [data EXCEPT ![r] = <<>>]
      /\ pc' = [pc EXCEPT ![r] = "loop"]
  BY DEF ReadAnswer, ReadAnswerByte
<1>2. PICK move \in Dereferenced(ParseMove(data[r])) :
          view' = [view EXCEPT ![r] = Mark(@, Head(wire[r]), move)]
  BY DEF ReadAnswer
<1>3. /\ IsAnswer(Head(wire[r])) /\ Head(wire[r]) = wire[r][1]
      /\ ParseMove(data[r]) # None
  BY AnswerExpected DEF ReadAnswer
<1>4. CASE p = r
  <2>1. move = ParseMove(data[p])
    BY <1>2, <1>3, <1>4 DEF Dereferenced
  <2>2. Pending(p)
    BY <1>1, <1>3, <1>4 DEF Pending
  <2>3. ~(Pending(p)')
    BY <1>1, <1>4 DEF Pending, TypeOK
  <2>4. view'[p] = Mark(view[p], wire[p][1], ParseMove(data[p]))
    BY <1>2, <1>3, <1>4, <2>1 DEF TypeOK
  <2>. QED
    BY <1>1, <2>2, <2>3, <2>4 DEF PairKept, Picture
<1>5. CASE p # r
  BY <1>1, <1>2, <1>5 DEF PairKept, Picture, Pending, TypeOK
<1>. QED
  BY <1>4, <1>5

LEMMA ReadShotFires ==
    ASSUME TypeOK, CountInv, InPhase, LeftInv, NEW r \in Players, ReadShot(r)
    PROVE  /\ PairKept(r)
           /\ \E x, y \in Coords : FireOf(Other(r), x, y)
<1> DEFINE move == ParseMove(TwoBytes(r))
           a == ShotResult(own[r], move[1], move[2])
           o == Other(r)
<1>1. AtReadShot(r) /\ Len(wire[r]) >= 2
  BY DEF ReadShot
<1>2. /\ Exists(move)
      /\ own' = [own EXCEPT ![r] = Shoot(@, move[1], move[2])]
      /\ wire' = [AfterTwoBytes(r) EXCEPT ![o] = Append(@, AnswerByte[a])]
      /\ UNCHANGED <<view, pc, data>>
  BY DEF ReadShot
<1>3. a \in {"MISS", "HIT", "KILL"}
  BY <1>2, ShotIsCounted DEF TypeOK, CountInv, Exists
<1>4. Fired(o) /\ move = ParseMove(data[o]) /\ move \in Coords \X Coords /\ move # None
  BY <1>1, <1>2, ShotExpected DEF Exists
<1>5. o \in Players /\ o # r /\ Other(o) = r
  BY TwoPlayers
<1>6. PICK x \in Coords, y \in Coords : move = <<x, y>> /\ move[1] = x /\ move[2] = y
  BY <1>4
<1> HIDE DEF move, o
<1>7. /\ pc[r] = "loop" /\ ~IsLoser(own[r]) /\ wire[o] = <<>> /\ wire[r] = data[o]
      /\ pc[o] \in {"read_answer", "quit"}
  BY <1>1, <1>4, <1>5 DEF AtReadShot, IsGameEnded, Fired, At, LeftInv
<1>8. ~Pending(r) /\ ~(Pending(r)')
  BY <1>2, <1>7 DEF Pending
<1>9. PairKept(r)
  BY <1>2, <1>5, <1>8 DEF PairKept, Picture, o
<1>10. a = ShotResult(own[r], x, y) /\ own'[r] = Shoot(own[r], x, y)
  BY <1>2, <1>6 DEF TypeOK
<1> HIDE DEF a
<1>11. AnswerByte[a] \in Bytes /\ IsAnswer(AnswerByte[a])
  BY <1>3, AnswersAreBytes
<1>12. wire'[o] = <<AnswerByte[a]>>
  <2>1. AfterTwoBytes(r)[o] = <<>> /\ DOMAIN AfterTwoBytes(r) = Players
    BY <1>5, <1>7 DEF AfterTwoBytes, TypeOK
  <2>. QED
    BY <1>2, <1>5, <1>11, <2>1, BehindAnswer
<1>13. ~Pending(o) /\ Pending(o)'
  BY <1>2, <1>7, <1>11, <1>12 DEF Pending
<1>14. Picture(o)' = Mark(Picture(o), AnswerByte[a], <<x, y>>)
  BY <1>2, <1>4, <1>6, <1>12, <1>13 DEF Picture
<1>15. FireOf(o, x, y)
  BY <1>5, <1>7, <1>10, <1>14 DEF FireOf
<1>. QED
  BY <1>9, <1>15 DEF o

(* Every other step is refused or loses nothing of a shot.                   *)
LEMMA PairStep ==
    ASSUME TypeOK, CountInv, InPhase, LeftInv, Next, strays = 0, strays' = 0, NEW p \in Players
    PROVE  PairKept(p) \/ \E x, y \in Coords : FireOf(p, x, y)
<1>1. PICK r \in Players : Step(r) \/ TypeShot(r) \/ Quit(r)
  BY DEF Next
<1>2. CASE TypeShot(r)
  BY <1>2, ShotKeepsPairs
<1>3. CASE Quit(r) \/ EndGame(r) \/ ReadFails(r)
  BY <1>3, LeavingKeepsPairs
<1>4. CASE ReadAnswer(r) \/ MarkOutside(r) \/ IgnoreAnswer(r)
  <2>1. ReadAnswerByte(r)
    BY <1>4 DEF ReadAnswer, MarkOutside, IgnoreAnswer
  <2>2. ReadAnswer(r)
    BY <1>4, <2>1, AnswerExpected DEF MarkOutside, IgnoreAnswer
  <2>. QED
    BY <2>2, AnswerKeepsPairs
<1>5. CASE ReadShot(r) \/ ShootOutside(r) \/ IgnoreShot(r)
  <2>1. AtReadShot(r) /\ Len(wire[r]) >= 2
    BY <1>5 DEF ReadShot, ShootOutside, IgnoreShot
  <2>2. ReadShot(r)
    BY <1>5, <2>1, ShotExpected DEF ShootOutside, IgnoreShot, Exists
  <2>3. PairKept(r) /\ \E x, y \in Coords : FireOf(Other(r), x, y)
    BY <2>2, ReadShotFires
  <2>. QED
    BY <2>3, TwoPlayers
<1>. QED
  BY <1>1, <1>2, <1>3, <1>4, <1>5 DEF Step

(* What SeabattleShots assumes of its constants.                             *)
LEMMA ShotsAssumed ==
    /\ FieldSize \in Nat \ {0} /\ FieldSize - 1 \in Nat
    /\ \A fleet \in Fleets : Shots!IsFleet(fleet) /\ Shots!FieldOf(fleet).weight = Weight
BY GameAssumption, FieldSizeAssumption, SameField

LEMMA MarkOfAnswer ==
    ASSUME NEW a \in {"MISS", "HIT", "KILL"}, NEW g, NEW x, NEW y
    PROVE  Mark(g, AnswerByte[a], <<x, y>>) = Shots!Mark(g, a, x, y)
<1>1. AnswerByte["MISS"] # AnswerByte["HIT"] /\ AnswerByte["MISS"] # AnswerByte["KILL"]
      /\ AnswerByte["HIT"] # AnswerByte["KILL"]
  BY DEF AnswerByte, Digit
<1>. QED
  BY <1>1, SameShots DEF Mark, Shots!Mark

(* Both ends keep the picture right (FireIsSound of SeabattleShotsProofs).   *)
LEMMA PairsStaySound ==
    ASSUME TypeOK, CountInv, InPhase, LeftInv, PairsSound, Next, strays = 0, strays' = 0
    PROVE  PairsSound'
<1> SUFFICES ASSUME NEW p \in Players
             PROVE  PairSound(p)'
  BY DEF PairsSound
<1>1. PICK fleet \in Fleets : Shots!Sound(own[Other(p)], Picture(p), fleet)
  BY DEF PairsSound, PairSound
<1>2. CASE PairKept(p)
  <2>1. Shots!Sound(own'[Other(p)], Picture(p)', fleet)
    BY <1>1, <1>2 DEF PairKept
  <2>. QED
    BY <2>1 DEF PairSound
<1>3. ASSUME NEW x \in Coords, NEW y \in Coords, FireOf(p, x, y)
      PROVE  PairSound(p)'
  <2> DEFINE f == own[Other(p)]
             g == Picture(p)
             a == ShotResult(f, x, y)
  <2>1. Shots!IsFleet(fleet) /\ x \in Nat /\ y \in Shots!Coords /\ Shots!Index(x, y) \in Shots!Indices
    BY GameAssumption, FieldSizeAssumption, IndexInRange, SameField DEF Coords
  <2>2. Shots!Sound(Shots!Shoot(f, x, y), Shots!Mark(g, Shots!ShotResult(f, x, y), x, y), fleet)
    BY <1>1, <2>1, Shots!FireIsSound, ShotsAssumed
  <2>3. a \in {"MISS", "HIT", "KILL"}
    BY DEF ShotResult
  <2>4. /\ Shots!Shoot(f, x, y) = own'[Other(p)]
        /\ Shots!Mark(g, Shots!ShotResult(f, x, y), x, y) = Picture(p)'
    BY <1>3, <2>3, SameShots, MarkOfAnswer DEF FireOf
  <2>5. Shots!Sound(own'[Other(p)], Picture(p)', fleet)
    BY <2>2, <2>4
  <2>. QED
    BY <2>5 DEF PairSound
<1>. QED
  BY <1>2, <1>3, PairStep

-----------------------------------------------------------------------------
(* Turns, while only proper shots are typed                                  *)

(* A player kills the program.                                               *)
LEMMA QuitKeepsPhase ==
    ASSUME TypeOK, InPhase, LeftInv, NEW r \in Players, Quit(r)
    PROVE  InPhase' /\ LeftInv'
<1>1. PICK p \in Players : Calm(p) \/ Fired(p) \/ Replied(p) \/ Crossing(p)
  BY DEF InPhase
<1>2. /\ UNCHANGED <<own, view, initiative, data, wire>>
      /\ pc' = [pc EXCEPT ![r] = "quit"]
  BY DEF Quit, fields
<1>3. \A s \in Players : pc'[s] = pc[s] \/ pc'[s] = "quit"
  BY <1>2 DEF TypeOK
<1>4. \A s \in Players : IsGameEnded(s)' <=> IsGameEnded(s)
  BY <1>2 DEF IsGameEnded
<1>5. \A s \in Players : \A places : At(s, places) => pc'[s] \in places \cup {"quit", "error"}
  BY <1>3 DEF At
<1>6. Calm(p)' \/ Fired(p)' \/ Replied(p)' \/ Crossing(p)'
  BY <1>1, <1>2, <1>4, <1>5, TwoPlayers DEF Calm, Fired, Replied, Crossing, At
<1>7. LeftInv'
  BY <1>3, <1>4, TwoPlayers DEF LeftInv
<1>. QED
  BY <1>6, <1>7 DEF InPhase

(* The program leaves the loop of StartGame: between two turns, or when the  *)
(* shooter has the last answer to read.                                      *)
LEMMA EndKeepsPhase ==
    ASSUME TypeOK, InPhase, LeftInv, NEW r \in Players, EndGame(r)
    PROVE  InPhase' /\ LeftInv'
<1>1. PICK p \in Players : Calm(p) \/ Fired(p) \/ Replied(p) \/ Crossing(p)
  BY DEF InPhase
<1>2. /\ UNCHANGED <<own, view, initiative, data, wire>>
      /\ pc[r] = "loop" /\ pc' = [pc EXCEPT ![r] = "over"] /\ IsGameEnded(r)
  BY DEF EndGame, fields
<1>3. \A s \in Players : (s # r => pc'[s] = pc[s]) /\ (IsGameEnded(s)' <=> IsGameEnded(s))
  BY <1>2 DEF TypeOK, IsGameEnded
<1>4. pc'[r] = "over" /\ (r = p \/ r = Other(p))
  BY <1>2, TwoPlayers DEF TypeOK
<1>5. ~Fired(p) /\ ~Crossing(p)
  BY <1>2, <1>4 DEF Fired, Crossing, At
<1>6. LeftInv'
  BY <1>2, <1>3, <1>4, TwoPlayers DEF LeftInv
<1>7. CASE Calm(p)
  <2>1. Calm(p)'
    BY <1>2, <1>3, <1>4, <1>7, TwoPlayers DEF Calm, At
  <2>. QED
    BY <1>6, <2>1 DEF InPhase
<1>8. CASE Replied(p)
  <2>1. r = Other(p)
    BY <1>2, <1>4, <1>8 DEF Replied, At
  <2>2. Replied(p)'
    BY <1>2, <1>3, <1>4, <1>8, <2>1, TwoPlayers DEF Replied, At
  <2>. QED
    BY <1>6, <2>2 DEF InPhase
<1>. QED
  BY <1>1, <1>5, <1>7, <1>8

(* A read fails only because the other player has quit: a program that is    *)
(* over has left behind it one that is over as well or has an answer.        *)
LEMMA FailedReadMeansQuit ==
    ASSUME TypeOK, InPhase, LeftInv, PairsSound, NEW r \in Players, ReadFails(r)
    PROVE  pc[Other(r)] = "quit"
<1>1. PICK p \in Players : Calm(p) \/ Fired(p) \/ Replied(p) \/ Crossing(p)
  BY DEF InPhase
<1>2. /\ pc[r] \in {"loop", "read_answer"} /\ pc[Other(r)] \in {"over", "error", "quit"}
      /\ pc[r] = "read_answer" => wire[r] = <<>>
      /\ pc[r] = "loop" => ~IsGameEnded(r) /\ ~initiative[r] /\ Len(wire[r]) < 2
  BY DEF ReadFails, AtReadShot, Gone
<1>3. pc[Other(r)] # "error"
  BY <1>2, TwoPlayers DEF LeftInv
<1>4. pc[Other(r)] = "over" => IsGameEnded(Other(r))
  BY TwoPlayers DEF LeftInv
<1>5. r = p \/ r = Other(p)
  BY TwoPlayers
<1>6. Other(p) \in Players /\ Other(Other(p)) = p /\ p # Other(p)
  BY TwoPlayers
<1>7. CASE Calm(p)
  <2>1. pc[r] = "loop"
    BY <1>2, <1>5, <1>7 DEF Calm, At
  <2>2. ~Pending(r) /\ ~Pending(Other(r))
    BY <1>5, <1>6, <1>7 DEF Calm, Pending
  <2>. QED
    BY <1>2, <1>3, <1>4, <2>1, <2>2, EndsAgree
<1>8. CASE Fired(p)
  <2>1. ASSUME r = Other(p)
        PROVE  FALSE
    <3>1. Len(data[p]) = 2 /\ wire[r] = data[p] /\ pc[r] # "read_answer"
      BY <1>8, <2>1, ProperShotRead DEF Fired, At
    <3>2. Len(wire[r]) < 2
      BY <1>2, <3>1
    <3>3. Len(wire[r]) = 2
      BY Zenon, <3>1
    <3>. QED
      BY <3>2, <3>3
  <2>. QED
    BY <1>2, <1>3, <1>4, <1>5, <1>8, <2>1 DEF Fired
<1>9. CASE Replied(p)
  <2>1. PICK a \in {"MISS", "HIT", "KILL"} : wire[p] = <<AnswerByte[a]>>
    BY <1>9 DEF Replied, AnswerByte
  <2>2. wire[p] # <<>>
    BY <2>1
  <2>3. r = Other(p)
    BY <1>2, <1>5, <1>9, <2>2 DEF Replied, At
  <2>. QED
    BY <1>2, <1>3, <1>6, <1>9, <2>3 DEF Replied, At
<1>10. CASE Crossing(p)
  <2>1. wire[p] # <<>>
    <3>1. data[Other(p)] \in Seq(Bytes)
      BY <1>10, ProperShotRead DEF Crossing
    <3>. QED
      BY <1>10, <3>1, AnswersAreBytes, BehindAnswer DEF Crossing
  <2>2. r = Other(p)
    BY <1>2, <1>5, <1>10, <2>1 DEF Crossing, At
  <2>. QED
    BY <1>2, <1>3, <1>6, <1>10, <2>2 DEF Crossing, At
<1>. QED
  BY <1>1, <1>7, <1>8, <1>9, <1>10

LEMMA FailedReadKeepsPhase ==
    ASSUME TypeOK, InPhase, LeftInv, PairsSound, NEW r \in Players, ReadFails(r)
    PROVE  InPhase' /\ LeftInv'
<1>1. PICK p \in Players : Calm(p) \/ Fired(p) \/ Replied(p) \/ Crossing(p)
  BY DEF InPhase
<1>2. /\ UNCHANGED <<own, view, initiative, data, wire>>
      /\ pc' = [pc EXCEPT ![r] = "error"]
  BY DEF ReadFails, fields
<1>3. \A s \in Players : /\ pc'[s] = pc[s] \/ pc'[s] = "error"
                         /\ s # r => pc'[s] = pc[s]
                         /\ IsGameEnded(s)' <=> IsGameEnded(s)
  BY <1>2 DEF TypeOK, IsGameEnded
<1>4. \A s \in Players : \A places : At(s, places) => pc'[s] \in places \cup {"quit", "error"}
  BY <1>3 DEF At
<1>5. Calm(p)' \/ Fired(p)' \/ Replied(p)' \/ Crossing(p)'
  BY <1>1, <1>2, <1>3, <1>4, TwoPlayers DEF Calm, Fired, Replied, Crossing, At
<1>6. pc'[Other(r)] = "quit"
  BY <1>3, FailedReadMeansQuit, TwoPlayers
<1>7. LeftInv'
  BY <1>3, <1>6, TwoPlayers DEF LeftInv
<1>. QED
  BY <1>5, <1>7 DEF InPhase

LEMMA ShotKeepsPhase ==
    ASSUME TypeOK, InPhase, LeftInv, PairsSound, NEW r \in Players, TypeShot(r),
           strays = 0, strays' = 0
    PROVE  InPhase' /\ LeftInv'
<1>1. PICK p \in Players : Calm(p) \/ Fired(p) \/ Replied(p) \/ Crossing(p)
  BY DEF InPhase
<1>2. PICK line \in Lines :
        /\ data' = [data EXCEPT ![r] = line]
        /\ wire' = [wire EXCEPT ![Other(r)] = @ \o line]
        /\ strays' = IF line \in ProperShots THEN strays ELSE strays + 1
  BY DEF TypeShot
<1>3. line \in ProperShots /\ line \in Seq(Bytes) /\ <<>> \o line = line
  BY <1>2, ProperShotRead, ConcatEmptySeq
<1>4. /\ pc[r] = "loop" /\ initiative[r] /\ ~IsGameEnded(r)
      /\ pc' = [pc EXCEPT ![r] = "read_answer"] /\ UNCHANGED <<own, view, initiative>>
  BY DEF TypeShot, fields
<1>5. \A s \in Players : IsGameEnded(s)' <=> IsGameEnded(s)
  BY <1>4 DEF IsGameEnded
<1>6. r = p \/ r = Other(p)
  BY TwoPlayers
<1>7. LeftInv'
  BY <1>4, <1>5, TwoPlayers DEF LeftInv, TypeOK
<1>8. CASE Calm(p)
  <2>1. r = p
    BY <1>4, <1>6, <1>8 DEF Calm
  <2>2. ~Pending(p) /\ ~Pending(Other(p))
    BY <1>8 DEF Calm, Pending
  <2>3. ~IsGameEnded(Other(p))
    BY <1>4, <2>1, <2>2, EndsAgree
  <2>4. At(Other(p), {"loop"})
    BY <1>8, <2>3, TwoPlayers DEF Calm, At, LeftInv
  <2>5. Fired(p)'
    BY <1>2, <1>3, <1>4, <1>5, <1>8, <2>1, <2>3, <2>4, TwoPlayers DEF Calm, Fired, At, TypeOK
  <2>. QED
    BY <1>7, <2>5 DEF InPhase
<1>9. ~Fired(p) /\ ~Crossing(p)
  BY <1>4, <1>6 DEF Fired, Crossing, At
<1>10. CASE Replied(p)
  <2>1. r = Other(p)
    BY <1>4, <1>6, <1>10 DEF Replied, At
  <2>2. wire[p] = <<AnswerByte["MISS"]>>
    BY <1>4, <1>10, <2>1 DEF Replied
  <2>3. Crossing(p)'
    BY <1>2, <1>3, <1>4, <1>5, <1>10, <2>1, <2>2, TwoPlayers DEF Replied, Crossing, At, TypeOK
  <2>. QED
    BY <1>7, <2>3 DEF InPhase
<1>. QED
  BY <1>1, <1>8, <1>9, <1>10

LEMMA AnswerKeepsPhase ==
    ASSUME TypeOK, InPhase, LeftInv, PairsSound', NEW p \in Players, ReadAnswer(p)
    PROVE  InPhase' /\ LeftInv'
<1> DEFINE o == Other(p)
<1>1. o \in Players /\ o # p /\ Other(o) = p
  BY TwoPlayers
<1>2. /\ pc[p] = "read_answer" /\ own' = own
      /\ wire' = [wire EXCEPT ![p] = Tail(@)]
      /\ data' = [data EXCEPT ![p] = <<>>]
      /\ initiative' = [initiative EXCEPT ![p] = KeepsTurn(p, Head(wire[p]))]
      /\ pc' = [pc EXCEPT ![p] = "loop"]
      /\ view'[o] = view[o]
  BY <1>1 DEF ReadAnswer, ReadAnswerByte, TypeOK
<1>3. Replied(p) \/ Crossing(p)
  BY AnswerExpected DEF ReadAnswer
<1> HIDE DEF o
<1>4. /\ pc'[p] = "loop" /\ pc'[o] = pc[o] /\ initiative'[o] = initiative[o]
      /\ initiative'[p] = KeepsTurn(p, Head(wire[p]))
      /\ wire'[p] = Tail(wire[p]) /\ wire'[o] = wire[o] /\ data'[o] = data[o]
  BY <1>1, <1>2 DEF TypeOK
<1>5. IsGameEnded(o)' <=> IsGameEnded(o)
  BY <1>2 DEF IsGameEnded
<1>6. LeftInv'
  BY <1>1, <1>2, <1>4, <1>5, TwoPlayers DEF LeftInv, o
<1>7. CASE Replied(p)
  <2>1. PICK a \in {"MISS", "HIT", "KILL"} :
          wire[p] = <<AnswerByte[a]>> /\ (initiative[o] <=> a = "MISS")
    BY <1>7 DEF Replied, AnswerByte, o
  <2>2. /\ Head(wire[p]) = AnswerByte[a] /\ Tail(wire[p]) = <<>>
        /\ AnswerByte[a] = AnswerByte["MISS"] <=> a = "MISS"
    BY <2>1, AnswersAreBytes, BehindAnswer
  <2>3. initiative'[p] <=> a # "MISS"
    BY <1>4, <1>7, <2>2 DEF Replied, KeepsTurn
  <2>4. /\ wire'[p] = <<>> /\ wire'[o] = <<>>
        /\ pc'[o] \in {"loop", "over", "quit", "error"}
    BY <1>4, <1>7, <2>2 DEF Replied, At, o
  <2>5. CASE a = "MISS"
    <3>1. Calm(o)'
      BY <1>1, <1>4, <2>1, <2>3, <2>4, <2>5 DEF Calm, At
    <3>. QED
      BY <1>1, <1>6, <3>1 DEF InPhase
  <2>6. CASE a # "MISS"
    <3>1. Calm(p)'
      BY <1>4, <2>1, <2>3, <2>4, <2>6 DEF Calm, At, o
    <3>. QED
      BY <1>6, <3>1 DEF InPhase
  <2>. QED
    BY <2>5, <2>6
<1>8. CASE Crossing(p)
  <2>1. /\ data[o] \in ProperShots /\ wire[o] = <<>> /\ initiative[o] /\ ~IsGameEnded(o)
        /\ wire[p] = <<AnswerByte["MISS"]>> \o data[o]
        /\ pc[o] \in {"read_answer", "quit", "error"}
    BY <1>8 DEF Crossing, At, o
  <2>2. Head(wire[p]) = AnswerByte["MISS"] /\ Tail(wire[p]) = data[o]
    BY <2>1, ProperShotRead, AnswersAreBytes, BehindAnswer
  <2>3. ~initiative'[p] /\ initiative'[o] /\ wire'[p] = data'[o] /\ wire'[o] = <<>>
    BY <1>4, <2>1, <2>2 DEF KeepsTurn
  <2>4. ~IsGameEnded(p)'
    <3>1. ~(Pending(p)') /\ ~(Pending(o)')
      BY <1>4, <2>3 DEF Pending
    <3>2. own'[o].weight = view'[p].weight
      BY <3>1 DEF PairsSound, PairSound, Shots!Sound, Picture, o
    <3>3. own'[p].weight = view'[o].weight
      BY <1>1, <3>1 DEF PairsSound, PairSound, Shots!Sound, Picture
    <3>. QED
      BY <1>5, <2>1, <3>2, <3>3 DEF IsGameEnded, IsLoser
  <2>5. Fired(o)'
    BY <1>1, <1>4, <1>5, <2>1, <2>3, <2>4 DEF Fired, At
  <2>. QED
    BY <1>1, <1>6, <2>5 DEF InPhase
<1>. QED
  BY <1>3, <1>7, <1>8

LEMMA ReadShotKeepsPhase ==
    ASSUME TypeOK, CountInv, InPhase, LeftInv, PairsSound, NEW r \in Players, ReadShot(r)
    PROVE  InPhase' /\ LeftInv'
<1> DEFINE p == Other(r)
           move == ParseMove(TwoBytes(r))
           a == ShotResult(own[r], move[1], move[2])
<1>1. p \in Players /\ p # r /\ Other(p) = r
  BY TwoPlayers
<1>2. AtReadShot(r) /\ Len(wire[r]) >= 2
  BY DEF ReadShot
<1>3. /\ Exists(move)
      /\ own' = [own EXCEPT ![r] = Shoot(@, move[1], move[2])]
      /\ initiative' = [initiative EXCEPT ![r] = a = "MISS"]
      /\ wire' = [AfterTwoBytes(r) EXCEPT ![p] = Append(@, AnswerByte[a])]
      /\ UNCHANGED <<view, pc, data>>
  BY DEF ReadShot
<1>4. Fired(p) /\ SubSeq(wire[r], 3, Len(wire[r])) = <<>> /\ move \in Coords \X Coords
  BY <1>2, ShotExpected
<1>5. a \in {"MISS", "HIT", "KILL"}
  BY <1>3, ShotIsCounted DEF TypeOK, CountInv, Exists
<1>6. PICK x \in Coords, y \in Coords : move[1] = x /\ move[2] = y
  BY <1>4
<1>7. own'[r] = Shoot(own[r], x, y) /\ a = ShotResult(own[r], x, y) /\ own'[p] = own[p]
  BY <1>1, <1>3, <1>6 DEF TypeOK
<1> HIDE DEF p, move, a
<1>8. a # "KILL" => ~IsLoser(own'[r])
  <2>1. PairSound(p)
    BY <1>1 DEF PairsSound
  <2>2. PICK fleet \in Fleets : Shots!Sound(own[r], Picture(p), fleet)
    BY <1>1, <2>1 DEF PairSound
  <2>3. ~IsLoser(own[r])
    BY <1>2 DEF AtReadShot, IsGameEnded
  <2>4. Shots!IsFleet(fleet) /\ x \in Shots!Coords /\ y \in Shots!Coords /\ ~Shots!IsLoser(own[r])
    BY <2>3, GameAssumption, SameField
  <2>5. Shots!ShotResult(own[r], x, y) # "KILL" => ~Shots!IsLoser(Shots!Shoot(own[r], x, y))
    BY <2>2, <2>4, Shots!LastHitKills, ShotsAssumed
  <2>. QED
    BY <1>7, <2>5, SameShots, SameField
<1>9. wire'[p] = <<AnswerByte[a]>> /\ wire'[r] = <<>>
  <2>1. a \in DOMAIN AnswerByte /\ Append(<<>>, AnswerByte[a]) = <<AnswerByte[a]>>
    BY <1>5, AnswersAreBytes, BehindAnswer
  <2>2. /\ AfterTwoBytes(r)[r] = <<>> /\ AfterTwoBytes(r)[p] = <<>>
        /\ DOMAIN AfterTwoBytes(r) = Players
    BY <1>1, <1>4 DEF AfterTwoBytes, TypeOK, Fired
  <2>. QED
    BY <1>1, <1>3, <2>1, <2>2
<1>10. (initiative'[r] <=> a = "MISS") /\ initiative'[p]
  BY <1>1, <1>3, <1>4 DEF TypeOK, Fired
<1>11. Replied(p)'
  <2>1. a \in DOMAIN AnswerByte
    BY <1>5, AnswersAreBytes
  <2>. QED
    BY <1>1, <1>3, <1>4, <1>8, <1>9, <1>10, <2>1 DEF Replied, Fired, At
<1>12. LeftInv'
  <2>1. pc[r] = "loop" /\ pc[p] \in {"read_answer", "quit", "error"}
    BY <1>1, <1>2, <1>4 DEF AtReadShot, Fired, At
  <2>. QED
    BY <1>1, <1>3, <2>1, TwoPlayers DEF LeftInv, p
<1>. QED
  BY <1>1, <1>11, <1>12 DEF InPhase

LEMMA TurnsStep == TypeOK /\ CountInv /\ TurnInv /\ [Next]_vars => TurnInv'
<1> SUFFICES ASSUME TypeOK, CountInv, TurnInv, [Next]_vars, strays' = 0
             PROVE  InPhase' /\ LeftInv' /\ PairsSound'
  BY DEF TurnInv
<1>1. CASE UNCHANGED vars
  <2>1. InPhase /\ LeftInv /\ PairsSound
    BY <1>1 DEF vars, TurnInv
  <2>2. UNCHANGED <<own, view, initiative, pc, data, wire>>
    BY <1>1 DEF vars, fields
  <2>3. InPhase' /\ LeftInv'
    BY <2>1, <2>2 DEF InPhase, Calm, Fired, Replied, Crossing, At, LeftInv, IsGameEnded
  <2>4. PairsSound'
    BY <2>1, <2>2 DEF PairsSound, PairSound, Picture, Pending
  <2>. QED
    BY <2>3, <2>4
<1>2. CASE Next
  <2>1. PICK r \in Players : Step(r) \/ TypeShot(r) \/ Quit(r)
    BY <1>2 DEF Next
  <2>2. strays = 0 /\ InPhase /\ LeftInv /\ PairsSound
    <3>1. strays' = strays \/ strays' = strays + 1
      BY <2>1 DEF Step, TypeShot, Quit
    <3>. QED
      BY <3>1 DEF TypeOK, TurnInv
  <2>3. PairsSound'
    BY <1>2, <2>2, PairsStaySound
  <2>4. CASE TypeShot(r)
    BY <2>2, <2>3, <2>4, ShotKeepsPhase
  <2>5. CASE Quit(r)
    BY <2>2, <2>3, <2>5, QuitKeepsPhase
  <2>6. CASE EndGame(r)
    BY <2>2, <2>3, <2>6, EndKeepsPhase
  <2>7. CASE ReadFails(r)
    BY <2>2, <2>3, <2>7, FailedReadKeepsPhase
  <2>8. CASE ReadAnswer(r) \/ MarkOutside(r) \/ IgnoreAnswer(r)
    <3>1. ReadAnswerByte(r)
      BY <2>8 DEF ReadAnswer, MarkOutside, IgnoreAnswer
    <3>2. ReadAnswer(r)
      BY <2>2, <2>8, <3>1, AnswerExpected DEF MarkOutside, IgnoreAnswer
    <3>. QED
      BY <2>2, <2>3, <3>2, AnswerKeepsPhase
  <2>9. CASE ReadShot(r) \/ ShootOutside(r) \/ IgnoreShot(r)
    <3>1. AtReadShot(r) /\ Len(wire[r]) >= 2
      BY <2>9 DEF ReadShot, ShootOutside, IgnoreShot
    <3>2. ReadShot(r)
      BY <2>2, <2>9, <3>1, ShotExpected DEF ShootOutside, IgnoreShot, Exists
    <3>. QED
      BY <2>2, <2>3, <3>2, ReadShotKeepsPhase
  <2>. QED
    BY <2>1, <2>4, <2>5, <2>6, <2>7, <2>8, <2>9 DEF Step
<1>. QED
  BY <1>1, <1>2

LEMMA TurnsAtStart == Init => TurnInv
<1> SUFFICES ASSUME Init
             PROVE  Calm(Client) /\ LeftInv /\ PairsSound
  BY DEF TurnInv, InPhase, Players
<1>1. Calm(Client) /\ LeftInv
  BY DEF Init, Calm, At, LeftInv, Players, Other, Client, Server
<1>2. ASSUME NEW p \in Players
      PROVE  PairSound(p)
  <2>1. PICK fleet \in Fleets : own[Other(p)] = [FieldOf(fleet) EXCEPT !.weight = Weight]
    BY TwoPlayers DEF Init
  <2>2. Picture(p) = Filled("UNKNOWN", Weight)
    BY DEF Init, Picture, Pending
  <2>3. /\ own[Other(p)] = [Shots!FieldOf(fleet) EXCEPT !.weight = Weight]
        /\ Picture(p) = Shots!Filled("UNKNOWN", Weight)
    BY <2>1, <2>2, SameField
  <2>4. Shots!Sound(own[Other(p)], Picture(p), fleet)
    BY <2>3, Shots!SoundAtFirst, ShotsAssumed
  <2>. QED
    BY <2>4 DEF PairSound
<1>. QED
  BY <1>1, <1>2 DEF PairsSound


-----------------------------------------------------------------------------
(* Theorems *)

GameInv == TypeOK /\ CountInv /\ TurnInv

LEMMA Invariance == Spec => []GameInv
<1>1. Init => GameInv
  BY CountsAtStart, TurnsAtStart DEF GameInv
<1>2. GameInv /\ [Next]_vars => GameInv'
  BY CountsStep, TurnsStep DEF GameInv
<1>. QED
  BY <1>1, <1>2, PTL DEF Spec

(* What s finds when it reads.                                               *)
WholeMessages(s) ==
    \/ /\ AtReadShot(s)
       /\ wire[s] = data[Other(s)] /\ wire[s] \in ProperShots
    \/ /\ pc[s] = "read_answer"
       /\ \E r \in DOMAIN AnswerByte : wire[s] = <<AnswerByte[r]>>
    \/ /\ pc[s] = "read_answer" /\ pc[Other(s)] \in {"read_answer", "quit"}
       /\ data[Other(s)] \in ProperShots
       /\ wire[s] = <<AnswerByte["MISS"]>> \o data[Other(s)]

(* In every phase, what is on its way to s is the shot that s is to read, or *)
(* the answer that s waits for and no more than a shot behind it.            *)
LEMMA MessageOfPhase ==
    ASSUME InPhase, LeftInv, NEW s \in Players, wire[s] # <<>>, pc[s] \notin Gone
    PROVE  wire[Other(s)] = <<>> /\ WholeMessages(s)
<1>1. PICK p \in Players : Calm(p) \/ Fired(p) \/ Replied(p) \/ Crossing(p)
  BY DEF InPhase
<1>2. (s = p \/ s = Other(p)) /\ Other(Other(p)) = p
  BY TwoPlayers
<1>3. ~Calm(p)
  BY <1>2 DEF Calm
<1>4. CASE Fired(p)
  <2>1. s = Other(p)
    BY <1>2, <1>4 DEF Fired
  <2>2. AtReadShot(s)
    BY <1>4, <2>1 DEF Fired, At, Gone, AtReadShot
  <2>. QED
    BY <1>2, <1>4, <2>1, <2>2 DEF Fired, WholeMessages
<1>5. CASE Replied(p)
  <2>1. s = p
    BY <1>2, <1>5 DEF Replied
  <2>2. pc[s] = "read_answer"
    BY <1>5, <2>1 DEF Replied, At, Gone
  <2>. QED
    BY <1>5, <2>1, <2>2 DEF Replied, WholeMessages
<1>6. CASE Crossing(p)
  <2>1. s = p
    BY <1>2, <1>6 DEF Crossing
  <2>2. pc[s] = "read_answer"
    BY <1>6, <2>1 DEF Crossing, At, Gone
  <2>3. pc[Other(s)] # "error"
    BY <1>2, <2>1, <2>2, TwoPlayers DEF LeftInv
  <2>4. pc[Other(s)] \in {"read_answer", "quit"}
    BY <1>6, <2>1, <2>3 DEF Crossing, At
  <2>. QED
    BY <1>6, <2>1, <2>2, <2>4 DEF Crossing, WholeMessages
<1>. QED
  BY <1>1, <1>3, <1>4, <1>5, <1>6

(* Whatever is typed and however it is read, the fields of StartGame stay    *)
(* fields and every byte on its way is one that the readers know.            *)
THEOREM TypeCorrect == Spec => []TypeOK
<1>1. GameInv => TypeOK
  BY DEF GameInv
<1>. QED
  BY <1>1, Invariance, PTL

(* Whatever is typed, weight_ counts the cells afloat and the hits to come,  *)
(* and stops at zero, where IsLoser notices it.                              *)
THEOREM WeightsAreCounts == Spec => []WeightsCount
<1>1. GameInv => WeightsCount
  BY DEF GameInv, CountInv, WeightsCount, Afloat, Hits, ViewCounts
<1>. QED
  BY <1>1, Invariance, PTL

(* Between two turns of StartGame exactly one program has the initiative.    *)
THEOREM TurnsAlternate == Spec => []OneTurn
<1>1. ASSUME GameInv
      PROVE  OneTurn
  <2>1. SUFFICES ASSUME InPhase, \A p \in Players : pc[p] = "loop"
                 PROVE  initiative[Client] <=> ~initiative[Server]
    BY <1>1 DEF GameInv, TurnInv, OneTurn
  <2>2. PICK p \in Players : Calm(p) \/ Fired(p) \/ Replied(p) \/ Crossing(p)
    BY <2>1 DEF InPhase
  <2>3. Calm(p)
    BY <2>1, <2>2 DEF Fired, Replied, Crossing, At
  <2>. QED
    BY <2>3 DEF Calm, Players, Other, Client, Server
<1>. QED
  BY <1>1, Invariance, PTL

(* A reader of the stream finds the message it waits for, whole, and behind  *)
(* a miss at most the next shot (WriteExact and ReadExact put nothing        *)
(* between messages, so sizes and turns alone keep them apart).              *)
THEOREM MessagesDoNotMix == Spec => []MessagesAreWhole
<1>1. GameInv => MessagesAreWhole
  BY MessageOfPhase DEF GameInv, TurnInv, MessagesAreWhole, WholeMessages
<1>. QED
  BY <1>1, Invariance, PTL

(* No program marks or shoots at a cell outside of the array, nor uses the   *)
(* move of a line that ParseMove refused.                                    *)
THEOREM NothingIsUndefined == Spec => []NothingUndefined
<1>1. ASSUME GameInv, strays = 0, NEW s \in Players
      PROVE  pc[s] # "undefined"
  <2>1. PICK p \in Players : Calm(p) \/ Fired(p) \/ Replied(p) \/ Crossing(p)
    BY <1>1 DEF GameInv, TurnInv, InPhase
  <2>2. s = p \/ s = Other(p)
    BY TwoPlayers
  <2>. QED
    BY <2>1, <2>2 DEF Calm, Fired, Replied, Crossing, At
<1>2. GameInv => NothingUndefined
  BY <1>1 DEF NothingUndefined
<1>. QED
  BY <1>2, Invariance, PTL

(* A program leaves the game over only when the other one has seen the same  *)
(* end, has the last answer to read, or was killed: no one waits for a       *)
(* player who has gone (IsGameEnded of StartGame, asked on both sides).      *)
THEOREM EndIsForBoth == Spec => []EndIsCommon
<1>1. ASSUME GameInv, strays = 0, NEW s \in Players, pc[s] = "over"
      PROVE  \/ IsGameEnded(Other(s))
             \/ pc[Other(s)] = "read_answer" /\ wire[Other(s)] = <<AnswerByte["KILL"]>>
             \/ pc[Other(s)] = "quit"
  <2>1. InPhase /\ LeftInv /\ PairsSound
    BY <1>1 DEF GameInv, TurnInv
  <2>2. PICK p \in Players : Calm(p) \/ Fired(p) \/ Replied(p) \/ Crossing(p)
    BY <2>1 DEF InPhase
  <2>3. (s = p \/ s = Other(p)) /\ Other(Other(p)) = p /\ Other(p) \in Players
    BY TwoPlayers
  <2>4. IsGameEnded(s)
    BY <1>1, <2>1 DEF LeftInv
  <2>5. CASE Calm(p)
    <3>1. ~Pending(s) /\ ~Pending(Other(s))
      BY <2>3, <2>5 DEF Calm, Pending
    <3>. QED
      BY <2>1, <2>4, <3>1, EndsAgree
  <2>6. ~Fired(p) /\ ~Crossing(p)
    BY <1>1, <2>3 DEF Fired, Crossing, At
  <2>7. CASE Replied(p)
    <3>1. s = Other(p) /\ pc[p] \in {"read_answer", "quit", "error"}
      BY <1>1, <2>3, <2>7 DEF Replied, At
    <3>2. pc[p] # "error"
      BY <1>1, <2>1, <3>1 DEF LeftInv
    <3>3. PICK a \in {"MISS", "HIT", "KILL"} :
            wire[p] = <<AnswerByte[a]>> /\ (a # "KILL" => ~IsLoser(own[s]))
      BY <2>7, <3>1 DEF Replied, AnswerByte
    <3>4. ASSUME a # "KILL"
          PROVE  IsGameEnded(p)
      <4>1. view[s].weight = 0
        BY <2>4, <3>3, <3>4 DEF IsGameEnded, IsLoser
      <4>2. own[p].weight = view[s].weight
        BY <1>1, <2>1, <2>3, <3>1, WeightsAgree DEF PairsSound, Picture, Pending
      <4>. QED
        BY <4>1, <4>2 DEF IsGameEnded, IsLoser
    <3>. QED
      BY <2>3, <3>1, <3>2, <3>3, <3>4
  <2>. QED
    BY <2>2, <2>5, <2>6, <2>7
<1>2. ASSUME GameInv, strays = 0, NEW s \in Players, pc[s] = "error"
      PROVE  pc[Other(s)] = "quit"
  BY <1>2 DEF GameInv, TurnInv, LeftInv
<1>3. GameInv => EndIsCommon
  BY <1>1, <1>2 DEF EndIsCommon
<1>. QED
  BY <1>3, Invariance, PTL

-----------------------------------------------------------------------------
(* The game implements SeabattleShots                                        *)

(* ShotsOfClient is made of the operators of SeabattleField.                   *)
LEMMA ShotsOfClientIs ==
    /\ ShotsOfClient!Coords = Coords /\ ShotsOfClient!Indices = Indices
    /\ \A s : ShotsOfClient!FieldOf(s) = FieldOf(s)
    /\ \A s, w : ShotsOfClient!Filled(s, w) = Filled(s, w)
    /\ \A f : ShotsOfClient!IsLoser(f) <=> IsLoser(f)
    /\ \A f, x, y :
           /\ ShotsOfClient!Index(x, y) = Index(x, y)
           /\ ShotsOfClient!Shoot(f, x, y) = Shoot(f, x, y)
           /\ ShotsOfClient!ShotResult(f, x, y) = ShotResult(f, x, y)
           /\ \A a \in {"MISS", "HIT", "KILL"} :
                  ShotsOfClient!Mark(f, a, x, y) = Mark(f, AnswerByte[a], <<x, y>>)
<1>1. /\ ShotsOfClient!Coords = Coords /\ ShotsOfClient!Indices = Indices
      /\ \A x, y : ShotsOfClient!Index(x, y) = Index(x, y)
      /\ \A f : ShotsOfClient!IsLoser(f) <=> IsLoser(f)
  BY DEF ShotsOfClient!Coords, Coords, ShotsOfClient!Indices, Indices,
         ShotsOfClient!Index, Index, ShotsOfClient!IsLoser, IsLoser
<1>2. \A s : ShotsOfClient!FieldOf(s) = FieldOf(s)
  <2>1. \A S : ShotsOfClient!Cardinality(S) = Cardinality(S)
    BY Zenon DEF ShotsOfClient!Cardinality, Cardinality
  <2>. QED
    BY <1>1, <2>1 DEF ShotsOfClient!FieldOf, FieldOf, ShotsOfClient!CellsOf, CellsOf
<1>3. \A s, w : ShotsOfClient!Filled(s, w) = Filled(s, w)
  BY <1>1 DEF ShotsOfClient!Filled, Filled
<1>4. \A f, x, y : ShotsOfClient!Get(f, x, y) = Get(f, x, y)
  BY <1>1 DEF ShotsOfClient!Get, Get
<1>5. \A f, x, y : ShotsOfClient!Shoot(f, x, y) = Shoot(f, x, y)
  BY DEF ShotsOfClient!Shoot, Shoot, ShotsOfClient!Get, Get, ShotsOfClient!Put, Put,
         ShotsOfClient!Index, Index
<1>6. \A f, x, y, d : ShotsOfClient!Walk(f, x, y, d) = Walk(f, x, y, d)
  BY DEF ShotsOfClient!Walk, Walk, ShotsOfClient!InField, InField, ShotsOfClient!Coords, Coords,
         ShotsOfClient!Get, Get, ShotsOfClient!Index, Index
<1>7. \A f, x, y : ShotsOfClient!IsKilled(f, x, y) <=> IsKilled(f, x, y)
  BY <1>6 DEF ShotsOfClient!IsKilled, IsKilled, ShotsOfClient!Get, Get,
              ShotsOfClient!Index, Index, ShotsOfClient!Directions, Directions
<1>8. \A f, x, y : ShotsOfClient!ShotResult(f, x, y) = ShotResult(f, x, y)
  BY <1>4, <1>5, <1>7 DEF ShotsOfClient!ShotResult, ShotResult
<1>9. \A f, x, y : ShotsOfClient!MarkMiss(f, x, y) = MarkMiss(f, x, y)
  BY DEF ShotsOfClient!MarkMiss, MarkMiss, ShotsOfClient!Get, Get,
         ShotsOfClient!Put, Put, ShotsOfClient!Index, Index
<1>10. \A f, x, y : ShotsOfClient!MarkHit(f, x, y) = MarkHit(f, x, y)
  BY DEF ShotsOfClient!MarkHit, MarkHit, ShotsOfClient!Get, Get,
         ShotsOfClient!Put, Put, ShotsOfClient!Index, Index
<1>11. \A f, x, y : ShotsOfClient!Around(f, x, y) = Around(f, x, y)
  BY <1>6 DEF ShotsOfClient!Around, Around, ShotsOfClient!Directions, Directions
<1>12. \A f, x, y : ShotsOfClient!MarkKill(f, x, y) = MarkKill(f, x, y)
  BY <1>1, <1>4, <1>10, <1>11 DEF ShotsOfClient!MarkKill, MarkKill, ShotsOfClient!InField, InField
<1>13. \A f, x, y : \A a \in {"MISS", "HIT", "KILL"} :
           ShotsOfClient!Mark(f, a, x, y) = Mark(f, AnswerByte[a], <<x, y>>)
  <2>1. AnswerByte["MISS"] # AnswerByte["HIT"] /\ AnswerByte["MISS"] # AnswerByte["KILL"]
        /\ AnswerByte["HIT"] # AnswerByte["KILL"]
    BY DEF AnswerByte, Digit
  <2>. QED
    BY <1>9, <1>10, <1>12, <2>1 DEF ShotsOfClient!Mark, Mark
<1>. QED
  BY <1>1, <1>2, <1>3, <1>5, <1>8, <1>13

(* ShotsOfServer is made of the operators of SeabattleField.                   *)
LEMMA ShotsOfServerIs ==
    /\ ShotsOfServer!Coords = Coords /\ ShotsOfServer!Indices = Indices
    /\ \A s : ShotsOfServer!FieldOf(s) = FieldOf(s)
    /\ \A s, w : ShotsOfServer!Filled(s, w) = Filled(s, w)
    /\ \A f : ShotsOfServer!IsLoser(f) <=> IsLoser(f)
    /\ \A f, x, y :
           /\ ShotsOfServer!Index(x, y) = Index(x, y)
           /\ ShotsOfServer!Shoot(f, x, y) = Shoot(f, x, y)
           /\ ShotsOfServer!ShotResult(f, x, y) = ShotResult(f, x, y)
           /\ \A a \in {"MISS", "HIT", "KILL"} :
                  ShotsOfServer!Mark(f, a, x, y) = Mark(f, AnswerByte[a], <<x, y>>)
<1>1. /\ ShotsOfServer!Coords = Coords /\ ShotsOfServer!Indices = Indices
      /\ \A x, y : ShotsOfServer!Index(x, y) = Index(x, y)
      /\ \A f : ShotsOfServer!IsLoser(f) <=> IsLoser(f)
  BY DEF ShotsOfServer!Coords, Coords, ShotsOfServer!Indices, Indices,
         ShotsOfServer!Index, Index, ShotsOfServer!IsLoser, IsLoser
<1>2. \A s : ShotsOfServer!FieldOf(s) = FieldOf(s)
  <2>1. \A S : ShotsOfServer!Cardinality(S) = Cardinality(S)
    BY Zenon DEF ShotsOfServer!Cardinality, Cardinality
  <2>. QED
    BY <1>1, <2>1 DEF ShotsOfServer!FieldOf, FieldOf, ShotsOfServer!CellsOf, CellsOf
<1>3. \A s, w : ShotsOfServer!Filled(s, w) = Filled(s, w)
  BY <1>1 DEF ShotsOfServer!Filled, Filled
<1>4. \A f, x, y : ShotsOfServer!Get(f, x, y) = Get(f, x, y)
  BY <1>1 DEF ShotsOfServer!Get, Get
<1>5. \A f, x, y : ShotsOfServer!Shoot(f, x, y) = Shoot(f, x, y)
  BY DEF ShotsOfServer!Shoot, Shoot, ShotsOfServer!Get, Get, ShotsOfServer!Put, Put,
         ShotsOfServer!Index, Index
<1>6. \A f, x, y, d : ShotsOfServer!Walk(f, x, y, d) = Walk(f, x, y, d)
  BY DEF ShotsOfServer!Walk, Walk, ShotsOfServer!InField, InField, ShotsOfServer!Coords, Coords,
         ShotsOfServer!Get, Get, ShotsOfServer!Index, Index
<1>7. \A f, x, y : ShotsOfServer!IsKilled(f, x, y) <=> IsKilled(f, x, y)
  BY <1>6 DEF ShotsOfServer!IsKilled, IsKilled, ShotsOfServer!Get, Get,
              ShotsOfServer!Index, Index, ShotsOfServer!Directions, Directions
<1>8. \A f, x, y : ShotsOfServer!ShotResult(f, x, y) = ShotResult(f, x, y)
  BY <1>4, <1>5, <1>7 DEF ShotsOfServer!ShotResult, ShotResult
<1>9. \A f, x, y : ShotsOfServer!MarkMiss(f, x, y) = MarkMiss(f, x, y)
  BY DEF ShotsOfServer!MarkMiss, MarkMiss, ShotsOfServer!Get, Get,
         ShotsOfServer!Put, Put, ShotsOfServer!Index, Index
<1>10. \A f, x, y : ShotsOfServer!MarkHit(f, x, y) = MarkHit(f, x, y)
  BY DEF ShotsOfServer!MarkHit, MarkHit, ShotsOfServer!Get, Get,
         ShotsOfServer!Put, Put, ShotsOfServer!Index, Index
<1>11. \A f, x, y : ShotsOfServer!Around(f, x, y) = Around(f, x, y)
  BY <1>6 DEF ShotsOfServer!Around, Around, ShotsOfServer!Directions, Directions
<1>12. \A f, x, y : ShotsOfServer!MarkKill(f, x, y) = MarkKill(f, x, y)
  BY <1>1, <1>4, <1>10, <1>11 DEF ShotsOfServer!MarkKill, MarkKill, ShotsOfServer!InField, InField
<1>13. \A f, x, y : \A a \in {"MISS", "HIT", "KILL"} :
           ShotsOfServer!Mark(f, a, x, y) = Mark(f, AnswerByte[a], <<x, y>>)
  <2>1. AnswerByte["MISS"] # AnswerByte["HIT"] /\ AnswerByte["MISS"] # AnswerByte["KILL"]
        /\ AnswerByte["HIT"] # AnswerByte["KILL"]
    BY DEF AnswerByte, Digit
  <2>. QED
    BY <1>9, <1>10, <1>12, <2>1 DEF ShotsOfServer!Mark, Mark
<1>. QED
  BY <1>1, <1>2, <1>3, <1>5, <1>8, <1>13

LEMMA ClientStartsAs ==
    Init => ShotsOfClient!Init
<1> SUFFICES ASSUME Init PROVE ShotsOfClient!Init
  OBVIOUS
<1>1. own[Server] \in {[FieldOf(fleet) EXCEPT !.weight = Weight] : fleet \in Fleets}
  BY DEF Init, Players
<1>2. Picture(Client) = Filled("UNKNOWN", Weight)
  BY DEF Init, Picture, Pending, Players
<1>. QED
  BY <1>1, <1>2, ShotsOfClientIs DEF ShotsOfClient!Init

LEMMA ClientStepsAs ==
    ASSUME PairKept(Client) \/ \E x, y \in Coords : FireOf(Client, x, y)
    PROVE  [ShotsOfClient!Next]_(ShotsOfClient!vars)
<1>1. Other(Client) = Server
  BY DEF Other, Client, Server
<1>2. CASE PairKept(Client)
  BY <1>1, <1>2 DEF PairKept, ShotsOfClient!vars
<1>3. ASSUME NEW x \in Coords, NEW y \in Coords, FireOf(Client, x, y)
      PROVE  ShotsOfClient!Next
  <2>1. /\ ~IsLoser(own[Server]) /\ own'[Server] = Shoot(own[Server], x, y)
        /\ Picture(Client)' = Mark(Picture(Client), AnswerByte[ShotResult(own[Server], x, y)], <<x, y>>)
    BY <1>1, <1>3 DEF FireOf
  <2>2. ShotResult(own[Server], x, y) \in {"MISS", "HIT", "KILL"}
    BY DEF ShotResult
  <2>3. Index(x, y) \in Indices /\ x \in 0..(FieldSize - 1)
    BY IndexInRange DEF Coords
  <2>4. ShotsOfClient!Fire(x, y)
    BY <2>1, <2>2, <2>3, ShotsOfClientIs DEF ShotsOfClient!Fire
  <2>. QED
    BY <2>3, <2>4, ShotsOfClientIs DEF ShotsOfClient!Next
<1>. QED
  BY <1>2, <1>3

LEMMA ServerStartsAs ==
    Init => ShotsOfServer!Init
<1> SUFFICES ASSUME Init PROVE ShotsOfServer!Init
  OBVIOUS
<1>1. own[Client] \in {[FieldOf(fleet) EXCEPT !.weight = Weight] : fleet \in Fleets}
  BY DEF Init, Players
<1>2. Picture(Server) = Filled("UNKNOWN", Weight)
  BY DEF Init, Picture, Pending, Players
<1>. QED
  BY <1>1, <1>2, ShotsOfServerIs DEF ShotsOfServer!Init

LEMMA ServerStepsAs ==
    ASSUME PairKept(Server) \/ \E x, y \in Coords : FireOf(Server, x, y)
    PROVE  [ShotsOfServer!Next]_(ShotsOfServer!vars)
<1>1. Other(Server) = Client
  BY DEF Other, Client, Server
<1>2. CASE PairKept(Server)
  BY <1>1, <1>2 DEF PairKept, ShotsOfServer!vars
<1>3. ASSUME NEW x \in Coords, NEW y \in Coords, FireOf(Server, x, y)
      PROVE  ShotsOfServer!Next
  <2>1. /\ ~IsLoser(own[Client]) /\ own'[Client] = Shoot(own[Client], x, y)
        /\ Picture(Server)' = Mark(Picture(Server), AnswerByte[ShotResult(own[Client], x, y)], <<x, y>>)
    BY <1>1, <1>3 DEF FireOf
  <2>2. ShotResult(own[Client], x, y) \in {"MISS", "HIT", "KILL"}
    BY DEF ShotResult
  <2>3. Index(x, y) \in Indices /\ x \in 0..(FieldSize - 1)
    BY IndexInRange DEF Coords
  <2>4. ShotsOfServer!Fire(x, y)
    BY <2>1, <2>2, <2>3, ShotsOfServerIs DEF ShotsOfServer!Fire
  <2>. QED
    BY <2>3, <2>4, ShotsOfServerIs DEF ShotsOfServer!Next
<1>. QED
  BY <1>2, <1>3

(* Until somebody types what is no proper shot, a shot, its answer and its   *)
(* marking, three messages and steps of two programs (ReadShot and           *)
(* ReadAnswer of StartGame), are for either shooter one step of              *)
(* SeabattleShots, whose theorems therefore hold of the game.                *)
THEOREM GameImplementsShots == Spec => ImplementsShots
<1>1. Init => ShotsOfClient!Init /\ ShotsOfServer!Init
  BY ClientStartsAs, ServerStartsAs
<1>2. ASSUME GameInv, [Next]_vars
      PROVE  /\ strays' > 0 \/ [ShotsOfClient!Next]_(ShotsOfClient!vars)
             /\ strays' > 0 \/ [ShotsOfServer!Next]_(ShotsOfServer!vars)
  <2>1. CASE UNCHANGED vars
    <3>1. /\ own' = own
          /\ Picture(Client)' = Picture(Client) /\ Picture(Server)' = Picture(Server)
      BY <2>1 DEF vars, fields, Picture, Pending
    <3>. QED
      BY <3>1 DEF ShotsOfClient!vars, ShotsOfServer!vars
  <2>2. CASE Next /\ strays' = 0
    <3>1. PICK r \in Players : Step(r) \/ TypeShot(r) \/ Quit(r)
      BY <2>2 DEF Next
    <3>2. strays' = strays \/ strays' = strays + 1
      BY <3>1 DEF Step, TypeShot, Quit
    <3>3. TypeOK /\ CountInv /\ strays = 0 /\ InPhase /\ LeftInv
      BY <1>2, <2>2, <3>2 DEF GameInv, TypeOK, TurnInv
    <3>4. \A p \in Players : PairKept(p) \/ \E x, y \in Coords : FireOf(p, x, y)
      BY <2>2, <3>3, PairStep
    <3>5. /\ PairKept(Client) \/ \E x, y \in Coords : FireOf(Client, x, y)
          /\ PairKept(Server) \/ \E x, y \in Coords : FireOf(Server, x, y)
      BY <3>4 DEF Players
    <3>. QED
      BY <3>5, ClientStepsAs, ServerStepsAs
  <2>3. strays' \in Nat
    BY <1>2, CountsStep DEF GameInv, TypeOK
  <2>. QED
    BY <1>2, <2>1, <2>2, <2>3
<1>. QED
  BY <1>1, <1>2, Invariance, PTL DEF Spec, ImplementsShots

(* Until somebody strays, what MarkMiss, MarkHit and MarkKill have made of   *)
(* the answers is right about the other program's field, on both sides.      *)
THEOREM PicturesAreRight ==
    Spec => [](strays = 0 => ShotsOfClient!ViewSound /\ ShotsOfServer!ViewSound)
<1>1. ASSUME GameInv, strays = 0, NEW p \in Players
      PROVE  /\ \A i \in Indices :
                    /\ Picture(p).cell[i] = "KILLED" <=> own[Other(p)].cell[i] = "KILLED"
                    /\ Picture(p).cell[i] = "EMPTY" => own[Other(p)].cell[i] = "EMPTY"
             /\ Picture(p).weight = own[Other(p)].weight
             /\ own[Other(p)].weight = Cardinality({i \in Indices : own[Other(p)].cell[i] = "SHIP"})
  <2>1. PICK fleet \in Fleets : Shots!Sound(own[Other(p)], Picture(p), fleet)
    BY <1>1 DEF GameInv, TurnInv, PairsSound, PairSound
  <2>2. own[Other(p)].weight = Cardinality({i \in Indices : own[Other(p)].cell[i] = "SHIP"})
    BY <1>1, TwoPlayers DEF GameInv, CountInv, Afloat
  <2>. QED
    BY <2>1, <2>2, SameField DEF Shots!Sound, Shots!Agree
<1>2. ASSUME GameInv, strays = 0
      PROVE  ShotsOfClient!ViewSound
  <2>1. Other(Client) = Server /\ Client \in Players
    BY DEF Other, Players
  <2>2. \A S : ShotsOfClient!Cardinality(S) = Cardinality(S)
    BY Zenon DEF ShotsOfClient!Cardinality, Cardinality
  <2>. QED
    BY <1>1, <1>2, <2>1, <2>2, ShotsOfClientIs DEF ShotsOfClient!ViewSound
<1>3. ASSUME GameInv, strays = 0
      PROVE  ShotsOfServer!ViewSound
  <2>1. Other(Server) = Client /\ Server \in Players
    BY DEF Other, Players, Client, Server
  <2>2. \A S : ShotsOfServer!Cardinality(S) = Cardinality(S)
    BY Zenon DEF ShotsOfServer!Cardinality, Cardinality
  <2>. QED
    BY <1>1, <1>3, <2>1, <2>2, ShotsOfServerIs DEF ShotsOfServer!ViewSound
<1>4. GameInv => (strays = 0 => ShotsOfClient!ViewSound /\ ShotsOfServer!ViewSound)
  BY <1>2, <1>3
<1>. QED
  BY <1>4, Invariance, PTL

-----------------------------------------------------------------------------
(* GetRandomField makes the fleets that the game is played with              *)

IsStraight(s) ==
    \E x, y \in Coords, dir \in 0..3, length \in 1..FieldSize : s = ShipCells(x, y, dir, length)

(* The decks of the first n ships of the list: the j-th of the i-th ship.    *)
Decks(n) == {q \in (1..n) \X (1..FieldSize) : q[2] <= ShipSizes[q[1]]}

(* Every ship so far is one of its own, straight, and has its decks in the   *)
(* array, which shows all of them; weight_ is as the constructor left it.    *)
FleetInv ==
    /\ IsFiniteSet(ships)
    /\ Cardinality(ships) = next - 1
    /\ \A s \in ships : IsStraight(s)
    /\ CellsOf(ships) \subseteq Indices
    /\ Cardinality(CellsOf(ships)) = Cardinality(Decks(next - 1))
    /\ field.weight = InitialWeight
    /\ field.cell = [i \in Indices |-> IF i \in CellsOf(ships) THEN "SHIP" ELSE "EMPTY"]

PlacementInv == PlacementTypeOK /\ AvailableIsFree /\ ShipsApart /\ FleetInv

(* Being near is mutual, and a cell is near itself.                          *)
LEMMA NearSymmetric ==
    ASSUME NEW c \in AllCells, NEW d \in AllCells
    PROVE  /\ c \in Near(c)
           /\ d \in Near(c) <=> c \in Near(d)
<1>1. c[1] \in Int /\ c[2] \in Int /\ d[1] \in Int /\ d[2] \in Int
      /\ c = <<c[1], c[2]>> /\ d = <<d[1], d[2]>>
  BY FieldSizeAssumption DEF AllCells, Coords
<1>2. \A dx, dy \in {-1, 0, 1} : -dx \in {-1, 0, 1} /\ -dy \in {-1, 0, 1}
  OBVIOUS
<1>3. c \in Near(c)
  <2>1. c = <<c[1] + 0, c[2] + 0>>
    BY <1>1
  <2>. QED
    BY <2>1 DEF Near
<1>4. ASSUME NEW a \in AllCells, NEW b \in AllCells, b \in Near(a)
      PROVE  a \in Near(b)
  <2>1. PICK dx \in {-1, 0, 1}, dy \in {-1, 0, 1} : b = <<a[1] + dx, a[2] + dy>>
    BY <1>4 DEF Near
  <2>2. a[1] \in Int /\ a[2] \in Int /\ a = <<a[1], a[2]>>
    BY FieldSizeAssumption DEF AllCells, Coords
  <2>3. a = <<b[1] + (-dx), b[2] + (-dy)>> /\ -dx \in {-1, 0, 1} /\ -dy \in {-1, 0, 1}
    BY <2>1, <2>2
  <2>. QED
    BY <2>3 DEF Near
<1>. QED
  BY <1>3, <1>4

LEMMA ApartSymmetric ==
    ASSUME NEW s \in SUBSET AllCells, NEW t \in SUBSET AllCells, Apart(s, t)
    PROVE  Apart(t, s)
BY NearSymmetric DEF Apart

(* What a placed ship uses up is exactly what lies near it.                  *)
LEMMA UsedIsNear ==
    ASSUME NEW ship \in SUBSET AllCells, NEW c \in AllCells
    PROVE  c \in UsedBy(ship) <=> Near(c) \cap ship # {}
<1>1. \A d \in ship : c \in Near(d) <=> d \in Near(c)
  BY NearSymmetric
<1>2. c \in UsedBy(ship) <=> \E d \in ship : c \in Near(d)
  BY DEF UsedBy
<1>. QED
  BY <1>1, <1>2

(* No two cells have one position (IndexIsInjective of SeabattleShotsProofs).*)
LEMMA PositionsDiffer ==
    ASSUME NEW c \in AllCells, NEW d \in AllCells
    PROVE  /\ Index(c[1], c[2]) \in Indices
           /\ Index(c[1], c[2]) = Index(d[1], d[2]) => c = d
<1>1. c \in Shots!Cells /\ d \in Shots!Cells
  BY SameField DEF AllCells, Shots!Cells
<1>2. Shots!Index(c[1], c[2]) = Shots!Index(d[1], d[2]) => c = d
  BY <1>1, Shots!IndexIsInjective, ShotsAssumed
<1>. QED
  BY <1>2, SameField, IndexInRange DEF AllCells

(* A ship takes as many positions as it is long.                             *)
LEMMA ShipIsCounted ==
    ASSUME NEW x \in Coords, NEW y \in Coords, NEW dir \in 0..3, NEW length \in 1..FieldSize,
           ShipCells(x, y, dir, length) \subseteq AllCells
    PROVE  LET here == {Index(c[1], c[2]) : c \in ShipCells(x, y, dir, length)}
           IN  here \subseteq Indices /\ IsFiniteSet(here) /\ Cardinality(here) = length
<1> DEFINE ship == ShipCells(x, y, dir, length)
           here == {Index(c[1], c[2]) : c \in ship}
           cell(i) == <<x + i * DxDy(dir)[1], y + i * DxDy(dir)[2]>>
           f == [i \in 0..(length - 1) |-> Index(cell(i)[1], cell(i)[2])]
<1>1. length \in Nat /\ length >= 1 /\ x \in Int /\ y \in Int
  BY FieldSizeAssumption DEF Coords
<1>2. ship = {cell(i) : i \in 0..(length - 1)}
  BY DEF ShipCells
<1>3. ASSUME NEW i \in 0..(length - 1), NEW j \in 0..(length - 1), cell(i) = cell(j)
      PROVE  i = j
  <2>1. x + i * DxDy(dir)[1] = x + j * DxDy(dir)[1] /\ y + i * DxDy(dir)[2] = y + j * DxDy(dir)[2]
    BY <1>3
  <2>. QED
    BY <1>1, <2>1 DEF DxDy
<1> HIDE DEF cell
<1>4. \A i \in 0..(length - 1) : cell(i) \in AllCells /\ cell(i) \in ship
  BY <1>2
<1> HIDE DEF ship
<1>5. f \in Surjection(0..(length - 1), here)
  <2>1. f \in [0..(length - 1) -> here]
    BY <1>4
  <2>2. \A e \in here : \E i \in 0..(length - 1) : f[i] = e
    BY <1>2
  <2>. QED
    BY <2>1, <2>2 DEF Surjection
<1>6. f \in Injection(0..(length - 1), here)
  <2>1. \A i, j \in 0..(length - 1) : f[i] = f[j] => i = j
    BY <1>3, <1>4, PositionsDiffer
  <2>. QED
    BY <1>5, <2>1 DEF Surjection, Injection, IsInjective
<1>7. IsFiniteSet(0..(length - 1)) /\ Cardinality(0..(length - 1)) = length
  BY <1>1, FS_Interval
<1>8. IsFiniteSet(here) /\ Cardinality(here) = length
  BY <1>5, <1>6, <1>7, FS_Surjection
<1>9. here \subseteq Indices
  BY <1>2, <1>4, PositionsDiffer
<1>. QED
  BY <1>8, <1>9 DEF ship

LEMMA NoDecks == Decks(0) = {}
BY DEF Decks

(* The next ship adds as many decks as it is long.                           *)
LEMMA DecksOfNext ==
    ASSUME NEW n \in Nat, n < Len(ShipSizes)
    PROVE  /\ IsFiniteSet(Decks(n))
           /\ Cardinality(Decks(n + 1)) = Cardinality(Decks(n)) + ShipSizes[n + 1]
<1>1. /\ n + 1 \in 1..Len(ShipSizes) /\ Len(ShipSizes) \in Nat
      /\ \A i \in 1..Len(ShipSizes) : ShipSizes[i] \in 1..FieldSize
  <2>1. ShipSizes \in Seq(1..FieldSize) /\ Len(ShipSizes) \in Nat
    BY PlacementAssumption, LenProperties
  <2>2. \A i \in 1..Len(ShipSizes) : ShipSizes[i] \in 1..FieldSize
    BY <2>1, ElementOfSeq
  <2>. QED
    BY <2>1, <2>2
<1> DEFINE k == ShipSizes[n + 1]
           more == {n + 1} \X (1..k)
<1>2. k \in 1..FieldSize /\ k \in Nat /\ FieldSize \in Nat
  BY <1>1, FieldSizeAssumption
<1>3. IsFiniteSet(Decks(n))
  <2>1. IsFiniteSet(1..n) /\ IsFiniteSet(1..FieldSize)
    BY <1>2, FS_Interval
  <2>2. IsFiniteSet((1..n) \X (1..FieldSize))
    BY <2>1, FS_Product
  <2>. QED
    BY <2>2, FS_Subset DEF Decks
<1>4. IsFiniteSet(more) /\ Cardinality(more) = k
  <2>1. IsFiniteSet({n + 1}) /\ Cardinality({n + 1}) = 1
    BY FS_Singleton
  <2>2. IsFiniteSet(1..k) /\ Cardinality(1..k) = k
    <3>1. 1 \in Int /\ k \in Int /\ ~(1 > k) /\ k - 1 + 1 = k
      BY <1>2
    <3> HIDE DEF k
    <3>. QED
      BY <3>1, FS_Interval
  <2>3. IsFiniteSet(more) /\ Cardinality(more) = 1 * k
    BY <2>1, <2>2, FS_Product
  <2>. QED
    BY <1>2, <2>3
<1>5. Decks(n + 1) = Decks(n) \cup more
  <2>1. ASSUME NEW q
        PROVE  q \in Decks(n + 1) <=> q \in Decks(n) \/ q \in more
    <3>1. \A i \in Int : i \in 1..(n + 1) <=> i \in 1..n \/ i = n + 1
      OBVIOUS
    <3>2. q \in more <=> q \in ((1..(n + 1)) \X (1..FieldSize)) /\ q[1] = n + 1 /\ q[2] <= k
      <4> HIDE DEF k
      <4>. QED
        BY <1>2
    <3>3. \A i, j : <<i, j>>[1] = i /\ <<i, j>>[2] = j
      OBVIOUS
    <3>. QED
      BY <3>1, <3>2, <3>3 DEF Decks
  <2>. QED
    BY <2>1
<1>6. Decks(n) \cap more = {}
  BY DEF Decks
<1>7. Cardinality(Decks(n) \cap more) = 0
  BY <1>6, FS_EmptySet
<1> HIDE DEF more, k
<1>8. Cardinality(Decks(n + 1)) = Cardinality(Decks(n)) + k - 0
  BY <1>3, <1>4, <1>5, <1>7, FS_Union
<1>9. Cardinality(Decks(n)) \in Nat
  BY <1>3, FS_CardinalityType
<1>. QED
  BY <1>2, <1>3, <1>8, <1>9 DEF k

LEMMA FreshIsField == Fresh \in Fields
BY PlacementAssumption DEF Fresh, Filled, Fields, States

LEMMA StartInv ==
    ASSUME field = Fresh, available = AllCells, next = 1, attempt = 0, ships = {},
           retries \in 0..MaxRetries
    PROVE  PlacementInv
<1>2. PlacementTypeOK
  BY FreshIsField, PlacementAssumption DEF PlacementTypeOK
<1>3. AvailableIsFree /\ ShipsApart
  BY DEF AvailableIsFree, ShipsApart
<1>4. FleetInv
  <2>1. IsFiniteSet(ships) /\ Cardinality(ships) = 0
    BY FS_EmptySet
  <2>2. CellsOf(ships) = {}
    BY DEF CellsOf
  <2>. QED
    BY <2>1, <2>2, NoDecks, FS_EmptySet DEF FleetInv, Fresh, Filled
<1>. QED
  BY <1>2, <1>3, <1>4 DEF PlacementInv

LEMMA PlaceInv ==
    ASSUME PlacementInv, NEW c \in AllCells, NEW dir \in 0..3, Place(c, dir)
    PROVE  PlacementInv'
<1> DEFINE length == ShipSizes[next]
           ship == ShipCells(c[1], c[2], dir, length)
<1>1. /\ ship \subseteq available /\ Placing
      /\ field' = MarkShip(field, ship) /\ available' = available \ UsedBy(ship)
      /\ ships' = ships \cup {ship} /\ next' = next + 1 /\ attempt' = 0
      /\ UNCHANGED retries
  BY DEF Place, CanTry, Fits
<1>2. ship \in SUBSET AllCells
  BY <1>1 DEF PlacementInv, PlacementTypeOK
<1>3. /\ length \in 1..FieldSize /\ next \in Nat /\ next - 1 \in Nat
       /\ next - 1 < Len(ShipSizes) /\ (next - 1) + 1 = next
  <2>1. next \in 1..Len(ShipSizes) /\ Len(ShipSizes) \in Nat
    BY <1>1, PlacementAssumption, LenProperties DEF Placing, PlacementInv, PlacementTypeOK
  <2>2. length \in 1..FieldSize
    BY <2>1, ElementOfSeq, PlacementAssumption
  <2>. QED
    BY <2>1, <2>2
<1>4. c[1] \in Coords /\ c[2] \in Coords
  BY DEF AllCells
<1> HIDE DEF length
<1>5. LET at == {Index(d[1], d[2]) : d \in ship}
       IN  at \subseteq Indices /\ IsFiniteSet(at) /\ Cardinality(at) = length
  BY <1>2, <1>3, <1>4, ShipIsCounted
<1>6. IsStraight(ship)
  BY <1>3, <1>4 DEF IsStraight
<1>7. ship # {}
  <2>1. 0 \in 0..(length - 1)
    BY <1>3, FieldSizeAssumption
  <2>. QED
    BY <2>1 DEF ShipCells
<1> HIDE DEF ship
<1>8. \A s \in ships : s \in SUBSET AllCells
  BY DEF PlacementInv, PlacementTypeOK
<1>9. \A s \in ships : Apart(ship, s)
  BY <1>1, <1>2 DEF PlacementInv, AvailableIsFree, Apart
<1>10. ship \notin ships
  <2> SUFFICES ASSUME ship \in ships PROVE FALSE
    OBVIOUS
  <2>1. Apart(ship, ship)
    BY <1>9
  <2>2. PICK d \in ship : TRUE
    BY <1>7
  <2>3. d \in Near(d)
    BY <1>2, NearSymmetric
  <2>. QED
    BY <2>1, <2>2, <2>3 DEF Apart
<1>11. PlacementTypeOK'
  <2>1. field' \in Fields
    BY <1>1 DEF MarkShip, Fields, States, PlacementInv, PlacementTypeOK
  <2>2. next' \in 1..(Len(ShipSizes) + 1)
    BY <1>1, PlacementAssumption DEF Placing, PlacementInv, PlacementTypeOK
  <2>. QED
    BY <1>1, <1>2, <2>1, <2>2, PlacementAssumption DEF PlacementInv, PlacementTypeOK
<1>12. AvailableIsFree'
  BY <1>1, <1>2, UsedIsNear DEF PlacementInv, AvailableIsFree
<1>13. ShipsApart'
  BY <1>1, <1>2, <1>8, <1>9, ApartSymmetric DEF PlacementInv, ShipsApart
<1>14. FleetInv'
  <2>1. IsFiniteSet(ships') /\ Cardinality(ships') = Cardinality(ships) + 1
    BY <1>1, <1>10, FS_AddElement DEF PlacementInv, FleetInv
  <2>2. Cardinality(ships') = next' - 1
    BY <1>1, <2>1 DEF PlacementInv, FleetInv, PlacementTypeOK
  <2> DEFINE here == {Index(d[1], d[2]) : d \in ship}
  <2>3. CellsOf(ships') = CellsOf(ships) \cup here
    BY <1>1 DEF CellsOf
  <2>4. field'.cell = [i \in Indices |-> IF i \in here THEN "SHIP" ELSE field.cell[i]]
    BY <1>1 DEF MarkShip, PlacementInv, PlacementTypeOK, Fields
  <2>5. field'.cell = [i \in Indices |-> IF i \in CellsOf(ships') THEN "SHIP" ELSE "EMPTY"]
    <3> HIDE DEF here
    <3>. QED
      BY <2>3, <2>4 DEF PlacementInv, FleetInv
  <2>6. field'.weight = InitialWeight
    BY <1>1 DEF MarkShip, PlacementInv, PlacementTypeOK, FleetInv, Fields
  <2>7. CellsOf(ships) \cap here = {}
    <3>1. \A s \in ships : \A d \in s : \A e \in ship : d # e
      BY <1>2, <1>9, NearSymmetric DEF Apart
    <3>. QED
      BY <1>2, <1>8, <3>1, PositionsDiffer DEF CellsOf
  <2>8. here \subseteq Indices /\ IsFiniteSet(here) /\ Cardinality(here) = length
    BY <1>5
  <2> HIDE DEF here
  <2>9. CellsOf(ships') \subseteq Indices
    BY <2>3, <2>8 DEF PlacementInv, FleetInv
  <2>10. Cardinality(CellsOf(ships')) = Cardinality(Decks(next' - 1))
    <3>1. IsFiniteSet(CellsOf(ships)) /\ Cardinality(CellsOf(ships)) \in Nat
      BY IndicesFinite, FS_Subset, FS_CardinalityType DEF PlacementInv, FleetInv
    <3>2. Cardinality(CellsOf(ships) \cap here) = 0
      BY <2>7, FS_EmptySet
    <3>3. Cardinality(CellsOf(ships')) = Cardinality(CellsOf(ships)) + length - 0
      BY <2>3, <2>8, <3>1, <3>2, FS_Union
    <3>4. Cardinality(Decks(next)) = Cardinality(Decks(next - 1)) + length
      BY <1>3, DecksOfNext DEF length
    <3>5. next' - 1 = next
      BY <1>1, <1>3
    <3>6. length \in Nat
      BY <1>3, FieldSizeAssumption
    <3>. QED
      BY <3>1, <3>3, <3>4, <3>5, <3>6 DEF PlacementInv, FleetInv
  <2>11. \A s \in ships' : IsStraight(s)
    BY <1>1, <1>6 DEF PlacementInv, FleetInv
  <2>. QED
    BY <2>1, <2>2, <2>5, <2>6, <2>9, <2>10, <2>11 DEF FleetInv
<1>. QED
  BY <1>11, <1>12, <1>13, <1>14 DEF PlacementInv

LEMMA UnchangedInv ==
    ASSUME PlacementInv, UNCHANGED <<field, available, next, ships, retries>>,
           attempt' \in 0..MaxAttempts
    PROVE  PlacementInv'
BY DEF PlacementInv, PlacementTypeOK, AvailableIsFree, ShipsApart, FleetInv, CellsOf

LEMMA RetryInv ==
    ASSUME PlacementInv, Retry
    PROVE  PlacementInv'
<1>1. retries' \in 0..MaxRetries
  BY PlacementAssumption DEF Retry, PlacementInv, PlacementTypeOK
<1>2. field' = Fresh /\ available' = AllCells /\ next' = 1 /\ attempt' = 0 /\ ships' = {}
  BY DEF Retry
<1>3. PlacementTypeOK'
  BY <1>1, <1>2, FreshIsField, PlacementAssumption DEF PlacementTypeOK
<1>4. AvailableIsFree' /\ ShipsApart'
  BY <1>2 DEF AvailableIsFree, ShipsApart
<1>5. FleetInv'
  <2>1. IsFiniteSet(ships') /\ Cardinality(ships') = 0
    BY <1>2, FS_EmptySet
  <2>2. CellsOf(ships') = {}
    BY <1>2 DEF CellsOf
  <2>. QED
    BY <1>2, <2>1, <2>2, NoDecks, FS_EmptySet DEF FleetInv, Fresh, Filled
<1>. QED
  BY <1>3, <1>4, <1>5 DEF PlacementInv

LEMMA NextInv ==
    ASSUME PlacementInv, [PlacementNext]_placement
    PROVE  PlacementInv'
<1>1. ASSUME NEW c \in AllCells, NEW dir \in 0..3, Place(c, dir)
      PROVE  PlacementInv'
  BY <1>1, PlaceInv
<1>2. ASSUME NEW c \in AllCells, NEW dir \in 0..3, Fail(c, dir)
      PROVE  PlacementInv'
  <2>1. attempt' \in 0..MaxAttempts
    BY <1>2, PlacementAssumption DEF Fail, CanTry, PlacementInv, PlacementTypeOK
  <2>. QED
    BY <1>2, <2>1, UnchangedInv DEF Fail
<1>3. CASE Retry
  BY <1>3, RetryInv
<1>4. CASE UNCHANGED placement
  BY <1>4, UnchangedInv DEF placement, PlacementInv, PlacementTypeOK
<1>. QED
  BY <1>1, <1>2, <1>3, <1>4 DEF PlacementNext

LEMMA PlacementInvariance == PlacementSpec => []PlacementInv
<1>1. PlacementInit => PlacementInv
  BY StartInv, PlacementAssumption DEF PlacementInit
<1>2. PlacementInv /\ [PlacementNext]_placement => PlacementInv'
  BY NextInv
<1>. QED
  BY <1>1, <1>2, PTL DEF PlacementSpec

(* A ship lies in the field as a whole, whatever cell and direction were     *)
(* drawn for it.                                                             *)
THEOREM ShipsLieInField == PlacementSpec => []PlacementTypeOK
BY PlacementInvariance, PTL DEF PlacementInv

(* Two ships of a random field never touch, not even by a corner.            *)
THEOREM ShipsNeverTouch == PlacementSpec => []ShipsApart
BY PlacementInvariance, PTL DEF PlacementInv

(* The cells offered to the next ship are exactly those where a cell of it   *)
(* may lie.                                                                  *)
THEOREM OfferedIsFree == PlacementSpec => []AvailableIsFree
BY PlacementInvariance, PTL DEF PlacementInv

(* A finished field has every ship of the list and shows ships exactly where *)
(* they lie, and if weight_ starts with the decks of the list, it is their   *)
(* number: no deck hides under another one.                                  *)
THEOREM WeightIsCounted ==
    ASSUME InitialWeight = Cardinality(Decks(Len(ShipSizes)))
    PROVE  PlacementSpec => []WeightIsShipCells
<1>1. ASSUME PlacementInv, ~Placing
      PROVE  Cardinality(ships) = Len(ShipSizes) /\ field = FieldOf(ships)
  <2>1. next - 1 = Len(ShipSizes)
    BY <1>1, PlacementAssumption, LenProperties DEF Placing, PlacementInv, PlacementTypeOK
  <2>2. /\ field.weight = Cardinality(CellsOf(ships))
        /\ field.cell = [i \in Indices |-> IF i \in CellsOf(ships) THEN "SHIP" ELSE "EMPTY"]
        /\ Cardinality(ships) = Len(ShipSizes)
    BY <1>1, <2>1 DEF PlacementInv, FleetInv
  <2>3. field = [cell |-> field.cell, weight |-> field.weight]
    BY <1>1 DEF PlacementInv, PlacementTypeOK, Fields
  <2>. QED
    BY <2>2, <2>3 DEF FieldOf
<1>2. PlacementInv => WeightIsShipCells
  BY <1>1 DEF WeightIsShipCells
<1>. QED
  BY <1>2, PlacementInvariance, PTL

(* What GameAssumption asks of a fleet, GetRandomField delivers: straight    *)
(* ships apart from each other, whose cells are the decks of ship_sizes.     *)
THEOREM PlacementMakesFleets ==
    PlacementSpec => [](~Placing =>
        /\ IsFleet(ships)
        /\ FieldOf(ships).weight = Cardinality(Decks(Len(ShipSizes))))
<1>1. ASSUME PlacementInv, ~Placing
      PROVE  IsFleet(ships) /\ FieldOf(ships).weight = Cardinality(Decks(Len(ShipSizes)))
  <2>1. next - 1 = Len(ShipSizes)
    BY <1>1, PlacementAssumption, LenProperties DEF Placing, PlacementInv, PlacementTypeOK
  <2>2. IsFleet(ships)
    BY <1>1 DEF PlacementInv, PlacementTypeOK, ShipsApart, FleetInv, IsStraight, IsFleet, AllCells
  <2>. QED
    BY <1>1, <2>1, <2>2 DEF PlacementInv, FleetInv, FieldOf
<1>2. PlacementInv => (~Placing => /\ IsFleet(ships)
                                  /\ FieldOf(ships).weight = Cardinality(Decks(Len(ShipSizes))))
  BY <1>1
<1>. QED
  BY <1>2, PlacementInvariance, PTL

(* The list of the code has as many decks as weight_ is initialised with,    *)
(* 1 * 4 + 2 * 3 + 3 * 2 + 4 * 1.                                            *)
THEOREM DecksOfTheCode ==
    ASSUME ShipSizes = <<4, 3, 3, 2, 2, 2, 1, 1, 1, 1>>
    PROVE  Cardinality(Decks(Len(ShipSizes))) = 20
<1>1. Len(ShipSizes) = 10
  OBVIOUS
<1>2. /\ ShipSizes[1] = 4 /\ ShipSizes[2] = 3 /\ ShipSizes[3] = 3 /\ ShipSizes[4] = 2
      /\ ShipSizes[5] = 2 /\ ShipSizes[6] = 2 /\ ShipSizes[7] = 1 /\ ShipSizes[8] = 1
      /\ ShipSizes[9] = 1 /\ ShipSizes[10] = 1
  OBVIOUS
<1> DEFINE count(n) == Cardinality(Decks(n))
<1>3. ASSUME NEW n \in 0..9
      PROVE  count(n + 1) = count(n) + ShipSizes[n + 1]
  BY <1>1, DecksOfNext
<1>4. count(0) = 0
  BY NoDecks, FS_EmptySet
<1> HIDE DEF count
<1>5. /\ count(1) = count(0) + 4 /\ count(2) = count(1) + 3 /\ count(3) = count(2) + 3
      /\ count(4) = count(3) + 2 /\ count(5) = count(4) + 2 /\ count(6) = count(5) + 2
      /\ count(7) = count(6) + 1 /\ count(8) = count(7) + 1 /\ count(9) = count(8) + 1
      /\ count(10) = count(9) + 1
  <2>1. /\ count(0 + 1) = count(0) + ShipSizes[0 + 1] /\ count(1 + 1) = count(1) + ShipSizes[1 + 1]
        /\ count(2 + 1) = count(2) + ShipSizes[2 + 1] /\ count(3 + 1) = count(3) + ShipSizes[3 + 1]
        /\ count(4 + 1) = count(4) + ShipSizes[4 + 1] /\ count(5 + 1) = count(5) + ShipSizes[5 + 1]
        /\ count(6 + 1) = count(6) + ShipSizes[6 + 1] /\ count(7 + 1) = count(7) + ShipSizes[7 + 1]
        /\ count(8 + 1) = count(8) + ShipSizes[8 + 1] /\ count(9 + 1) = count(9) + ShipSizes[9 + 1]
    BY <1>3
  <2>. QED
    BY <1>2, <2>1
<1>6. count(10) = 20
  BY <1>4, <1>5
<1>. QED
  BY <1>1, <1>6 DEF count
=============================================================================
