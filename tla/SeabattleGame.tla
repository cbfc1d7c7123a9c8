---------------------------- MODULE SeabattleGame ----------------------------
(* The sea battle game as two programs joined by a TCP connection            *)
(* (main.cpp): in turn one player types a shot, which is sent as the bytes   *)
(* typed, and the other answers with one byte; whoever misses loses the      *)
(* initiative.  Nothing in the stream separates one message from the next:   *)
(* a reader takes two bytes for a shot and one for an answer.                *)
(* (An operator whose name ends in an underscore and a remark is a fault put *)
(* in place of the operator it precedes.)                                    *)
EXTENDS SeabattleField, Sequences

CONSTANTS Fleets,      \* the fleets a field may carry
          Weight,      \* the initial value of weight_
          Lines,       \* what a player may type, as sequences of characters
          None,        \* no shot
          MaxWire,     \* bound: the bytes on the way to one player
          MaxStrays    \* bound: the lines of a game that are no proper shots

Client == "client"
Server == "server"
Players == {Client, Server}
Other(p) == IF p = Client THEN Server ELSE Client

(* A byte is a letter (given by its distance from 'A'), a digit, or anything *)
(* else.  Answers are digits too, so a digit of a shot that is read where an *)
(* answer is due passes for one.                                             *)
Letter(n) == <<"letter", n>>
Digit(n) == <<"digit", n>>
Junk == <<"junk", 0>>
Bytes == {Letter(n) : n \in 0..FieldSize} \cup {Digit(n) : n \in 0..(FieldSize + 1)} \cup {Junk}

(* SendResult                                                                *)
AnswerByte == [MISS |-> Digit(0), HIT |-> Digit(1), KILL |-> Digit(2)]
IsAnswer(byte) == byte \in {AnswerByte[r] : r \in DOMAIN AnswerByte}

(* Every fleet is one that the placement makes and fills as many cells as    *)
(* weight_ says (a constant of the code), and None, the empty optional, is   *)
(* no move.                                                                  *)
ASSUME GameAssumption ==
    /\ Weight \in Nat
    /\ \A fleet \in Fleets : IsFleet(fleet) /\ FieldOf(fleet).weight = Weight
    /\ \A x, y \in Coords : None # <<x, y>>
    /\ Lines \subseteq Seq(Bytes)
    /\ MaxWire \in Nat
    /\ MaxStrays \in Nat

VARIABLES own,         \* my_field_ of each player
          view,        \* other_field_ of each player
          initiative,  \* my_initiative
          pc,          \* where each program is in StartGame
          data,        \* the line each player typed, until it is answered
          wire,        \* the bytes sent to each player and not yet read
          strays       \* history: the lines typed that were no proper shots

fields == <<own, view>>
vars == <<fields, initiative, pc, data, wire, strays>>

(* The lines that shoot at a cell of the field.                              *)
ProperShots == {<<Letter(y), Digit(x + 1)>> : x, y \in Coords}

(* "undefined": the program touched memory outside the field and may do      *)
(* anything; it is not followed further.                                     *)
Pc == {"loop", "read_answer", "over", "error", "quit", "undefined"}
Gone == {"over", "error", "quit"}

(* A SeabattleAgent on either side as StartGame is called: by StartClient    *)
(* with the initiative, by StartServer without.                              *)
Init ==
    /\ own \in [Players -> {[FieldOf(fleet) EXCEPT !.weight = Weight] : fleet \in Fleets}]
    /\ view = [p \in Players |-> Filled("UNKNOWN", Weight)]
    /\ initiative = [p \in Players |-> p = Client]
    /\ pc = [p \in Players |-> "loop"]
    /\ data = [p \in Players |-> <<>>]
    /\ wire = [p \in Players |-> <<>>]
    /\ strays = 0

IsGameEnded_OwnOnly(p) == IsLoser(own[p])

IsGameEnded(p) == IsLoser(own[p]) \/ IsLoser(view[p])

ParseMove_RowsFromOne(line) ==
    IF /\ Len(line) = 2
       /\ line[1][1] = "letter" /\ line[1][2] \in 0..FieldSize
       /\ line[2][1] = "digit" /\ line[2][2] - 1 \in 0..FieldSize
    THEN <<line[2][2] - 1, line[1][2] + 1>>
    ELSE None

(* ParseMove: a letter and a digit, each at most field_size beyond the first *)
(* one ('A', '1'); the result is the column and the row.                     *)
ParseMove(line) ==
    IF /\ Len(line) = 2
       /\ line[1][1] = "letter" /\ line[1][2] \in 0..FieldSize
       /\ line[2][1] = "digit" /\ line[2][2] - 1 \in 0..FieldSize
    THEN <<line[2][2] - 1, line[1][2]>>
    ELSE None

(* A move that denotes a cell of the array.                                  *)
Exists(move) == move # None /\ Index(move[1], move[2]) \in Indices

-----------------------------------------------------------------------------
EndGame(p) ==
    /\ pc[p] = "loop"
    /\ IsGameEnded(p)
    /\ pc' = [pc EXCEPT ![p] = "over"]
    /\ UNCHANGED <<fields, initiative, data, wire>>

(* getline and WriteExact.  A write that fails is only reported: what is     *)
(* sent to a program that has ended is never read.                           *)
TypeShot(p) ==
    /\ pc[p] = "loop"
    /\ ~IsGameEnded(p)
    /\ initiative[p]
    /\ \E line \in Lines :
           /\ Len(wire[Other(p)]) + Len(line) <= MaxWire
           /\ data' = [data EXCEPT ![p] = line]
           /\ wire' = [wire EXCEPT ![Other(p)] = @ \o line]
           /\ strays' = IF line \in ProperShots THEN strays ELSE strays + 1
           /\ strays' <= MaxStrays
    /\ pc' = [pc EXCEPT ![p] = "read_answer"]
    /\ UNCHANGED <<fields, initiative>>

Mark_Swapped(f, byte, move) ==
    CASE byte = AnswerByte["MISS"] -> MarkMiss(f, move[2], move[1])
      [] byte = AnswerByte["HIT"]  -> MarkHit(f, move[2], move[1])
      [] byte = AnswerByte["KILL"] -> MarkKill(f, move[2], move[1])

(* The mark the shooter makes for an answer.                                 *)
Mark(f, byte, move) ==
    CASE byte = AnswerByte["MISS"] -> MarkMiss(f, move[1], move[2])
      [] byte = AnswerByte["HIT"]  -> MarkHit(f, move[1], move[2])
      [] byte = AnswerByte["KILL"] -> MarkKill(f, move[1], move[2])

(* What stands in the optional that ParseMove returned: the move, or, if it  *)
(* is empty, whatever was in memory.                                         *)
Dereferenced(move) == IF move = None THEN Coords \X Coords ELSE {move}

KeepsTurn_Always(p, byte) == initiative[p]

KeepsTurn(p, byte) == initiative[p] /\ byte # AnswerByte["MISS"]

ReadAnswerByte(p) ==
    /\ pc[p] = "read_answer"
    /\ wire[p] # <<>>
    /\ wire' = [wire EXCEPT ![p] = Tail(@)]
    /\ data' = [data EXCEPT ![p] = <<>>]
    /\ UNCHANGED own

(* ReadExact<1>, ParseMove of the line and the marking of the answer.        *)
ReadAnswer(p) ==
    /\ ReadAnswerByte(p)
    /\ IsAnswer(Head(wire[p]))
    /\ \E move \in Dereferenced(ParseMove(data[p])) :
           /\ Exists(move)
           /\ view' = [view EXCEPT ![p] = Mark(@, Head(wire[p]), move)]
    /\ initiative' = [initiative EXCEPT ![p] = KeepsTurn(p, Head(wire[p]))]
    /\ pc' = [pc EXCEPT ![p] = "loop"]

(* The move is not in the array, or the optional held no coordinates at all. *)
MarkOutside(p) ==
    /\ ReadAnswerByte(p)
    /\ IsAnswer(Head(wire[p]))
    /\ ~Exists(ParseMove(data[p]))
    /\ pc' = [pc EXCEPT ![p] = "undefined"]
    /\ UNCHANGED <<view, initiative>>

(* A byte that is no answer is reported and the turn goes on.                *)
IgnoreAnswer(p) ==
    /\ ReadAnswerByte(p)
    /\ ~IsAnswer(Head(wire[p]))
    /\ pc' = [pc EXCEPT ![p] = "loop"]
    /\ UNCHANGED <<view, initiative>>

AtReadShot(p) == pc[p] = "loop" /\ ~IsGameEnded(p) /\ ~initiative[p]

TwoBytes(p) == SubSeq(wire[p], 1, 2)
AfterTwoBytes(p) == [wire EXCEPT ![p] = SubSeq(@, 3, Len(@))]

(* ReadExact<2>, Shoot and SendResult.                                       *)
ReadShot(p) ==
    /\ AtReadShot(p)
    /\ Len(wire[p]) >= 2
    /\ LET move == ParseMove(TwoBytes(p)) IN
           /\ Exists(move)
           /\ LET r == ShotResult(own[p], move[1], move[2]) IN
                  /\ own' = [own EXCEPT ![p] = Shoot(@, move[1], move[2])]
                  /\ initiative' = [initiative EXCEPT ![p] = r = "MISS"]
                  /\ wire' = [AfterTwoBytes(p) EXCEPT ![Other(p)] = Append(@, AnswerByte[r])]
    /\ UNCHANGED <<view, pc, data>>

ShootOutside(p) ==
    /\ AtReadShot(p)
    /\ Len(wire[p]) >= 2
    /\ LET move == ParseMove(TwoBytes(p)) IN move # None /\ ~Exists(move)
    /\ wire' = AfterTwoBytes(p)
    /\ pc' = [pc EXCEPT ![p] = "undefined"]
    /\ UNCHANGED <<fields, initiative, data>>

(* Two bytes that are no shot are reported and nothing is answered.          *)
IgnoreShot(p) ==
    /\ AtReadShot(p)
    /\ Len(wire[p]) >= 2
    /\ ParseMove(TwoBytes(p)) = None
    /\ wire' = AfterTwoBytes(p)
    /\ UNCHANGED <<fields, initiative, pc, data>>

(* The peer has closed the connection and too few bytes are left.            *)
ReadFails(p) ==
    /\ pc[Other(p)] \in Gone
    /\ \/ pc[p] = "read_answer" /\ wire[p] = <<>>
       \/ AtReadShot(p) /\ Len(wire[p]) < 2
    /\ pc' = [pc EXCEPT ![p] = "error"]
    /\ UNCHANGED <<fields, initiative, data, wire>>

(* A player kills the program.                                               *)
Quit(p) ==
    /\ pc[p] \in {"loop", "read_answer"}
    /\ pc' = [pc EXCEPT ![p] = "quit"]
    /\ UNCHANGED <<fields, initiative, data, wire, strays>>

Step(p) ==
    /\ \/ EndGame(p)
       \/ ReadAnswer(p)
       \/ MarkOutside(p)
       \/ IgnoreAnswer(p)
       \/ ReadShot(p)
       \/ ShootOutside(p)
       \/ IgnoreShot(p)
       \/ ReadFails(p)
    /\ UNCHANGED strays

Next == \E p \in Players : Step(p) \/ TypeShot(p) \/ Quit(p)

(* The programs run and the connection delivers; the players may stop        *)
(* typing.                                                                   *)
Fairness == \A p \in Players : WF_vars(Step(p))

Spec == Init /\ [][Next]_vars /\ Fairness

-----------------------------------------------------------------------------
(* Properties *)

(* The type invariant: every byte sent is one the readers know.              *)
TypeOK ==
    /\ own \in [Players -> Fields]
    /\ view \in [Players -> Fields]
    /\ initiative \in [Players -> BOOLEAN]
    /\ pc \in [Players -> Pc]
    /\ data \in [Players -> Lines \cup {<<>>}]
    /\ wire \in [Players -> Seq(Bytes)]
    /\ strays \in Nat

(* Until somebody types what is no proper shot, at most one player has the   *)
(* initiative and an empty desk: both have it, or none, only while an answer *)
(* is on its way.                                                            *)
OneTurn ==
    strays = 0 /\ (\A p \in Players : pc[p] = "loop") => (initiative[Client] <=> ~initiative[Server])

(* Until then a reader finds whole messages and nothing else, though nothing *)
(* marks where one ends: a player at the turn of the other finds the shot    *)
(* that the other has typed; one who waits for an answer finds the answer,   *)
(* and behind a miss possibly the other's next shot, typed already.  Bytes   *)
(* are never on their way in both directions.                                *)
MessagesAreWhole ==
    strays = 0 => \A p \in Players : wire[p] # <<>> /\ pc[p] \notin Gone =>
        /\ wire[Other(p)] = <<>>
        /\ \/ /\ AtReadShot(p)
              /\ wire[p] = data[Other(p)] /\ wire[p] \in ProperShots
           \/ /\ pc[p] = "read_answer"
              /\ \E r \in DOMAIN AnswerByte : wire[p] = <<AnswerByte[r]>>
           \/ /\ pc[p] = "read_answer" /\ pc[Other(p)] \in {"read_answer", "quit"}
              /\ data[Other(p)] \in ProperShots
              /\ wire[p] = <<AnswerByte["MISS"]>> \o data[Other(p)]

(* Until then both see the same end: a player whose game is over plays       *)
(* against one whose game is over, or who has the last answer to read, or    *)
(* who left; so a read fails only if the other player killed the program.    *)
EndIsCommon ==
    strays = 0 => \A p \in Players :
        /\ pc[p] = "over" =>
            \/ IsGameEnded(Other(p))
            \/ pc[Other(p)] = "read_answer" /\ wire[Other(p)] = <<AnswerByte["KILL"]>>
            \/ pc[Other(p)] = "quit"
        /\ pc[p] = "error" => pc[Other(p)] = "quit"

(* Until then no player marks a field without coordinates or outside of it.  *)
NothingUndefined == strays = 0 => \A p \in Players : pc[p] # "undefined"

(* A shot is answered, or the other player has left, or somebody strays.     *)
ShotIsAnswered ==
    \A p \in Players : (pc[p] = "read_answer") ~> (pc[p] # "read_answer" \/ strays > 0)

(* Whatever the players type and in whatever order bytes are taken for shots *)
(* and answers: a program counts the ships afloat on its own field and the   *)
(* hits in its view without error, and stops before a count falls below zero *)
(* (which IsLoser, a test for equality, would never notice).                 *)
WeightsCount ==
    \A p \in Players :
        /\ own[p].weight = Cardinality({i \in Indices : own[p].cell[i] = "SHIP"})
        /\ view[p].weight = Weight - Cardinality({i \in Indices : view[p].cell[i] = "KILLED"})
        /\ view[p].weight >= 0

(* An answer to p is on its way; p's picture once that answer is marked.     *)
Pending(p) == pc[p] \in {"read_answer", "quit"} /\ wire[p] # <<>> /\ IsAnswer(wire[p][1])

Picture(p) == IF Pending(p) THEN Mark(view[p], wire[p][1], ParseMove(data[p])) ELSE view[p]

ShotsOfClient == INSTANCE SeabattleShots WITH
    MaxColumn <- FieldSize - 1, own <- own[Server], view <- Picture(Client)

ShotsOfServer == INSTANCE SeabattleShots WITH
    MaxColumn <- FieldSize - 1, own <- own[Client], view <- Picture(Server)

(* Until somebody strays, each player's shots, as seen by both ends, are     *)
(* those of SeabattleShots: a message more or less between the two programs  *)
(* makes no difference.                                                      *)
ImplementsShots ==
    /\ ShotsOfClient!Init /\ [][strays' > 0 \/ [ShotsOfClient!Next]_(ShotsOfClient!vars)]_vars
    /\ ShotsOfServer!Init /\ [][strays' > 0 \/ [ShotsOfServer!Next]_(ShotsOfServer!vars)]_vars
=============================================================================
