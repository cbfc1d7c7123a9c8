----------------------------- MODULE RadioProofs -----------------------------
(* Theorems about Radio, for any clients, any size of a buffer, any periods  *)
(* of the devices, and any numbers of recordings and duplicates.             *)
EXTENDS Radio, SequenceTheorems, TLAPS

Ids == Clients \X Nat

(* A recording of which n frames were made before the time was over.         *)
Padded(r, n) == [i \in 1..Frames |-> IF i <= n THEN Frame(r, i) ELSE Silence]

Shape ==
    /\ DOMAIN client = Clients /\ DOMAIN recordings = Clients
    /\ DOMAIN buffer = Clients /\ DOMAIN save_off = Clients
    /\ \A c \in Clients : recordings[c] \in Nat /\ save_off[c] \in 0..Frames
    /\ played \subseteq Ids

(* A Recorder holds the recording in hand from its beginning.                *)
RecorderInv ==
    \A c \in Clients : client[c] = "recording" => buffer[c] = Padded(Recording(c), save_off[c])

IsRequest(d) ==
    /\ "to" \in DOMAIN d /\ "from" \in DOMAIN d /\ "of" \in DOMAIN d /\ "data" \in DOMAIN d
    /\ d.to = ServerPort /\ d.from \in Ids /\ d.of = d.from
    /\ \E n \in 0..Frames : d.data = Padded(d.of, n)

IsAnswer(d) == "to" \in DOMAIN d /\ d.to \in played

(* A request carries one recording and asks for the answer at its own port;  *)
(* an answer is to a recording that was played.                              *)
NetworkInv == \A d \in network : IsRequest(d) \/ IsAnswer(d)

(* The server plays, and its device has got, a prefix of one recording.      *)
PlayerInv ==
    /\ server = "playing" => remote = playing /\ playing \in Ids
    /\ fill_off \in 0..Frames
    /\ \E n \in 0..Frames :
           /\ server = "playing" => recv_buf = Padded(playing, n)
           /\ heard = [i \in 1..fill_off |-> Padded(playing, n)[i]]

RadioInv == Shape /\ RecorderInv /\ NetworkInv /\ PlayerInv /\ AnsweredWasPlayed

-----------------------------------------------------------------------------
(* Lemmas *)

(* A datagram of a whole buffer leaves nothing of recv_buf indeterminate.    *)
LEMMA WholeBuffer ==
    ASSUME NEW r, NEW n \in 0..Frames
    PROVE  Padded(r, n) \o SubSeq(Filled(Indeterminate), Len(Padded(r, n)) + 1, Frames)
               = Padded(r, n)
<1> DEFINE Samples == {Silence} \cup {Frame(r, i) : i \in 1..Frames}
           rest == SubSeq(Filled(Indeterminate), Frames + 1, Frames)
<1>1. Frames \in Nat
  BY RadioAssumption
<1>2. Padded(r, n) \in Seq(Samples) /\ Len(Padded(r, n)) = Frames
  <2>1. Padded(r, n) \in [1..Frames -> Samples]
    BY DEF Padded
  <2> HIDE DEF Samples
  <2>2. Len(Padded(r, n)) = Frames
    BY <1>1 DEF Padded
  <2>. QED
    BY <1>1, <2>1, <2>2
<1>3. rest = <<>>
  BY <1>1 DEF Filled
<1> HIDE DEF Samples, rest
<1>4. Padded(r, n) \o <<>> = Padded(r, n)
  BY <1>2
<1>. QED
  BY <1>2, <1>3, <1>4 DEF rest

(* The device gets the next frames of the buffer.                            *)
LEMMA Appended ==
    ASSUME NEW p, NEW m \in Nat, NEW k \in Nat
    PROVE  [i \in 1..m |-> p[i]] \o [i \in 1..k |-> p[m + i]] = [i \in 1..(m + k) |-> p[i]]
<1> DEFINE Samples == {p[i] : i \in 1..(m + k)}
           f == [i \in 1..m |-> p[i]]
           g == [i \in 1..k |-> p[m + i]]
           h == [i \in 1..(m + k) |-> p[i]]
<1>1. \A i \in 1..(m + k) : p[i] \in Samples
  OBVIOUS
<1> HIDE DEF Samples
<1>2. f \in Seq(Samples) /\ g \in Seq(Samples) /\ h \in Seq(Samples)
  BY <1>1, IsASeq
<1>3. Len(f) = m /\ Len(g) = k /\ Len(h) = m + k
  OBVIOUS
<1>4. /\ f \o g \in Seq(Samples) /\ Len(f \o g) = m + k
      /\ \A i \in 1..(m + k) : (f \o g)[i] = IF i <= m THEN f[i] ELSE g[i - m]
  <2> HIDE DEF f, g
  <2>. QED
    BY <1>2, <1>3, ConcatProperties
<1>5. \A i \in 1..(m + k) : (f \o g)[i] = h[i]
  <2>1. ASSUME NEW i \in 1..(m + k), i <= m PROVE f[i] = h[i]
    BY <2>1
  <2>2. ASSUME NEW i \in 1..(m + k), ~(i <= m) PROVE g[i - m] = h[i]
    BY <2>2
  <2> HIDE DEF f, g, h
  <2>. QED
    BY <2>1, <2>2, <1>4
<1>. QED
  <2> HIDE DEF f, g, h
  <2>1. f \o g = h
    BY <1>2, <1>3, <1>4, <1>5, SeqEqual
  <2>. QED
    BY <2>1 DEF f, g, h

LEMMA InitInv == Init => RadioInv
<1> SUFFICES ASSUME Init PROVE RadioInv
  OBVIOUS
<1>1. Frames \in Nat
  BY RadioAssumption
<1>2. Shape
  BY <1>1 DEF Init, Shape
<1>3. RecorderInv
  BY DEF Init, RecorderInv
<1>4. NetworkInv
  BY DEF Init, NetworkInv
<1>5. PlayerInv
  <2>1. heard = [i \in 1..0 |-> Padded(playing, 0)[i]]
    BY DEF Init
  <2>. QED
    BY <1>1, <2>1 DEF Init, PlayerInv
<1>. QED
  BY <1>2, <1>3, <1>4, <1>5 DEF Init, AnsweredWasPlayed, RadioInv

LEMMA RecordInv ==
    ASSUME RadioInv, NEW c \in Clients, Record(c)
    PROVE  RadioInv'
<1>1. Shape'
  BY RadioAssumption DEF RadioInv, Shape, Record, StartOffset, player
<1>2. RecorderInv'
  <2>1. ASSUME NEW x \in Clients, client'[x] = "recording"
        PROVE  (buffer[x] = Padded(Recording(x), save_off[x]))'
    <3>1. CASE x = c
      <4>1. buffer'[x] = Filled(Silence) /\ save_off'[x] = 0
        BY <3>1 DEF RadioInv, Shape, Record, StartOffset
      <4>. QED
        BY <4>1, RadioAssumption DEF Filled, Padded
    <3>2. CASE x # c
      BY <2>1, <3>2 DEF RadioInv, Shape, RecorderInv, Record, Recording
    <3>. QED
      BY <3>1, <3>2
  <2>. QED
    BY <2>1 DEF RecorderInv
<1>3. NetworkInv' /\ PlayerInv' /\ AnsweredWasPlayed'
  BY DEF RadioInv, Record, NetworkInv, IsAnswer, PlayerInv, AnsweredWasPlayed, player, wire
<1>. QED
  BY <1>1, <1>2, <1>3 DEF RadioInv

LEMMA SaveBufferInv ==
    ASSUME RadioInv, NEW c \in Clients, NEW frameCount \in Periods, SaveBuffer(c, frameCount)
    PROVE  RadioInv'
<1> DEFINE size == Least(frameCount, Frames - save_off[c])
<1>1. /\ Frames \in Nat /\ save_off[c] \in 0..Frames /\ size \in Nat
      /\ save_off[c] + size \in 0..Frames
  BY RadioAssumption DEF RadioInv, Shape, Least
<1>2. /\ client[c] = "recording"
      /\ buffer' = [buffer EXCEPT ![c] = [i \in 1..Frames |->
             IF i \in (save_off[c] + 1)..(save_off[c] + size)
             THEN Frame(Recording(c), i) ELSE buffer[c][i]]]
      /\ save_off' = [save_off EXCEPT ![c] = save_off[c] + size]
      /\ UNCHANGED <<client, recordings, played>>
  BY DEF SaveBuffer, player
<1> HIDE DEF size
<1>3. Shape'
  BY <1>1, <1>2 DEF RadioInv, Shape
<1>4. RecorderInv'
  <2>1. ASSUME NEW x \in Clients, client'[x] = "recording"
        PROVE  (buffer[x] = Padded(Recording(x), save_off[x]))'
    <3>1. CASE x = c
      <4>1. buffer[c] = Padded(Recording(c), save_off[c])
        BY <1>2 DEF RadioInv, RecorderInv
      <4>2. buffer'[c] = [i \in 1..Frames |->
                IF i \in (save_off[c] + 1)..(save_off[c] + size)
                THEN Frame(Recording(c), i) ELSE buffer[c][i]]
        BY <1>2 DEF RadioInv, Shape
      <4>3. buffer'[c] = Padded(Recording(c), save_off[c] + size)
        BY <1>1, <4>1, <4>2 DEF Padded
      <4>. QED
        BY <1>2, <3>1, <4>3 DEF RadioInv, Shape, Recording
    <3>2. CASE x # c
      BY <1>2, <2>1, <3>2 DEF RadioInv, Shape, RecorderInv, Recording
    <3>. QED
      BY <3>1, <3>2
  <2>. QED
    BY <2>1 DEF RecorderInv
<1>5. NetworkInv' /\ PlayerInv' /\ AnsweredWasPlayed'
  BY DEF RadioInv, SaveBuffer, NetworkInv, IsAnswer, PlayerInv, AnsweredWasPlayed, player, wire
<1>. QED
  BY <1>3, <1>4, <1>5 DEF RadioInv

(* The client has left "recording", one way or the other.                    *)
LEMMA StoppedInv ==
    ASSUME RadioInv, NEW c \in Clients, NEW where \in {"waiting", "prompt"},
           client' = [client EXCEPT ![c] = where],
           DOMAIN buffer' = Clients, \A x \in Clients \ {c} : buffer'[x] = buffer[x],
           UNCHANGED <<recordings, save_off, played>>
    PROVE  Shape' /\ RecorderInv'
BY DEF RadioInv, Shape, RecorderInv, Recording

LEMMA SendRecordingInv ==
    ASSUME RadioInv, NEW c \in Clients, SendRecording(c)
    PROVE  RadioInv'
<1>1. Shape' /\ RecorderInv'
  <2>1. DOMAIN buffer' = Clients /\ \A x \in Clients \ {c} : buffer'[x] = buffer[x]
    BY DEF SendRecording, RadioInv, Shape
  <2>. QED
    BY <2>1, StoppedInv DEF SendRecording, player
<1>2. IsRequest(Request(c, buffer[c]))
  <2>1. Recording(c) \in Ids /\ save_off[c] \in 0..Frames
    BY DEF RadioInv, Shape, Recording, Ids
  <2>2. buffer[c] = Padded(Recording(c), save_off[c])
    BY DEF SendRecording, RadioInv, RecorderInv
  <2>. QED
    BY <2>1, <2>2 DEF IsRequest, Request, Port
<1>3. NetworkInv'
  BY <1>2 DEF SendRecording, RadioInv, NetworkInv, IsRequest, IsAnswer, player
<1>4. PlayerInv' /\ AnsweredWasPlayed'
  BY DEF SendRecording, RadioInv, PlayerInv, AnsweredWasPlayed, player
<1>. QED
  BY <1>1, <1>3, <1>4 DEF RadioInv

LEMMA SendFailsInv ==
    ASSUME RadioInv, NEW c \in Clients, SendFails(c)
    PROVE  RadioInv'
<1>1. Shape' /\ RecorderInv'
  <2>1. DOMAIN buffer' = Clients /\ \A x \in Clients \ {c} : buffer'[x] = buffer[x]
    BY DEF SendFails, RadioInv, Shape
  <2>. QED
    BY <2>1, StoppedInv DEF SendFails, player
<1>2. NetworkInv' /\ PlayerInv' /\ AnsweredWasPlayed'
  BY DEF RadioInv, SendFails, NetworkInv, IsAnswer, PlayerInv, AnsweredWasPlayed, player, wire
<1>. QED
  BY <1>1, <1>2 DEF RadioInv

(* Port and recording are one, so the answer is to the recording just sent.  *)
LEMMA ReceiveAnswerInv ==
    ASSUME RadioInv, NEW c \in Clients, NEW d \in network, ReceiveAnswer(c, d)
    PROVE  RadioInv'
<1>1. Shape' /\ RecorderInv'
  BY StoppedInv DEF ReceiveAnswer, audio, player, RadioInv, Shape
<1>2. NetworkInv' /\ PlayerInv'
  BY DEF RadioInv, ReceiveAnswer, NetworkInv, IsRequest, IsAnswer, PlayerInv, player
<1>3. AnsweredWasPlayed'
  <2>1. d.to = Recording(c)
    BY DEF ReceiveAnswer, Port
  <2>2. ~IsRequest(d)
    BY <2>1, RadioAssumption DEF IsRequest, Recording, ServerPort
  <2>3. Recording(c) \in played
    BY <2>1, <2>2 DEF RadioInv, NetworkInv, IsAnswer
  <2>. QED
    BY <2>3 DEF ReceiveAnswer, RadioInv, AnsweredWasPlayed, player
<1>. QED
  BY <1>1, <1>2, <1>3 DEF RadioInv

LEMMA ReceiveFailsInv ==
    ASSUME RadioInv, NEW c \in Clients, ReceiveFails(c)
    PROVE  RadioInv'
<1>1. Shape' /\ RecorderInv'
  BY StoppedInv DEF ReceiveFails, audio, player, RadioInv, Shape
<1>2. NetworkInv' /\ PlayerInv' /\ AnsweredWasPlayed'
  BY DEF RadioInv, ReceiveFails, NetworkInv, IsAnswer, PlayerInv, AnsweredWasPlayed, player, wire
<1>. QED
  BY <1>1, <1>2 DEF RadioInv

LEMMA ReceiveInv ==
    ASSUME RadioInv, NEW d \in network, Receive(d)
    PROVE  RadioInv'
<1>1. Shape' /\ RecorderInv'
  BY DEF Receive, audio, RadioInv, Shape, RecorderInv, Recording
<1>2. NetworkInv' /\ AnsweredWasPlayed'
  BY DEF Receive, RadioInv, NetworkInv, IsRequest, IsAnswer, AnsweredWasPlayed
<1>3. PlayerInv'
  <2>1. CASE IsRequest(d)
    <3>1. PICK id \in Ids, n \in 0..Frames :
              d.from = id /\ d.of = id /\ d.data = Padded(id, n)
      BY <2>1 DEF IsRequest
    <3>2. recv_buf' = Padded(id, n)
      BY <3>1, WholeBuffer DEF Receive
    <3>3. heard' = [i \in 1..0 |-> Padded(id, n)[i]]
      BY DEF Receive
    <3>4. remote' = id /\ playing' = id /\ fill_off' = 0 /\ 0 \in 0..Frames
      BY <3>1, RadioAssumption DEF Receive
    <3>. QED
      BY <3>2, <3>3, <3>4 DEF PlayerInv
  <2>2. CASE IsAnswer(d)
    <3>1. d.to \in Ids /\ d.to = ServerPort
      BY <2>2 DEF IsAnswer, Receive, RadioInv, Shape
    <3>. QED
      BY <3>1, RadioAssumption DEF Ids, ServerPort
  <2>. QED
    BY <2>1, <2>2 DEF RadioInv, NetworkInv
<1>. QED
  BY <1>1, <1>2, <1>3 DEF RadioInv
LEMMA FillBufferInv ==
    ASSUME RadioInv, NEW frameCount \in Periods, FillBuffer(frameCount)
    PROVE  RadioInv'
<1> DEFINE size == FillSize(frameCount)
<1>1. /\ fill_off \in Nat /\ size \in Nat /\ Frames \in Nat
      /\ fill_off + size \in 0..Frames
  BY RadioAssumption DEF RadioInv, PlayerInv, FillSize, Least
<1>2. /\ server = "playing" /\ fill_off' = fill_off + size
      /\ heard' = heard \o [i \in 1..size |-> IF fill_off + i <= Frames
                                THEN recv_buf[fill_off + i] ELSE Indeterminate]
      /\ UNCHANGED <<server, recv_buf, remote, playing>>
  BY DEF FillBuffer
<1> HIDE DEF size
<1>3. PlayerInv'
  <2>1. PICK n \in 0..Frames : /\ recv_buf = Padded(playing, n)
                               /\ heard = [i \in 1..fill_off |-> Padded(playing, n)[i]]
    BY <1>2 DEF RadioInv, PlayerInv
  <2>2. [i \in 1..size |-> IF fill_off + i <= Frames
             THEN recv_buf[fill_off + i] ELSE Indeterminate]
            = [i \in 1..size |-> Padded(playing, n)[fill_off + i]]
    BY <1>1, <2>1
  <2>3. heard' = [i \in 1..(fill_off + size) |-> Padded(playing, n)[i]]
    BY <1>1, <1>2, <2>1, <2>2, Appended
  <2>. QED
    BY <1>1, <1>2, <2>1, <2>3 DEF RadioInv, PlayerInv
<1>4. Shape' /\ RecorderInv' /\ NetworkInv' /\ AnsweredWasPlayed'
  BY DEF FillBuffer, RadioInv, Shape, RecorderInv, Recording, NetworkInv, IsAnswer,
         AnsweredWasPlayed, audio, wire
<1>. QED
  BY <1>3, <1>4 DEF RadioInv

LEMMA FinishPlayingInv ==
    ASSUME RadioInv, FinishPlaying
    PROVE  RadioInv'
<1>1. /\ remote = playing /\ playing \in Ids /\ server' = "receiving"
      /\ network' = network \cup {Answer(playing)} /\ played' = played \cup {playing}
      /\ UNCHANGED <<client, recordings, buffer, save_off, remote, playing, fill_off, heard,
                     answered>>
  BY DEF FinishPlaying, RadioInv, PlayerInv, Answers, audio
<1>2. Shape' /\ RecorderInv' /\ AnsweredWasPlayed'
  BY <1>1 DEF RadioInv, Shape, RecorderInv, Recording, AnsweredWasPlayed
<1>3. NetworkInv'
  <2>1. \A d \in network : IsRequest(d)' \/ IsAnswer(d)'
    BY <1>1 DEF RadioInv, NetworkInv, IsRequest, IsAnswer
  <2>2. IsAnswer(Answer(playing))'
    BY <1>1 DEF IsAnswer, Answer
  <2>. QED
    BY <1>1, <2>1, <2>2 DEF NetworkInv
<1>4. PlayerInv'
  BY <1>1 DEF RadioInv, PlayerInv
<1>. QED
  BY <1>2, <1>3, <1>4 DEF RadioInv

LEMMA ServerFailsInv ==
    ASSUME RadioInv, ServerFails
    PROVE  RadioInv'
BY DEF ServerFails, RadioInv, Shape, RecorderInv, Recording, NetworkInv, IsAnswer, PlayerInv,
       AnsweredWasPlayed, audio, wire

(* The network makes no datagram of its own.                                 *)
LEMMA NetworkStepInv ==
    ASSUME RadioInv, NEW d \in network, Lose(d) \/ Duplicate(d)
    PROVE  RadioInv'
<1>1. Shape' /\ RecorderInv' /\ PlayerInv' /\ AnsweredWasPlayed'
  BY DEF Lose, Duplicate, RadioInv, Shape, RecorderInv, Recording, PlayerInv,
         AnsweredWasPlayed, audio, player
<1>2. NetworkInv'
  <2>1. CASE Lose(d)
    BY <2>1 DEF Lose, RadioInv, NetworkInv, IsRequest, IsAnswer, player
  <2>2. CASE Duplicate(d)
    <3> DEFINE copied == [d EXCEPT !.copy = TRUE]
    <3>1. UNCHANGED played /\ network' = network \cup {copied}
      BY <2>2 DEF Duplicate, player
    <3>2. IsRequest(copied) \/ IsAnswer(copied) => NetworkInv'
      <4> HIDE DEF copied
      <4>. QED
        BY <3>1 DEF RadioInv, NetworkInv, IsRequest, IsAnswer
    <3>3. CASE IsRequest(d)
      <4>1. IsRequest(copied)
        BY <3>3 DEF IsRequest
      <4>. QED
        BY <3>2, <4>1
    <3>4. CASE IsAnswer(d)
      <4>1. IsAnswer(copied)
        BY <3>4 DEF IsAnswer
      <4>. QED
        BY <3>2, <4>1
    <3>. QED
      BY <3>3, <3>4 DEF RadioInv, NetworkInv
  <2>. QED
    BY <2>1, <2>2
<1>. QED
  BY <1>1, <1>2 DEF RadioInv

LEMMA NextInv == RadioInv /\ [Next]_vars => RadioInv'
<1> SUFFICES ASSUME RadioInv, [Next]_vars PROVE RadioInv'
  OBVIOUS
<1>1. ASSUME NEW c \in Clients, Client(c) PROVE RadioInv'
  BY <1>1, RecordInv, SaveBufferInv, SendRecordingInv, SendFailsInv, ReceiveAnswerInv,
           ReceiveFailsInv DEF Client
<1>2. CASE Server
  BY <1>2, ReceiveInv, FillBufferInv, FinishPlayingInv, ServerFailsInv DEF Server
<1>3. CASE Network
  BY <1>3, NetworkStepInv DEF Network
<1>4. CASE UNCHANGED vars
  BY <1>4 DEF vars, RadioInv, Shape, RecorderInv, Recording, NetworkInv, IsAnswer, PlayerInv,
              AnsweredWasPlayed, audio, player, wire
<1>. QED
  BY <1>1, <1>2, <1>3, <1>4 DEF Next

LEMMA Invariance == Spec => []RadioInv
BY InitInv, NextInv, PTL DEF Spec

-----------------------------------------------------------------------------
(* Theorems *)

(* The loudspeaker gives out one recording and then silence, whatever the    *)
(* network does and however the devices call back (SaveBuffer, FillBuffer,   *)
(* and the buffers that Record and StartServer pass on).                     *)
THEOREM OneRecordingIsHeard == Spec => []HeardIsSent
<1>1. RadioInv => HeardIsSent
  <2> SUFFICES ASSUME RadioInv PROVE HeardIsSent
    OBVIOUS
  <2>1. PICK n \in 0..Frames : heard = [i \in 1..fill_off |-> Padded(playing, n)[i]]
    BY DEF RadioInv, PlayerInv
  <2>2. Frames \in Nat /\ fill_off \in 0..Frames
    BY RadioAssumption DEF RadioInv, PlayerInv
  <2>3. Len(heard) = fill_off
    BY <2>1, <2>2
  <2>4. \A i \in 1..fill_off : heard[i] = IF i <= n THEN Frame(playing, i) ELSE Silence
    BY <2>1, <2>2 DEF Padded
  <2> DEFINE m == Least(n, fill_off)
  <2>5. m \in 0..fill_off /\ \A i \in 1..fill_off : i <= n <=> i <= m
    BY <2>2 DEF Least
  <2>6. \A i \in 1..fill_off : heard[i] = IF i <= m THEN Frame(playing, i) ELSE Silence
    BY <2>4, <2>5
  <2> HIDE DEF m
  <2>7. m \in 0..Len(heard) /\ \A i \in 1..Len(heard) :
            heard[i] = IF i <= m THEN Frame(playing, i) ELSE Silence
    BY <2>3, <2>5, <2>6
  <2>8. Len(heard) <= Frames
    BY <2>2, <2>3
  <2>. QED
    BY <2>7, <2>8 DEF HeardIsSent
<1>. QED
  BY <1>1, Invariance, PTL

(* No client takes an answer for a recording that was not played, although   *)
(* datagrams are duplicated, lost and reordered (the socket of its own that  *)
(* StartClient opens for each recording).                                    *)
THEOREM AnswersAreOwn == Spec => []AnsweredWasPlayed
<1>1. RadioInv => AnsweredWasPlayed
  BY DEF RadioInv
<1>. QED
  BY <1>1, Invariance, PTL
=============================================================================
