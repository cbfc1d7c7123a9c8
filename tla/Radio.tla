-------------------------------- MODULE Radio --------------------------------
(* The UDP radio (radio/src/main.cpp, audio.h): clients record and send one  *)
(* datagram each time, the server plays one datagram at a time and answers   *)
(* it.  The audio devices call back from a thread of their own, the network  *)
(* loses, duplicates and reorders datagrams, and nobody sends anything again. *)
(* (An operator whose name ends in an underscore and a remark is a fault put *)
(* in place of the operator it precedes.)                                    *)
EXTENDS Integers, Sequences, Functions

CONSTANTS Clients,
          Frames,         \* the frames of a buffer (65000, of one byte)
          Periods,        \* the numbers of frames a device calls back with
          MaxRecordings,  \* bound: the recordings of all clients
          MaxDuplicates   \* bound: the datagrams duplicated

ASSUME RadioAssumption ==
    /\ "server" \notin Clients
    /\ Frames \in Nat \ {0}
    /\ Periods \subseteq Nat \ {0}
    /\ MaxRecordings \in Nat /\ MaxDuplicates \in Nat

VARIABLES client,      \* for each: it waits at the "prompt", or is "recording" or "waiting"
          recordings,  \* the recordings it has begun, the last being the one in hand
          buffer,      \* buffer_ of its Recorder
          save_off,    \* current_off_ of its Recorder
          network,     \* the datagrams on their way
          server,      \* "receiving", "playing" or "ended"
          recv_buf,    \* of the server
          remote,      \* remote_endpoint
          playing,     \* the recording that the server has received last
          fill_off,    \* current_off_ of the Player
          heard,       \* the frames the Player's device got since PlayBuffer
          played,      \* the recordings whose playing is done
          answered,    \* the recordings whose client has its answer
          lost,        \* a datagram was lost
          duplicates   \* the datagrams duplicated

audio == <<buffer, save_off>>
player == <<server, recv_buf, remote, playing, fill_off, heard, played>>
wire == <<network, lost, duplicates>>
vars == <<client, recordings, audio, player, answered, wire>>

(* A frame is that of a place in a recording, or what fills the rest.        *)
Frame(recording, i) == <<recording, i>>
Silence == <<>>          \* the zeros of vector::resize
Indeterminate == <<"?">>  \* what recv_buf holds before it is written
Filled(f) == [i \in 1..Frames |-> f]

Recording(c) == <<c, recordings[c]>>

(* Each recording is sent from a socket of its own, so its port is known by  *)
(* the recording (an ephemeral port is not taken again so soon).             *)
Port_OfClient(c) == <<c, 1>>
Port(c) == Recording(c)

ServerPort == <<"server", 3333>>
NoPort == <<"none", 0>>

Request(c, data) == [to |-> ServerPort, from |-> Port(c), of |-> Recording(c), data |-> data,
                     copy |-> FALSE]
Answer(port) == [to |-> port, from |-> ServerPort, copy |-> FALSE]

Init ==
    /\ client = [c \in Clients |-> "prompt"]
    /\ recordings = [c \in Clients |-> 0]
    /\ buffer = [c \in Clients |-> <<>>]
    /\ save_off = [c \in Clients |-> 0]
    /\ network = {}
    /\ server = "receiving"
    /\ recv_buf = Filled(Indeterminate)
    /\ remote = NoPort
    /\ playing = NoPort
    /\ fill_off = 0
    /\ heard = <<>>
    /\ played = {}
    /\ answered = {}
    /\ lost = FALSE
    /\ duplicates = 0

-----------------------------------------------------------------------------
(* The client *)

StartOffset_Kept(c) == save_off[c]
StartOffset(c) == 0

AllRecordings == FoldFunction(+, 0, recordings)

(* The address is entered, the socket opened, and Record starts the device.  *)
Record(c) ==
    /\ client[c] = "prompt"
    /\ AllRecordings < MaxRecordings
    /\ client' = [client EXCEPT ![c] = "recording"]
    /\ recordings' = [recordings EXCEPT ![c] = @ + 1]
    /\ save_off' = [save_off EXCEPT ![c] = StartOffset(c)]
    /\ buffer' = [buffer EXCEPT ![c] = Filled(Silence)]
    /\ UNCHANGED <<player, answered, wire>>

Least(m, n) == IF m < n THEN m ELSE n

(* The device calls SaveBuffer with the next frames (never, if it has not    *)
(* started: the results of miniaudio are not looked at).                     *)
SaveBuffer(c, frameCount) ==
    /\ client[c] = "recording"
    /\ LET size == Least(frameCount, Frames - save_off[c]) IN
       /\ buffer' = [buffer EXCEPT ![c] = [i \in 1..Frames |->
                        IF i \in (save_off[c] + 1)..(save_off[c] + size)
                        THEN Frame(Recording(c), i) ELSE buffer[c][i]]]
       /\ save_off' = [save_off EXCEPT ![c] = @ + size]
    /\ UNCHANGED <<client, recordings, player, answered, wire>>

(* The time is over: the buffer is moved out of the Recorder and sent, the   *)
(* frames that were not recorded with it.                                    *)
SendRecording(c) ==
    /\ client[c] = "recording"
    /\ client' = [client EXCEPT ![c] = "waiting"]
    /\ buffer' = [buffer EXCEPT ![c] = <<>>]
    /\ network' = network \cup {Request(c, buffer[c])}
    /\ UNCHANGED <<recordings, save_off, player, answered, lost, duplicates>>

(* send_to throws, and the client goes back to its prompt.                   *)
SendFails(c) ==
    /\ client[c] = "recording"
    /\ client' = [client EXCEPT ![c] = "prompt"]
    /\ buffer' = [buffer EXCEPT ![c] = <<>>]
    /\ UNCHANGED <<recordings, save_off, player, answered, wire>>

(* There is no timeout: without an answer the client waits for ever.         *)
ReceiveAnswer(c, d) ==
    /\ client[c] = "waiting"
    /\ d.to = Port(c)
    /\ network' = network \ {d}
    /\ client' = [client EXCEPT ![c] = "prompt"]
    /\ answered' = answered \cup {Recording(c)}
    /\ UNCHANGED <<recordings, audio, player, lost, duplicates>>

(* receive_from throws; an answer that comes later finds the socket closed.  *)
ReceiveFails(c) ==
    /\ client[c] = "waiting"
    /\ client' = [client EXCEPT ![c] = "prompt"]
    /\ UNCHANGED <<recordings, audio, player, answered, wire>>

-----------------------------------------------------------------------------
(* The server *)

(* A datagram fills the beginning of a fresh recv_buf, and PlayBuffer starts *)
(* the device on the whole of it.                                            *)
Receive(d) ==
    /\ server = "receiving"
    /\ d.to = ServerPort
    /\ network' = network \ {d}
    /\ recv_buf' = d.data \o SubSeq(Filled(Indeterminate), Len(d.data) + 1, Frames)
    /\ remote' = d.from
    /\ playing' = d.of
    /\ server' = "playing"
    /\ fill_off' = 0
    /\ heard' = <<>>
    /\ UNCHANGED <<client, recordings, audio, played, answered, lost, duplicates>>

FillSize(frameCount) == Least(frameCount, Frames - fill_off)

(* The device calls FillBuffer for its next frames.  What lies beyond the    *)
(* buffer is Indeterminate.                                                  *)
FillBuffer(frameCount) ==
    /\ server = "playing"
    /\ heard' = heard \o [i \in 1..FillSize(frameCount) |->
                    IF fill_off + i <= Frames THEN recv_buf[fill_off + i] ELSE Indeterminate]
    /\ fill_off' = fill_off + FillSize(frameCount)
    /\ UNCHANGED <<client, recordings, audio, server, recv_buf, remote, playing, played, answered,
                   wire>>

Answers_OnlyHeard == IF heard = <<>> THEN {} ELSE {Answer(remote)}
Answers == {Answer(remote)}

(* The time is over, whether the device has played or not: "playing done".   *)
FinishPlaying ==
    /\ server = "playing"
    /\ server' = "receiving"
    /\ network' = network \cup Answers
    /\ played' = played \cup {playing}
    /\ recv_buf' = Filled(Indeterminate)
    /\ UNCHANGED <<client, recordings, audio, remote, playing, fill_off, heard, answered, lost,
                   duplicates>>

(* receive_from throws: the handler is outside the loop.                     *)
ServerFails ==
    /\ server = "receiving"
    /\ server' = "ended"
    /\ UNCHANGED <<client, recordings, audio, recv_buf, remote, playing, fill_off, heard,
                   played, answered, wire>>

-----------------------------------------------------------------------------
(* The network *)

Lose(d) ==
    /\ network' = network \ {d}
    /\ lost' = TRUE
    /\ UNCHANGED <<client, recordings, audio, player, answered, duplicates>>

(* An answer to a port that is closed by now is dropped in the same way.     *)
Duplicate(d) ==
    /\ ~d.copy
    /\ duplicates < MaxDuplicates
    /\ duplicates' = duplicates + 1
    /\ network' = network \cup {[d EXCEPT !.copy = TRUE]}
    /\ UNCHANGED <<client, recordings, audio, player, answered, lost>>

-----------------------------------------------------------------------------

Client(c) ==
    \/ Record(c)
    \/ \E frameCount \in Periods : SaveBuffer(c, frameCount)
    \/ SendRecording(c)
    \/ SendFails(c)
    \/ \E d \in network : ReceiveAnswer(c, d)
    \/ ReceiveFails(c)

Server ==
    \/ \E d \in network : Receive(d)
    \/ \E frameCount \in Periods : FillBuffer(frameCount)
    \/ FinishPlaying
    \/ ServerFails

Network == \E d \in network : Lose(d) \/ Duplicate(d)

Next == (\E c \in Clients : Client(c)) \/ Server \/ Network

(* The sleeps of Record and PlayBuffer end, whatever the devices do; what is *)
(* not lost arrives, at a socket that is read from.  Nobody needs to press   *)
(* a key.                                                                    *)
Fairness ==
    /\ \A c \in Clients :
           /\ WF_vars(SendRecording(c) \/ SendFails(c))
           /\ WF_vars(\E d \in network : ReceiveAnswer(c, d))
    /\ WF_vars(\E d \in network : Receive(d))
    /\ WF_vars(FinishPlaying)

Spec == Init /\ [][Next]_vars /\ Fairness

-----------------------------------------------------------------------------
(* Properties *)

(* What comes out of the server's loudspeaker is one recording from its      *)
(* beginning, then silence: no frame of another recording, whether it was    *)
(* received before it or made by the same Recorder, none twice, and nothing  *)
(* that was never received.                                                  *)
HeardIsSent ==
    /\ Len(heard) <= Frames
    /\ \E n \in 0..Len(heard) : \A i \in 1..Len(heard) :
           heard[i] = IF i <= n THEN Frame(playing, i) ELSE Silence

(* A client that goes on after "Server responded" has had the recording just *)
(* sent played to its end, although answers and recordings may arrive twice, *)
(* late, or in another order.                                                *)
AnsweredWasPlayed == answered \subseteq played

(* Although nobody sends anything again, only what the network loses or a    *)
(* failure of the server can keep a client waiting: the turns of the others, *)
(* the duplicates and a device that never calls back cannot.                 *)
WaitsOnlyForLost ==
    \A c \in Clients :
        client[c] = "waiting" ~> client[c] = "prompt" \/ lost \/ server = "ended"
=============================================================================
