------------------------------ MODULE AudioPath ------------------------------
(***************************************************************************)
(* The sound of the device: what application_run sets up for it, the loop  *)
(* of the audio thread (audio_thread_func), audio_decoder_decode and       *)
(* audio_player_write.  Each step of the set-up may fail, and the thread is*)
(* started whether it did or not; each step of the loop may fail, and the  *)
(* loop goes on.  Reading whole packets is StreamFraming, freeing what the *)
(* thread uses is ServerLifecycle.                                         *)
(*                                                                         *)
(* Packets and the sound decoded from them are known by their number.  The *)
(* codec keeps what it has decoded until it is fetched and refuses packets *)
(* when it holds too much; the sound card holds so many units of sound and *)
(* plays them when it likes.                                               *)
(***************************************************************************)
EXTENDS Naturals, Sequences, SequencesExt

CONSTANTS
    MaxPackets,     \* bound: packets the device sends
    CodecRoom,      \* decoded frames at which the codec refuses a packet
    FrameLength,    \* units of sound in a frame
    BufferFrames    \* player->buffer_frames

ASSUME AudioAssumption ==
    /\ MaxPackets \in Nat
    /\ {CodecRoom, FrameLength, BufferFrames} \subseteq Nat \ {0}

VARIABLES
    app,        \* application_run: what the main thread does next
    open,       \* is there an open codec_ctx?
    swr,        \* is there a swr_ctx?
    player,     \* "none", "client" or "ready", with a render_client
    thread,     \* the audio thread: what it does next
    wire,       \* the packets in the socket
    sent,       \* how many were sent
    closed,     \* was the socket shut down?
    packet,     \* the packet in hand, 0 for none
    codec,      \* the decoded frames in the codec
    pcm,        \* the frame in hand, 0 for none
    live,       \* allocations of the thread not yet freed
    padding,    \* the sound in the sound card's buffer
    heard,      \* the frames written to it, whole or cut
    faults,     \* what spoilt a frame so far: "failed", a call, or "full", the
                \* sound card's buffer
    produced,   \* how many frames came out of packets
    several     \* did a packet give more than one?

setup     == <<open, swr, player>>
socket    == <<wire, sent, closed>>
inHand    == <<packet, pcm, live>>
decoder   == <<codec, produced, several>>
sound     == <<padding, heard, faults>>
audioVars == <<app, setup, thread, socket, inHand, decoder, sound>>

AudioInit ==
    /\ app = "metadata" /\ open = FALSE /\ swr = FALSE /\ player = "none"
    /\ thread = "none" /\ wire = << >> /\ sent = 0 /\ closed = FALSE
    /\ packet = 0 /\ codec = << >> /\ pcm = 0 /\ live = 0
    /\ padding = 0 /\ heard = << >> /\ faults = {} /\ produced = 0 /\ several = FALSE

----------------------------------------------------------------------------
(* The main thread *)

(* Metadata that cannot be read, or say that there is no sound, skip the   *)
(* decoder and the player.                                                 *)
ReadMetadata ==
    /\ app = "metadata" /\ app' \in {"decoder", "pipeline"}
    /\ UNCHANGED <<setup, thread, socket, inHand, decoder, sound>>

(* An unknown codec, or one that does not open, leaves codec_ctx NULL and  *)
(* skips the player; one without a resampler will do.                      *)
InitDecoder ==
    /\ app = "decoder"
    /\ \/ app' = "pipeline" /\ UNCHANGED <<open, swr>>
       \/ app' = "player" /\ open' = TRUE /\ swr' \in BOOLEAN
    /\ UNCHANGED <<player, thread, socket, inHand, decoder, sound>>

(* The first three calls leave no client behind when they fail, the next   *)
(* two no render client.                                                   *)
InitPlayer ==
    /\ app = "player" /\ app' = "pipeline"
    /\ player' \in {"none", "client", "ready"}
    /\ UNCHANGED <<open, swr, thread, socket, inHand, decoder, sound>>

(* The socket is open: no more is asked.  The thread may not start.        *)
StartPipeline ==
    /\ app = "pipeline" /\ app' = "loop"
    /\ thread' \in {"none", "read"}
    /\ UNCHANGED <<setup, socket, inHand, decoder, sound>>

StopPipeline ==
    /\ app = "loop" /\ app' = "stopped" /\ closed' = TRUE
    /\ UNCHANGED <<setup, thread, wire, sent, inHand, decoder, sound>>

Main == ReadMetadata \/ InitDecoder \/ InitPlayer \/ StartPipeline \/ StopPipeline

----------------------------------------------------------------------------
(* The device and the sound card *)

SendPacket ==
    /\ sent < MaxPackets /\ ~closed
    /\ sent' = sent + 1 /\ wire' = Append(wire, sent')
    /\ UNCHANGED <<app, setup, thread, closed, inHand, decoder, sound>>

PlaySound ==
    /\ padding > 0 /\ padding' = padding - 1
    /\ UNCHANGED <<app, setup, thread, socket, inHand, decoder, heard, faults>>

----------------------------------------------------------------------------
(* The audio thread *)

(* A packet that cannot be read ends the thread: too large, no memory or a *)
(* socket that was shut down.  Nothing of it stays allocated.              *)
ReadPacket ==
    /\ thread = "read"
    /\ \/ /\ wire # << >> /\ ~closed /\ thread' = "decode"
          /\ packet' = Head(wire) /\ wire' = Tail(wire) /\ live' = live + 1
       \/ /\ wire # << >> \/ closed
          /\ thread' = "done" /\ UNCHANGED <<packet, wire, live>>
    /\ UNCHANGED <<app, setup, sent, closed, pcm, decoder, sound>>

(* A codec_ctx of NULL is used all the same. *)
SendToNothing ==
    /\ thread = "decode" /\ ~open /\ thread' = "crashed"
    /\ UNCHANGED <<app, setup, socket, inHand, decoder, sound>>

KeepPacket ==   \* Seeded fault: a packet that gave no frame is not freed.
    packet' = 0 /\ live' = live

FreePacket == packet' = 0 /\ live' = live - 1

RetrySend ==   \* Seeded fault: a refused packet is sent again and again.
    thread = "decode" /\ open /\ UNCHANGED audioVars

(* avcodec_send_packet fails: the packet is wrong for the codec, or the    *)
(* codec holds too much.                                                   *)
SendFails ==
    /\ thread = "decode" /\ open /\ thread' = "read"
    /\ FreePacket
    /\ UNCHANGED <<app, setup, socket, pcm, decoder, sound>>

(* It takes the packet, which gives n frames, kept in the order they came. *)
Sends(n) ==
    /\ thread = "decode" /\ open /\ Len(codec) < CodecRoom
    /\ produced' = produced + n /\ several' = (several \/ n > 1)

WithFrames(n) == codec \o [i \in 1 .. n |-> packet]

(* avcodec_receive_frame has none (AVERROR(EAGAIN)). *)
NoFrame ==
    /\ Sends(0) /\ codec = << >> /\ thread' = "read"
    /\ FreePacket
    /\ UNCHANGED <<app, setup, socket, codec, pcm, sound>>

(* The frame cannot be put into memory or not be converted. *)
FrameLost ==
    \E n \in 0 .. 2 :
        /\ Sends(n) /\ WithFrames(n) # << >> /\ codec' = Tail(WithFrames(n))
        /\ thread' = "read" /\ faults' = faults \cup {"failed"}
        /\ FreePacket
        /\ UNCHANGED <<app, setup, socket, pcm, padding, heard>>

(* One is fetched and resampled into memory of its own.  Without a         *)
(* resampler, which failed, up to twice what the first plane holds is      *)
(* copied from it, and what lies behind it is heard as well.               *)
FrameDecoded ==
    \E n \in 0 .. 2 :
        /\ Sends(n) /\ WithFrames(n) # << >> /\ codec' = Tail(WithFrames(n))
        /\ thread' = "write" /\ pcm' = Head(WithFrames(n))
        /\ packet' = 0 /\ live' = live      \* the one allocated, the other freed
        /\ faults' = IF swr THEN faults ELSE faults \cup {"failed"}
        /\ UNCHANGED <<app, setup, socket, padding, heard>>

(* Or nothing readable lies behind it. *)
CopyOverruns ==
    /\ thread = "decode" /\ open /\ ~swr /\ Len(codec) < CodecRoom
    /\ thread' = "crashed"
    /\ UNCHANGED <<app, setup, socket, inHand, decoder, sound>>

Available == BufferFrames - padding

Forgotten(why) ==
    faults' = faults \cup {why} /\ UNCHANGED <<padding, heard>>

(* n units of the frame go to the sound card. *)
Plays(n) ==
    padding' = padding + n /\ heard' = Append(heard, pcm)

(* audio_player_write puts into the buffer what there is room for, and     *)
(* says true when that is nothing.  A player that is not ready, or a       *)
(* GetBuffer that fails, forgets the frame.  The sizes GetBufferSize and   *)
(* GetCurrentPadding leave unset when they fail may allow any part of it.  *)
WriteFrame ==
    /\ thread = "write" /\ thread' = "read"
    /\ pcm' = 0 /\ live' = live - 1
    /\ \/ Forgotten("failed")
       \/ player = "ready" /\ Available = 0 /\ Forgotten("full")
       \/ /\ player = "ready" /\ Available > 0
          /\ \/ Plays(Min({FrameLength, Available}))
                /\ faults' = faults \cup IF FrameLength <= Available THEN {} ELSE {"full"}
             \/ \E n \in 1 .. Min({FrameLength, Available}) :
                   Plays(n) /\ faults' = faults \cup {"failed"}
    /\ UNCHANGED <<app, setup, socket, packet, decoder>>

AudioThread ==
    \/ ReadPacket \/ SendToNothing \/ SendFails \/ NoFrame \/ FrameLost
    \/ FrameDecoded \/ CopyOverruns \/ WriteFrame

Over == app = "stopped" /\ thread \in {"none", "done", "crashed"} /\ UNCHANGED audioVars

AudioNext == Main \/ SendPacket \/ PlaySound \/ AudioThread \/ Over

AudioSpec == AudioInit /\ [][AudioNext]_audioVars /\ WF_audioVars(AudioThread)

----------------------------------------------------------------------------

(* Sound is heard in the order it was sent and none of it twice, whatever  *)
(* fails.  As long as no call failed and the sound card had room, no frame *)
(* is missing: what was decoded is heard, still in the codec or in hand.   *)
(* The thread frees what it allocates on every path through the loop, and  *)
(* it crashes only without a codec or without a resampler.  Unless a       *)
(* packet gave several frames the codec is empty when a packet is sent to  *)
(* it, so it never refuses one for good (audio_thread_func,                *)
(* audio_decoder_decode, audio_player_write).                              *)
SoundAccounted ==
    /\ \A i, j \in DOMAIN heard : i < j /\ ~several => heard[i] < heard[j]
    /\ \A i, j \in DOMAIN heard : i < j => heard[i] <= heard[j]
    /\ faults = {} => produced = Len(heard) + Len(codec) + (IF pcm # 0 THEN 1 ELSE 0)
    /\ thread \in {"read", "done"} => live = 0
    /\ thread = "crashed" => ~open \/ ~swr
    /\ ~several => codec = << >>

(* The audio thread takes the packets off the socket whether or not anyone *)
(* listens: a sound card that has stopped playing, a missing player and    *)
(* packets that do not decode never hold up the socketpair, on which the   *)
(* thread that reads ADB waits (audio_player_write, audio_thread_func).    *)
SocketDrained ==
    (thread = "read") ~> (wire = << >> \/ closed \/ thread \in {"done", "crashed"})
=============================================================================
