------------------------------- MODULE Media -------------------------------
(***************************************************************************)
(* SIPEngine/codec.c, and the setup and stop of the RTP sessions in        *)
(* audio.c and video.c: what the phone says about its media in each call   *)
(* and what it then opens.                                                 *)
(*                                                                         *)
(* CallThread makes every call here; AudioIffAnswered of CallControl is    *)
(* why a session is set up only when there is none and stopped only when   *)
(* there is one.  A port stands for the pair of RTP and RTCP; the address  *)
(* a STUN server reports for it is not told apart from it.  Every remote   *)
(* description has an audio line, and a video line or none.                *)
(***************************************************************************)
EXTENDS ConfigFile

CONSTANTS
    MaxCalls,      \* bound: calls that may ever be made
    AudioLines,    \* payload lists of a remote audio line
    VideoLines     \* remote video lines

ASSUME MediaConstants ==
    /\ MaxCalls \in Nat \ {0}
    /\ \A a \in AudioLines : a \in Seq(Nat) /\ a # << >>

Call == 1 .. MaxCalls

None == [call |-> 0]

\* No video line.
NoVideo == [open |-> FALSE, payloads |-> << >>]

PCMU == 0
PCMA == 8
JPEG == 26

VARIABLES
    portCount, audioPort, videoPort,
    local,          \* localSdp of each call, or None before it is made
    remote,         \* the description the far end sent in each call, or None
    session,        \* the audio session: its call, port and payload, or None
    videoSession,   \* the video session, or None
    stopVideo,
    isVidAvailable, \* initVideo started the camera
    over            \* the calls that have ended

mediaVars == <<portCount, audioPort, videoPort, local, remote, session, videoSession,
          stopVideo, isVidAvailable, over>>

MediaInit ==
    /\ portCount = 30000 /\ audioPort = 0 /\ videoPort = 0
    /\ local = [c \in Call |-> None] /\ remote = [c \in Call |-> None]
    /\ session = None /\ videoSession = None /\ stopVideo = TRUE
    /\ isVidAvailable = FALSE
    /\ over = {}

config_get_use_video == "video" \in switches

Elements(s) == {s[i] : i \in 1 .. Len(s)}

IsLaw(p) == p \in {PCMU, PCMA}

-----------------------------------------------------------------------------
(* createLocalSdp. *)

\* The payloads of our audio line, in whatever order; none stands for the line with
\* port 0 that rejects audio.
AudioLine(rem) ==
    IF rem = None THEN {PCMU, PCMA, 101} ELSE {p \in Elements(rem.audio) : IsLaw(p)}

\* Our video line.  jpegSupported is not initialised: garbage is what the stack
\* holds, and it is read whenever there is a remote description.
VideoLine(rem, garbage) ==
    LET asked == rem # None /\ rem.video # NoVideo
        jpegSupported == garbage \/ (asked /\ JPEG \in Elements(rem.video.payloads))
    IN  IF config_get_use_video /\ (rem = None \/ jpegSupported) THEN "open"
        ELSE IF asked /\ ~jpegSupported THEN "rejected"
        ELSE "none"

TakePorts ==
    /\ audioPort' = portCount
    /\ videoPort' = portCount + 2
    /\ portCount' = portCount + 4

CreateLocalSdp(c, rem) ==
    /\ TakePorts
    /\ \E garbage \in BOOLEAN :
          local' = [local EXCEPT ![c] =
                      [call |-> c, audioPort |-> audioPort', videoPort |-> videoPort',
                       audio |-> AudioLine(rem), video |-> VideoLine(rem, garbage),
                       answers |-> rem # None]]

IsNew(c) == local[c] = None /\ \A d \in Call : d < c => local[d] # None

\* makeCall: our description goes out first.
Offer(c) ==
    /\ IsNew(c)
    /\ CreateLocalSdp(c, None)
    /\ UNCHANGED <<remote, session, videoSession, stopVideo, isVidAvailable, over>>

\* answerCall: the INVITE brought theirs.
Answer(c, rem) ==
    /\ IsNew(c)
    /\ remote' = [remote EXCEPT ![c] = rem]
    /\ CreateLocalSdp(c, rem)
    /\ UNCHANGED <<session, videoSession, stopVideo, isVidAvailable, over>>

\* The answer to our offer arrives with their description.
RcvAnswer(c, rem) ==
    /\ local[c] # None /\ remote[c] = None /\ c \notin over
    /\ remote' = [remote EXCEPT ![c] = rem]
    /\ UNCHANGED <<portCount, audioPort, videoPort, local, session, videoSession,
                  stopVideo, isVidAvailable, over>>

-----------------------------------------------------------------------------
(* rtpAudioSetup and rtpVideoSetup, rtpAudioStop and rtpVideoStop. *)

\* Faulty variant of RtpAudioSetup: the next free port is taken.
RtpAudioSetupNext(c) ==
    session' = [call |-> c, port |-> portCount, payload |-> Head(remote[c].audio)]

\* The payload is the first one of the remote line, whoever made the offer: the
\* "local" description is the remote one too.
RtpAudioSetup(c) ==
    session' = [call |-> c, port |-> audioPort, payload |-> Head(remote[c].audio)]

\* Faulty variant of VideoAgreed: the camera is not asked for.
VideoAgreedUnchecked(c) ==
    LET rem == remote[c].video
    IN  rem # NoVideo /\ Head(rem.payloads) = JPEG /\ rem.open

\* Whether rtpVideoSetup passes its early returns.
VideoAgreed(c) ==
    LET rem == remote[c].video
    IN  isVidAvailable /\ rem # NoVideo /\ Head(rem.payloads) = JPEG /\ rem.open

RtpVideoSetup(c) ==
    IF VideoAgreed(c)
    THEN videoSession' = [call |-> c, port |-> videoPort, payload |-> JPEG] /\ stopVideo' = FALSE
    ELSE UNCHANGED <<videoSession, stopVideo>>

\* EXOSIP_CALL_ANSWERED, EXOSIP_CALL_ACK.
Setup(c) ==
    /\ remote[c] # None /\ c \notin over /\ session = None
    /\ RtpAudioSetup(c)
    /\ RtpVideoSetup(c)
    /\ UNCHANGED <<portCount, audioPort, videoPort, local, remote, isVidAvailable, over>>

\* Faulty variant of RtpVideoStop: stopVideo is not set again.
RtpVideoStopOnce ==
    IF ~stopVideo THEN videoSession' = None /\ UNCHANGED stopVideo
                  ELSE UNCHANGED <<videoSession, stopVideo>>

RtpVideoStop ==
    IF ~stopVideo THEN videoSession' = None /\ stopVideo' = TRUE
                  ELSE UNCHANGED <<videoSession, stopVideo>>

\* hangupCall, EXOSIP_CALL_CLOSED in eANSWERED.
Stop ==
    /\ session # None
    /\ session' = None
    /\ RtpVideoStop
    /\ over' = over \cup {session.call}
    /\ UNCHANGED <<portCount, audioPort, videoPort, local, remote, isVidAvailable>>

\* An attempt ends before it has media.
Abandon(c) ==
    /\ local[c] # None /\ c \notin over /\ session.call # c
    /\ over' = over \cup {c}
    /\ UNCHANGED <<portCount, audioPort, videoPort, local, remote, session,
                  videoSession, stopVideo, isVidAvailable>>

RemoteSdp == [call : {-1}, audio : AudioLines, video : VideoLines \cup {NoVideo}]

MediaNext ==
    \/ \E c \in Call : Offer(c) \/ Setup(c) \/ Abandon(c)
    \/ \E c \in Call, rem \in RemoteSdp : Answer(c, rem) \/ RcvAnswer(c, rem)
    \/ Stop

-----------------------------------------------------------------------------
\* The last description made is that of call c.
IsLatest(c) == \A d \in Call : d > c => local[d] = None

\* Both setups take the ports of the last description made, whichever call that
\* was for.  While no later call has been described, the RTP sessions of a call
\* listen on the ports its own description named.
PortsAgree ==
    /\ session # None /\ IsLatest(session.call) =>
            session.port = local[session.call].audioPort
    /\ videoSession # None /\ IsLatest(videoSession.call) =>
            videoSession.port = local[videoSession.call].videoPort

\* No two streams, of one call or of several, share a port pair.
PortsDistinct ==
    \A c, d \in Call :
        local[c] # None /\ local[d] # None =>
            /\ local[c].audioPort # local[d].videoPort
            /\ c # d => /\ local[c].audioPort # local[d].audioPort
                        /\ local[c].videoPort # local[d].videoPort

\* The two sessions live and die together: a video session belongs to the call
\* whose audio is up, and stopVideo is down exactly while there is one, so that
\* rtpVideoStop destroys each session once.
SessionsPaired ==
    /\ videoSession # None => session # None /\ videoSession.call = session.call
    /\ stopVideo <=> videoSession = None

\* Our description of the call answers theirs.
Answering(c) == local[c] # None /\ local[c].answers

\* Our answer accepts only payloads that were offered and that the phone can
\* encode.
AudioWithinOffer ==
    \A c \in Call :
        Answering(c) =>
            local[c].audio \subseteq Elements(remote[c].audio) \cap {PCMU, PCMA}

\* What createLocalSdp wrote, perhaps several calls ago, is what the streams use:
\* their ports are those described, no port is given out twice, and an answer
\* stays within the offer.
MediaAgreed == PortsAgree /\ PortsDistinct /\ AudioWithinOffer
=============================================================================
