----------------------------- MODULE MCServices -----------------------------
(* Instances of YouTubeUpload and SpeechChain for TLC: the services that are *)
(* metered, by a bucket in memory and by a table.  They share no variable;   *)
(* `part` says which one is called.                                          *)
EXTENDS YouTubeUpload, SpeechChain

VARIABLE part

mvars == <<part, uvars, svars>>

MakerThenEdge  == <<"ttsmaker", "edge-tts">>
GeminiThenEdge == <<"gemini-tts", "edge-tts">>
TwoEach    == [s \in Limited |-> 2]
OneDayEach == [s \in Limited |-> 1]

MInit ==
    /\ UInit /\ SInit
    /\ part \in {"upload", "speech"}
    /\ part = "speech" => call = CHOOSE c \in Calls : TRUE
    /\ part = "speech" => dry /\ guard_dry

MNext ==
    /\ UNCHANGED part
    /\ \/ part = "upload" /\ UNext /\ UNCHANGED svars
       \/ part = "speech" /\ SNext /\ UNCHANGED uvars

\* upload() and speak() are straight-line code: each process goes on with the one it
\* is in.  Only one of the two moves in a behaviour.
GoesOn(p) ==
    /\ UNCHANGED part
    /\ \/ part = "upload" /\ UploadStep /\ UNCHANGED svars
       \/ part = "speech" /\ Step(p) /\ UNCHANGED uvars
MFairSpec == MInit /\ [][MNext]_mvars /\ \A p \in Procs : WF_mvars(GoesOn(p))
=============================================================================
