----------------------------- MODULE Playback -----------------------------
(***************************************************************************)
(* What one stream promises to the rest of Tuniac, with no thread, pipe or *)
(* voice in sight: the song is heard from where it was left, a packet at   *)
(* most at a time and without gaps, only while the stream plays; its end   *)
(* is told once, nothing is heard after it, and a destroyed stream is      *)
(* silent for ever.  Once the device has refused audio, and until the next *)
(* jump, nothing is promised of where in the song it goes on.              *)
(***************************************************************************)
EXTENDS Naturals

CONSTANTS
    Step,       \* the most that can be heard at once, in units
    Positions   \* where the user may jump

VARIABLES
    heard,      \* the next unit to be heard
    playing,    \* the voice is started
    ended,      \* the application was told of the end
    closed,     \* the stream was destroyed
    faulty      \* the device refused audio since the last jump

playback == <<heard, playing, ended, closed, faulty>>

PlaybackInit ==
    heard = 0 /\ playing = FALSE /\ ended = FALSE /\ closed = FALSE /\ faulty = FALSE

Hear ==
    /\ playing /\ ~ended /\ ~closed
    /\ (\E n \in 1 .. Step : heard' = heard + n) \/ (faulty /\ heard' \in Nat)
    /\ UNCHANGED <<playing, ended, closed, faulty>>

Refuse ==
    /\ ~ended /\ ~closed
    /\ faulty' = TRUE
    /\ UNCHANGED <<heard, playing, ended, closed>>

Jump ==
    /\ ~closed
    /\ heard' \in Positions
    /\ faulty' = FALSE
    /\ UNCHANGED <<playing, ended, closed>>

SetPlaying ==
    /\ ~closed
    /\ playing' = ~playing
    /\ UNCHANGED <<heard, ended, closed, faulty>>

End ==
    /\ ~ended /\ ~closed
    /\ ended' = TRUE
    /\ UNCHANGED <<heard, playing, closed, faulty>>

Close ==
    /\ ~playing
    /\ closed' = TRUE
    /\ UNCHANGED <<heard, playing, ended, faulty>>

PlaybackNext == Hear \/ Refuse \/ Jump \/ SetPlaying \/ End \/ Close

PlaybackSpec == PlaybackInit /\ [][PlaybackNext]_playback
============================================================================
