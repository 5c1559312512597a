---------------------------- MODULE MCPlayQueue ----------------------------
(***************************************************************************)
(* Values for checking PlayQueue: three songs, one of them missing, in the *)
(* library and two playlists.                                              *)
(***************************************************************************)
EXTENDS PlayQueue

MCSongs   == {1, 2, 3}
MCContent == (0 :> <<1, 2, 3>>) @@ (10 :> <<1, 2>>) @@ (11 :> <<2, 3>>)
\* Long enough to be played in turn, with the missing song behind the others
MCLongSaved == {<<Wish(10, 1), Wish(11, 2), Wish(0, 1)>>, <<Wish(11, 2), Wish(10, 2), Wish(11, 3)>>}
MCSaved   == {<<>>, <<Wish(10, 1), Wish(11, 2)>>, <<Wish(10, 2), Wish(10, 2)>>}
============================================================================
