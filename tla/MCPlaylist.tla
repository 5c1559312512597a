----------------------------- MODULE MCPlaylist -----------------------------
(***************************************************************************)
(* Values for checking Playlist: three entries, two of the same artist.    *)
(***************************************************************************)
EXTENDS Playlist

MCEntries == {0, 1, 2}
MCKey     == [artist |-> [e \in MCEntries |-> IF e = 1 THEN 1 ELSE 2],
              title  |-> [e \in MCEntries |-> e]]
MCFilters == {MCEntries, {0, 1}}
MCLoaded  == {<<0, 1, 2>>, <<1, 1, 1, 0>>, <<1, 1, 2, 0>>}
============================================================================
