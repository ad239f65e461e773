----------------------------- MODULE MCPlaylist -----------------------------
EXTENDS Playlist

=============================================================================
