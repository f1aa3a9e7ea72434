---------------------------- MODULE MCRemotePages ----------------------------
(* Two sizes of the window, of 15 and of 28 cards to a page. *)
EXTENDS RemotePages

MCWindows == {StartWindow, [w |-> 1600, h |-> 900]}
=============================================================================
