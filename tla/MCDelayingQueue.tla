--------------------------- MODULE MCDelayingQueue ---------------------------
(***************************************************************************)
(* DelayingQueue with two items, two workers and room for one delayed item *)
(* in the channel.                                                         *)
(***************************************************************************)
EXTENDS DelayingQueue
=============================================================================
