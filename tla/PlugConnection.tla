--------------------------- MODULE PlugConnection ---------------------------
(***************************************************************************)
(* What a connection promises the driver that makes it, with the allocation *)
(* of the channel, the compare-and-swaps, their retries and the two threads *)
(* of cmp.c left out: a plug that is ours as long as the connection is up,  *)
(* and nobody else's connection broken but one laid over ours.              *)
(***************************************************************************)
VARIABLES
  state,  \* "down", "up", or "stale" from a bus reset until it is made again
  plug    \* who has made a connection in the plug: "none", "us", "other" or
          \* "both", another controller having overlaid ours

vars == <<state, plug>>

Init == state = "down" /\ plug = "none"

\* cmp_connection_establish() and, for a stale connection, cmp_connection_update()
Connect ==
  /\ state # "up"
  /\ state' = "up" /\ plug' = "us"

\* cmp_connection_break(); a transaction that fails may leave the plug ours.
Break ==
  /\ state # "down"
  /\ state' = "down"
  /\ plug' = plug \/ (plug \in {"us", "both"} /\ plug' = "none")

\* An update that fails
GiveUp ==
  /\ state = "stale"
  /\ state' = "down" /\ UNCHANGED plug

\* A transaction fails whose write has been done.
Fault ==
  /\ state # "up"
  /\ plug' = "us" /\ UNCHANGED state

\* The connection is made again without a reset having been.
Doubt ==
  /\ state = "up"
  /\ state' = "stale" /\ UNCHANGED plug

Other ==
  /\ \E uses \in {{"none", "other"}, {"us", "both"}} : plug \in uses /\ plug' \in uses
  /\ UNCHANGED state

Reset ==
  /\ state' = IF state = "down" THEN "down" ELSE "stale"
  /\ plug' = "none"

Next == Connect \/ Break \/ GiveUp \/ Fault \/ Doubt \/ Other \/ Reset

Spec == Init /\ [][Next]_vars
=============================================================================
