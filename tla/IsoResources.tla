---------------------------- MODULE IsoResources ----------------------------
(***************************************************************************)
(* Isochronous resources, sound/firewire/iso-resources.c: one              *)
(* struct fw_iso_resources of this driver, the isochronous resource        *)
(* manager (IRM) of the bus that it allocates a channel from, and the      *)
(* other nodes that allocate channels from the same IRM.                   *)
(*                                                                         *)
(* Every access to the IRM is a lock transaction that only succeeds in the *)
(* generation it names, and a bus reset frees every channel.  Bandwidth is *)
(* allocated and freed together with the channel and is abstracted to the  *)
(* outcome "exhausted".  r->mutex is only ever taken by callers that       *)
(* already hold a mutex of their own (cmp_connection.mutex, dice->mutex),  *)
(* so the module that uses this one provides the mutual exclusion.         *)
(***************************************************************************)
EXTENDS Integers

CONSTANTS
  Channels,   \* isochronous channels, r->channels_mask
  MaxGen      \* bound: the bus is reset at most MaxGen times

ASSUME IsoAssumption == Channels # {} /\ MaxGen \in Nat

VARIABLES
  generation, \* card->generation
  irm,        \* who holds each channel at the IRM: "free", "us", "other"
  allocated,  \* r->allocated
  channel,    \* r->channel
  rgen,       \* r->generation
  leaked      \* history: channels the IRM still holds for this node though
              \* this driver has forgotten them, or never knew

isoVars == <<generation, irm, allocated, channel, rgen, leaked>>

Holders == {"free", "us", "other"}

IsoTypeOK ==
  /\ generation \in 0 .. MaxGen
  /\ irm \in [Channels -> Holders]
  /\ allocated \in BOOLEAN
  /\ channel \in Channels
  /\ rgen \in 0 .. MaxGen
  /\ leaked \subseteq Channels

\* fw_iso_resources_init(), lines 26-34
IsoInit ==
  /\ generation = 0
  /\ irm = [ch \in Channels |-> "free"]
  /\ allocated = FALSE
  /\ channel \in Channels
  /\ rgen = 0
  /\ leaked = {}

\* Does a transaction that names r->generation still reach its node?
Current == rgen = generation

\* Lines 117-120 and 176-179: note the generation the resources belong to.
ReadGeneration ==
  /\ rgen' = generation
  /\ UNCHANGED <<generation, irm, allocated, channel, leaked>>

\* Lines 126-142: fw_iso_resource_manage() takes a free channel ...
Allocate ==
  /\ Current
  /\ \E ch \in Channels :
       /\ irm[ch] = "free"
       /\ irm' = [irm EXCEPT ![ch] = "us"]
       /\ channel' = ch
  /\ allocated' = TRUE
  /\ UNCHANGED <<generation, rgen, leaked>>

\* ... or finds no channel or bandwidth, or fails: when only the response of
\* the IRM was lost, it has given the channel away all the same.
AllocateFails ==
  /\ Current
  /\ \/ UNCHANGED <<irm, leaked>>
     \/ \E ch \in Channels :
          /\ irm[ch] = "free"
          /\ irm' = [irm EXCEPT ![ch] = "us"]
          /\ leaked' = leaked \cup {ch}
  /\ UNCHANGED <<generation, allocated, channel, rgen>>

\* Lines 174, 183-184: take the channel of the previous generation again.
Reallocate ==
  /\ Current /\ irm[channel] = "free"
  /\ irm' = [irm EXCEPT ![channel] = "us"]
  /\ UNCHANGED <<generation, allocated, channel, rgen, leaked>>

\* Mutant: without line 190, r->allocated stays set.
ReallocateFailsAllocated ==
  /\ Current
  /\ UNCHANGED isoVars

\* Lines 189-197: the channel is taken, the bandwidth is gone, or an error,
\* the response alone lost included.  r->allocated is cleared even if it is
\* this node that the IRM holds the channel for.
ReallocateFails ==
  /\ Current
  /\ allocated' = FALSE
  /\ \/ irm' = irm
     \/ irm[channel] = "free" /\ irm' = [irm EXCEPT ![channel] = "us"]
  /\ leaked' = IF irm'[channel] = "us" THEN leaked \cup {channel} ELSE leaked
  /\ UNCHANGED <<generation, channel, rgen>>

\* Does the deallocation reach the IRM?  A bus reset has freed what was
\* allocated in an earlier generation.
Deallocate ==
  /\ irm' = IF allocated /\ Current THEN [irm EXCEPT ![channel] = "free"]
            ELSE irm
  /\ UNCHANGED leaked

\* Lines 222-224: it fails, which is only reported.
DeallocateFails ==
  /\ allocated /\ Current
  /\ leaked' = leaked \cup {channel}
  /\ UNCHANGED irm

\* fw_iso_resources_free(), lines 211-230: r->allocated is cleared either way.
Free ==
  /\ Deallocate \/ DeallocateFails
  /\ allocated' = FALSE
  /\ UNCHANGED <<generation, channel, rgen>>

\* External: the other nodes of the bus, and the bus reset.
OtherAllocates(ch) ==
  /\ irm[ch] = "free"
  /\ irm' = [irm EXCEPT ![ch] = "other"]
  /\ UNCHANGED <<generation, allocated, channel, rgen, leaked>>

OtherFrees(ch) ==
  /\ irm[ch] = "other"
  /\ irm' = [irm EXCEPT ![ch] = "free"]
  /\ UNCHANGED <<generation, allocated, channel, rgen, leaked>>

IrmReset ==
  /\ generation < MaxGen
  /\ generation' = generation + 1
  /\ irm' = [ch \in Channels |-> "free"]
  /\ leaked' = {}
  /\ UNCHANGED <<allocated, channel, rgen>>
=============================================================================
