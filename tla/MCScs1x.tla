------------------------------- MODULE MCScs1x -------------------------------
(* Instance of Scs1x for TLC: every kind of status byte, and a prefix of    *)
(* two bytes instead of seven.                                              *)
EXTENDS Scs1x

MCPrefix == <<240, 1>>

\* data, a command of three bytes, of two, SysEx, undefined, of one byte, end of SysEx
MCMidiBytes == {1, 15, 144, 192, 240, 244, 246, 247}

\* whole commands, one of realtime; a SysEx; 0xf9 and its three bytes; what is no MIDI
MCDevicePackets ==
  {<<0, 144, 1, 1>>, <<0, 192, 1>>, <<0, 240, 15, 247>>, <<0, 249, 1, 247, 240>>,
   <<0, 246>>, <<0, 250>>, <<0, 1, 1>>, <<241, 1>>}
  \cup {<<18>>, [i \in 1 .. MaxPacket |-> IF i % 2 = 0 THEN 247 ELSE 18]}

\* States that only differ in what nothing looks at again are one: cells from
\* output_bytes on while the tasklet is off, and all but the first byte and the length of
\* what is being unescaped, or was and is being sent.
MCView ==
  LET valid == IF scs.running \/ tasklet.at # "off" THEN cells
               ELSE SubSeq(cells, 1, scs.bytes)
  IN  <<scs, tasklet, queued, user, remove, scsPast,
        IF scs.escaped \/ scsPast.escaped
        THEN <<Len(valid), IF valid = <<>> THEN ANY ELSE Head(valid)>>
        ELSE valid>>
===============================================================================
