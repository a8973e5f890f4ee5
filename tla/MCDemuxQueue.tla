----------------------------- MODULE MCDemuxQueue -----------------------------
(* A file in which a frame is shared by audio and video, one of audio is     *)
(* empty, so that the audio queue fills up, and a start code lies across two *)
(* video packets, which maxlen may cut; the subtitle comes last.             *)
EXTENDS DemuxQueue

Frame(to, size, codes) == [to |-> to, size |-> size, codes |-> codes]

MCFile ==
  << Frame({Audio, Video}, 2, {}),
     Frame({Audio}, 0, {}),
     Frame({Video}, 3, {2}),
     Frame({Video}, 1, {}),
     Frame({Sub}, 1, {}) >>
=============================================================================
