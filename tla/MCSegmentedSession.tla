------------------------- MODULE MCSegmentedSession -------------------------
(* Instances of SegmentedSession for TLC. *)
EXTENDS SegmentedSession

\* On the device, with an empty segment (a tool result without text) and blob
\* loads; through numpy, with a segment that is two others joined, so that
\* segmentations with different boundaries have the same tokens.
MCConfigs ==
    { [onDevice |-> TRUE, mapped |-> TRUE, segs |-> { << >>, <<"a">>, <<"b">> }],
      [onDevice |-> FALSE, mapped |-> FALSE, segs |-> { <<"a">>, <<"b">>, <<"a", "b">> }] }

\* an empty session and one with two segments
MCStarts == { << >>, << <<"a">>, <<"b">> >> }
=============================================================================
