-------------------------- MODULE MCAudioRouting --------------------------
(* AudioRouting for TLC: every board, the devices, sources and modes between *)
(* which the code tells a difference.                                       *)
EXTENDS AudioRouting

AllBoards == {"BLAZE", "TABLET", "PANDA"}
SomeModes == {"NORMAL", "IN_CALL"}
SomeOutSets == {{"SPEAKER"}, {"HEADSET"}, {"SCO"}, {"SPEAKER", "AUX_DIGITAL"}}
SomeInDevices == {"BUILTIN_MIC", "HEADSET_MIC", "SCO_MIC"}
SomeSources == {"CAMCORDER", "VOICE_RECOGNITION", "VOICE_COMMUNICATION"}
=============================================================================
