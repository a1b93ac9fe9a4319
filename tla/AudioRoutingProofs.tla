------------------------ MODULE AudioRoutingProofs ------------------------
(***************************************************************************)
(* Theorems about AudioRouting, for all modes, sources and sets of         *)
(* devices: the state is well formed, the voice of the modem is heard in   *)
(* calls only, and what is played and recorded, in a call and outside of   *)
(* one, is routed as the framework and the TTY mode want it.               *)
(*                                                                         *)
(* The lemmas go up through the code: what a route does to the mixer, what *)
(* the two select functions do to it, what standby does to the device.     *)
(* They do so twice: the first invariant only needs that the controls keep *)
(* their types and the voice its switches; the second one, which builds on *)
(* it, needs the value of every control that is played or recorded with.   *)
(***************************************************************************)
EXTENDS AudioRouting, TLAPS

\* The items of each control.
Muxes == {Off, "BT_Left", "AMIC0", "AMIC1", "DMIC0L"}

Items(c) ==
    IF c \in Volumes THEN 0 .. 26
    ELSE IF c = "hs" THEN {Off, "HS_DAC"}
    ELSE IF c = "hf" THEN {Off, "HF_DAC"}
    ELSE IF c \in {"left_capture", "right_capture"} THEN Mics
    ELSE IF c \in {"mux_ul", "mux_vx"} THEN Muxes
    ELSE {Off, "On"}

IsMixer(m) ==
    /\ m = [c \in Controls |-> m[c]]
    /\ \A c \in Controls : m[c] \in Items(c)

Voice == {"vx_dl1", "vx_dl2"}
Silent(m) == \A c \in Voice : m[c] = Off

\* n is a mixer with the voice switches of m.
SameVoice(m, n) == IsMixer(n) /\ \A c \in Voice : n[c] = m[c]

IsRoute(r) ==
    /\ DOMAIN r \subseteq Controls \ Volumes
    /\ \A c \in DOMAIN r : r[c] \in Items(c)

-----------------------------------------------------------------------------
(***************************************************************************)
(* Routes.                                                                 *)
(***************************************************************************)
LEMMA OffIsItem == \A c \in Controls \ Volumes : Off \in Items(c)
  BY DEF Items, Controls, Volumes, Off, Mics, Muxes

LEMMA VoiceIsSwitch == Voice \subseteq Controls \ Volumes
  BY DEF Voice, Controls, Volumes

\* A route sets its own controls, or puts them off, and no other.
LEMMA SetRouteSets ==
    ASSUME NEW m, IsMixer(m), NEW r, IsRoute(r), NEW enable \in BOOLEAN
    PROVE  /\ IsMixer(SetRoute(m, r, enable))
           /\ \A c \in Controls :
                SetRoute(m, r, enable)[c] =
                  IF c \notin DOMAIN r THEN m[c] ELSE IF enable THEN r[c] ELSE Off
  <1>1. CASE enable
    BY <1>1 DEF SetRoute, Enable, IsMixer, IsRoute
  <1>2. CASE ~enable
    BY <1>2, OffIsItem DEF SetRoute, Disable, IsMixer, IsRoute
  <1> QED
    BY <1>1, <1>2

LEMMA SetRouteKeepsVoice ==
    ASSUME NEW m, IsMixer(m), NEW r, IsRoute(r), DOMAIN r \intersect Voice = {},
           NEW enable \in BOOLEAN
    PROVE  SameVoice(m, SetRoute(m, r, enable))
  BY SetRouteSets, VoiceIsSwitch DEF SameVoice

LEMMA EnableKeepsVoice ==
    ASSUME NEW m, IsMixer(m), NEW r, IsRoute(r), DOMAIN r \intersect Voice = {}
    PROVE  SameVoice(m, Enable(m, r))
  BY SetRouteKeepsVoice DEF SetRoute

LEMMA DisableKeepsVoice ==
    ASSUME NEW m, IsMixer(m), NEW r, IsRoute(r), DOMAIN r \intersect Voice = {}
    PROVE  SameVoice(m, Disable(m, r))
  BY SetRouteKeepsVoice DEF SetRoute

LEMMA RoutesAreRoutes ==
    /\ \A r \in {defaults, hs_output, hf_output, fmtx_output_off} :
          IsRoute(r) /\ DOMAIN r \intersect Voice = {}
    /\ \A mic \in Muxes :
          /\ IsRoute(mm_ul2(mic)) /\ DOMAIN mm_ul2(mic) \intersect Voice = {}
          /\ IsRoute(vx_ul(mic)) /\ DOMAIN vx_ul(mic) \intersect Voice = {}
  BY DEF IsRoute, Items, Controls, Volumes, Voice, Off, Mics, Muxes, defaults,
         hs_output, hf_output, fmtx_output_off, mm_ul2, vx_ul

\* A capture control is set to a microphone, or not at all.
LEMMA SetEnumKeepsVoice ==
    ASSUME NEW m, IsMixer(m), NEW c \in {"left_capture", "right_capture"},
           NEW v \in Mics \union {"off"}
    PROVE  SameVoice(m, SetEnum(m, c, v))
  <1>1. CASE v = "off"
    BY <1>1 DEF SetEnum, SameVoice
  <1>2. CASE v # "off"
    <2>1. c \in Controls /\ c \notin Voice /\ v \in Items(c)
      BY <1>2 DEF Controls, Voice, Volumes, Items
    <2> QED
      BY <1>2, <2>1, VoiceIsSwitch DEF SetEnum, SameVoice, IsMixer
  <1> QED
    BY <1>1, <1>2

-----------------------------------------------------------------------------
(***************************************************************************)
(* The device: every field but the mixer has its type.                     *)
(***************************************************************************)
TtyModes == {"OFF", "VCO", "HCO", "FULL"}
Inputs == {{}} \union {{d} : d \in InDevices \union {"BUILTIN_MIC"}}

IsDevice(a) ==
    /\ a \in [board_type : {"BLAZE", "TABLET", "PANDA"}, sidetone_capture : BOOLEAN,
              mode : Modes, outs : SUBSET OutDevices, ins : Inputs,
              tty_mode : TtyModes, in_call : BOOLEAN, active_output : BOOLEAN,
              active_input : BOOLEAN, input_requires_stereo : BOOLEAN,
              mixer : {a.mixer}]
    /\ a.outs # {}
    /\ IsMixer(a.mixer)

-----------------------------------------------------------------------------
(***************************************************************************)
(* The select functions.                                                   *)
(***************************************************************************)
LEMMA InputVolumeRange ==
    ASSUME NEW a, NEW source, NEW main \in BOOLEAN, NEW headset \in BOOLEAN,
           NEW sub \in BOOLEAN
    PROVE  InputVolume(a, source, main, headset, sub) \in 0 .. 26
  BY DEF InputVolume

LEMMA InputVolumesKeepVoice ==
    ASSUME NEW m, IsMixer(m), NEW a, NEW source, NEW main \in BOOLEAN,
           NEW headset \in BOOLEAN, NEW sub \in BOOLEAN
    PROVE  SameVoice(m, SetInputVolumes(m, a, source, main, headset, sub))
  <1> DEFINE volume == InputVolume(a, source, main, headset, sub)
  <1>1. volume \in 0 .. 26
    BY InputVolumeRange
  <1>2. \A c \in Volumes : c \in Controls /\ c \notin Voice /\ volume \in Items(c)
    BY <1>1 DEF Volumes, Controls, Voice, Items
  <1>3. \A c \in Volumes : SameVoice(m, [m EXCEPT ![c] = volume])
    <2> HIDE DEF volume
    <2> QED
      BY <1>2, VoiceIsSwitch DEF SameVoice, IsMixer
  <1>4. SameVoice(m, m)
    BY DEF SameVoice
  <1>5. SetInputVolumes(m, a, source, main, headset, sub) \in
            {m} \union {[m EXCEPT ![c] = volume] : c \in Volumes}
    BY DEF SetInputVolumes, Volumes
  <1> QED
    BY <1>3, <1>4, <1>5

\* What is played: outside of a call the voice switches are off.
IsSelection(on) ==
    /\ on.headset \in BOOLEAN /\ on.headphone \in BOOLEAN /\ on.speaker \in BOOLEAN
    /\ on.earpiece \in BOOLEAN /\ on.bt \in BOOLEAN

LEMMA BitIsSwitch == \A b \in BOOLEAN : Bit(b) \in {Off, "On"} /\ (~b => Bit(b) = Off)
  BY DEF Bit

LEMMA PathsSilence ==
    ASSUME NEW m, IsMixer(m), NEW on, IsSelection(on), NEW call \in BOOLEAN
    PROVE  /\ IsMixer(SetPaths(m, on, call))
           /\ ~call => Silent(SetPaths(m, on, call))
  <1> DEFINE dl1_on == on.headset \/ on.headphone \/ on.earpiece \/ on.bt
             hs_on  == on.headset \/ on.headphone
             paths  == [mm_dl2 |-> Bit(on.speaker), vx_dl2 |-> Bit(on.speaker /\ call),
                        mm_dl1 |-> Bit(dl1_on), vx_dl1 |-> Bit(dl1_on /\ call),
                        dl1_headset |-> Bit(hs_on \/ on.earpiece), dl1_bt |-> Bit(on.bt),
                        earpiece_enable |-> Bit(on.earpiece)]
             set    == SetRoute(m, paths, TRUE)
             hs     == SetRoute(set, hs_output, hs_on)
  <1>1. on.headset \in BOOLEAN /\ on.headphone \in BOOLEAN /\ on.speaker \in BOOLEAN
        /\ on.earpiece \in BOOLEAN /\ on.bt \in BOOLEAN
    BY DEF IsSelection
  <1>2. /\ DOMAIN paths = {"mm_dl1", "mm_dl2", "vx_dl1", "vx_dl2", "dl1_headset", "dl1_bt",
                           "earpiece_enable"}
        /\ \A c \in DOMAIN paths : paths[c] \in {Off, "On"}
        /\ ~call => paths.vx_dl1 = Off /\ paths.vx_dl2 = Off
    <2>1. Bit(on.speaker) \in {Off, "On"} /\ Bit(on.speaker /\ call) \in {Off, "On"}
          /\ Bit(dl1_on) \in {Off, "On"} /\ Bit(dl1_on /\ call) \in {Off, "On"}
          /\ Bit(hs_on \/ on.earpiece) \in {Off, "On"} /\ Bit(on.bt) \in {Off, "On"}
          /\ Bit(on.earpiece) \in {Off, "On"}
      BY <1>1, BitIsSwitch
    <2>2. ~call => Bit(on.speaker /\ call) = Off /\ Bit(dl1_on /\ call) = Off
      BY <1>1, BitIsSwitch
    <2> QED
      BY <2>1, <2>2
  <1>3. IsRoute(paths)
    <2> HIDE DEF paths
    <2> QED
      BY <1>2 DEF IsRoute, Controls, Volumes, Items
  <1>4. IsMixer(set) /\ (~call => Silent(set))
    <2>1. IsMixer(set) /\ \A c \in Voice : set[c] = paths[c]
      <3> HIDE DEF paths
      <3> QED
        BY <1>2, <1>3, SetRouteSets, VoiceIsSwitch DEF Voice
    <2> QED
      BY <1>2, <2>1 DEF Silent, Voice
  <1>5. SameVoice(set, hs)
    <2> HIDE DEF set
    <2> QED
      BY <1>1, <1>4, SetRouteKeepsVoice, RoutesAreRoutes
  <1>6. SameVoice(hs, SetRoute(hs, hf_output, on.speaker))
    <2> HIDE DEF hs
    <2> QED
      BY <1>1, <1>5, SetRouteKeepsVoice, RoutesAreRoutes DEF SameVoice
  <1>7. SetPaths(m, on, call) = SetRoute(hs, hf_output, on.speaker)
    BY DEF SetPaths, SetRoute
  <1> QED
    <2> HIDE DEF hs, set
    <2> QED
      BY <1>4, <1>5, <1>6, <1>7 DEF SameVoice, Silent

LEMMA RxIsSelection ==
    ASSUME NEW a, IsDevice(a)
    PROVE  IsSelection(Rx(a)) /\ IsSelection(Tx(a))
  <1>1. \A d : IsSelection(Only(d))
    BY DEF Only, IsSelection
  <1>2. IsSelection(Selected(a))
    BY DEF Selected, IsSelection
  <1>3. IsSelection([Selected(a) EXCEPT !.speaker = @ \/ "AUX_DIGITAL" \in a.outs])
    BY DEF Selected, IsSelection
  <1>4. a.tty_mode \in TtyModes
    BY DEF IsDevice
  <1>5. IsSelection(Rx(a))
    <2>1. CASE a.mode # "IN_CALL" \/ "SCO" \in a.outs
      BY <1>2, <2>1 DEF Rx
    <2>2. CASE a.mode = "IN_CALL" /\ "SCO" \notin a.outs
      BY <1>1, <1>3, <1>4, <2>2 DEF Rx, TtyModes
    <2> QED
      BY <2>1, <2>2
  <1> QED
    BY <1>1, <1>4, <1>5 DEF Tx, TtyModes

\* The input of a call is selected without the output's switches.
LEMMA SameVoiceTransitive ==
    ASSUME NEW l, NEW m, NEW n, SameVoice(l, m), SameVoice(m, n)
    PROVE  SameVoice(l, n)
  BY DEF SameVoice

LEMMA SidetoneKeepsVoice ==
    ASSUME NEW m, IsMixer(m), NEW v \in {Off, "On"}
    PROVE  SameVoice(m, [m EXCEPT !.sidetone_capture = v])
  <1>1. "sidetone_capture" \in Controls \ Voice /\ v \in Items("sidetone_capture")
    BY DEF Controls, Volumes, Voice, Items
  <1> QED
    BY <1>1, VoiceIsSwitch DEF SameVoice, IsMixer

LEMMA VoiceInputKeepsVoice ==
    ASSUME NEW m, IsMixer(m), NEW a, IsDevice(a), a.board_type # "PANDA", NEW source
    PROVE  SameVoice(m, VoiceInput(m, a, source))
  <1> DEFINE tx      == Tx(a)
             mux     == VoiceMux(m, a, tx)
             capture == VoiceCapture(mux, a, tx)
             gain    == SetInputVolumes(capture, a, source, tx.earpiece \/ tx.headphone,
                                        tx.headset, tx.speaker)
  <1>1. IsSelection(tx) /\ a.board_type \in {"BLAZE", "TABLET"} /\ a.sidetone_capture \in BOOLEAN
    BY RxIsSelection DEF IsDevice
  <1> HIDE DEF tx
  <1>2. SameVoice(m, mux)
    <2>1. \A mic \in Muxes, b \in BOOLEAN : SameVoice(m, SetRoute(m, vx_ul(mic), b))
      BY SetRouteKeepsVoice, RoutesAreRoutes
    <2>2. \A mic \in Muxes : SameVoice(m, Enable(m, vx_ul(mic)))
      BY EnableKeepsVoice, RoutesAreRoutes
    <2>3. "AMIC0" \in Muxes /\ "AMIC1" \in Muxes /\ "DMIC0L" \in Muxes
      BY DEF Muxes
    <2>4. CASE tx.headset \/ tx.headphone \/ tx.earpiece
      BY <2>2, <2>3, <2>4 DEF VoiceMux
    <2>5. CASE ~(tx.headset \/ tx.headphone \/ tx.earpiece) /\ a.board_type = "BLAZE"
      <3>1. mux = SetRoute(m, IF tx.speaker THEN vx_ul("AMIC1") ELSE vx_ul("AMIC0"), tx.speaker)
        BY <2>5 DEF VoiceMux
      <3> QED
        BY <1>1, <2>1, <2>3, <3>1 DEF IsSelection
    <2>6. CASE ~(tx.headset \/ tx.headphone \/ tx.earpiece) /\ a.board_type # "BLAZE"
      <3>1. mux = SetRoute(m, vx_ul("DMIC0L"), tx.speaker)
        BY <2>6 DEF VoiceMux
      <3> QED
        BY <1>1, <2>1, <2>3, <3>1 DEF IsSelection
    <2> QED
      BY <2>4, <2>5, <2>6
  <1> HIDE DEF mux
  <1>3. SameVoice(mux, capture)
    <2>1. ASSUME NEW v \in Mics, NEW w \in Mics \union {"off"}
          PROVE  SameVoice(mux, SetEnum(SetEnum(mux, "left_capture", v), "right_capture", w))
      <3>1. SameVoice(mux, SetEnum(mux, "left_capture", v))
        BY <1>2, SetEnumKeepsVoice DEF SameVoice
      <3> QED
        BY <3>1, SetEnumKeepsVoice, SameVoiceTransitive DEF SameVoice
    <2>2. Off \in Mics /\ "Main_Mic" \in Mics /\ "Headset_Mic" \in Mics /\ "Sub_Mic" \in Mics
      BY DEF Mics
    <2>3. CASE a.board_type = "BLAZE"
      BY <2>1, <2>2, <2>3 DEF VoiceCapture
    <2>4. CASE a.board_type = "TABLET"
      BY <2>1, <2>2, <2>4 DEF VoiceCapture
    <2> QED
      BY <1>1, <2>3, <2>4
  <1> HIDE DEF capture
  <1>4. SameVoice(m, capture)
    BY <1>2, <1>3, SameVoiceTransitive
  <1>5. SameVoice(m, gain)
    <2>1. SameVoice(capture, gain)
      <3>1. /\ (tx.earpiece \/ tx.headphone) \in BOOLEAN
            /\ tx.headset \in BOOLEAN /\ tx.speaker \in BOOLEAN
        BY <1>1 DEF IsSelection
      <3>2. IsMixer(capture)
        BY <1>4 DEF SameVoice
      <3> QED
        BY <3>1, <3>2, InputVolumesKeepVoice
    <2> QED
      BY <1>4, <2>1, SameVoiceTransitive
  <1> HIDE DEF gain
  <1>6. CASE "SCO" \in a.outs
    <2>1. SameVoice(m, Enable(m, vx_ul("BT_Left")))
      BY EnableKeepsVoice, RoutesAreRoutes DEF Muxes
    <2>2. SameVoice(m, [Enable(m, vx_ul("BT_Left")) EXCEPT !.sidetone_capture = Off])
      BY <2>1, SidetoneKeepsVoice, SameVoiceTransitive DEF SameVoice
    <2> QED
      BY <1>6, <2>2 DEF VoiceInput
  <1>7. CASE "SCO" \notin a.outs
    <2>1. Bit(tx.earpiece /\ a.sidetone_capture) \in {Off, "On"}
      BY <1>1, BitIsSwitch DEF IsSelection
    <2>2. SameVoice(gain, [gain EXCEPT !.sidetone_capture = Bit(tx.earpiece /\ a.sidetone_capture)])
      BY <1>5, <2>1, SidetoneKeepsVoice DEF SameVoice
    <2>3. VoiceInput(m, a, source)
            = [gain EXCEPT !.sidetone_capture = Bit(tx.earpiece /\ a.sidetone_capture)]
      BY <1>7 DEF VoiceInput, gain, capture, mux, tx
    <2> QED
      BY <1>5, <2>2, <2>3, SameVoiceTransitive
  <1> QED
    BY <1>6, <1>7

\* Outside of a call, and always on a PANDA, the voice of the modem is off.
OutputIsSilent(a, n) ==
    /\ IsMixer(n)
    /\ a.board_type = "PANDA" => SameVoice(a.mixer, n)
    /\ a.board_type # "PANDA" /\ a.mode # "IN_CALL" => Silent(n)

LEMMA OutputRouteSilence ==
    ASSUME NEW a, IsDevice(a), NEW source
    PROVE  OutputIsSilent(a, OutputRoute(a, source))
  <1> DEFINE call  == a.mode = "IN_CALL"
             paths == SetPaths(a.mixer, Rx(a), call)
             once  == Enable(paths, fmtx_output_off)
             twice == SetPaths(once, Rx(a), call)
  <1>1. IsMixer(a.mixer) /\ IsSelection(Rx(a)) /\ call \in BOOLEAN
    BY RxIsSelection DEF IsDevice
  <1>2. IsMixer(paths) /\ (~call => Silent(paths))
    <2> HIDE DEF call
    <2> QED
      BY <1>1, PathsSilence
  <1>3. SameVoice(paths, once)
    <2> HIDE DEF paths
    <2> QED
      BY <1>2, EnableKeepsVoice, RoutesAreRoutes
  <1>4. IsMixer(once) /\ (~call => Silent(once))
    BY <1>2, <1>3 DEF SameVoice, Silent
  <1>5. CASE a.board_type = "PANDA"
    <2> DEFINE on == [Enable(a.mixer, hs_output) EXCEPT !.mm_dl1 = "On"]
    <2>1. SameVoice(a.mixer, Enable(a.mixer, hs_output))
      BY <1>1, EnableKeepsVoice, RoutesAreRoutes
    <2>2. SameVoice(Enable(a.mixer, hs_output), on)
      <3>1. "mm_dl1" \in Controls \ Voice /\ "On" \in Items("mm_dl1")
        BY DEF Controls, Volumes, Voice, Items
      <3> QED
        BY <2>1, <3>1, VoiceIsSwitch DEF SameVoice, IsMixer
    <2>3. SameVoice(a.mixer, on)
      BY <2>1, <2>2, SameVoiceTransitive
    <2>4. OutputRoute(a, source) = SetInputVolumes(on, a, source, FALSE, FALSE, TRUE)
      BY <1>5 DEF OutputRoute
    <2>5. SameVoice(on, SetInputVolumes(on, a, source, FALSE, FALSE, TRUE))
      <3>1. IsMixer(on)
        BY <2>3 DEF SameVoice
      <3> QED
        BY <3>1, InputVolumesKeepVoice
    <2>6. SameVoice(a.mixer, OutputRoute(a, source))
      BY <2>3, <2>4, <2>5, SameVoiceTransitive
    <2> QED
      BY <1>5, <2>6 DEF OutputIsSilent, SameVoice
  <1>6. CASE a.board_type # "PANDA" /\ call
    <2>1. IsMixer(twice)
      <3> HIDE DEF once, call
      <3> QED
        BY <1>1, <1>4, PathsSilence
    <2>2. OutputRoute(a, source) = VoiceInput(twice, a, source)
      BY <1>6 DEF OutputRoute
    <2>3. IsMixer(OutputRoute(a, source))
      <3> HIDE DEF twice
      <3> QED
        BY <1>6, <2>1, <2>2, VoiceInputKeepsVoice DEF SameVoice
    <2> QED
      BY <1>6, <2>3 DEF OutputIsSilent
  <1>7. CASE a.board_type # "PANDA" /\ ~call
    <2>1. OutputRoute(a, source) = once
      BY <1>7 DEF OutputRoute
    <2> QED
      BY <1>4, <1>7, <2>1 DEF OutputIsSilent
  <1> QED
    BY <1>5, <1>6, <1>7

\* Whatever is recorded, the voice switches stay.
LEMMA SelectCaptureKeepsVoice ==
    ASSUME NEW l, NEW m, SameVoice(l, m), NEW c \in {"left_capture", "right_capture"},
           NEW v \in Mics \union {"off"}
    PROVE  SameVoice(l, SetEnum(m, c, v))
  BY SetEnumKeepsVoice, SameVoiceTransitive DEF SameVoice

LEMMA MMRouteKeepsVoice ==
    ASSUME NEW a, IsDevice(a), NEW source
    PROVE  SameVoice(a.mixer, MMRoute(a, source))
  <1> DEFINE sub == SubMic(a, source)
             main == Mic(a, source, "BUILTIN_MIC")
             headset == Mic(a, source, "HEADSET_MIC")
  <1>1. sub \in BOOLEAN /\ main \in BOOLEAN /\ headset \in BOOLEAN
    BY DEF SubMic, Mic
  <1>2. \A mic \in Muxes, b \in BOOLEAN : SameVoice(a.mixer, SetRoute(a.mixer, mm_ul2(mic), b))
    BY SetRouteKeepsVoice, RoutesAreRoutes DEF IsDevice
  <1>3. \A mic \in Muxes : SameVoice(a.mixer, Enable(a.mixer, mm_ul2(mic)))
    BY EnableKeepsVoice, RoutesAreRoutes DEF IsDevice
  <1>4. {"BT_Left", "AMIC0", "AMIC1", "DMIC0L"} \subseteq Muxes
    BY DEF Muxes
  <1>5. {Off, "Main_Mic", "Headset_Mic", "Sub_Mic"} \subseteq Mics
    BY DEF Mics
  <1>6. CASE "SCO_MIC" \in a.ins
    <2>1. MMRoute(a, source) = Enable(a.mixer, mm_ul2("BT_Left"))
      BY <1>6 DEF MMRoute
    <2> QED
      BY <1>3, <1>4, <2>1
  <1>7. CASE "SCO_MIC" \notin a.ins /\ a.board_type = "BLAZE"
    <2> DEFINE mux == SetRoute(a.mixer, mm_ul2(IF sub THEN "AMIC1" ELSE "AMIC0"),
                               main \/ headset \/ sub)
               right == SetEnum(mux, "right_capture", IF sub THEN "Sub_Mic" ELSE Off)
               left == IF main THEN "Main_Mic" ELSE IF headset THEN "Headset_Mic" ELSE Off
    <2>1. MMRoute(a, source) = SetEnum(right, "left_capture", left)
      BY <1>7 DEF MMRoute
    <2> HIDE DEF sub, main, headset
    <2>2. SameVoice(a.mixer, mux)
      BY <1>1, <1>2, <1>4
    <2>3. (IF sub THEN "Sub_Mic" ELSE Off) \in Mics /\ left \in Mics
      BY <1>5
    <2>4. SameVoice(a.mixer, right)
      <3> HIDE DEF mux
      <3> QED
        BY <2>2, <2>3, SelectCaptureKeepsVoice
    <2> HIDE DEF right, left
    <2> QED
      BY <2>1, <2>3, <2>4, SelectCaptureKeepsVoice
  <1>8. CASE "SCO_MIC" \notin a.ins /\ a.board_type # "BLAZE"
    <2> DEFINE mux == IF headset THEN Enable(a.mixer, mm_ul2("AMIC0"))
                      ELSE SetRoute(a.mixer, mm_ul2("DMIC0L"), main \/ sub)
               left == IF main THEN "off" ELSE IF headset THEN "Headset_Mic" ELSE Off
    <2>1. MMRoute(a, source) = SetEnum(mux, "left_capture", left)
      BY <1>8 DEF MMRoute
    <2> HIDE DEF sub, main, headset
    <2>2. SameVoice(a.mixer, mux)
      BY <1>1, <1>2, <1>3, <1>4
    <2>3. left \in Mics \union {"off"}
      BY <1>5
    <2> HIDE DEF mux, left
    <2> QED
      BY <2>1, <2>2, <2>3, SelectCaptureKeepsVoice
  <1> QED
    BY <1>6, <1>7, <1>8

LEMMA InputRouteKeepsVoice ==
    ASSUME NEW a, IsDevice(a), NEW source
    PROVE  SameVoice(a.mixer, InputRoute(a, source))
  <1>1. CASE a.board_type = "PANDA"
    <2> DEFINE mux == Enable(a.mixer, mm_ul2("AMIC0"))
               on == [mux EXCEPT !.left_capture = "Headset_Mic",
                                 !.right_capture = "Headset_Mic"]
    <2>1. SameVoice(a.mixer, mux)
      BY EnableKeepsVoice, RoutesAreRoutes DEF IsDevice, Muxes
    <2>2. SameVoice(mux, on)
      <3>1. \A c \in {"left_capture", "right_capture"} :
                c \in Controls \ Voice /\ "Headset_Mic" \in Items(c)
        BY DEF Controls, Volumes, Voice, Items, Mics
      <3> HIDE DEF mux
      <3> QED
        BY <2>1, <3>1, VoiceIsSwitch DEF SameVoice, IsMixer
    <2>3. SameVoice(a.mixer, on)
      BY <2>1, <2>2, SameVoiceTransitive
    <2>4. InputRoute(a, source) = SetInputVolumes(on, a, source, FALSE, TRUE, FALSE)
      BY <1>1 DEF InputRoute
    <2>5. IsMixer(on)
      BY <2>3 DEF SameVoice
    <2>6. SameVoice(on, SetInputVolumes(on, a, source, FALSE, TRUE, FALSE))
      BY <2>5, InputVolumesKeepVoice
    <2> QED
      BY <2>3, <2>4, <2>6, SameVoiceTransitive
  <1>2. CASE a.board_type # "PANDA"
    <2> DEFINE m == MMRoute(a, source)
               main == Mic(a, source, "BUILTIN_MIC")
               headset == Mic(a, source, "HEADSET_MIC")
               sub == SubMic(a, source)
    <2>1. SameVoice(a.mixer, m)
      BY MMRouteKeepsVoice
    <2>2. main \in BOOLEAN /\ headset \in BOOLEAN /\ sub \in BOOLEAN
      BY DEF Mic, SubMic
    <2>3. InputRoute(a, source) = SetInputVolumes(m, a, source, main, headset, sub)
      BY <1>2 DEF InputRoute
    <2>4. IsMixer(m)
      BY <2>1 DEF SameVoice
    <2>5. SameVoice(m, SetInputVolumes(m, a, source, main, headset, sub))
      <3> HIDE DEF m, main, headset, sub
      <3> QED
        BY <2>2, <2>4, InputVolumesKeepVoice
    <2> QED
      BY <2>1, <2>3, <2>5, SameVoiceTransitive
  <1> QED
    BY <1>1, <1>2

-----------------------------------------------------------------------------
(***************************************************************************)
(* What the functions do to the device.                                    *)
(***************************************************************************)
\* b is a device in the mode and on the board of a, with its voice switches.
Keeps(a, b) ==
    /\ IsDevice(b)
    /\ b.mode = a.mode /\ b.board_type = a.board_type /\ b.in_call = a.in_call
    /\ \A c \in Voice : b.mixer[c] = a.mixer[c]

Quiet(a) == a.mode # "IN_CALL" \/ a.board_type = "PANDA" => Silent(a.mixer)

LEMMA KeepsTransitive ==
    ASSUME NEW a, NEW b, NEW c, Keeps(a, b), Keeps(b, c)
    PROVE  Keeps(a, c)
  BY DEF Keeps

LEMMA KeepsQuiet ==
    ASSUME NEW a, NEW b, Keeps(a, b), Quiet(a)
    PROVE  IsDevice(b) /\ Quiet(b)
  BY DEF Keeps, Quiet, Silent

LEMMA NewMixer ==
    ASSUME NEW a, IsDevice(a), NEW n, IsMixer(n)
    PROVE  /\ IsDevice([a EXCEPT !.mixer = n])
           /\ [a EXCEPT !.mixer = n].mixer = n
           /\ [a EXCEPT !.mixer = n].mode = a.mode
           /\ [a EXCEPT !.mixer = n].board_type = a.board_type
           /\ [a EXCEPT !.mixer = n].in_call = a.in_call
           /\ [a EXCEPT !.mixer = n].outs = a.outs
           /\ [a EXCEPT !.mixer = n].ins = a.ins
  BY DEF IsDevice

LEMMA NewVoicelessMixer ==
    ASSUME NEW a, IsDevice(a), NEW n, SameVoice(a.mixer, n)
    PROVE  Keeps(a, [a EXCEPT !.mixer = n])
  <1>1. IsMixer(n) /\ \A c \in Voice : n[c] = a.mixer[c]
    BY DEF SameVoice
  <1> QED
    BY <1>1, NewMixer DEF Keeps

\* Fields that no route depends on.
LEMMA NewFields ==
    ASSUME NEW a, IsDevice(a)
    PROVE  /\ \A b \in BOOLEAN : /\ Keeps(a, [a EXCEPT !.active_output = b])
                                 /\ Keeps(a, [a EXCEPT !.active_input = b])
                                 /\ Keeps(a, [a EXCEPT !.input_requires_stereo = b])
           /\ \A d \in Inputs : Keeps(a, [a EXCEPT !.ins = d])
           /\ \A d \in (SUBSET OutDevices) \ {{}} : Keeps(a, [a EXCEPT !.outs = d])
           /\ \A t \in TtyModes : Keeps(a, [a EXCEPT !.tty_mode = t])
  <1>1. \A b \in BOOLEAN : Keeps(a, [a EXCEPT !.active_output = b])
    BY DEF Keeps, IsDevice
  <1>2. \A b \in BOOLEAN : Keeps(a, [a EXCEPT !.active_input = b])
    BY DEF Keeps, IsDevice
  <1>3. \A b \in BOOLEAN : Keeps(a, [a EXCEPT !.input_requires_stereo = b])
    BY DEF Keeps, IsDevice
  <1>4. \A d \in Inputs : Keeps(a, [a EXCEPT !.ins = d])
    BY DEF Keeps, IsDevice
  <1>5. \A d \in (SUBSET OutDevices) \ {{}} : Keeps(a, [a EXCEPT !.outs = d])
    BY DEF Keeps, IsDevice
  <1>6. \A t \in TtyModes : Keeps(a, [a EXCEPT !.tty_mode = t])
    BY DEF Keeps, IsDevice
  <1> QED
    BY <1>1, <1>2, <1>3, <1>4, <1>5, <1>6

\* The voice is off after the output has been selected, unless in a call.
LEMMA SelectOutputSilences ==
    ASSUME NEW a, IsDevice(a), NEW source, a.board_type = "PANDA" => Quiet(a)
    PROVE  LET b == select_output_device(a, source)
           IN  /\ IsDevice(b) /\ Quiet(b)
               /\ b.mode = a.mode /\ b.board_type = a.board_type /\ b.in_call = a.in_call
               /\ b.outs = a.outs /\ b.ins = a.ins
  <1> DEFINE n == OutputRoute(a, source)
  <1>1. OutputIsSilent(a, n)
    BY OutputRouteSilence
  <1> HIDE DEF n
  <1>2. IsMixer(n)
    BY <1>1 DEF OutputIsSilent
  <1>3. a.mode # "IN_CALL" \/ a.board_type = "PANDA" => Silent(n)
    <2>1. CASE a.board_type = "PANDA"
      BY <1>1, <2>1 DEF OutputIsSilent, SameVoice, Quiet, Silent
    <2>2. CASE a.board_type # "PANDA"
      BY <1>1, <2>2 DEF OutputIsSilent
    <2> QED
      BY <2>1, <2>2
  <1>4. select_output_device(a, source) = [a EXCEPT !.mixer = n]
    BY DEF select_output_device, n
  <1> QED
    BY <1>2, <1>3, <1>4, NewMixer DEF Quiet

LEMMA SelectInputKeeps ==
    ASSUME NEW a, IsDevice(a), NEW source
    PROVE  Keeps(a, select_input_device(a, source))
  <1> DEFINE n == InputRoute(a, source)
             stereo == IF a.board_type = "PANDA" THEN a.input_requires_stereo
                       ELSE StereoOnly(a, source)
             b == [a EXCEPT !.mixer = n]
  <1>1. Keeps(a, b)
    BY InputRouteKeepsVoice, NewVoicelessMixer
  <1>2. stereo \in BOOLEAN
    BY DEF IsDevice, StereoOnly
  <1>3. select_input_device(a, source) = [b EXCEPT !.input_requires_stereo = stereo]
    <2> HIDE DEF n
    <2> QED
      BY DEF select_input_device, n, IsDevice
  <1> HIDE DEF b, stereo
  <1>4. Keeps(b, [b EXCEPT !.input_requires_stereo = stereo])
    BY <1>1, <1>2, NewFields DEF Keeps
  <1> QED
    BY <1>1, <1>3, <1>4, KeepsTransitive

LEMMA OutputStandbyKeeps ==
    ASSUME NEW a, IsDevice(a)
    PROVE  Keeps(a, do_output_standby(a))
  <1> DEFINE hs == Disable(a.mixer, hs_output)
             n == IF a.mode = "IN_CALL" THEN a.mixer ELSE Disable(hs, hf_output)
             b == [a EXCEPT !.mixer = n]
  <1>1. SameVoice(a.mixer, n)
    <2>1. IsMixer(a.mixer) /\ SameVoice(a.mixer, a.mixer)
      BY DEF IsDevice, SameVoice
    <2>2. SameVoice(a.mixer, hs)
      BY <2>1, DisableKeepsVoice, RoutesAreRoutes
    <2>3. SameVoice(hs, Disable(hs, hf_output))
      <3> HIDE DEF hs
      <3> QED
        BY <2>2, DisableKeepsVoice, RoutesAreRoutes DEF SameVoice
    <2> HIDE DEF hs
    <2> QED
      BY <2>1, <2>2, <2>3, SameVoiceTransitive
  <1> HIDE DEF n
  <1>2. Keeps(a, b)
    BY <1>1, NewVoicelessMixer
  <1>3. Keeps(b, [b EXCEPT !.active_output = FALSE])
    <2> HIDE DEF b
    <2> QED
      BY <1>2, NewFields DEF Keeps
  <1>4. do_output_standby(a) = IF ~a.active_output THEN a
                               ELSE [b EXCEPT !.active_output = FALSE]
    BY DEF do_output_standby, n, IsDevice
  <1>5. Keeps(a, a)
    BY DEF Keeps
  <1> HIDE DEF b
  <1> QED
    BY <1>2, <1>3, <1>4, <1>5, KeepsTransitive

LEMMA InputStandbyKeeps ==
    ASSUME NEW a, IsDevice(a), NEW source
    PROVE  Keeps(a, do_input_standby(a, source))
  <1> DEFINE b == [a EXCEPT !.active_input = FALSE]
             c == [b EXCEPT !.ins = {}]
  <1>1. Keeps(a, a)
    BY DEF Keeps
  <1>2. Keeps(a, b)
    BY NewFields
  <1>3. Keeps(b, c)
    <2>1. {} \in Inputs
      BY DEF Inputs
    <2> HIDE DEF b
    <2> QED
      BY <1>2, <2>1, NewFields DEF Keeps
  <1>4. Keeps(c, select_input_device(c, source))
    <2> HIDE DEF c
    <2> QED
      BY <1>3, SelectInputKeeps DEF Keeps
  <1>5. [a EXCEPT !.active_input = FALSE, !.ins = {}] = c
    BY DEF IsDevice
  <1>6. do_input_standby(a, source) \in {a, b, select_input_device(c, source)}
    <2>1. CASE ~a.active_input
      BY <2>1 DEF do_input_standby
    <2>2. CASE a.active_input /\ a.mode = "IN_CALL"
      BY <2>2 DEF do_input_standby
    <2>3. CASE a.active_input /\ a.mode # "IN_CALL"
      BY <1>5, <2>3 DEF do_input_standby
    <2> QED
      BY <2>1, <2>2, <2>3
  <1> HIDE DEF b, c
  <1> QED
    BY <1>1, <1>2, <1>3, <1>4, <1>6, KeepsTransitive

LEMMA ForceAllStandbyKeeps ==
    ASSUME NEW a, IsDevice(a), NEW source
    PROVE  Keeps(a, force_all_standby(a, source))
  <1>1. Keeps(a, do_output_standby(a))
    BY OutputStandbyKeeps
  <1>2. Keeps(do_output_standby(a), do_input_standby(do_output_standby(a), source))
    BY <1>1, InputStandbyKeeps DEF Keeps
  <1> QED
    BY <1>1, <1>2, KeepsTransitive DEF force_all_standby

-----------------------------------------------------------------------------
(***************************************************************************)
(* The inductive invariant.  A device is settled between two entry points: *)
(* the call is what the mode says, and the voice is off outside of one.    *)
(***************************************************************************)
IsSettled(a) ==
    /\ IsDevice(a) /\ a.board_type = board
    /\ Quiet(a)
    /\ a.in_call = (a.mode = "IN_CALL")

IInv ==
    /\ board \in Boards /\ force \in BOOLEAN
    /\ in \in [device : InDevices, source : Sources]
    /\ IsSettled(adev)

LEMMA KeepsSettled ==
    ASSUME NEW a, NEW b, Keeps(a, b), IsSettled(a)
    PROVE  IsSettled(b)
  BY KeepsQuiet DEF IsSettled, Keeps

LEMMA SelectOutputSettled ==
    ASSUME NEW a, IsSettled(a), NEW source
    PROVE  IsSettled(select_output_device(a, source))
  BY SelectOutputSilences DEF IsSettled

\* Whatever the mixer was left at, the device opens without the voice.
LEMMA OpenIsSettled ==
    ASSUME NEW m, IsMixer(m), board \in Boards
    PROVE  IsSettled(adev_open(m, board))
  <1> DEFINE n == Enable(m, defaults)
             fresh == [board_type |-> "BLAZE", sidetone_capture |-> FALSE,
                       mode |-> "NORMAL", outs |-> {"SPEAKER"}, ins |-> {"BUILTIN_MIC"},
                       tty_mode |-> "OFF", in_call |-> FALSE, active_output |-> FALSE,
                       active_input |-> FALSE, input_requires_stereo |-> FALSE,
                       mixer |-> n]
             b == select_output_device(fresh, "MIC")
             c == [b EXCEPT !.board_type = board, !.sidetone_capture = board = "BLAZE"]
  <1>1. IsMixer(n)
    BY EnableKeepsVoice, RoutesAreRoutes DEF SameVoice
  <1> HIDE DEF n
  <1>2. IsDevice(fresh) /\ fresh.board_type = "BLAZE"
        /\ fresh.mode = "NORMAL" /\ fresh.in_call = FALSE
    <2>1. {"SPEAKER"} \subseteq OutDevices /\ {"BUILTIN_MIC"} \in Inputs
          /\ "OFF" \in TtyModes /\ "NORMAL" \in Modes
      BY NamesKnown DEF OutDevices, Inputs, TtyModes
    <2> QED
      BY <1>1, <2>1 DEF IsDevice
  <1> HIDE DEF fresh
  <1>3. IsDevice(b) /\ Quiet(b) /\ b.mode = "NORMAL" /\ b.in_call = FALSE
    BY <1>2, SelectOutputSilences
  <1> HIDE DEF b
  <1>4. c.mixer = b.mixer /\ c.mode = b.mode /\ c.in_call = b.in_call
        /\ c.board_type = board /\ IsDevice(c)
    BY <1>3, NamesKnown DEF IsDevice
  <1>5. adev_open(m, board) = c
    BY DEF adev_open, b, fresh, n
  <1> HIDE DEF c
  <1> QED
    BY <1>3, <1>4, <1>5 DEF IsSettled, Quiet

\* Leaving a call: the voice stays on until the output is selected again.
LEMMA LeaveCallIsSettled ==
    ASSUME NEW a, IsDevice(a), a.board_type = board, a.mode # "IN_CALL",
           board = "PANDA" => Silent(a.mixer)
    PROVE  IsSettled(LeaveCall(a))
  <1> DEFINE left == [a EXCEPT !.in_call = FALSE]
             quiet == force_all_standby(left, in.source)
             routed == select_output_device(quiet, in.source)
  <1>1. /\ IsDevice(left) /\ left.in_call = FALSE /\ left.mixer = a.mixer
        /\ left.board_type = board /\ left.mode # "IN_CALL"
    BY DEF IsDevice
  <1> HIDE DEF left
  <1>2. Keeps(left, quiet)
    BY <1>1, ForceAllStandbyKeeps
  <1> HIDE DEF quiet
  <1>3. IsDevice(quiet) /\ (quiet.board_type = "PANDA" => Quiet(quiet))
    BY <1>1, <1>2 DEF Keeps, Quiet, Silent
  <1>4. IsSettled(routed)
    <2>1. /\ IsDevice(routed) /\ Quiet(routed) /\ routed.mode = quiet.mode
          /\ routed.board_type = quiet.board_type /\ routed.in_call = quiet.in_call
      BY <1>3, SelectOutputSilences
    <2>2. /\ quiet.mode # "IN_CALL" /\ quiet.board_type = board
          /\ quiet.in_call = FALSE
      BY <1>1, <1>2 DEF Keeps
    <2> HIDE DEF routed
    <2> QED
      BY <2>1, <2>2 DEF IsSettled
  <1> HIDE DEF routed
  <1>5. Keeps(routed, select_input_device(routed, in.source))
    BY <1>4, SelectInputKeeps DEF IsSettled
  <1>6. LeaveCall(a) = select_input_device(routed, in.source)
    BY DEF LeaveCall, routed, quiet, left
  <1> QED
    BY <1>4, <1>5, <1>6, KeepsSettled

\* Entering one: the devices change, but never to none.
LEMMA EnterCallIsSettled ==
    ASSUME NEW a, IsDevice(a), a.board_type = board, a.mode = "IN_CALL",
           board = "PANDA" => Silent(a.mixer)
    PROVE  IsSettled(EnterCall(a))
  <1> DEFINE quiet == force_all_standby(a, in.source)
             earpiece == [quiet EXCEPT !.outs = {"EARPIECE"}]
             routed == IF quiet.outs = {"SPEAKER"}
                       THEN [earpiece EXCEPT !.ins = {"BUILTIN_MIC"}]
                       ELSE [quiet EXCEPT !.outs = @ \ {"SPEAKER"}]
             b == select_output_device(routed, in.source)
  <1>1. Keeps(a, quiet)
    BY ForceAllStandbyKeeps
  <1> HIDE DEF quiet
  <1>2. IsDevice(quiet)
    BY <1>1 DEF Keeps
  <1>3. Keeps(quiet, routed)
    <2>1. CASE quiet.outs = {"SPEAKER"}
      <3>1. {"EARPIECE"} \in (SUBSET OutDevices) \ {{}} /\ {"BUILTIN_MIC"} \in Inputs
        BY DEF OutDevices, Inputs
      <3>2. Keeps(quiet, earpiece)
        BY <1>2, <3>1, NewFields
      <3> HIDE DEF earpiece
      <3>3. Keeps(earpiece, [earpiece EXCEPT !.ins = {"BUILTIN_MIC"}])
        BY <3>1, <3>2, NewFields DEF Keeps
      <3> QED
        BY <2>1, <3>2, <3>3, KeepsTransitive
    <2>2. CASE quiet.outs # {"SPEAKER"}
      <3> DEFINE outs == quiet.outs \ {"SPEAKER"}
      <3>1. outs \in (SUBSET OutDevices) \ {{}}
        <4>1. quiet.outs \subseteq OutDevices /\ quiet.outs # {}
          BY <1>2 DEF IsDevice
        <4> QED
          BY <2>2, <4>1
      <3> HIDE DEF outs
      <3>2. Keeps(quiet, [quiet EXCEPT !.outs = outs])
        BY <1>2, <3>1, NewFields
      <3>3. routed = [quiet EXCEPT !.outs = outs]
        BY <2>2 DEF outs
      <3> QED
        BY <3>2, <3>3
    <2> QED
      BY <2>1, <2>2
  <1>4. EnterCall(a) = [b EXCEPT !.in_call = TRUE]
    <2>1. [quiet EXCEPT !.outs = {"EARPIECE"}, !.ins = {"BUILTIN_MIC"}]
            = [earpiece EXCEPT !.ins = {"BUILTIN_MIC"}]
      BY <1>2 DEF IsDevice
    <2> QED
      BY <2>1 DEF EnterCall, quiet
  <1> HIDE DEF routed
  <1>5. Keeps(a, routed)
    BY <1>1, <1>3, KeepsTransitive
  <1>6. IsDevice(routed) /\ (routed.board_type = "PANDA" => Quiet(routed))
    BY <1>5 DEF Keeps, Quiet, Silent
  <1>7. /\ IsDevice(b) /\ Quiet(b)
        /\ b.mode = routed.mode /\ b.board_type = routed.board_type
    BY <1>6, SelectOutputSilences
  <1> HIDE DEF b
  <1>8. b.mode = "IN_CALL" /\ b.board_type = board
    BY <1>5, <1>7 DEF Keeps
  <1>9. LET c == [b EXCEPT !.in_call = TRUE]
        IN  /\ IsDevice(c) /\ c.mixer = b.mixer /\ c.mode = b.mode
            /\ c.board_type = b.board_type /\ c.in_call = TRUE
    BY <1>7 DEF IsDevice
  <1> QED
    BY <1>4, <1>7, <1>8, <1>9 DEF IsSettled, Quiet

-----------------------------------------------------------------------------
(***************************************************************************)
(* Every step keeps the invariant.                                         *)
(***************************************************************************)
LEMMA InitIInv == Init => IInv
  <1> SUFFICES ASSUME Init PROVE IInv
    OBVIOUS
  <1> DEFINE m == [c \in Controls |-> IF c \in Volumes THEN 0 ELSE Off]
  <1>1. IsMixer(m)
    <2>1. \A c \in Controls : m[c] \in Items(c)
      BY OffIsItem DEF Items
    <2> QED
      BY <2>1 DEF IsMixer
  <1>2. board \in Boards /\ adev = adev_open(m, board)
    BY DEF Init
  <1> HIDE DEF m
  <1>3. IsSettled(adev)
    BY <1>1, <1>2, OpenIsSettled
  <1> QED
    BY <1>3 DEF Init, IInv

\* A device in another mode has the mixer it had.
LEMMA NewMode ==
    ASSUME NEW a, IsSettled(a), NEW mode \in Modes
    PROVE  LET b == [a EXCEPT !.mode = mode]
           IN  /\ IsDevice(b) /\ b.board_type = board /\ b.mode = mode
               /\ b.mixer = a.mixer /\ b.in_call = a.in_call
               /\ board = "PANDA" => Silent(b.mixer)
  BY DEF IsSettled, IsDevice, Quiet

LEMMA SelectModeIsSettled ==
    ASSUME NEW a, IsSettled(a), NEW mode \in Modes, a.mode # mode
    PROVE  IsSettled(select_mode([a EXCEPT !.mode = mode]))
  <1> DEFINE b == [a EXCEPT !.mode = mode]
  <1>1. /\ IsDevice(b) /\ b.board_type = board /\ b.mode = mode
        /\ b.mixer = a.mixer /\ b.in_call = a.in_call
        /\ board = "PANDA" => Silent(b.mixer)
    BY NewMode
  <1> HIDE DEF b
  <1>2. b.in_call = (a.mode = "IN_CALL") /\ Quiet(a) /\ a.board_type = board
    BY <1>1 DEF IsSettled
  <1>3. IsSettled(select_mode(b))
    <2>1. CASE b.mode = "IN_CALL" /\ ~b.in_call
      <3>1. select_mode(b) = EnterCall(b)
        BY <2>1 DEF select_mode
      <3> QED
        BY <1>1, <2>1, <3>1, EnterCallIsSettled
    <2>2. CASE b.mode # "IN_CALL" /\ b.in_call
      <3>1. select_mode(b) = LeaveCall(b)
        BY <2>2 DEF select_mode
      <3> QED
        BY <1>1, <2>2, <3>1, LeaveCallIsSettled
    <2>3. CASE b.mode # "IN_CALL" /\ ~b.in_call
      <3>1. select_mode(b) = b
        BY <2>3 DEF select_mode
      <3>2. Quiet(b)
        BY <1>1, <1>2, <2>3 DEF Quiet
      <3>3. b.in_call = (b.mode = "IN_CALL")
        BY <1>1, <1>2, <2>3
      <3> QED
        BY <1>1, <3>1, <3>2, <3>3 DEF IsSettled
    <2>4. ~(b.mode = "IN_CALL" /\ b.in_call)
      BY <1>1, <1>2
    <2> QED
      BY <2>1, <2>2, <2>3, <2>4
  <1> QED
    BY <1>3 DEF b

LEMMA SetTtyModeIsSettled ==
    ASSUME IInv, NEW tty_mode \in TtyModes, adev_set_tty_mode(tty_mode)
    PROVE  IsSettled(adev')
  <1> DEFINE a == [adev EXCEPT !.tty_mode = tty_mode]
  <1>1. IsSettled(a)
    BY NewFields, KeepsSettled DEF IInv, IsSettled
  <1>2. adev' \in {a, select_output_device(a, in.source)}
    BY DEF adev_set_tty_mode
  <1> HIDE DEF a
  <1> QED
    BY <1>1, <1>2, SelectOutputSettled

LEMMA OutWriteIsSettled ==
    ASSUME IInv, NEW opens \in BOOLEAN, OutWrite(opens)
    PROVE  IsSettled(adev')
  <1> DEFINE started == [adev EXCEPT !.active_output = TRUE]
             routed == IF adev.mode = "IN_CALL" THEN started
                       ELSE select_output_device(started, in.source)
             b == [routed EXCEPT !.active_output = opens]
  <1>1. IsSettled(started)
    BY NewFields, KeepsSettled DEF IInv, IsSettled
  <1>2. adev' = b
    BY DEF OutWrite, start_output_stream
  <1> HIDE DEF started
  <1>3. IsSettled(routed)
    BY <1>1, SelectOutputSettled
  <1> HIDE DEF routed
  <1>4. Keeps(routed, b)
    BY <1>3, NewFields DEF IsSettled
  <1> HIDE DEF b
  <1> QED
    BY <1>2, <1>3, <1>4, KeepsSettled

LEMMA InputStandbySettled ==
    ASSUME NEW a, IsSettled(a), NEW source
    PROVE  IsSettled(do_input_standby(a, source))
  BY InputStandbyKeeps, KeepsSettled DEF IsSettled

LEMMA OutParametersIsSettled ==
    ASSUME IInv, NEW outs \in OutSets, out_set_parameters(outs)
    PROVE  IsSettled(adev')
  <1> DEFINE quiet == do_output_standby(adev)
             moved == [quiet EXCEPT !.outs = outs]
             routed == select_output_device(moved, in.source)
  <1>1. IsSettled(quiet)
    BY OutputStandbyKeeps, KeepsSettled DEF IInv, IsSettled
  <1>2. adev' \in {routed, do_input_standby(routed, in.source)}
    BY DEF out_set_parameters
  <1> HIDE DEF quiet
  <1>3. IsSettled(moved)
    <2>1. outs \in (SUBSET OutDevices) \ {{}}
      BY NamesKnown, NoDeviceIsNoRoute
    <2> QED
      BY <1>1, <2>1, NewFields, KeepsSettled DEF IsSettled
  <1> HIDE DEF moved
  <1>4. IsSettled(routed)
    BY <1>3, SelectOutputSettled
  <1> HIDE DEF routed
  <1> QED
    BY <1>2, <1>4, InputStandbySettled

LEMMA StartInputIsSettled ==
    ASSUME IInv, NEW opens \in BOOLEAN, StartInput(opens)
    PROVE  IsSettled(adev')
  <1> DEFINE a == [adev EXCEPT !.active_input = TRUE]
             chosen == [a EXCEPT !.ins = {in.device}]
             routed == IF a.mode = "IN_CALL" THEN a
                       ELSE select_input_device(chosen, in.source)
             b == [routed EXCEPT !.active_input = opens]
  <1>1. IsSettled(a)
    BY NewFields, KeepsSettled DEF IInv, IsSettled
  <1>2. adev' = b
    BY DEF StartInput
  <1> HIDE DEF a
  <1>3. IsSettled(chosen)
    <2>1. {in.device} \in Inputs
      BY DEF IInv, Inputs
    <2> QED
      BY <1>1, <2>1, NewFields, KeepsSettled DEF IsSettled
  <1> HIDE DEF chosen
  <1>4. IsSettled(select_input_device(chosen, in.source))
    BY <1>3, SelectInputKeeps, KeepsSettled DEF IsSettled
  <1>5. IsSettled(routed)
    BY <1>1, <1>4
  <1> HIDE DEF routed
  <1>6. Keeps(routed, b)
    BY <1>5, NewFields DEF IsSettled
  <1> HIDE DEF b
  <1> QED
    BY <1>2, <1>5, <1>6, KeepsSettled

LEMMA NextIInv == IInv /\ [Next]_vars => IInv'
  <1> SUFFICES ASSUME IInv, [Next]_vars PROVE IInv'
    OBVIOUS
  <1>1. IsSettled(adev) /\ board \in Boards /\ force \in BOOLEAN
        /\ in \in [device : InDevices, source : Sources]
    BY DEF IInv
  \* It is enough that the step leaves the device settled on the same board.
  <1>2. ASSUME IsSettled(adev'), board' = board, force' \in BOOLEAN,
               in' \in [device : InDevices, source : Sources]
        PROVE  IInv'
    BY <1>1, <1>2 DEF IInv, IsSettled
  <1>3. CASE Restart
    <2>1. IsSettled(adev')
      BY <1>1, <1>3, OpenIsSettled DEF Restart, IsSettled, IsDevice
    <2> QED
      BY <1>1, <1>2, <1>3, <2>1 DEF Restart
  <1>4. ASSUME NEW mode \in Modes, adev_set_mode(mode)
        PROVE  IInv'
    <2>1. IsSettled(adev')
      BY <1>1, <1>4, SelectModeIsSettled DEF adev_set_mode
    <2> QED
      BY <1>1, <1>2, <1>4, <2>1 DEF adev_set_mode
  <1>5. ASSUME NEW tty_mode \in TtyModes, adev_set_tty_mode(tty_mode)
        PROVE  IInv'
    <2>1. IsSettled(adev')
      BY <1>5, SetTtyModeIsSettled
    <2> QED
      BY <1>1, <1>2, <1>5, <2>1 DEF adev_set_tty_mode
  <1>6. ASSUME NEW opens \in BOOLEAN, OutWrite(opens)
        PROVE  IInv'
    <2>1. IsSettled(adev')
      BY <1>6, OutWriteIsSettled
    <2>2. force' \in BOOLEAN
      <3>1. VoIPInput \in BOOLEAN
        BY <1>1 DEF VoIPInput, IsSettled, IsDevice
      <3> QED
        BY <1>6, <3>1 DEF OutWrite
    <2> QED
      BY <1>1, <1>2, <1>6, <2>1, <2>2 DEF OutWrite
  <1>7. ASSUME NEW opens \in BOOLEAN, StartInput(opens)
        PROVE  IInv'
    <2>1. IsSettled(adev')
      BY <1>7, StartInputIsSettled
    <2> QED
      BY <1>1, <1>2, <1>7, <2>1 DEF StartInput
  <1>8. CASE ForceInputStandby
    <2>1. IsSettled(adev')
      BY <1>1, <1>8, InputStandbySettled DEF ForceInputStandby
    <2> QED
      BY <1>1, <1>2, <1>8, <2>1 DEF ForceInputStandby
  <1>9. CASE out_standby
    <2>1. IsSettled(adev')
      BY <1>1, <1>9, OutputStandbyKeeps, KeepsSettled DEF out_standby, IsSettled
    <2> QED
      BY <1>1, <1>2, <1>9, <2>1 DEF out_standby
  <1>10. CASE in_standby
    <2>1. IsSettled(adev')
      BY <1>1, <1>10, InputStandbySettled DEF in_standby
    <2> QED
      BY <1>1, <1>2, <1>10, <2>1 DEF in_standby
  <1>11. ASSUME NEW outs \in OutSets, out_set_parameters(outs)
         PROVE  IInv'
    <2>1. IsSettled(adev')
      BY <1>11, OutParametersIsSettled
    <2> QED
      BY <1>1, <1>2, <1>11, <2>1 DEF out_set_parameters
  <1>12. ASSUME NEW device \in InDevices, NEW source \in Sources,
                in_set_parameters(device, source)
         PROVE  IInv'
    <2>1. IsSettled(adev')
      BY <1>1, <1>12, InputStandbySettled DEF in_set_parameters
    <2> QED
      BY <1>1, <1>2, <1>12, <2>1 DEF in_set_parameters
  <1>13. CASE UNCHANGED vars
    BY <1>1, <1>2, <1>13 DEF vars
  <1> QED
    BY <1>3, <1>4, <1>5, <1>6, <1>7, <1>8, <1>9, <1>10, <1>11, <1>12, <1>13
       DEF Next, TtyModes

LEMMA IInvImplies == IInv => TypeOK /\ VoiceOnlyInCall
  <1> SUFFICES ASSUME IInv PROVE TypeOK /\ VoiceOnlyInCall
    OBVIOUS
  <1>1. IsDevice(adev) /\ IsMixer(adev.mixer)
    BY DEF IInv, IsSettled, IsDevice
  <1>2. /\ adev.mixer.hs \in Items("hs") /\ adev.mixer.hf \in Items("hf")
        /\ adev.mixer.left_capture \in Items("left_capture")
        /\ adev.mixer.right_capture \in Items("right_capture")
        /\ adev.mixer.mux_ul \in Items("mux_ul") /\ adev.mixer.mux_vx \in Items("mux_vx")
        /\ adev.mixer.amic_ul \in Items("amic_ul") /\ adev.mixer.dmic1_ul \in Items("dmic1_ul")
        /\ DOMAIN adev.mixer = Controls
    BY <1>1 DEF IsMixer, Controls, Volumes
  <1>3. TypeOK
    BY <1>1, <1>2 DEF IInv, IsSettled, IsDevice, Inputs, TypeOK, Items, Volumes, Muxes
  <1>4. VoiceOnlyInCall
    BY DEF IInv, IsSettled, Quiet, Silent, Voice, VoiceOnlyInCall, On
  <1> QED
    BY <1>3, <1>4

\* Every entry point leaves the device settled, the process may end as it likes.
THEOREM Invariant == Spec => []IInv
  BY InitIInv, NextIInv, PTL DEF Spec

\* Whatever audio_hw.c does with the mixer, every control has one of its items, no
\* more than one input device is selected, and the call is what the mode says.
THEOREM TypeCorrect == Spec => []TypeOK
  BY Invariant, IInvImplies, PTL

\* The voice of the modem is off outside of calls, on each board and after every
\* restart: select_mode() selects the output after it has left the call, and
\* adev_open() resets the output that the last process left.
THEOREM VoiceSilent == Spec => []VoiceOnlyInCall
  BY Invariant, IInvImplies, PTL

-----------------------------------------------------------------------------
(***************************************************************************)
(* What the routes set: every control that is played or recorded with.     *)
(***************************************************************************)
Capture == {"mux_ul", "left_capture", "right_capture"} \union Volumes
VoiceCaptures == Capture \union {"mux_vx", "voice_capture", "sidetone_capture"}
Played  == Controls \ VoiceCaptures

LEMMA RouteSets ==
    ASSUME NEW m, IsMixer(m), NEW r, IsRoute(r)
    PROVE  \A enable \in BOOLEAN :
              /\ IsMixer(SetRoute(m, r, enable))
              /\ \A c \in Controls :
                    SetRoute(m, r, enable)[c] =
                      IF c \notin DOMAIN r THEN m[c] ELSE IF enable THEN r[c] ELSE Off
  BY SetRouteSets

LEMMA EnableSets ==
    ASSUME NEW m, IsMixer(m), NEW r, IsRoute(r)
    PROVE  /\ IsMixer(Enable(m, r))
           /\ \A c \in Controls : Enable(m, r)[c] = IF c \in DOMAIN r THEN r[c] ELSE m[c]
  BY DEF Enable, IsMixer, IsRoute

LEMMA SetEnumSets ==
    ASSUME NEW m, IsMixer(m), NEW c \in {"left_capture", "right_capture"},
           NEW v \in Mics \union {"off"}
    PROVE  /\ IsMixer(SetEnum(m, c, v))
           /\ \A d \in Controls : SetEnum(m, c, v)[d] = IF d = c /\ v # "off" THEN v ELSE m[d]
  <1>1. IsMixer(SetEnum(m, c, v))
    BY SetEnumKeepsVoice DEF SameVoice
  <1>2. c \in Controls
    BY DEF Controls
  <1>3. CASE v = "off"
    BY <1>1, <1>3 DEF SetEnum
  <1>4. CASE v # "off"
    BY <1>1, <1>2, <1>4 DEF SetEnum, IsMixer
  <1> QED
    BY <1>3, <1>4

\* The two sides of the capture.
LEMMA LeftSets ==
    ASSUME NEW m, IsMixer(m), NEW left \in Mics \union {"off"}
    PROVE  /\ IsMixer(SetEnum(m, "left_capture", left))
           /\ \A c \in Controls : SetEnum(m, "left_capture", left)[c] =
                  IF c = "left_capture" /\ left # "off" THEN left ELSE m[c]
  <1> DEFINE side == "left_capture"
  <1>1. side \in {"left_capture", "right_capture"}
    OBVIOUS
  <1> HIDE DEF side
  <1>2. /\ IsMixer(SetEnum(m, side, left))
        /\ \A c \in Controls : SetEnum(m, side, left)[c] =
               IF c = side /\ left # "off" THEN left ELSE m[c]
    BY <1>1, SetEnumSets
  <1> QED
    BY <1>2 DEF side

LEMMA RightSets ==
    ASSUME NEW m, IsMixer(m), NEW right \in Mics \union {"off"}
    PROVE  /\ IsMixer(SetEnum(m, "right_capture", right))
           /\ \A c \in Controls : SetEnum(m, "right_capture", right)[c] =
                  IF c = "right_capture" /\ right # "off" THEN right ELSE m[c]
  <1> DEFINE side == "right_capture"
  <1>1. side \in {"left_capture", "right_capture"}
    OBVIOUS
  <1> HIDE DEF side
  <1>2. /\ IsMixer(SetEnum(m, side, right))
        /\ \A c \in Controls : SetEnum(m, side, right)[c] =
               IF c = side /\ right # "off" THEN right ELSE m[c]
    BY <1>1, SetEnumSets
  <1> QED
    BY <1>2 DEF side

LEMMA InputVolumesSet ==
    ASSUME NEW m, IsMixer(m), NEW a, NEW source, NEW main \in BOOLEAN,
           NEW headset \in BOOLEAN, NEW sub \in BOOLEAN
    PROVE  LET n == SetInputVolumes(m, a, source, main, headset, sub)
           IN  /\ IsMixer(n) /\ \A c \in Controls \ Volumes : n[c] = m[c]
               /\ a.board_type = "BLAZE" =>
                    n["amic_ul"] = InputVolume(a, source, main, headset, sub)
               /\ a.board_type \notin {"BLAZE", "TABLET"} => n = m
  <1> DEFINE volume == InputVolume(a, source, main, headset, sub)
             n == SetInputVolumes(m, a, source, main, headset, sub)
  <1>1. IsMixer(n)
    BY InputVolumesKeepVoice DEF SameVoice
  <1>2. n = IF a.board_type = "BLAZE" THEN [m EXCEPT !["amic_ul"] = volume]
            ELSE IF a.board_type = "TABLET"
            THEN IF headset THEN [m EXCEPT !["amic_ul"] = volume]
                            ELSE [m EXCEPT !["dmic1_ul"] = volume]
            ELSE m
    BY DEF SetInputVolumes
  <1> HIDE DEF n, volume
  <1>3. "amic_ul" \in Controls /\ {"amic_ul", "dmic1_ul"} = Volumes
    BY DEF Controls, Volumes
  <1>4. \A c \in Controls \ Volumes : n[c] = m[c]
    BY <1>2, <1>3 DEF IsMixer
  <1>5. a.board_type = "BLAZE" => n["amic_ul"] = volume
    BY <1>2, <1>3 DEF IsMixer
  <1>6. a.board_type \notin {"BLAZE", "TABLET"} => n = m
    BY <1>2
  <1> QED
    BY <1>1, <1>4, <1>5, <1>6 DEF n, volume

\* The paths of the output, and nothing that is captured with.
Plays(m, on, call) ==
    /\ m["mm_dl2"] = Bit(on.speaker) /\ m["vx_dl2"] = Bit(on.speaker /\ call)
    /\ m["mm_dl1"] = Bit(on.headset \/ on.headphone \/ on.earpiece \/ on.bt)
    /\ m["vx_dl1"] = Bit((on.headset \/ on.headphone \/ on.earpiece \/ on.bt) /\ call)
    /\ m["dl1_bt"] = Bit(on.bt) /\ m["earpiece_enable"] = Bit(on.earpiece)
    /\ m["hs"] = IF on.headset \/ on.headphone THEN "HS_DAC" ELSE Off
    /\ m["hf"] = IF on.speaker THEN "HF_DAC" ELSE Off

LEMMA PathsPlay ==
    ASSUME NEW m, IsMixer(m), NEW on, IsSelection(on), NEW call \in BOOLEAN
    PROVE  /\ IsMixer(SetPaths(m, on, call)) /\ Plays(SetPaths(m, on, call), on, call)
           /\ \A c \in VoiceCaptures : SetPaths(m, on, call)[c] = m[c]
  <1> DEFINE dl1_on == on.headset \/ on.headphone \/ on.earpiece \/ on.bt
             hs_on  == on.headset \/ on.headphone
             paths  == [mm_dl2 |-> Bit(on.speaker), vx_dl2 |-> Bit(on.speaker /\ call),
                        mm_dl1 |-> Bit(dl1_on), vx_dl1 |-> Bit(dl1_on /\ call),
                        dl1_headset |-> Bit(hs_on \/ on.earpiece), dl1_bt |-> Bit(on.bt),
                        earpiece_enable |-> Bit(on.earpiece)]
             set    == Enable(m, paths)
             hs     == SetRoute(set, hs_output, hs_on)
             n      == SetRoute(hs, hf_output, on.speaker)
  <1>1. on.headset \in BOOLEAN /\ on.headphone \in BOOLEAN /\ on.speaker \in BOOLEAN
        /\ on.earpiece \in BOOLEAN /\ on.bt \in BOOLEAN
    BY DEF IsSelection
  <1>2. /\ DOMAIN paths = {"mm_dl1", "mm_dl2", "vx_dl1", "vx_dl2", "dl1_headset", "dl1_bt",
                           "earpiece_enable"}
        /\ paths["mm_dl2"] = Bit(on.speaker) /\ paths["vx_dl2"] = Bit(on.speaker /\ call)
        /\ paths["mm_dl1"] = Bit(dl1_on) /\ paths["vx_dl1"] = Bit(dl1_on /\ call)
        /\ paths["dl1_bt"] = Bit(on.bt) /\ paths["earpiece_enable"] = Bit(on.earpiece)
    OBVIOUS
  <1>3. \A c \in DOMAIN paths : paths[c] \in {Off, "On"}
    BY <1>1, BitIsSwitch
  <1>4. SetPaths(m, on, call) = n
    BY DEF SetPaths, SetRoute
  <1> HIDE DEF paths
  <1>5. IsRoute(paths)
    BY <1>2, <1>3 DEF IsRoute, Controls, Volumes, Items
  <1>6. IsMixer(set) /\ \A c \in Controls : set[c] = IF c \in DOMAIN paths THEN paths[c] ELSE m[c]
    BY <1>5, EnableSets
  <1> HIDE DEF set
  <1>7. /\ DOMAIN hs_output = {"hs"} /\ hs_output["hs"] = "HS_DAC" /\ IsRoute(hs_output)
        /\ DOMAIN hf_output = {"hf"} /\ hf_output["hf"] = "HF_DAC" /\ IsRoute(hf_output)
    BY RoutesAreRoutes DEF hs_output, hf_output
  <1>8. /\ IsMixer(hs) /\ \A c \in Controls : hs[c] = IF c # "hs" THEN set[c]
                                       ELSE IF hs_on THEN "HS_DAC" ELSE Off
    <2>1. hs_on \in BOOLEAN
      BY <1>1
    <2> HIDE DEF hs_on
    <2> QED
      BY <1>6, <1>7, <2>1, RouteSets
  <1> HIDE DEF hs
  <1>9. /\ IsMixer(n) /\ \A c \in Controls : n[c] = IF c # "hf" THEN hs[c]
                                      ELSE IF on.speaker THEN "HF_DAC" ELSE Off
    <2> DEFINE speaker == on.speaker
    <2>1. speaker \in BOOLEAN
      BY <1>1
    <2> HIDE DEF speaker
    <2>2. n = SetRoute(hs, hf_output, speaker)
      BY DEF speaker
    <2> HIDE DEF n
    <2> QED
      BY <1>7, <1>8, <2>1, <2>2, RouteSets DEF speaker
  <1> HIDE DEF n
  <1>10. \A c \in VoiceCaptures : c \in Controls /\ n[c] = m[c]
    BY <1>2, <1>6, <1>8, <1>9 DEF VoiceCaptures, Capture, Volumes, Controls
  <1>11. Plays(n, on, call)
    BY <1>2, <1>6, <1>8, <1>9 DEF Plays, Controls
  <1> QED
    BY <1>4, <1>9, <1>10, <1>11

\* m and n are mixers that are set alike to capture.
SameCapture(m, n) == IsMixer(n) /\ \A c \in VoiceCaptures : n[c] = m[c]
SamePlayed(m, n) == IsMixer(n) /\ \A c \in Played : n[c] = m[c]

LEMMA RadioOffSets ==
    ASSUME NEW m, IsMixer(m)
    PROVE  LET n == Enable(m, fmtx_output_off)
           IN  /\ IsMixer(n)
               /\ \A c \in Controls \ {"mm_ext", "dl1_headset"} : n[c] = m[c]
  <1>1. DOMAIN fmtx_output_off = {"mm_ext", "dl1_headset"} /\ IsRoute(fmtx_output_off)
    BY RoutesAreRoutes DEF fmtx_output_off
  <1> QED
    BY <1>1, EnableSets

LEMMA PlaysKept ==
    ASSUME NEW m, NEW n, SamePlayed(m, n), NEW on, NEW call, Plays(m, on, call)
    PROVE  Plays(n, on, call)
  BY DEF Plays, SamePlayed, Played, VoiceCaptures, Capture, Volumes, Controls

\* Music, outside of a call, on a board with these paths.
LEMMA MusicRoute ==
    ASSUME NEW a, IsDevice(a), a.board_type # "PANDA", a.mode # "IN_CALL", NEW source
    PROVE  LET n == OutputRoute(a, source)
           IN  SameCapture(a.mixer, n) /\ Plays(n, Selected(a), FALSE)
  <1> DEFINE on == Selected(a)
             paths == SetPaths(a.mixer, on, FALSE)
             once == Enable(paths, fmtx_output_off)
  <1>1. IsMixer(a.mixer) /\ IsSelection(on)
    BY DEF IsDevice, Selected, IsSelection
  <1>2. /\ IsMixer(paths) /\ Plays(paths, on, FALSE)
        /\ \A c \in VoiceCaptures : paths[c] = a.mixer[c]
    BY <1>1, PathsPlay
  <1>3. OutputRoute(a, source) = once
    BY DEF OutputRoute, Rx
  <1> HIDE DEF on, paths
  <1>4. /\ IsMixer(once)
        /\ \A c \in Controls \ {"mm_ext", "dl1_headset"} : once[c] = paths[c]
    BY <1>2, RadioOffSets
  <1> HIDE DEF once
  <1>5. SameCapture(a.mixer, once)
    BY <1>2, <1>4 DEF SameCapture, VoiceCaptures, Capture, Volumes, Controls
  <1>6. Plays(once, on, FALSE)
    BY <1>2, <1>4 DEF Plays, Controls
  <1> QED
    BY <1>3, <1>5, <1>6 DEF on

LEMMA PandaRoute ==
    ASSUME NEW a, IsDevice(a), a.board_type = "PANDA", NEW source
    PROVE  LET n == OutputRoute(a, source)
           IN  SameCapture(a.mixer, n) /\ n["mm_dl1"] = "On" /\ n["hs"] = "HS_DAC"
  <1> DEFINE hs == Enable(a.mixer, hs_output)
             on == [hs EXCEPT !["mm_dl1"] = "On"]
  <1>1. IsMixer(a.mixer)
    BY DEF IsDevice
  <1>2. DOMAIN hs_output = {"hs"} /\ hs_output["hs"] = "HS_DAC" /\ IsRoute(hs_output)
    BY RoutesAreRoutes DEF hs_output
  <1>4. /\ IsMixer(hs)
        /\ \A c \in Controls : hs[c] = IF c = "hs" THEN "HS_DAC" ELSE a.mixer[c]
    BY <1>1, <1>2, EnableSets
  <1> HIDE DEF hs
  <1>5. "mm_dl1" \in Controls /\ "On" \in Items("mm_dl1")
    BY DEF Controls, Volumes, Items
  <1>6. IsMixer(on) /\ \A c \in Controls : on[c] = IF c = "mm_dl1" THEN "On" ELSE hs[c]
    BY <1>4, <1>5 DEF IsMixer
  <1>7. OutputRoute(a, source) = SetInputVolumes(on, a, source, FALSE, FALSE, TRUE)
    BY DEF OutputRoute, hs
  <1> HIDE DEF on
  <1>8. OutputRoute(a, source) = on
    BY <1>6, <1>7, InputVolumesSet
  <1> QED
    BY <1>4, <1>6, <1>8
       DEF SameCapture, VoiceCaptures, Capture, Volumes, Controls

LEMMA VoiceRouteSets ==
    ASSUME NEW m, IsMixer(m), NEW mic \in Muxes, NEW b \in BOOLEAN
    PROVE  LET n == SetRoute(m, vx_ul(mic), b)
           IN  SamePlayed(m, n) /\ n["mux_vx"] = IF b THEN mic ELSE Off
  <1>1. /\ IsRoute(vx_ul(mic)) /\ DOMAIN vx_ul(mic) = {"mux_vx", "voice_capture"}
        /\ vx_ul(mic)["mux_vx"] = mic
    BY RoutesAreRoutes DEF vx_ul
  <1> QED
    BY <1>1, RouteSets DEF SamePlayed, Played, VoiceCaptures, Controls

LEMMA VoiceMuxSets ==
    ASSUME NEW m, IsMixer(m), NEW a, IsDevice(a), a.board_type # "PANDA",
           NEW tx, IsSelection(tx)
    PROVE  LET n == VoiceMux(m, a, tx)
               mic == tx.headset \/ tx.headphone \/ tx.earpiece
           IN  /\ SamePlayed(m, n)
               /\ mic => n["mux_vx"] = "AMIC0"
               /\ ~mic /\ tx.speaker /\ a.board_type = "BLAZE" => n["mux_vx"] = "AMIC1"
               /\ ~mic /\ tx.speaker /\ a.board_type = "TABLET" => n["mux_vx"] = "DMIC0L"
  <1> DEFINE n == VoiceMux(m, a, tx)
             speaker == tx.speaker
  <1>1. {"AMIC0", "AMIC1", "DMIC0L"} \subseteq Muxes
    BY DEF Muxes
  <1>2. speaker \in BOOLEAN /\ a.board_type \in {"BLAZE", "TABLET"}
    BY DEF IsSelection, IsDevice
  <1>3. CASE tx.headset \/ tx.headphone \/ tx.earpiece
    <2>1. n = Enable(m, vx_ul("AMIC0"))
      BY <1>3 DEF VoiceMux
    <2>2. /\ IsRoute(vx_ul("AMIC0"))
          /\ DOMAIN vx_ul("AMIC0") = {"mux_vx", "voice_capture"}
          /\ vx_ul("AMIC0")["mux_vx"] = "AMIC0"
      BY <1>1, RoutesAreRoutes DEF vx_ul
    <2> QED
      BY <1>3, <2>1, <2>2, EnableSets DEF SamePlayed, Played, VoiceCaptures, Controls
  <1>4. CASE ~(tx.headset \/ tx.headphone \/ tx.earpiece) /\ a.board_type = "BLAZE"
    <2>1. n = SetRoute(m, IF speaker THEN vx_ul("AMIC1") ELSE vx_ul("AMIC0"), speaker)
      BY <1>4 DEF VoiceMux
    <2> HIDE DEF speaker, n
    <2>2. /\ speaker => n = SetRoute(m, vx_ul("AMIC1"), speaker)
          /\ ~speaker => n = SetRoute(m, vx_ul("AMIC0"), speaker)
      BY <2>1
    <2>3. SamePlayed(m, n) /\ (speaker => n["mux_vx"] = "AMIC1")
      BY <1>1, <1>2, <2>2, VoiceRouteSets
    <2> QED
      BY <1>4, <2>3 DEF n, speaker
  <1>5. CASE ~(tx.headset \/ tx.headphone \/ tx.earpiece) /\ a.board_type = "TABLET"
    <2>1. n = SetRoute(m, vx_ul("DMIC0L"), speaker)
      BY <1>5 DEF VoiceMux
    <2> HIDE DEF speaker, n
    <2>2. SamePlayed(m, n) /\ (speaker => n["mux_vx"] = "DMIC0L")
      BY <1>1, <1>2, <2>1, VoiceRouteSets
    <2> QED
      BY <1>5, <2>2 DEF n, speaker
  <1> QED
    BY <1>2, <1>3, <1>4, <1>5

LEMMA VoiceCaptureSets ==
    ASSUME NEW m, IsMixer(m), NEW a, IsDevice(a), a.board_type # "PANDA",
           NEW tx, IsSelection(tx)
    PROVE  LET n == VoiceCapture(m, a, tx)
           IN  /\ SamePlayed(m, n) /\ n["mux_vx"] = m["mux_vx"]
               /\ a.board_type = "BLAZE" =>
                    /\ n["left_capture"] = IF tx.earpiece \/ tx.headphone THEN "Main_Mic"
                                           ELSE IF tx.headset THEN "Headset_Mic" ELSE Off
                    /\ n["right_capture"] = IF tx.speaker THEN "Sub_Mic" ELSE Off
               /\ a.board_type = "TABLET" =>
                    n["left_capture"] = IF tx.headset THEN "Headset_Mic" ELSE Off
  <1> DEFINE left == IF a.board_type = "BLAZE" /\ (tx.earpiece \/ tx.headphone)
                     THEN "Main_Mic" ELSE IF tx.headset THEN "Headset_Mic" ELSE Off
             right == IF a.board_type # "BLAZE" THEN "off"
                      ELSE IF tx.speaker THEN "Sub_Mic" ELSE Off
             l == SetEnum(m, "left_capture", left)
             n == SetEnum(l, "right_capture", right)
  <1>1. a.board_type \in {"BLAZE", "TABLET"}
    BY DEF IsDevice
  <1>2. VoiceCapture(m, a, tx) = n
    BY <1>1 DEF VoiceCapture
  <1>3. left \in Mics /\ right \in Mics \union {"off"} /\ "off" \notin Mics
    BY DEF Mics, Off
  <1> HIDE DEF left, right
  <1>4. IsMixer(l) /\ \A c \in Controls : l[c] = IF c = "left_capture" THEN left ELSE m[c]
    <2>1. left \in Mics \union {"off"} /\ left # "off"
      BY <1>3
    <2> QED
      BY <2>1, LeftSets
  <1> HIDE DEF l
  <1>5. /\ IsMixer(n) /\ \A c \in Controls :
             n[c] = IF c = "right_capture" /\ right # "off" THEN right ELSE l[c]
    <2>1. IsMixer(l) /\ right \in Mics \union {"off"}
      BY <1>3, <1>4
    <2> QED
      BY <2>1, RightSets
  <1> HIDE DEF n
  <1>6. SamePlayed(m, n) /\ n["mux_vx"] = m["mux_vx"] /\ n["left_capture"] = left
    BY <1>4, <1>5 DEF SamePlayed, Played, VoiceCaptures, Capture, Controls
  <1>7. a.board_type = "BLAZE" => n["right_capture"] = right /\ right # "off"
    <2>1. a.board_type = "BLAZE" => right # "off"
      BY DEF right, Off
    <2> QED
      BY <1>5, <2>1 DEF Controls
  <1> QED
    BY <1>2, <1>6, <1>7 DEF left, right

\* What a call listens to.
Listens(m, a) ==
    IF "SCO" \in a.outs THEN m["mux_vx"] = "BT_Left"
    ELSE LET tx == Tx(a)
             mic == tx.headset \/ tx.headphone \/ tx.earpiece
         IN  /\ mic => m["mux_vx"] = "AMIC0"
             /\ ~mic /\ tx.speaker /\ a.board_type = "BLAZE" => m["mux_vx"] = "AMIC1"
             /\ ~mic /\ tx.speaker /\ a.board_type = "TABLET" => m["mux_vx"] = "DMIC0L"
             /\ a.board_type = "BLAZE" =>
                  /\ m["left_capture"] = IF tx.earpiece \/ tx.headphone THEN "Main_Mic"
                                         ELSE IF tx.headset THEN "Headset_Mic" ELSE Off
                  /\ m["right_capture"] = IF tx.speaker THEN "Sub_Mic" ELSE Off
             /\ a.board_type = "TABLET" =>
                  m["left_capture"] = IF tx.headset THEN "Headset_Mic" ELSE Off

LEMMA SidetoneSets ==
    ASSUME NEW m, IsMixer(m), NEW v \in {Off, "On"}
    PROVE  LET n == [m EXCEPT !.sidetone_capture = v]
           IN  /\ IsMixer(n)
               /\ \A c \in Controls \ {"sidetone_capture"} : n[c] = m[c]
  <1>1. IsMixer([m EXCEPT !.sidetone_capture = v])
    BY SidetoneKeepsVoice DEF SameVoice
  <1> QED
    BY <1>1 DEF IsMixer

LEMMA VoiceInputSets ==
    ASSUME NEW m, IsMixer(m), NEW a, IsDevice(a), a.board_type # "PANDA", NEW source
    PROVE  SamePlayed(m, VoiceInput(m, a, source)) /\ Listens(VoiceInput(m, a, source), a)
  <1> DEFINE tx      == Tx(a)
             mux     == VoiceMux(m, a, tx)
             capture == VoiceCapture(mux, a, tx)
             gain    == SetInputVolumes(capture, a, source, tx.earpiece \/ tx.headphone,
                                        tx.headset, tx.speaker)
             side    == Bit(tx.earpiece /\ a.sidetone_capture)
             n       == [gain EXCEPT !.sidetone_capture = side]
  <1>1. CASE "SCO" \in a.outs
    <2> DEFINE bt == Enable(m, vx_ul("BT_Left"))
               r  == [bt EXCEPT !.sidetone_capture = Off]
    <2>1. /\ IsRoute(vx_ul("BT_Left"))
          /\ DOMAIN vx_ul("BT_Left") = {"mux_vx", "voice_capture"}
          /\ vx_ul("BT_Left")["mux_vx"] = "BT_Left"
      BY RoutesAreRoutes DEF vx_ul, Muxes
    <2>2. SamePlayed(m, bt) /\ bt["mux_vx"] = "BT_Left"
      BY <2>1, EnableSets DEF SamePlayed, Played, VoiceCaptures, Controls
    <2>3. VoiceInput(m, a, source) = r
      BY <1>1 DEF VoiceInput
    <2> HIDE DEF bt
    <2>4. IsMixer(r) /\ \A c \in Controls \ {"sidetone_capture"} : r[c] = bt[c]
      BY <2>2, SidetoneSets DEF SamePlayed
    <2> HIDE DEF r
    <2>5. SamePlayed(m, r) /\ r["mux_vx"] = "BT_Left"
      BY <2>2, <2>4 DEF SamePlayed, Played, VoiceCaptures, Controls
    <2> QED
      BY <1>1, <2>3, <2>5 DEF Listens
  <1>2. CASE "SCO" \notin a.outs
    <2>1. IsSelection(tx) /\ a.sidetone_capture \in BOOLEAN
      BY RxIsSelection DEF IsDevice
    <2>2. VoiceInput(m, a, source) = n
      BY <1>2 DEF VoiceInput
    <2> HIDE DEF tx
    <2> DEFINE mic == tx.headset \/ tx.headphone \/ tx.earpiece
    <2>3. /\ SamePlayed(m, mux)
          /\ mic => mux["mux_vx"] = "AMIC0"
          /\ ~mic /\ tx.speaker /\ a.board_type = "BLAZE" => mux["mux_vx"] = "AMIC1"
          /\ ~mic /\ tx.speaker /\ a.board_type = "TABLET" => mux["mux_vx"] = "DMIC0L"
      BY <2>1, VoiceMuxSets
    <2> HIDE DEF mux
    <2>4. /\ SamePlayed(mux, capture) /\ capture["mux_vx"] = mux["mux_vx"]
          /\ a.board_type = "BLAZE" =>
               /\ capture["left_capture"] =
                     IF tx.earpiece \/ tx.headphone THEN "Main_Mic"
                     ELSE IF tx.headset THEN "Headset_Mic" ELSE Off
               /\ capture["right_capture"] = IF tx.speaker THEN "Sub_Mic" ELSE Off
          /\ a.board_type = "TABLET" =>
               capture["left_capture"] = IF tx.headset THEN "Headset_Mic" ELSE Off
      BY <2>1, <2>3, VoiceCaptureSets DEF SamePlayed
    <2> HIDE DEF capture
    <2>5. IsMixer(gain) /\ \A c \in Controls \ Volumes : gain[c] = capture[c]
      <3> DEFINE main == tx.earpiece \/ tx.headphone
                 headset == tx.headset
                 sub == tx.speaker
      <3>1. main \in BOOLEAN /\ headset \in BOOLEAN /\ sub \in BOOLEAN
        BY <2>1 DEF IsSelection
      <3>2. gain = SetInputVolumes(capture, a, source, main, headset, sub)
        OBVIOUS
      <3>3. IsMixer(capture)
        BY <2>4 DEF SamePlayed
      <3> HIDE DEF main, headset, sub, gain
      <3> QED
        BY <3>1, <3>2, <3>3, InputVolumesSet
    <2> HIDE DEF gain
    <2>6. side \in {Off, "On"}
      BY BitIsSwitch, <2>1 DEF IsSelection
    <2> HIDE DEF side
    <2>7. IsMixer(n) /\ \A c \in Controls \ {"sidetone_capture"} : n[c] = gain[c]
      BY <2>5, <2>6, SidetoneSets
    <2> HIDE DEF n
    <2>8. /\ {"mux_vx", "left_capture", "right_capture"} \subseteq
                 (Controls \ Volumes) \ {"sidetone_capture"}
          /\ Played \subseteq (Controls \ Volumes) \ {"sidetone_capture"}
      BY DEF Controls, Volumes, Played, VoiceCaptures, Capture
    <2>9. \A c \in {"mux_vx", "left_capture", "right_capture"} \union Played :
              n[c] = capture[c]
      BY <2>5, <2>7, <2>8
    <2>10. SamePlayed(m, n)
      BY <2>3, <2>4, <2>7, <2>9 DEF SamePlayed
    <2>11. Listens(n, a)
      BY <1>2, <2>3, <2>4, <2>9 DEF Listens, tx
    <2> QED
      BY <2>2, <2>10, <2>11
  <1> QED
    BY <1>1, <1>2

LEMMA CallRoute ==
    ASSUME NEW a, IsDevice(a), a.board_type # "PANDA", a.mode = "IN_CALL", NEW source
    PROVE  LET n == OutputRoute(a, source)
           IN  IsMixer(n) /\ Plays(n, Rx(a), TRUE) /\ Listens(n, a)
  <1> DEFINE on == Rx(a)
             once == Enable(SetPaths(a.mixer, on, TRUE), fmtx_output_off)
             twice == SetPaths(once, on, TRUE)
  <1>1. IsMixer(a.mixer) /\ IsSelection(on)
    BY RxIsSelection DEF IsDevice
  <1>2. OutputRoute(a, source) = VoiceInput(twice, a, source)
    BY DEF OutputRoute
  <1> HIDE DEF on
  <1>3. IsMixer(once)
    BY <1>1, PathsPlay, RadioOffSets
  <1> HIDE DEF once
  <1>4. IsMixer(twice) /\ Plays(twice, on, TRUE)
    BY <1>1, <1>3, PathsPlay
  <1> HIDE DEF twice
  <1> DEFINE n == VoiceInput(twice, a, source)
  <1>5. SamePlayed(twice, n) /\ Listens(n, a)
    BY <1>4, VoiceInputSets
  <1> HIDE DEF n
  <1>6. Plays(n, on, TRUE)
    <2> DEFINE call == TRUE
    <2>1. Plays(twice, on, call)
      BY <1>4
    <2> HIDE DEF call
    <2>2. Plays(n, on, call)
      BY <1>5, <2>1, PlaysKept
    <2> QED
      BY <2>2 DEF call
  <1> QED
    BY <1>2, <1>5, <1>6 DEF SamePlayed, on, n

-----------------------------------------------------------------------------
(***************************************************************************)
(* What the input sets.                                                    *)
(***************************************************************************)
LEMMA FrontEndSets ==
    ASSUME NEW m, IsMixer(m), NEW mic \in Muxes
    PROVE  /\ IsMixer(Enable(m, mm_ul2(mic)))
           /\ \A c \in Controls : Enable(m, mm_ul2(mic))[c] = IF c = "mux_ul" THEN mic ELSE m[c]
           /\ \A b \in BOOLEAN :
                /\ IsMixer(SetRoute(m, mm_ul2(mic), b))
                /\ \A c \in Controls : SetRoute(m, mm_ul2(mic), b)[c] =
                       IF c # "mux_ul" THEN m[c] ELSE IF b THEN mic ELSE Off
  <1>1. IsRoute(mm_ul2(mic)) /\ DOMAIN mm_ul2(mic) = {"mux_ul"} /\ mm_ul2(mic)["mux_ul"] = mic
    BY RoutesAreRoutes DEF mm_ul2
  <1> QED
    BY <1>1, EnableSets, RouteSets

Recorded == {"mux_ul", "left_capture", "right_capture"}

LEMMA MMRouteSets ==
    ASSUME NEW a, IsDevice(a), a.board_type # "PANDA", NEW source
    PROVE  LET n == MMRoute(a, source)
               sub == SubMic(a, source)
               main == Mic(a, source, "BUILTIN_MIC")
               headset == Mic(a, source, "HEADSET_MIC")
           IN  /\ IsMixer(n) /\ \A c \in Controls \ Recorded : n[c] = a.mixer[c]
               /\ "SCO_MIC" \in a.ins => n["mux_ul"] = "BT_Left"
               /\ "SCO_MIC" \notin a.ins /\ a.board_type = "BLAZE" =>
                    /\ n["mux_ul"] = IF main \/ headset \/ sub
                                     THEN IF sub THEN "AMIC1" ELSE "AMIC0" ELSE Off
                    /\ n["right_capture"] = IF sub THEN "Sub_Mic" ELSE Off
                    /\ n["left_capture"] = IF main THEN "Main_Mic"
                                           ELSE IF headset THEN "Headset_Mic" ELSE Off
               /\ "SCO_MIC" \notin a.ins /\ a.board_type = "TABLET" =>
                    /\ n["mux_ul"] = IF headset THEN "AMIC0"
                                     ELSE IF main \/ sub THEN "DMIC0L" ELSE Off
                    /\ headset /\ ~main => n["left_capture"] = "Headset_Mic"
  <1> DEFINE m == a.mixer
             n == MMRoute(a, source)
             sub == SubMic(a, source)
             main == Mic(a, source, "BUILTIN_MIC")
             headset == Mic(a, source, "HEADSET_MIC")
             any == main \/ headset \/ sub
             digital == main \/ sub
  <1>1. sub \in BOOLEAN /\ main \in BOOLEAN /\ headset \in BOOLEAN
        /\ any \in BOOLEAN /\ digital \in BOOLEAN
    BY DEF SubMic, Mic
  <1>2. IsMixer(m) /\ a.board_type \in {"BLAZE", "TABLET"}
    BY DEF IsDevice
  <1>3. {Off, "BT_Left", "AMIC0", "AMIC1", "DMIC0L"} \subseteq Muxes
    BY DEF Muxes
  <1>4. /\ {Off, "Main_Mic", "Headset_Mic", "Sub_Mic"} \subseteq Mics /\ "off" \notin Mics
        /\ Recorded \subseteq Controls
    BY DEF Mics, Off, Recorded, Controls
  <1>5. CASE "SCO_MIC" \in a.ins
    <2>1. n = Enable(m, mm_ul2("BT_Left"))
      BY <1>5 DEF MMRoute
    <2> HIDE DEF m, n, main, headset, sub
    <2> DEFINE mic == "BT_Left"
    <2>2. IsMixer(n) /\ \A c \in Controls : n[c] = IF c = "mux_ul" THEN mic ELSE m[c]
      <3>1. n = Enable(m, mm_ul2(mic)) /\ mic \in Muxes /\ IsMixer(m)
        BY <1>2, <1>3, <2>1
      <3> HIDE DEF mic
      <3> QED
        BY <3>1, FrontEndSets
    <2> QED
      BY <1>4, <1>5, <2>2 DEF Recorded, m, n
  <1>6. CASE "SCO_MIC" \notin a.ins /\ a.board_type = "BLAZE"
    <2> DEFINE mic == IF sub THEN "AMIC1" ELSE "AMIC0"
               mux == SetRoute(m, mm_ul2(mic), any)
               right == IF sub THEN "Sub_Mic" ELSE Off
               left == IF main THEN "Main_Mic" ELSE IF headset THEN "Headset_Mic" ELSE Off
    <2>1. n = SetEnum(SetEnum(mux, "right_capture", right), "left_capture", left)
      BY <1>6 DEF MMRoute
    <2>2. mic \in Muxes /\ right \in Mics \union {"off"} /\ left \in Mics \union {"off"}
          /\ right # "off" /\ left # "off"
      BY <1>3, <1>4
    <2> HIDE DEF m, n, main, headset, sub, any, mic, right, left
    <2>3. /\ IsMixer(mux)
          /\ \A c \in Controls : mux[c] = IF c # "mux_ul" THEN m[c] ELSE IF any THEN mic ELSE Off
      BY <1>1, <1>2, <2>2, FrontEndSets
    <2> HIDE DEF mux
    <2>4. /\ IsMixer(n)
          /\ \A c \in Controls : n[c] = IF c = "right_capture" THEN right
                                        ELSE IF c = "left_capture" THEN left ELSE mux[c]
      <3> DEFINE r == SetEnum(mux, "right_capture", right)
      <3>1. IsMixer(mux) /\ right \in Mics \union {"off"} /\ left \in Mics \union {"off"}
        BY <2>2, <2>3
      <3>2. IsMixer(r) /\ \A c \in Controls : r[c] =
                IF c = "right_capture" /\ right # "off" THEN right ELSE mux[c]
        BY <3>1, RightSets
      <3>3. n = SetEnum(r, "left_capture", left)
        BY <2>1
      <3> HIDE DEF r
      <3>4. IsMixer(n) /\ \A c \in Controls : n[c] =
                IF c = "left_capture" /\ left # "off" THEN left ELSE r[c]
        BY <3>1, <3>2, <3>3, LeftSets
      <3> QED
        BY <2>2, <3>2, <3>4
    <2>5. /\ \A c \in Controls \ Recorded : n[c] = m[c]
          /\ n["mux_ul"] = (IF any THEN mic ELSE Off)
          /\ n["right_capture"] = right /\ n["left_capture"] = left
      BY <1>4, <2>3, <2>4 DEF Recorded
    <2> QED
      BY <1>6, <2>4, <2>5 DEF m, n, any, mic, right, left, sub, main, headset
  <1>7. CASE "SCO_MIC" \notin a.ins /\ a.board_type = "TABLET"
    <2> DEFINE mux == IF headset THEN Enable(m, mm_ul2("AMIC0"))
                      ELSE SetRoute(m, mm_ul2("DMIC0L"), digital)
               left == IF main THEN "off" ELSE IF headset THEN "Headset_Mic" ELSE Off
               mic == IF headset THEN "AMIC0" ELSE IF digital THEN "DMIC0L" ELSE Off
    <2>1. n = SetEnum(mux, "left_capture", left)
      BY <1>7 DEF MMRoute
    <2>2. left \in Mics \union {"off"} /\ (headset /\ ~main => left = "Headset_Mic")
      BY <1>4
    <2> HIDE DEF m, n, main, headset, sub, digital, left
    <2>3. IsMixer(mux) /\ \A c \in Controls : mux[c] = IF c = "mux_ul" THEN mic ELSE m[c]
      <3>1. CASE headset
        BY <1>2, <1>3, <3>1, FrontEndSets
      <3>2. CASE ~headset
        BY <1>1, <1>2, <1>3, <3>2, FrontEndSets
      <3> QED
        BY <3>1, <3>2
    <2> HIDE DEF mux, mic
    <2>4. /\ IsMixer(n) /\ \A c \in Controls :
              n[c] = IF c = "left_capture" /\ left # "off" THEN left ELSE mux[c]
      <3>1. IsMixer(mux) /\ left \in Mics \union {"off"}
        BY <2>2, <2>3
      <3> QED
        BY <2>1, <3>1, LeftSets
    <2>5. /\ \A c \in Controls \ Recorded : n[c] = m[c]
          /\ n["mux_ul"] = mic
          /\ headset /\ ~main => n["left_capture"] = "Headset_Mic"
      BY <1>4, <2>2, <2>3, <2>4 DEF Recorded
    <2> QED
      BY <1>7, <2>4, <2>5 DEF m, n, mic, digital, main, headset, sub
  <1> QED
    BY <1>2, <1>5, <1>6, <1>7

\* The input's controls are not the output's.
LEMMA InputRouteSets ==
    ASSUME NEW a, IsDevice(a), NEW source
    PROVE  LET n == InputRoute(a, source)
               m == MMRoute(a, source)
           IN  /\ SamePlayed(a.mixer, n)
               /\ a.board_type # "PANDA" => \A c \in Controls \ Volumes : n[c] = m[c]
               /\ a.board_type = "BLAZE" =>
                    n["amic_ul"] = InputVolume(a, source, Mic(a, source, "BUILTIN_MIC"),
                                       Mic(a, source, "HEADSET_MIC"), SubMic(a, source))
  <1> DEFINE n == InputRoute(a, source)
             m == MMRoute(a, source)
  <1>1. IsMixer(a.mixer) /\ Recorded \subseteq Controls \ Volumes
        /\ Recorded \intersect Played = {} /\ Played \subseteq Controls \ Volumes
    BY DEF IsDevice, Recorded, Played, VoiceCaptures, Capture, Controls, Volumes
  <1>2. CASE a.board_type = "PANDA"
    <2> DEFINE mic == "AMIC0"
               mux == Enable(a.mixer, mm_ul2(mic))
               on == [mux EXCEPT !.left_capture = "Headset_Mic",
                                 !.right_capture = "Headset_Mic"]
               main == FALSE
               headset == TRUE
               sub == FALSE
    <2>1. mic \in Muxes /\ "Headset_Mic" \in Mics /\ main \in BOOLEAN
          /\ headset \in BOOLEAN /\ sub \in BOOLEAN
      BY DEF Muxes, Mics
    <2>2. n = SetInputVolumes(on, a, source, main, headset, sub)
      BY <1>2 DEF InputRoute
    <2> HIDE DEF mic, main, headset, sub
    <2>3. IsMixer(mux) /\ \A c \in Controls \ Recorded : mux[c] = a.mixer[c]
      BY <1>1, <2>1, FrontEndSets DEF Recorded
    <2> HIDE DEF mux
    <2>4. IsMixer(on) /\ \A c \in Controls \ Recorded : on[c] = mux[c]
      <3>1. \A c \in {"left_capture", "right_capture"} :
                c \in Controls /\ "Headset_Mic" \in Items(c)
        BY <2>1 DEF Controls, Items, Volumes
      <3> QED
        BY <2>3, <3>1 DEF IsMixer, Recorded
    <2>5. IsMixer(on)
      BY <2>4
    <2> HIDE DEF on
    <2>6. n = on
      BY <1>2, <2>2 DEF SetInputVolumes
    <2>7. SamePlayed(a.mixer, n)
      BY <1>1, <2>3, <2>4, <2>6 DEF SamePlayed
    <2> QED
      BY <1>2, <2>7
  <1>3. CASE a.board_type # "PANDA"
    <2> DEFINE main == Mic(a, source, "BUILTIN_MIC")
               headset == Mic(a, source, "HEADSET_MIC")
               sub == SubMic(a, source)
    <2>1. main \in BOOLEAN /\ headset \in BOOLEAN /\ sub \in BOOLEAN
      BY DEF Mic, SubMic
    <2>2. n = SetInputVolumes(m, a, source, main, headset, sub)
      BY <1>3 DEF InputRoute
    <2>3. IsMixer(m) /\ \A c \in Controls \ Recorded : m[c] = a.mixer[c]
      BY <1>3, MMRouteSets
    <2>4. IsMixer(m)
      BY <2>3
    <2> HIDE DEF main, headset, sub, m, n
    <2>5. /\ IsMixer(n) /\ \A c \in Controls \ Volumes : n[c] = m[c]
          /\ a.board_type = "BLAZE" =>
               n["amic_ul"] = InputVolume(a, source, main, headset, sub)
      BY <2>1, <2>2, <2>4, InputVolumesSet
    <2>6. SamePlayed(a.mixer, n)
      BY <1>1, <2>3, <2>5 DEF SamePlayed
    <2> QED
      BY <2>5, <2>6 DEF main, headset, sub, m, n
  <1> QED
    BY <1>2, <1>3

-----------------------------------------------------------------------------
(***************************************************************************)
(* What is routed, on any device between two entry points: music to where  *)
(* the framework wants it, a call to where the framework and the TTY mode  *)
(* want it.                                                                *)
(***************************************************************************)
PlaysMusic(a) ==
    IF a.board_type = "PANDA" THEN a.mixer["mm_dl1"] = "On" /\ a.mixer["hs"] = "HS_DAC"
    ELSE Plays(a.mixer, Selected(a), FALSE)

Routing(a) ==
    /\ a.active_output /\ a.mode # "IN_CALL" => PlaysMusic(a)
    /\ a.mode = "IN_CALL" /\ a.board_type # "PANDA" =>
         Plays(a.mixer, Rx(a), TRUE) /\ Listens(a.mixer, a)

\* What a route depends on.
SameRoute(a, b) ==
    /\ b.mode = a.mode /\ b.outs = a.outs /\ b.tty_mode = a.tty_mode
    /\ b.board_type = a.board_type

LEMMA SelectOutputRoutes ==
    ASSUME NEW a, IsDevice(a), NEW source
    PROVE  Routing(select_output_device(a, source))
  <1> DEFINE n == OutputRoute(a, source)
             b == [a EXCEPT !.mixer = n]
  <1>1. select_output_device(a, source) = b
    BY DEF select_output_device
  <1>2. CASE a.board_type = "PANDA"
    <2>1. n["mm_dl1"] = "On" /\ n["hs"] = "HS_DAC"
      BY <1>2, PandaRoute
    <2> HIDE DEF n
    <2>2. b.mixer = n /\ b.board_type = "PANDA"
      BY <1>2 DEF IsDevice
    <2> HIDE DEF b
    <2> QED
      BY <1>1, <2>1, <2>2 DEF Routing, PlaysMusic
  <1>3. CASE a.board_type # "PANDA" /\ a.mode # "IN_CALL"
    <2>1. Plays(n, Selected(a), FALSE)
      BY <1>3, MusicRoute
    <2> HIDE DEF n
    <2>2. b.mixer = n /\ SameRoute(a, b)
      BY DEF IsDevice, SameRoute
    <2> HIDE DEF b
    <2>3. Selected(b) = Selected(a)
      BY <2>2 DEF Selected, SameRoute
    <2> QED
      BY <1>1, <1>3, <2>1, <2>2, <2>3 DEF Routing, PlaysMusic, SameRoute
  <1>4. CASE a.board_type # "PANDA" /\ a.mode = "IN_CALL"
    <2>1. Plays(n, Rx(a), TRUE) /\ Listens(n, a)
      BY <1>4, CallRoute
    <2> HIDE DEF n
    <2>2. b.mixer = n /\ SameRoute(a, b)
      BY DEF IsDevice, SameRoute
    <2> HIDE DEF b
    <2>3. Rx(b) = Rx(a) /\ Tx(b) = Tx(a)
      BY <2>2 DEF Rx, Tx, Selected, SameRoute
    <2>4. Listens(n, b)
      BY <2>1, <2>2, <2>3 DEF Listens, SameRoute
    <2> QED
      BY <1>1, <1>4, <2>1, <2>2, <2>3, <2>4 DEF Routing, SameRoute
  <1> QED
    BY <1>2, <1>3, <1>4

\* Nothing else that happens to a device disturbs it: the mixer is kept in a call,
\* and outside of one all of it that is played with, or the output is in standby.
LEMMA RoutingKept ==
    ASSUME NEW a, NEW b, Routing(a), SameRoute(a, b),
           a.mode = "IN_CALL" => b.mixer = a.mixer,
           a.mode # "IN_CALL" /\ b.active_output =>
               a.active_output /\ SamePlayed(a.mixer, b.mixer)
    PROVE  Routing(b)
  <1>1. Selected(b) = Selected(a) /\ Rx(b) = Rx(a) /\ Tx(b) = Tx(a)
    BY DEF Rx, Tx, Selected, SameRoute
  <1>2. CASE a.mode = "IN_CALL"
    <2>1. CASE a.board_type = "PANDA"
      BY <1>2, <2>1 DEF Routing, SameRoute
    <2>2. CASE a.board_type # "PANDA"
      <3>1. Listens(b.mixer, b)
        BY <1>1, <1>2, <2>2 DEF Routing, SameRoute, Listens
      <3> QED
        BY <1>1, <1>2, <2>2, <3>1 DEF Routing, SameRoute
    <2> QED
      BY <2>1, <2>2
  <1>3. CASE a.mode # "IN_CALL" /\ ~b.active_output
    BY <1>3 DEF Routing, SameRoute
  <1>4. CASE a.mode # "IN_CALL" /\ b.active_output
    <2>1. PlaysMusic(a) /\ SamePlayed(a.mixer, b.mixer)
      BY <1>4 DEF Routing
    <2>2. PlaysMusic(b)
      <3>1. CASE a.board_type = "PANDA"
        BY <2>1, <3>1 DEF PlaysMusic, SameRoute, SamePlayed, Played, VoiceCaptures, Capture,
                          Volumes, Controls
      <3>2. CASE a.board_type # "PANDA"
        <4> DEFINE call == FALSE
        <4>1. Plays(a.mixer, Selected(a), call)
          BY <2>1, <3>2 DEF PlaysMusic
        <4> HIDE DEF call
        <4>2. Plays(b.mixer, Selected(b), call)
          BY <1>1, <2>1, <4>1, PlaysKept
        <4> QED
          BY <3>2, <4>2 DEF PlaysMusic, SameRoute, call
      <3> QED
        BY <3>1, <3>2
    <2> QED
      BY <1>4, <2>2 DEF Routing, SameRoute
  <1> QED
    BY <1>2, <1>3, <1>4

-----------------------------------------------------------------------------
(***************************************************************************)
(* What is recorded, while an input i runs outside of a call: its device,  *)
(* with the gain of its source.                                            *)
(***************************************************************************)
OneMicrophone(a, i) ==
    /\ a.board_type # "PANDA" /\ i.device = "SCO_MIC" => a.mixer["mux_ul"] = "BT_Left"
    /\ a.board_type = "BLAZE" /\ i.device # "SCO_MIC" =>
         /\ (a.mixer["left_capture"] # Off) # (a.mixer["right_capture"] # Off)
         /\ a.mixer["mux_ul"] = IF a.mixer["left_capture"] # Off THEN "AMIC0" ELSE "AMIC1"
    /\ a.board_type = "TABLET" /\ i.device # "SCO_MIC" =>
         /\ a.input_requires_stereo = (a.mixer["mux_ul"] = "DMIC0L")
         /\ a.mixer["mux_ul"] = "AMIC0" => a.mixer["left_capture"] = "Headset_Mic"

Gain(i) ==
    CASE i.device = "SCO_MIC" -> 0
      [] i.device # "SCO_MIC" /\ i.source = "VOICE_RECOGNITION" -> 25
      [] i.device # "SCO_MIC" /\ i.source \in {"MIC", "CAMCORDER", "VOICE_COMMUNICATION"} -> 15
      [] OTHER -> 0

Records(a, i) ==
    a.active_input /\ a.mode # "IN_CALL" =>
        /\ a.ins = {i.device} /\ OneMicrophone(a, i)
        /\ a.board_type = "BLAZE" => a.mixer["amic_ul"] = Gain(i)

\* The microphone is the one for the output, if both run.
Follows(a, i) ==
    /\ a.board_type = "BLAZE" /\ a.mode # "IN_CALL" /\ a.active_output
    /\ a.active_input /\ i.source = "VOICE_COMMUNICATION" /\ "SCO_MIC" \notin a.ins
    => (a.mixer["right_capture"] = "Sub_Mic") = ("SPEAKER" \in a.outs)

SameInput(a, b) ==
    /\ b.mode = a.mode /\ b.ins = a.ins /\ b.board_type = a.board_type
    /\ b.input_requires_stereo = a.input_requires_stereo
    /\ a.mode # "IN_CALL" => \A c \in Capture : b.mixer[c] = a.mixer[c]

LEMMA CaptureNames ==
    {"mux_ul", "left_capture", "right_capture", "amic_ul"} \subseteq Capture
  BY DEF Capture, Volumes

LEMMA RecordsKept ==
    ASSUME NEW a, NEW b, NEW i, SameInput(a, b), Records(a, i),
           b.active_input => a.active_input
    PROVE  Records(b, i)
  <1> SUFFICES ASSUME b.active_input, b.mode # "IN_CALL"
               PROVE  /\ b.ins = {i.device} /\ OneMicrophone(b, i)
                      /\ b.board_type = "BLAZE" => b.mixer["amic_ul"] = Gain(i)
    BY DEF Records
  <1>1. /\ b.mixer["mux_ul"] = a.mixer["mux_ul"]
        /\ b.mixer["left_capture"] = a.mixer["left_capture"]
        /\ b.mixer["right_capture"] = a.mixer["right_capture"]
        /\ b.mixer["amic_ul"] = a.mixer["amic_ul"]
    BY CaptureNames DEF SameInput
  <1>2. /\ a.ins = {i.device} /\ OneMicrophone(a, i)
        /\ a.board_type = "BLAZE" => a.mixer["amic_ul"] = Gain(i)
    BY DEF Records, SameInput
  <1> QED
    BY <1>1, <1>2 DEF OneMicrophone, SameInput

LEMMA FollowsKept ==
    ASSUME NEW a, NEW b, NEW i, SameInput(a, b), Follows(a, i), b.outs = a.outs,
           b.active_input => a.active_input, b.active_output => a.active_output
    PROVE  Follows(b, i)
  BY CaptureNames DEF Follows, SameInput

LEMMA SelectInputFields ==
    ASSUME NEW a, IsDevice(a), NEW source
    PROVE  LET b == select_input_device(a, source)
           IN  /\ IsDevice(b) /\ SameRoute(a, b) /\ SamePlayed(a.mixer, b.mixer)
               /\ b.active_input = a.active_input /\ b.active_output = a.active_output
               /\ b.ins = a.ins /\ b.mixer = InputRoute(a, source)
               /\ a.board_type # "PANDA" => b.input_requires_stereo = StereoOnly(a, source)
  <1> DEFINE n == InputRoute(a, source)
             b == select_input_device(a, source)
             stereo == IF a.board_type = "PANDA" THEN a.input_requires_stereo
                       ELSE StereoOnly(a, source)
  <1>1. SamePlayed(a.mixer, n)
    BY InputRouteSets
  <1>2. IsDevice(b)
    BY SelectInputKeeps DEF Keeps
  <1>3. b = [a EXCEPT !.mixer = n, !.input_requires_stereo = stereo]
    BY DEF select_input_device, IsDevice
  <1> HIDE DEF n, stereo
  <1>4. /\ SameRoute(a, b) /\ b.active_input = a.active_input
        /\ b.active_output = a.active_output /\ b.ins = a.ins /\ b.mixer = n
        /\ b.input_requires_stereo = stereo
    <2> HIDE DEF b
    <2> QED
      BY <1>3 DEF IsDevice, SameRoute
  <1> HIDE DEF b
  <1>5. a.board_type # "PANDA" => stereo = StereoOnly(a, source)
    BY DEF stereo
  <1> QED
    BY <1>1, <1>2, <1>4, <1>5 DEF b, n

\* An input that starts outside of a call.
LEMMA StartRecords ==
    ASSUME NEW a, IsDevice(a), a.mode # "IN_CALL", a.active_input,
           NEW i, i.device \in InDevices, a.ins = {i.device}
    PROVE  LET b == select_input_device(a, i.source) IN Records(b, i) /\ Follows(b, i)
  <1> DEFINE s == i.source
             b == select_input_device(a, s)
             n == InputRoute(a, s)
             m == MMRoute(a, s)
             main == Mic(a, s, "BUILTIN_MIC")
             headset == Mic(a, s, "HEADSET_MIC")
             sub == SubMic(a, s)
             volume == InputVolume(a, s, main, headset, sub)
  <1>1. /\ SameRoute(a, b) /\ b.mixer = n /\ b.ins = a.ins
        /\ a.board_type # "PANDA" => b.input_requires_stereo = StereoOnly(a, s)
    BY SelectInputFields
  <1>2. a.board_type # "PANDA" => \A c \in Recorded : n[c] = m[c]
    <2>1. Recorded \subseteq Controls \ Volumes
      BY DEF Recorded, Controls, Volumes
    <2> QED
      BY <2>1, InputRouteSets
  <1>3. a.board_type = "BLAZE" => n["amic_ul"] = volume
    BY InputRouteSets
  <1>4. i.device \in {"BUILTIN_MIC", "HEADSET_MIC", "SCO_MIC"}
    BY InputsKnown
  <1>5. /\ sub = /\ i.device # "SCO_MIC"
                 /\ s = "CAMCORDER" \/ ("SPEAKER" \in a.outs /\ s = "VOICE_COMMUNICATION")
        /\ main = (i.device = "BUILTIN_MIC" /\ ~sub)
        /\ headset = (i.device = "HEADSET_MIC" /\ ~sub)
    BY <1>4 DEF SubMic, Mic
  <1>6. a.board_type = "BLAZE" => volume = Gain(i)
    BY <1>4, <1>5 DEF InputVolume, Gain
  <1>7. a.board_type = "TABLET" /\ i.device # "SCO_MIC" => StereoOnly(a, s) = ~headset
    BY DEF StereoOnly
  <1> HIDE DEF b, n, volume
  <1>8. /\ a.board_type # "PANDA" /\ i.device = "SCO_MIC" => m["mux_ul"] = "BT_Left"
        /\ a.board_type = "BLAZE" /\ i.device # "SCO_MIC" =>
             /\ m["mux_ul"] = IF sub THEN "AMIC1" ELSE "AMIC0"
             /\ m["right_capture"] = IF sub THEN "Sub_Mic" ELSE Off
             /\ sub => m["left_capture"] = Off
             /\ ~sub => m["left_capture"] \in {"Main_Mic", "Headset_Mic"}
        /\ a.board_type = "TABLET" /\ i.device # "SCO_MIC" =>
             /\ m["mux_ul"] = IF headset THEN "AMIC0" ELSE "DMIC0L"
             /\ headset => m["left_capture"] = "Headset_Mic"
    <2>1. a.board_type \in {"BLAZE", "TABLET", "PANDA"}
      BY DEF IsDevice
    <2>2. CASE a.board_type # "PANDA" /\ i.device = "SCO_MIC"
      BY <2>2, MMRouteSets
    <2>3. CASE a.board_type = "BLAZE" /\ i.device # "SCO_MIC"
      <3>1. "SCO_MIC" \notin a.ins /\ (main \/ headset \/ sub) /\ ~(main /\ sub)
            /\ ~(headset /\ sub)
        BY <1>4, <1>5, <2>3
      <3>2. /\ m["mux_ul"] = IF main \/ headset \/ sub
                             THEN IF sub THEN "AMIC1" ELSE "AMIC0" ELSE Off
            /\ m["right_capture"] = IF sub THEN "Sub_Mic" ELSE Off
            /\ m["left_capture"] = IF main THEN "Main_Mic"
                                   ELSE IF headset THEN "Headset_Mic" ELSE Off
        BY <2>3, <3>1, MMRouteSets
      <3> HIDE DEF m, main, headset, sub
      <3> QED
        BY <2>3, <3>1, <3>2
    <2>4. CASE a.board_type = "TABLET" /\ i.device # "SCO_MIC"
      <3>1. "SCO_MIC" \notin a.ins /\ (main \/ headset \/ sub) /\ ~(main /\ headset)
        BY <1>4, <1>5, <2>4
      <3>2. /\ m["mux_ul"] = IF headset THEN "AMIC0"
                             ELSE IF main \/ sub THEN "DMIC0L" ELSE Off
            /\ headset /\ ~main => m["left_capture"] = "Headset_Mic"
        BY <2>4, <3>1, MMRouteSets
      <3> HIDE DEF m, main, headset, sub
      <3> QED
        BY <2>4, <3>1, <3>2
    <2> QED
      BY <2>1, <2>2, <2>3, <2>4
  <1>9. a.board_type # "PANDA" => /\ n["mux_ul"] = m["mux_ul"]
                                  /\ n["left_capture"] = m["left_capture"]
                                  /\ n["right_capture"] = m["right_capture"]
    BY <1>2 DEF Recorded
  <1> HIDE DEF m, headset, main
  <1>10. OneMicrophone(b, i)
    <2>1. a.board_type \in {"BLAZE", "TABLET", "PANDA"}
      BY DEF IsDevice
    <2> HIDE DEF sub
    <2>2. b.mixer = n /\ b.board_type = a.board_type
      BY <1>1 DEF SameRoute
    <2>3. CASE a.board_type = "PANDA"
      BY <2>2, <2>3 DEF OneMicrophone
    <2>4. CASE a.board_type = "BLAZE"
      BY <1>8, <1>9, <2>2, <2>4 DEF OneMicrophone, Off
    <2>5. CASE a.board_type = "TABLET"
      <3>1. i.device # "SCO_MIC" => b.input_requires_stereo = ~headset
        BY <1>1, <1>7, <2>5
      <3> QED
        BY <1>8, <1>9, <2>2, <2>5, <3>1 DEF OneMicrophone
    <2> QED
      BY <2>1, <2>3, <2>4, <2>5
  <1>11. Records(b, i)
    BY <1>1, <1>3, <1>6, <1>10 DEF Records, SameRoute
  <1>12. Follows(b, i)
    <2> SUFFICES ASSUME a.board_type = "BLAZE", s = "VOICE_COMMUNICATION",
                        i.device # "SCO_MIC"
                 PROVE  (n["right_capture"] = "Sub_Mic") = ("SPEAKER" \in a.outs)
      BY <1>1 DEF Follows, SameRoute
    <2>1. n["right_capture"] = IF sub THEN "Sub_Mic" ELSE Off
      BY <1>8, <1>9
    <2>2. CASE "SPEAKER" \in a.outs
      <3>1. sub
        BY <1>5, <2>2
      <3> HIDE DEF sub
      <3> QED
        BY <2>1, <2>2, <3>1
    <2>3. CASE "SPEAKER" \notin a.outs
      <3>1. ~sub
        <4>1. s # "CAMCORDER"
          OBVIOUS
        <4> QED
          BY <1>5, <2>3, <4>1
      <3> HIDE DEF sub
      <3> QED
        BY <2>1, <2>3, <3>1 DEF Off
    <2> QED
      BY <2>2, <2>3
  <1> QED
    BY <1>11, <1>12 DEF b, s

-----------------------------------------------------------------------------
(***************************************************************************)
(* What the functions do to a routed device.                               *)
(***************************************************************************)
LEMMA IdleInput ==
    ASSUME NEW a, NEW i, ~a.active_input
    PROVE  Records(a, i) /\ Follows(a, i)
  BY DEF Records, Follows

LEMMA SelectOutputFields ==
    ASSUME NEW a, IsDevice(a), NEW source
    PROVE  LET b == select_output_device(a, source)
           IN  /\ IsDevice(b) /\ SameRoute(a, b) /\ SameInput(a, b)
               /\ b.active_input = a.active_input /\ b.active_output = a.active_output
  <1> DEFINE n == OutputRoute(a, source)
             b == select_output_device(a, source)
  <1>1. IsMixer(n)
    BY OutputRouteSilence DEF OutputIsSilent
  <1>2. a.mode # "IN_CALL" => SameCapture(a.mixer, n)
    <2>1. a.board_type = "PANDA" => SameCapture(a.mixer, n)
      BY PandaRoute
    <2>2. a.board_type # "PANDA" /\ a.mode # "IN_CALL" => SameCapture(a.mixer, n)
      BY MusicRoute
    <2> QED
      BY <2>1, <2>2
  <1>3. b = [a EXCEPT !.mixer = n]
    BY DEF select_output_device
  <1> HIDE DEF n, b
  <1>4. IsDevice(b) /\ b.mixer = n
    BY <1>1, <1>3, NewMixer
  <1>5. /\ SameRoute(a, b) /\ b.ins = a.ins
        /\ b.input_requires_stereo = a.input_requires_stereo
        /\ b.active_input = a.active_input /\ b.active_output = a.active_output
    BY <1>3 DEF IsDevice, SameRoute
  <1>6. SameInput(a, b)
    BY <1>2, <1>4, <1>5 DEF SameInput, SameRoute, SameCapture, VoiceCaptures
  <1> QED
    BY <1>4, <1>5, <1>6 DEF b

LEMMA OutputStandbyEnds ==
    ASSUME NEW a, IsDevice(a)
    PROVE  LET b == do_output_standby(a)
           IN  /\ IsDevice(b) /\ SameRoute(a, b) /\ SameInput(a, b)
               /\ ~b.active_output /\ b.active_input = a.active_input
               /\ a.mode = "IN_CALL" => b.mixer = a.mixer
  <1> DEFINE hs == Disable(a.mixer, hs_output)
             off == Disable(hs, hf_output)
             n == IF a.mode = "IN_CALL" THEN a.mixer ELSE off
             b == do_output_standby(a)
  <1>1. IsDevice(b)
    BY OutputStandbyKeeps DEF Keeps
  <1>2. \A c \in Capture : off[c] = a.mixer[c]
    BY DEF Disable, hs_output, hf_output, Capture, Volumes, Controls
  <1>3. b = IF ~a.active_output THEN a
            ELSE [a EXCEPT !.active_output = FALSE, !.mixer = n]
    BY DEF do_output_standby
  <1> HIDE DEF b, off
  <1>4. CASE ~a.active_output
    BY <1>1, <1>3, <1>4 DEF SameRoute, SameInput, b
  <1>5. CASE a.active_output
    <2>1. \A c \in Capture : n[c] = a.mixer[c]
      BY <1>2
    <2>2. a.mode = "IN_CALL" => n = a.mixer
      OBVIOUS
    <2> HIDE DEF n
    <2>3. /\ SameRoute(a, b) /\ b.ins = a.ins /\ b.mixer = n
          /\ b.input_requires_stereo = a.input_requires_stereo
          /\ b.active_input = a.active_input /\ b.active_output = FALSE
      BY <1>3, <1>5 DEF IsDevice, SameRoute
    <2>4. SameInput(a, b)
      BY <2>1, <2>3 DEF SameInput, SameRoute
    <2> QED
      BY <1>1, <2>2, <2>3, <2>4 DEF b
  <1>6. a.active_output \in BOOLEAN
    BY DEF IsDevice
  <1> QED
    BY <1>4, <1>5, <1>6

LEMMA InputStandbyEnds ==
    ASSUME NEW a, IsDevice(a), NEW source
    PROVE  LET b == do_input_standby(a, source)
           IN  /\ IsDevice(b) /\ SameRoute(a, b)
               /\ ~b.active_input /\ b.active_output = a.active_output
               /\ a.mode = "IN_CALL" => b.mixer = a.mixer
               /\ SamePlayed(a.mixer, b.mixer)
  <1> DEFINE idle == [a EXCEPT !.active_input = FALSE]
             c == [a EXCEPT !.active_input = FALSE, !.ins = {}]
             b == do_input_standby(a, source)
  <1>1. IsDevice(b) /\ SamePlayed(a.mixer, a.mixer)
    BY InputStandbyKeeps DEF Keeps, IsDevice, SamePlayed
  <1>2. CASE ~a.active_input
    <2>1. b = a
      BY <1>2 DEF do_input_standby
    <2> QED
      BY <1>1, <1>2, <2>1 DEF SameRoute
  <1>3. CASE a.active_input /\ a.mode = "IN_CALL"
    <2>1. b = idle
      BY <1>3 DEF do_input_standby
    <2>2. /\ SameRoute(a, idle) /\ idle.mixer = a.mixer /\ idle.active_input = FALSE
          /\ idle.active_output = a.active_output
      BY DEF IsDevice, SameRoute
    <2> QED
      BY <1>1, <2>1, <2>2
  <1>4. CASE a.active_input /\ a.mode # "IN_CALL"
    <2>1. b = select_input_device(c, source)
      BY <1>4 DEF do_input_standby
    <2>2. /\ IsDevice(c) /\ SameRoute(a, c) /\ c.mixer = a.mixer /\ c.active_input = FALSE
          /\ c.active_output = a.active_output
      <3>1. {} \in Inputs
        BY DEF Inputs
      <3> QED
        BY <3>1 DEF IsDevice, SameRoute
    <2> HIDE DEF c, b
    <2>3. /\ SameRoute(c, b) /\ SamePlayed(c.mixer, b.mixer)
          /\ b.active_input = c.active_input /\ b.active_output = c.active_output
      BY <2>1, <2>2, SelectInputFields
    <2>4. SameRoute(a, b)
      BY <2>2, <2>3 DEF SameRoute
    <2> QED
      BY <1>1, <1>4, <2>2, <2>3, <2>4 DEF b
  <1>5. a.active_input \in BOOLEAN
    BY DEF IsDevice
  <1> QED
    BY <1>2, <1>3, <1>4, <1>5

\* Standby of either stream leaves the routes as they are.
LEMMA StandbyRouting ==
    ASSUME NEW a, IsDevice(a), Routing(a), NEW source
    PROVE  Routing(do_output_standby(a)) /\ Routing(do_input_standby(a, source))
  <1>1. Routing(do_output_standby(a))
    BY OutputStandbyEnds, RoutingKept
  <1>2. Routing(do_input_standby(a, source))
    BY InputStandbyEnds, RoutingKept
  <1> QED
    BY <1>1, <1>2

LEMMA ForceAllStandbyEnds ==
    ASSUME NEW a, IsDevice(a), NEW source
    PROVE  LET b == force_all_standby(a, source)
           IN  IsDevice(b) /\ b.mode = a.mode /\ ~b.active_output /\ ~b.active_input
  <1> DEFINE quiet == do_output_standby(a)
             b == do_input_standby(quiet, source)
  <1>1. IsDevice(quiet) /\ quiet.mode = a.mode /\ ~quiet.active_output
    BY OutputStandbyEnds DEF SameRoute
  <1> HIDE DEF quiet
  <1>2. /\ IsDevice(b) /\ SameRoute(quiet, b)
        /\ ~b.active_input /\ b.active_output = quiet.active_output
    BY <1>1, InputStandbyEnds
  <1>3. force_all_standby(a, source) = b
    BY DEF force_all_standby, quiet
  <1> HIDE DEF b
  <1> QED
    BY <1>1, <1>2, <1>3 DEF SameRoute

-----------------------------------------------------------------------------
(***************************************************************************)
(* The second invariant: every entry point leaves what is played and       *)
(* recorded routed.                                                        *)
(***************************************************************************)
Routed(a, i, f) == Routing(a) /\ Records(a, i) /\ (~f => Follows(a, i))

RInv == Routed(adev, in, force)

LEMMA OpenIsRouted ==
    ASSUME NEW m, NEW product, NEW i, NEW f
    PROVE  Routed(adev_open(m, product), i, f)
  <1> DEFINE a == adev_open(m, product)
  <1>1. ~a.active_input /\ ~a.active_output /\ a.mode = "NORMAL"
    BY DEF adev_open, select_output_device
  <1> HIDE DEF a
  <1>2. Routing(a)
    BY <1>1 DEF Routing
  <1> QED
    BY <1>1, <1>2, IdleInput DEF Routed, a

\* select_mode() has routed the call when it marks it.
LEMMA EnterCallIsRouted ==
    ASSUME NEW a, IsDevice(a), a.mode = "IN_CALL"
    PROVE  Routed(EnterCall(a), in, force)
  <1> DEFINE quiet == force_all_standby(a, in.source)
             routed == IF quiet.outs = {"SPEAKER"}
                       THEN [quiet EXCEPT !.outs = {"EARPIECE"}, !.ins = {"BUILTIN_MIC"}]
                       ELSE [quiet EXCEPT !.outs = @ \ {"SPEAKER"}]
             b == select_output_device(routed, in.source)
             c == [b EXCEPT !.in_call = TRUE]
  <1>1. /\ IsDevice(quiet) /\ quiet.mode = a.mode
        /\ ~quiet.active_output /\ ~quiet.active_input
    BY ForceAllStandbyEnds
  <1>2. EnterCall(a) = c
    BY DEF EnterCall
  <1> HIDE DEF quiet
  <1>3. /\ IsDevice(routed) /\ routed.mode = "IN_CALL"
        /\ ~routed.active_output /\ ~routed.active_input
    <2>1. {"EARPIECE"} \in SUBSET OutDevices /\ {"BUILTIN_MIC"} \in Inputs
      BY DEF OutDevices, Inputs
    <2>2. CASE quiet.outs = {"SPEAKER"}
      BY <1>1, <2>1, <2>2 DEF IsDevice
    <2>3. CASE quiet.outs # {"SPEAKER"}
      <3> DEFINE outs == quiet.outs \ {"SPEAKER"}
      <3>1. outs \in SUBSET OutDevices /\ outs # {}
        BY <1>1, <2>3 DEF IsDevice
      <3> HIDE DEF outs
      <3>2. routed = [quiet EXCEPT !.outs = outs]
        BY <2>3 DEF outs
      <3> QED
        BY <1>1, <3>1, <3>2 DEF IsDevice
    <2> QED
      BY <2>2, <2>3
  <1> HIDE DEF routed
  <1>4. /\ Routing(b) /\ IsDevice(b) /\ SameRoute(routed, b)
        /\ b.active_input = routed.active_input
    BY <1>3, SelectOutputRoutes, SelectOutputFields
  <1> HIDE DEF b
  <1>5. /\ SameRoute(b, c) /\ c.mixer = b.mixer /\ c.active_input = b.active_input
    BY <1>4 DEF IsDevice, SameRoute
  <1> HIDE DEF c
  <1>6. b.mode = "IN_CALL" /\ ~c.active_input
    BY <1>3, <1>4, <1>5 DEF SameRoute
  <1>7. Routing(c)
    BY <1>4, <1>5, <1>6, RoutingKept
  <1> QED
    BY <1>2, <1>6, <1>7, IdleInput DEF Routed

LEMMA LeaveCallIsRouted ==
    ASSUME NEW a, IsDevice(a), a.mode # "IN_CALL"
    PROVE  Routed(LeaveCall(a), in, force)
  <1> DEFINE left == [a EXCEPT !.in_call = FALSE]
             quiet == force_all_standby(left, in.source)
             routed == select_output_device(quiet, in.source)
             b == select_input_device(routed, in.source)
  <1>1. IsDevice(left) /\ left.mode # "IN_CALL"
    BY DEF IsDevice
  <1>2. LeaveCall(a) = b
    BY DEF LeaveCall
  <1> HIDE DEF left
  <1>3. /\ IsDevice(quiet) /\ quiet.mode # "IN_CALL"
        /\ ~quiet.active_output /\ ~quiet.active_input
    BY <1>1, ForceAllStandbyEnds
  <1> HIDE DEF quiet
  <1>4. /\ IsDevice(routed) /\ SameRoute(quiet, routed)
        /\ routed.active_input = quiet.active_input
        /\ routed.active_output = quiet.active_output
    BY <1>3, SelectOutputFields
  <1> HIDE DEF routed
  <1>5. /\ SameRoute(routed, b) /\ b.active_input = routed.active_input
        /\ b.active_output = routed.active_output
    BY <1>4, SelectInputFields
  <1> HIDE DEF b
  <1>6. b.mode # "IN_CALL" /\ ~b.active_input /\ ~b.active_output
    BY <1>3, <1>4, <1>5 DEF SameRoute
  <1>7. Routing(b)
    BY <1>6 DEF Routing
  <1> QED
    BY <1>2, <1>6, <1>7, IdleInput DEF Routed

LEMMA SelectModeIsRouted ==
    ASSUME IInv, RInv, NEW mode \in Modes, mode # adev.mode
    PROVE  Routed(select_mode([adev EXCEPT !.mode = mode]), in, force)
  <1> DEFINE b == [adev EXCEPT !.mode = mode]
  <1>1. /\ IsDevice(b) /\ b.mode = mode /\ b.mixer = adev.mixer /\ b.in_call = adev.in_call
        /\ b.outs = adev.outs /\ b.ins = adev.ins /\ b.board_type = adev.board_type
        /\ b.active_input = adev.active_input /\ b.active_output = adev.active_output
        /\ b.input_requires_stereo = adev.input_requires_stereo
    BY DEF IInv, IsSettled, IsDevice
  <1>2. adev.in_call = (adev.mode = "IN_CALL")
    BY DEF IInv, IsSettled
  <1> HIDE DEF b
  <1>3. CASE b.mode = "IN_CALL" /\ ~b.in_call
    <2>1. select_mode(b) = EnterCall(b)
      BY <1>3 DEF select_mode
    <2> QED
      BY <1>1, <1>3, <2>1, EnterCallIsRouted DEF b
  <1>4. CASE b.mode # "IN_CALL" /\ b.in_call
    <2>1. select_mode(b) = LeaveCall(b)
      BY <1>4 DEF select_mode
    <2> QED
      BY <1>1, <1>4, <2>1, LeaveCallIsRouted DEF b
  <1>5. CASE b.mode # "IN_CALL" /\ ~b.in_call
    <2>1. select_mode(b) = b
      BY <1>5 DEF select_mode
    <2>2. adev.mode # "IN_CALL"
      BY <1>1, <1>2, <1>5
    <2>3. Selected(b) = Selected(adev)
      BY <1>1 DEF Selected
    <2>4. Routing(b)
      BY <1>1, <1>5, <2>2, <2>3 DEF RInv, Routed, Routing, PlaysMusic
    <2>5. Records(b, in)
      BY <1>1, <1>5, <2>2 DEF RInv, Routed, Records, OneMicrophone
    <2>6. ~force => Follows(b, in)
      BY <1>1, <1>5, <2>2 DEF RInv, Routed, Follows
    <2> QED
      BY <2>1, <2>4, <2>5, <2>6 DEF Routed, b
  <1>6. ~(b.mode = "IN_CALL" /\ b.in_call)
    BY <1>1, <1>2
  <1> QED
    BY <1>3, <1>4, <1>5, <1>6 DEF b

LEMMA SetTtyModeIsRouted ==
    ASSUME IInv, RInv, NEW tty_mode \in TtyModes, adev_set_tty_mode(tty_mode)
    PROVE  RInv'
  <1> DEFINE a == [adev EXCEPT !.tty_mode = tty_mode]
             b == select_output_device(a, in.source)
  <1>1. /\ IsDevice(a) /\ a.mode = adev.mode /\ a.outs = adev.outs /\ a.ins = adev.ins
        /\ a.mixer = adev.mixer /\ a.board_type = adev.board_type
        /\ a.active_input = adev.active_input /\ a.active_output = adev.active_output
        /\ a.input_requires_stereo = adev.input_requires_stereo
    BY DEF IInv, IsSettled, IsDevice
  <1>2. adev' = (IF a.mode = "IN_CALL" THEN b ELSE a) /\ in' = in /\ force' = force
    BY DEF adev_set_tty_mode
  <1> HIDE DEF a
  <1>3. CASE a.mode = "IN_CALL"
    <2>1. Routing(b) /\ SameRoute(a, b)
      BY <1>1, SelectOutputRoutes, SelectOutputFields
    <2> HIDE DEF b
    <2>2. Routed(b, in, force)
      BY <1>3, <2>1 DEF Routed, Records, Follows, SameRoute
    <2> QED
      BY <1>2, <1>3, <2>2 DEF RInv
  <1>4. CASE a.mode # "IN_CALL"
    <2>1. Selected(a) = Selected(adev)
      BY <1>1 DEF Selected
    <2>2. Routing(a)
      BY <1>1, <1>4, <2>1 DEF RInv, Routed, Routing, PlaysMusic
    <2>3. SameInput(adev, a)
      BY <1>1 DEF SameInput
    <2>4. Records(a, in) /\ (~force => Follows(a, in))
      BY <1>1, <2>3, RecordsKept, FollowsKept DEF RInv, Routed
    <2> QED
      BY <1>2, <1>4, <2>2, <2>4 DEF RInv, Routed
  <1> QED
    BY <1>3, <1>4

\* A write outside of a call selects the output; a microphone that may be the wrong
\* one by now is left to the end of out_write(), which force stands for.
LEMMA OutWriteIsRouted ==
    ASSUME IInv, RInv, NEW opens \in BOOLEAN, OutWrite(opens)
    PROVE  RInv'
  <1> DEFINE started == [adev EXCEPT !.active_output = TRUE]
             selected == select_output_device(started, in.source)
             routed == IF adev.mode = "IN_CALL" THEN started ELSE selected
             b == [routed EXCEPT !.active_output = opens]
  <1>1. /\ IsDevice(started) /\ SameRoute(adev, started) /\ SameInput(adev, started)
        /\ started.active_input = adev.active_input /\ started.active_output = TRUE
        /\ started.mixer = adev.mixer
    BY DEF IInv, IsSettled, IsDevice, SameRoute, SameInput
  <1>2. adev' = b /\ in' = in /\ force' = (opens /\ VoIPInput)
    BY DEF OutWrite, start_output_stream
  <1> HIDE DEF started
  <1>3. /\ Routing(selected) /\ IsDevice(selected) /\ SameRoute(started, selected)
        /\ SameInput(started, selected)
        /\ selected.active_input = started.active_input
        /\ selected.active_output = started.active_output
    BY <1>1, SelectOutputRoutes, SelectOutputFields
  <1> HIDE DEF selected
  <1>4. /\ IsDevice(routed) /\ SameRoute(adev, routed) /\ SameInput(adev, routed)
        /\ routed.active_input = adev.active_input /\ routed.active_output = TRUE
    BY <1>1, <1>3 DEF SameRoute, SameInput
  <1>5. Routing(routed)
    <2>1. CASE adev.mode = "IN_CALL"
      BY <1>1, <2>1, RoutingKept DEF RInv, Routed
    <2>2. CASE adev.mode # "IN_CALL"
      BY <1>3, <2>2
    <2> QED
      BY <2>1, <2>2
  <1> HIDE DEF routed
  <1>6. /\ SameRoute(routed, b) /\ SameInput(routed, b) /\ b.mixer = routed.mixer
        /\ b.active_input = routed.active_input /\ b.active_output = opens
    BY <1>4 DEF IsDevice, SameRoute, SameInput
  <1> HIDE DEF b
  <1>7. Routing(b)
    <2>1. SamePlayed(routed.mixer, b.mixer)
      BY <1>4, <1>6 DEF SamePlayed, IsDevice
    <2> QED
      BY <1>4, <1>5, <1>6, <2>1, RoutingKept
  <1>8. SameInput(adev, b) /\ b.active_input = adev.active_input
    BY <1>4, <1>6 DEF SameInput
  <1>9. Records(b, in)
    BY <1>8, RecordsKept DEF RInv, Routed
  <1>10. ~(opens /\ VoIPInput) => Follows(b, in)
    BY <1>6, <1>8 DEF Follows, VoIPInput
  <1> QED
    BY <1>2, <1>7, <1>9, <1>10 DEF RInv, Routed

\* An input that goes into standby.
LEMMA InputStandbyIsRouted ==
    ASSUME NEW a, IsDevice(a), Routing(a), NEW source, NEW i, NEW f
    PROVE  Routed(do_input_standby(a, source), i, f)
  BY StandbyRouting, InputStandbyEnds, IdleInput DEF Routed

LEMMA OutStandbyIsRouted ==
    ASSUME IInv, RInv, out_standby
    PROVE  RInv'
  <1> DEFINE b == do_output_standby(adev)
  <1>1. /\ SameInput(adev, b) /\ SameRoute(adev, b) /\ Routing(b)
        /\ ~b.active_output /\ b.active_input = adev.active_input
    BY OutputStandbyEnds, StandbyRouting DEF IInv, IsSettled, RInv, Routed
  <1>2. adev' = b /\ in' = in /\ force' = force
    BY DEF out_standby
  <1> HIDE DEF b
  <1>3. Records(b, in) /\ Follows(b, in)
    BY <1>1, RecordsKept DEF Follows, RInv, Routed
  <1> QED
    BY <1>1, <1>2, <1>3 DEF RInv, Routed

\* An output that gets another route is in standby afterwards.
LEMMA OutParametersIsRouted ==
    ASSUME IInv, RInv, NEW outs \in OutSets, out_set_parameters(outs)
    PROVE  RInv'
  <1> DEFINE quiet == do_output_standby(adev)
             moved == [quiet EXCEPT !.outs = outs]
             routed == select_output_device(moved, in.source)
             b == do_input_standby(routed, in.source)
  <1>1. /\ IsDevice(quiet) /\ SameInput(adev, quiet)
        /\ ~quiet.active_output /\ quiet.active_input = adev.active_input
    BY OutputStandbyEnds DEF IInv, IsSettled
  <1>2. adev' \in {routed, b} /\ in' = in /\ force' = force
    BY DEF out_set_parameters
  <1> HIDE DEF quiet
  <1>3. /\ IsDevice(moved) /\ SameInput(quiet, moved)
        /\ ~moved.active_output /\ moved.active_input = quiet.active_input
    <2>1. outs \in SUBSET OutDevices /\ outs # {}
      BY NamesKnown, NoDeviceIsNoRoute
    <2> QED
      BY <1>1, <2>1 DEF IsDevice, SameInput
  <1> HIDE DEF moved
  <1>4. /\ IsDevice(routed) /\ Routing(routed) /\ SameInput(moved, routed)
        /\ ~routed.active_output /\ routed.active_input = moved.active_input
    BY <1>3, SelectOutputRoutes, SelectOutputFields
  <1> HIDE DEF routed
  <1>5. Routed(routed, in, force)
    <2>1. SameInput(adev, routed)
      BY <1>1, <1>3, <1>4 DEF SameInput
    <2>2. Records(routed, in) /\ Follows(routed, in)
      BY <1>1, <1>3, <1>4, <2>1, RecordsKept DEF Follows, RInv, Routed
    <2> QED
      BY <1>4, <2>2 DEF Routed
  <1>6. Routed(b, in, force)
    BY <1>4, InputStandbyIsRouted
  <1> HIDE DEF b
  <1> QED
    BY <1>2, <1>5, <1>6 DEF RInv

\* A read outside of a call selects the microphone.
LEMMA StartInputIsRouted ==
    ASSUME IInv, RInv, NEW opens \in BOOLEAN, StartInput(opens)
    PROVE  RInv'
  <1> DEFINE a == [adev EXCEPT !.active_input = TRUE]
             chosen == [a EXCEPT !.ins = {in.device}]
             selected == select_input_device(chosen, in.source)
             routed == IF a.mode = "IN_CALL" THEN a ELSE selected
             b == [routed EXCEPT !.active_input = opens]
  <1>1. /\ IsDevice(a) /\ SameRoute(adev, a) /\ a.mixer = adev.mixer
        /\ a.active_input = TRUE /\ a.active_output = adev.active_output
    BY DEF IInv, IsSettled, IsDevice, SameRoute
  <1>2. adev' = b /\ in' = in /\ force' = force
    BY DEF StartInput
  <1> HIDE DEF a
  <1>3. /\ IsDevice(chosen) /\ SameRoute(a, chosen) /\ chosen.mixer = a.mixer
        /\ chosen.ins = {in.device}
        /\ chosen.active_input = TRUE /\ chosen.active_output = a.active_output
    <2>1. {in.device} \in Inputs
      BY DEF IInv, Inputs
    <2> QED
      BY <1>1, <2>1 DEF IsDevice, SameRoute
  <1> HIDE DEF chosen
  <1>4. Routing(chosen)
    <2>1. SamePlayed(adev.mixer, chosen.mixer)
      BY <1>1, <1>3 DEF SamePlayed, IsDevice
    <2>2. SameRoute(adev, chosen)
      BY <1>1, <1>3 DEF SameRoute
    <2> QED
      BY <1>1, <1>3, <2>1, <2>2, RoutingKept DEF RInv, Routed
  <1>5. /\ IsDevice(selected) /\ SameRoute(chosen, selected)
        /\ SamePlayed(chosen.mixer, selected.mixer)
        /\ selected.active_output = chosen.active_output
    BY <1>3, SelectInputFields
  <1>6. chosen.mode # "IN_CALL" => Records(selected, in) /\ Follows(selected, in)
    <2>1. in.device \in InDevices
      BY DEF IInv
    <2> QED
      BY <1>3, <2>1, StartRecords
  <1> HIDE DEF selected
  <1>7. IsDevice(routed) /\ Routed(routed, in, FALSE)
    <2>1. CASE a.mode = "IN_CALL"
      <3>1. Routing(a)
        <4>1. adev.mode = "IN_CALL"
          BY <1>1, <2>1 DEF SameRoute
        <4> QED
          BY <1>1, <4>1, RoutingKept DEF RInv, Routed
      <3> QED
        BY <1>1, <2>1, <3>1 DEF Routed, Records, Follows
    <2>2. CASE a.mode # "IN_CALL"
      <3>1. Routing(selected)
        BY <1>3, <1>4, <1>5, <2>2, RoutingKept DEF SameRoute
      <3> QED
        BY <1>3, <1>5, <1>6, <2>2, <3>1 DEF Routed, SameRoute
    <2> QED
      BY <2>1, <2>2
  <1>8. opens /\ b.active_input => routed.active_input
    BY <1>1, <1>3, SelectInputFields DEF selected
  <1> HIDE DEF routed
  <1>9. /\ SameRoute(routed, b) /\ SameInput(routed, b) /\ b.mixer = routed.mixer
        /\ b.active_input = opens /\ b.active_output = routed.active_output
        /\ b.outs = routed.outs
    BY <1>7 DEF IsDevice, SameRoute, SameInput
  <1> HIDE DEF b
  <1>10. Routing(b)
    <2>1. SamePlayed(routed.mixer, b.mixer)
      BY <1>7, <1>9 DEF SamePlayed, IsDevice
    <2> QED
      BY <1>7, <1>9, <2>1, RoutingKept DEF Routed
  <1>11. Records(b, in) /\ Follows(b, in)
    BY <1>7, <1>8, <1>9, RecordsKept, FollowsKept DEF Routed
  <1> QED
    BY <1>2, <1>10, <1>11 DEF RInv, Routed

LEMMA InitRInv == Init => RInv
  <1> SUFFICES ASSUME Init PROVE RInv
    OBVIOUS
  <1> DEFINE m == [c \in Controls |-> IF c \in Volumes THEN 0 ELSE Off]
  <1>1. adev = adev_open(m, board)
    BY DEF Init
  <1> HIDE DEF m
  <1> QED
    BY <1>1, OpenIsRouted DEF RInv

LEMMA NextRInv == IInv /\ RInv /\ [Next]_vars => RInv'
  <1> SUFFICES ASSUME IInv, RInv, [Next]_vars PROVE RInv'
    OBVIOUS
  <1>1. IsDevice(adev) /\ Routing(adev)
    BY DEF IInv, IsSettled, RInv, Routed
  <1>2. CASE Restart
    <2>1. adev' = adev_open(adev.mixer, board)
      BY <1>2 DEF Restart
    <2> QED
      BY <2>1, OpenIsRouted DEF RInv
  <1>3. ASSUME NEW mode \in Modes, adev_set_mode(mode)
        PROVE  RInv'
    <2>1. /\ adev' = select_mode([adev EXCEPT !.mode = mode]) /\ mode # adev.mode
          /\ in' = in /\ force' = force
      BY <1>3 DEF adev_set_mode
    <2> QED
      BY <2>1, SelectModeIsRouted DEF RInv
  <1>4. ASSUME NEW tty_mode \in TtyModes, adev_set_tty_mode(tty_mode)
        PROVE  RInv'
    BY <1>4, SetTtyModeIsRouted
  <1>5. ASSUME NEW opens \in BOOLEAN, OutWrite(opens)
        PROVE  RInv'
    BY <1>5, OutWriteIsRouted
  <1>6. ASSUME NEW opens \in BOOLEAN, StartInput(opens)
        PROVE  RInv'
    BY <1>6, StartInputIsRouted
  <1>7. CASE ForceInputStandby
    BY <1>1, <1>7, InputStandbyIsRouted DEF ForceInputStandby, RInv
  <1>8. CASE out_standby
    BY <1>8, OutStandbyIsRouted
  <1>9. CASE in_standby
    BY <1>1, <1>9, InputStandbyIsRouted DEF in_standby, RInv
  <1>10. ASSUME NEW outs \in OutSets, out_set_parameters(outs)
         PROVE  RInv'
    BY <1>10, OutParametersIsRouted
  <1>11. ASSUME NEW device \in InDevices, NEW source \in Sources,
                in_set_parameters(device, source)
         PROVE  RInv'
    BY <1>1, <1>11, InputStandbyIsRouted DEF in_set_parameters, RInv
  <1>12. CASE UNCHANGED vars
    BY <1>12 DEF vars, RInv
  <1> QED
    BY <1>2, <1>3, <1>4, <1>5, <1>6, <1>7, <1>8, <1>9, <1>10, <1>11, <1>12
       DEF Next, TtyModes

\* Every entry point leaves the device routed: out_write() and in_read() select what
\* they start, a call is selected when it is entered and again for every TTY mode
\* and every route, and standby touches neither a call nor the other stream.
THEOREM RoutingInvariant == Spec => []RInv
  BY InitRInv, NextRInv, Invariant, PTL DEF Spec

LEMMA BitOn == \A b \in BOOLEAN : (Bit(b) # Off) <=> b
  BY DEF Bit, Off

LEMMA SameTruth == \A p, q \in BOOLEAN : (p <=> q) => p = q
  OBVIOUS

LEMMA OnIsBoolean == \A c : On(c) \in BOOLEAN /\ (On(c) <=> adev.mixer[c] # Off)
  BY DEF On

\* Which stages are on.
LEMMA PlaysOn ==
    ASSUME NEW on, IsSelection(on), NEW call \in BOOLEAN, Plays(adev.mixer, on, call)
    PROVE  /\ On("mm_dl2") <=> on.speaker
           /\ On("vx_dl2") <=> on.speaker /\ call
           /\ On("mm_dl1") <=> on.headset \/ on.headphone \/ on.earpiece \/ on.bt
           /\ On("vx_dl1") <=> (on.headset \/ on.headphone \/ on.earpiece \/ on.bt) /\ call
           /\ On("dl1_bt") <=> on.bt
           /\ On("earpiece_enable") <=> on.earpiece
           /\ On("hs") <=> on.headset \/ on.headphone
           /\ On("hf") <=> on.speaker
  BY OnIsBoolean DEF Plays, IsSelection, Bit, Off

LEMMA RInvOutput == IInv /\ RInv => OutputRouted
  <1> SUFFICES ASSUME IInv, RInv, adev.active_output, adev.mode # "IN_CALL"
               PROVE  IF board = "PANDA" THEN On("mm_dl1") /\ On("hs")
                      ELSE /\ On("mm_dl2") = Driven("SPEAKER") /\ On("hf") = Driven("SPEAKER")
                           /\ On("mm_dl1") = (\E d \in OutDevices \ {"SPEAKER", "AUX_DIGITAL"} :
                                                Driven(d))
                           /\ On("hs") = (Driven("HEADSET") \/ Driven("HEADPHONE"))
                           /\ On("earpiece_enable") = Driven("EARPIECE")
                           /\ On("dl1_bt") = Driven("SCO")
    BY DEF OutputRouted
  <1>1. PlaysMusic(adev) /\ adev.board_type = board
    BY DEF IInv, IsSettled, RInv, Routed, Routing
  <1>2. CASE board = "PANDA"
    BY <1>1, <1>2 DEF PlaysMusic, On, Off
  <1>3. CASE board # "PANDA"
    <2> DEFINE on == Selected(adev)
               dl1 == \E d \in OutDevices \ {"SPEAKER", "AUX_DIGITAL"} : Driven(d)
               hs == Driven("HEADSET") \/ Driven("HEADPHONE")
               call == FALSE
    <2>1. Plays(adev.mixer, on, call) /\ IsSelection(on)
      <3>1. IsSelection(on)
        BY DEF Selected, IsSelection
      <3> QED
        BY <1>1, <1>3, <3>1 DEF PlaysMusic
    <2>2. /\ on.headset = Driven("HEADSET") /\ on.headphone = Driven("HEADPHONE")
          /\ on.speaker = Driven("SPEAKER") /\ on.earpiece = Driven("EARPIECE")
          /\ on.bt = Driven("SCO")
      BY DEF Selected, Driven
    <2>3. \A d : Driven(d) \in BOOLEAN
      BY DEF Driven
    <2>4. dl1 <=> on.headset \/ on.headphone \/ on.earpiece \/ on.bt
      BY DEF OutDevices, Selected, Driven
    <2>5. hs <=> on.headset \/ on.headphone
      BY DEF Selected, Driven
    <2>6. dl1 \in BOOLEAN /\ hs \in BOOLEAN /\ call \in BOOLEAN
      BY <2>3
    <2> HIDE DEF on, dl1, hs, call
    <2>7. /\ On("mm_dl2") <=> Driven("SPEAKER")
          /\ On("hf") <=> Driven("SPEAKER")
          /\ On("mm_dl1") <=> dl1
          /\ On("hs") <=> hs
          /\ On("earpiece_enable") <=> Driven("EARPIECE")
          /\ On("dl1_bt") <=> Driven("SCO")
      BY <2>1, <2>2, <2>4, <2>5, <2>6, PlaysOn
    <2>8. /\ On("mm_dl2") = Driven("SPEAKER") /\ On("hf") = Driven("SPEAKER")
          /\ On("mm_dl1") = dl1 /\ On("hs") = hs
          /\ On("earpiece_enable") = Driven("EARPIECE") /\ On("dl1_bt") = Driven("SCO")
      BY <2>3, <2>6, <2>7, OnIsBoolean, SameTruth
    <2> QED
      BY <1>3, <2>8 DEF dl1, hs
  <1> QED
    BY <1>2, <1>3

LEMMA RInvCall == IInv /\ RInv => CallRouted
  <1> SUFFICES ASSUME IInv, RInv, adev.in_call, board # "PANDA"
               PROVE  IF Driven("SCO")
                      THEN On("dl1_bt") /\ On("vx_dl1") /\ adev.mixer.mux_vx = "BT_Left"
                      ELSE CallPlays /\ CallListens
    BY DEF CallRouted
  <1> DEFINE on == Rx(adev)
             tx == Tx(adev)
             m == adev.mixer
  <1>1. /\ adev.mode = "IN_CALL" /\ adev.board_type = board /\ IsDevice(adev)
        /\ Plays(m, on, TRUE) /\ Listens(m, adev)
    BY DEF IInv, IsSettled, RInv, Routed, Routing
  <1>2. IsSelection(on) /\ IsSelection(tx)
    BY <1>1, RxIsSelection
  <1>3. CASE Driven("SCO")
    <2>1. on.bt
      BY <1>1, <1>3 DEF Rx, Selected, Driven
    <2>2. m["dl1_bt"] = "On" /\ m["vx_dl1"] = "On"
      <3> HIDE DEF on
      <3> QED
        BY <1>1, <2>1 DEF Plays, Bit
    <2>3. m["mux_vx"] = "BT_Left"
      BY <1>1, <1>3 DEF Listens, Driven
    <2> QED
      BY <1>3, <2>2, <2>3 DEF On, Off
  <1>4. CASE ~Driven("SCO")
    <2>1. "SCO" \notin adev.outs /\ adev.tty_mode \in {"OFF", "VCO", "HCO", "FULL"}
          /\ adev.outs \subseteq OutDevices /\ adev.outs # {}
          /\ board \in {"BLAZE", "TABLET"}
      BY <1>1, <1>4 DEF Driven, IsDevice, TtyModes
    <2>2. /\ on.speaker <=>
               \/ adev.tty_mode = "HCO"
               \/ adev.tty_mode = "OFF" /\ (Driven("SPEAKER") \/ Driven("AUX_DIGITAL"))
          /\ on.headset \/ on.headphone <=>
               \/ adev.tty_mode \in {"FULL", "VCO"}
               \/ adev.tty_mode = "OFF" /\ (Driven("HEADSET") \/ Driven("HEADPHONE"))
      BY <1>1, <2>1 DEF Rx, Selected, Only, Driven
    <2>3. CallPlays
      <3> DEFINE speaker == \/ adev.tty_mode = "HCO"
                            \/ /\ adev.tty_mode = "OFF"
                               /\ Driven("SPEAKER") \/ Driven("AUX_DIGITAL")
                 hs == \/ adev.tty_mode \in {"FULL", "VCO"}
                       \/ /\ adev.tty_mode = "OFF"
                          /\ Driven("HEADSET") \/ Driven("HEADPHONE")
                 call == TRUE
      <3>1. speaker \in BOOLEAN /\ hs \in BOOLEAN /\ call \in BOOLEAN /\ call
        BY DEF Driven
      <3>2. (on.speaker <=> speaker) /\ (on.headset \/ on.headphone <=> hs)
        BY <2>2
      <3>3. Plays(m, on, call)
        BY <1>1
      <3> HIDE DEF on, speaker, hs, call
      <3>4. /\ On("vx_dl2") <=> speaker
            /\ On("mm_dl2") <=> speaker
            /\ On("hf") <=> speaker
            /\ On("hs") <=> hs
        BY <1>2, <3>1, <3>2, <3>3, PlaysOn
      <3>5. /\ On("vx_dl2") = On("hf") /\ On("mm_dl2") = On("hf")
            /\ On("hf") = speaker /\ On("hs") = hs
        BY <3>1, <3>4, OnIsBoolean, SameTruth
      <3> QED
        BY <3>5 DEF CallPlays, speaker, hs
    <2> DEFINE mic == tx.headset \/ tx.headphone \/ tx.earpiece
    <2>4. /\ mic => m["mux_vx"] = "AMIC0"
          /\ ~mic /\ tx.speaker /\ board = "BLAZE" => m["mux_vx"] = "AMIC1"
          /\ ~mic /\ tx.speaker /\ board = "TABLET" => m["mux_vx"] = "DMIC0L"
          /\ board = "BLAZE" =>
               /\ m["left_capture"] = IF tx.earpiece \/ tx.headphone THEN "Main_Mic"
                                      ELSE IF tx.headset THEN "Headset_Mic" ELSE Off
               /\ m["right_capture"] = IF tx.speaker THEN "Sub_Mic" ELSE Off
          /\ board = "TABLET" =>
               m["left_capture"] = IF tx.headset THEN "Headset_Mic" ELSE Off
      BY <1>1, <2>1 DEF Listens
    <2>5. CallListens
      <3>1. adev.tty_mode = "OFF" /\ (Driven("EARPIECE") \/ Driven("HEADPHONE"))
              => tx.earpiece \/ tx.headphone
        BY <1>1, <2>1 DEF Tx, Rx, Selected, Driven
      <3>2. adev.tty_mode \in {"FULL", "HCO"}
              => tx.headset /\ ~tx.earpiece /\ ~tx.headphone
        BY DEF Tx, Only
      <3>3. /\ adev.tty_mode = "VCO" => ~mic /\ tx.speaker
            /\ adev.tty_mode = "OFF" /\ adev.outs \subseteq {"SPEAKER", "AUX_DIGITAL"}
                 => ~mic /\ tx.speaker
        <4>1. adev.tty_mode = "VCO" => ~mic /\ tx.speaker
          BY DEF Tx, Only
        <4>2. adev.tty_mode = "OFF" /\ adev.outs \subseteq {"SPEAKER", "AUX_DIGITAL"}
                => ~mic /\ tx.speaker
          BY <1>1, <2>1 DEF Tx, Rx, Selected
        <4> QED
          BY <4>1, <4>2
      <3> DEFINE main == /\ adev.tty_mode = "OFF"
                         /\ Driven("EARPIECE") \/ Driven("HEADPHONE")
                 sub == \/ adev.tty_mode = "VCO"
                        \/ /\ adev.tty_mode = "OFF"
                           /\ adev.outs \subseteq {"SPEAKER", "AUX_DIGITAL"}
      <3>4. /\ main => tx.earpiece \/ tx.headphone
            /\ sub => ~mic /\ tx.speaker
        <4>1. main => tx.earpiece \/ tx.headphone
          BY <3>1
        <4>2. sub => ~mic /\ tx.speaker
          BY <3>3
        <4> QED
          BY <4>1, <4>2
      <3> HIDE DEF tx, m, main, sub
      <3>5. main => /\ m["mux_vx"] = "AMIC0"
                    /\ board = "BLAZE" => m["left_capture"] = "Main_Mic"
        BY <2>4, <3>4
      <3>6. adev.tty_mode \in {"FULL", "HCO"} =>
                m["left_capture"] = "Headset_Mic" /\ m["mux_vx"] = "AMIC0"
        BY <2>1, <2>4, <3>2
      <3>7. sub => IF board = "BLAZE"
                   THEN m["right_capture"] = "Sub_Mic" /\ m["mux_vx"] = "AMIC1"
                   ELSE m["mux_vx"] = "DMIC0L"
        BY <2>1, <2>4, <3>4
      <3> QED
        BY <3>5, <3>6, <3>7 DEF CallListens, m, main, sub
    <2> QED
      BY <1>4, <2>3, <2>5
  <1> QED
    BY <1>3, <1>4

LEMMA RInvInput == IInv /\ RInv => MicFollowsSpeaker /\ InputRouted /\ VolumeForSource
  <1> SUFFICES ASSUME IInv, RInv PROVE MicFollowsSpeaker /\ InputRouted /\ VolumeForSource
    OBVIOUS
  <1>1. /\ adev.board_type = board /\ Records(adev, in) /\ (~force => Follows(adev, in))
    BY DEF IInv, IsSettled, RInv, Routed
  <1>2. MicFollowsSpeaker
    BY <1>1 DEF MicFollowsSpeaker, Follows, VoIPInput, Driven
  <1>3. InputRouted
    BY <1>1 DEF InputRouted, Records, OneMicrophone, On
  <1>4. VolumeForSource
    BY <1>1 DEF VolumeForSource, Records, Gain
  <1> QED
    BY <1>2, <1>3, <1>4

\* Music outside of a call is heard on the devices the framework selected and on no
\* other, whatever calls, standbys and failed starts came before
\* (start_output_stream, out_set_parameters).
THEOREM OutputRoutedHolds == Spec => []OutputRouted
  BY Invariant, RoutingInvariant, RInvOutput, PTL

\* A call is heard and picked up where its devices and its TTY mode want it, for as
\* long as it lasts (select_mode, adev_set_parameters).
THEOREM CallRoutedHolds == Spec => []CallRouted
  BY Invariant, RoutingInvariant, RInvCall, PTL

\* A running VoIP call uses the sub microphone exactly if it is on the speaker, but
\* for the moment in which out_write() has yet to force the input into standby.
THEOREM MicFollowsSpeakerHolds == Spec => []MicFollowsSpeaker
  BY Invariant, RoutingInvariant, RInvInput, PTL

\* What records outside of a call records from one microphone, that of its device
\* (start_input_stream, select_input_device).
THEOREM InputRoutedHolds == Spec => []InputRouted
  BY Invariant, RoutingInvariant, RInvInput, PTL

\* It does so with the gain of its source (set_input_volumes).
THEOREM VolumeForSourceHolds == Spec => []VolumeForSource
  BY Invariant, RoutingInvariant, RInvInput, PTL
===========================================================================
