---------------------------- MODULE AudioRouting ----------------------------
(***************************************************************************)
(* The mixer of the audio HAL: which paths of the ABE and of the codec     *)
(* audio_hw.c opens and closes for modes, devices, TTY and use cases.      *)
(*                                                                         *)
(* All of this happens under the mutex of the device, so each entry point  *)
(* is one action; out_write(), which gives the mutex up before it forces   *)
(* the input into standby, is two.  AudioHal models the mutexes.  There is *)
(* one output and one input, as the framework runs them at a time.         *)
(***************************************************************************)
EXTENDS Naturals

CONSTANTS
    Boards,     \* of "BLAZE", "TABLET", "PANDA"
    Modes,      \* audio modes, "IN_CALL" among them
    OutSets,    \* sets of output devices the framework selects
    InDevices,  \* input devices, "SCO_MIC" for all that are bluetooth
    Sources     \* audio sources

\* A route of no devices, 0, is refused by set_parameters().
ASSUME NoDeviceIsNoRoute == {} \notin OutSets

OutDevices == {"SPEAKER", "EARPIECE", "HEADSET", "HEADPHONE", "SCO", "AUX_DIGITAL"}

ASSUME NamesKnown ==
    /\ Boards \subseteq {"BLAZE", "TABLET", "PANDA"}
    /\ {"NORMAL", "IN_CALL"} \subseteq Modes
    /\ OutSets \subseteq SUBSET OutDevices

\* The devices of the primary input in audio_policy.conf.
ASSUME InputsKnown == InDevices \subseteq {"BUILTIN_MIC", "HEADSET_MIC", "SCO_MIC"}

VARIABLES
    board,      \* the product, which get_boardtype() finds out
    adev,       \* omap4_audio_device, with what its mixer is set to
    in,         \* device and source of the input stream
    force       \* out_write() has yet to force the input into standby

vars == <<board, adev, in, force>>

\* The controls of the mixer.  "Enums are disabled by "Off" and integers/booleans
\* by 0", which is Off, too.  Left and right controls that are always set alike are
\* one.  Left out are those that only ever get one value, as in set_output_volumes().
Off == "Off"
Volumes == {"amic_ul", "dmic1_ul"}
Controls == {"mm_dl1", "mm_dl2", "vx_dl1", "vx_dl2", "dl1_headset", "dl1_bt",
    "mm_ext", "earpiece_enable", "hs", "hf", "mux_ul", "mux_vx", "voice_capture",
    "left_capture", "right_capture", "sidetone_capture"} \union Volumes

Bit(b) == IF b THEN "On" ELSE Off

-----------------------------------------------------------------------------
(***************************************************************************)
(* Routes: functions from controls to values.                              *)
(***************************************************************************)
defaults         == [dl1_headset |-> "On", sidetone_capture |-> Off]
hs_output        == [hs |-> "HS_DAC"]
hf_output        == [hf |-> "HF_DAC"]
fmtx_output_off  == [mm_ext |-> Off, dl1_headset |-> "On"]
mm_ul2(mic)      == [mux_ul |-> mic]
vx_ul(mic)       == [mux_vx |-> mic, voice_capture |-> "On"]

\* set_route_by_array()
Enable(mixer, route) ==
    [c \in Controls |-> IF c \in DOMAIN route THEN route[c] ELSE mixer[c]]
Disable(mixer, route) ==
    [c \in Controls |-> IF c \in DOMAIN route THEN Off ELSE mixer[c]]
SetRoute(mixer, route, enable) ==
    IF enable THEN Enable(mixer, route) ELSE Disable(mixer, route)

\* mixer_ctl_set_enum_by_string(): a string that no item has changes nothing,
\* as "off", for which the controls have "Off".
SetEnum(mixer, c, v) == IF v = "off" THEN mixer ELSE [mixer EXCEPT ![c] = v]

-----------------------------------------------------------------------------
(***************************************************************************)
(* set_input_volumes(), in dB above MIXER_ABE_GAIN_0DB.                    *)
(***************************************************************************)
InputVolume(a, source, main_mic_on, headset_mic_on, sub_mic_on) ==
    LET on == main_mic_on \/ headset_mic_on \/ sub_mic_on
    IN  CASE a.mode = "IN_CALL" -> IF on THEN 15 ELSE 0
          [] a.mode # "IN_CALL" /\ ~a.active_input -> 0
          [] OTHER ->
               CASE source = "MIC" /\ a.board_type = "TABLET" /\ main_mic_on -> 26
                 [] source = "MIC" /\ a.board_type = "PANDA" -> 0
                 [] source = "VOICE_RECOGNITION" -> IF on THEN 25 ELSE 0
                 [] source \notin {"MIC", "CAMCORDER", "VOICE_RECOGNITION",
                                   "VOICE_COMMUNICATION"} -> 0
                 [] OTHER -> IF on THEN 15 ELSE 0

SetInputVolumes(mixer, a, source, main_mic_on, headset_mic_on, sub_mic_on) ==
    LET volume == InputVolume(a, source, main_mic_on, headset_mic_on, sub_mic_on)
    IN  CASE a.board_type = "BLAZE"  -> [mixer EXCEPT !.amic_ul = volume]
          [] a.board_type = "TABLET" ->
               IF headset_mic_on THEN [mixer EXCEPT !.amic_ul = volume]
               ELSE [mixer EXCEPT !.dmic1_ul = volume]
          [] OTHER -> mixer

-----------------------------------------------------------------------------
(***************************************************************************)
(* select_output_device()                                                  *)
(***************************************************************************)
Only(d) == [p \in {"headset", "headphone", "speaker", "earpiece", "bt"} |-> p = d]

\* What the devices ask for, and "force rx path according to TTY mode when in
\* call".  The code does the latter a second time, with the same result.
Selected(a) ==
    [headset   |-> "HEADSET"   \in a.outs,
     headphone |-> "HEADPHONE" \in a.outs,
     speaker   |-> "SPEAKER"   \in a.outs,
     earpiece  |-> "EARPIECE"  \in a.outs,
     bt        |-> "SCO"       \in a.outs]

Rx(a) ==
    CASE a.mode # "IN_CALL" \/ "SCO" \in a.outs -> Selected(a)
      [] a.mode = "IN_CALL" /\ "SCO" \notin a.outs ->
           CASE a.tty_mode \in {"FULL", "VCO"} -> Only("headphone")
             [] a.tty_mode = "HCO" -> Only("speaker")
             [] a.tty_mode = "OFF" ->
                  [Selected(a) EXCEPT !.speaker = @ \/ "AUX_DIGITAL" \in a.outs]

\* "force tx path according to TTY mode when in call"
Tx(a) ==
    CASE a.tty_mode \in {"FULL", "HCO"} -> Only("headset")
      [] a.tty_mode = "VCO" -> Only("speaker")
      [] a.tty_mode = "OFF" -> Rx(a)

\* "Select front end", "select back end" and "select output stage".
SetPaths(mixer, on, call) ==
    LET dl1_on == on.headset \/ on.headphone \/ on.earpiece \/ on.bt
        hs_on  == on.headset \/ on.headphone
        paths  == [mm_dl2 |-> Bit(on.speaker), vx_dl2 |-> Bit(on.speaker /\ call),
                   mm_dl1 |-> Bit(dl1_on), vx_dl1 |-> Bit(dl1_on /\ call),
                   dl1_headset |-> Bit(hs_on \/ on.earpiece), dl1_bt |-> Bit(on.bt),
                   earpiece_enable |-> Bit(on.earpiece)]
    IN  SetRoute(SetRoute(Enable(mixer, paths), hs_output, hs_on), hf_output, on.speaker)

\* The input path of a call without bluetooth.
VoiceMux(mixer, a, tx) ==
    CASE tx.headset \/ tx.headphone \/ tx.earpiece -> Enable(mixer, vx_ul("AMIC0"))
      [] ~(tx.headset \/ tx.headphone \/ tx.earpiece) /\ a.board_type = "BLAZE" ->
           SetRoute(mixer, IF tx.speaker THEN vx_ul("AMIC1") ELSE vx_ul("AMIC0"),
                    tx.speaker)
      [] OTHER -> SetRoute(mixer, vx_ul("DMIC0L"), tx.speaker)

VoiceCapture(mixer, a, tx) ==
    CASE a.board_type = "BLAZE" ->
           SetEnum(SetEnum(mixer, "left_capture",
                           IF tx.earpiece \/ tx.headphone THEN "Main_Mic"
                           ELSE IF tx.headset THEN "Headset_Mic" ELSE Off),
                   "right_capture", IF tx.speaker THEN "Sub_Mic" ELSE Off)
      [] a.board_type = "TABLET" ->
           SetEnum(SetEnum(mixer, "left_capture",
                           IF tx.headset THEN "Headset_Mic" ELSE Off),
                   "right_capture", "off")

VoiceInput(mixer, a, source) ==
    IF "SCO" \in a.outs
    THEN [Enable(mixer, vx_ul("BT_Left")) EXCEPT !.sidetone_capture = Off]
    ELSE LET tx == Tx(a) IN
         [SetInputVolumes(VoiceCapture(VoiceMux(mixer, a, tx), a, tx), a, source,
                          tx.earpiece \/ tx.headphone, tx.headset, tx.speaker)
          EXCEPT !.sidetone_capture = Bit(tx.earpiece /\ a.sidetone_capture)]

OutputRoute(a, source) ==
    LET call == a.mode = "IN_CALL"
        once == Enable(SetPaths(a.mixer, Rx(a), call), fmtx_output_off)
    IN  CASE a.board_type = "PANDA" ->
               SetInputVolumes([Enable(a.mixer, hs_output) EXCEPT !.mm_dl1 = "On"],
                               a, source, FALSE, FALSE, TRUE)
          [] a.board_type # "PANDA" /\ call ->
               VoiceInput(SetPaths(once, Rx(a), call), a, source)
          [] OTHER -> once

select_output_device(a, source) == [a EXCEPT !.mixer = OutputRoute(a, source)]

-----------------------------------------------------------------------------
(***************************************************************************)
(* select_input_device()                                                   *)
(***************************************************************************)
\* "sub mic is used for camcorder or VoIP on speaker phone"
SubMic(a, source) ==
    /\ "SCO_MIC" \notin a.ins /\ a.mode # "IN_CALL" /\ a.active_input
    /\ \/ source = "CAMCORDER"
       \/ "SPEAKER" \in a.outs /\ source = "VOICE_COMMUNICATION"

Mic(a, source, device) ==
    device \in a.ins /\ "SCO_MIC" \notin a.ins /\ ~SubMic(a, source)

\* The digital microphones of the tablet come in pairs.
StereoOnly(a, source) ==
    a.board_type = "TABLET" /\ "SCO_MIC" \notin a.ins /\ ~Mic(a, source, "HEADSET_MIC")

MMRoute(a, source) ==
    LET sub == SubMic(a, source)
        main == Mic(a, source, "BUILTIN_MIC")
        headset == Mic(a, source, "HEADSET_MIC")
    IN  CASE "SCO_MIC" \in a.ins -> Enable(a.mixer, mm_ul2("BT_Left"))
          [] "SCO_MIC" \notin a.ins /\ a.board_type = "BLAZE" ->
               SetEnum(SetEnum(SetRoute(a.mixer,
                           mm_ul2(IF sub THEN "AMIC1" ELSE "AMIC0"), main \/ headset \/ sub),
                   "right_capture", IF sub THEN "Sub_Mic" ELSE Off),
                   "left_capture", IF main THEN "Main_Mic"
                                   ELSE IF headset THEN "Headset_Mic" ELSE Off)
          [] OTHER ->
               SetEnum(IF headset THEN Enable(a.mixer, mm_ul2("AMIC0"))
                       ELSE SetRoute(a.mixer, mm_ul2("DMIC0L"), main \/ sub),
                   "left_capture", IF main THEN "off"
                                   ELSE IF headset THEN "Headset_Mic" ELSE Off)

InputRoute(a, source) ==
    IF a.board_type = "PANDA"
    THEN SetInputVolumes(
             [Enable(a.mixer, mm_ul2("AMIC0")) EXCEPT !.left_capture = "Headset_Mic",
                                                      !.right_capture = "Headset_Mic"],
             a, source, FALSE, TRUE, FALSE)
    ELSE SetInputVolumes(MMRoute(a, source), a, source, Mic(a, source, "BUILTIN_MIC"),
                         Mic(a, source, "HEADSET_MIC"), SubMic(a, source))

select_input_device(a, source) ==
    [a EXCEPT !.mixer = InputRoute(a, source),
              !.input_requires_stereo =
                  IF a.board_type = "PANDA" THEN @ ELSE StereoOnly(a, source)]

-----------------------------------------------------------------------------
(***************************************************************************)
(* Standby.                                                                *)
(***************************************************************************)
do_output_standby(a) ==
    IF ~a.active_output THEN a
    ELSE [a EXCEPT
            !.active_output = FALSE,
            !.mixer = IF a.mode = "IN_CALL" THEN @
                      ELSE Disable(Disable(@, hs_output), hf_output)]

do_input_standby(a, source) ==
    CASE ~a.active_input -> a
      [] a.active_input /\ a.mode = "IN_CALL" -> [a EXCEPT !.active_input = FALSE]
      [] OTHER -> select_input_device([a EXCEPT !.active_input = FALSE, !.ins = {}], source)

force_all_standby(a, source) == do_input_standby(do_output_standby(a), source)

-----------------------------------------------------------------------------
(***************************************************************************)
(* The device opens.  get_boardtype() comes last: until then board_type is *)
(* 0, which is BLAZE.                                                      *)
(***************************************************************************)
adev_open(mixer, product) ==
    LET fresh == [board_type |-> "BLAZE", sidetone_capture |-> FALSE,
                  mode |-> "NORMAL", outs |-> {"SPEAKER"}, ins |-> {"BUILTIN_MIC"},
                  tty_mode |-> "OFF", in_call |-> FALSE, active_output |-> FALSE,
                  active_input |-> FALSE, input_requires_stereo |-> FALSE,
                  mixer |-> Enable(mixer, defaults)]
    IN  [select_output_device(fresh, "MIC") EXCEPT
            !.board_type = product, !.sidetone_capture = product = "BLAZE"]

Init ==
    /\ board \in Boards
    /\ adev = adev_open([c \in Controls |-> IF c \in Volumes THEN 0 ELSE Off], board)
    /\ in \in [device : InDevices, source : Sources]
    /\ force = FALSE

\* The process ends and is started again; the mixer keeps what it was set to.
Restart ==
    /\ adev' = adev_open(adev.mixer, board)
    /\ force' = FALSE
    /\ UNCHANGED <<board, in>>

-----------------------------------------------------------------------------
(***************************************************************************)
(* The mode.                                                               *)
(***************************************************************************)
\* Mutated LeaveCall: the output is not selected again.
LeaveCallKeepsOutput(a) ==
    select_input_device(force_all_standby([a EXCEPT !.in_call = FALSE], in.source),
                        in.source)

\* select_mode()
EnterCall(a) ==
    LET quiet == force_all_standby(a, in.source)
        routed == IF quiet.outs = {"SPEAKER"}
                  THEN [quiet EXCEPT !.outs = {"EARPIECE"}, !.ins = {"BUILTIN_MIC"}]
                  ELSE [quiet EXCEPT !.outs = @ \ {"SPEAKER"}]
    IN  [select_output_device(routed, in.source) EXCEPT !.in_call = TRUE]

LeaveCall(a) ==
    LET quiet == force_all_standby([a EXCEPT !.in_call = FALSE], in.source)
    IN  select_input_device(select_output_device(quiet, in.source), in.source)

select_mode(a) ==
    CASE a.mode = "IN_CALL" /\ ~a.in_call -> EnterCall(a)
      [] a.mode # "IN_CALL" /\ a.in_call -> LeaveCall(a)
      [] OTHER -> a

adev_set_mode(mode) ==
    /\ adev.mode # mode
    /\ adev' = select_mode([adev EXCEPT !.mode = mode])
    /\ UNCHANGED <<board, in, force>>

\* Mutated adev_set_tty_mode: the new mode waits for the next change of route.
adev_set_tty_mode_later(tty_mode) ==
    /\ tty_mode # adev.tty_mode
    /\ adev' = [adev EXCEPT !.tty_mode = tty_mode]
    /\ UNCHANGED <<board, in, force>>

\* adev_set_parameters()
adev_set_tty_mode(tty_mode) ==
    /\ tty_mode # adev.tty_mode
    /\ LET a == [adev EXCEPT !.tty_mode = tty_mode]
       IN  adev' = IF a.mode = "IN_CALL" THEN select_output_device(a, in.source) ELSE a
    /\ UNCHANGED <<board, in, force>>

-----------------------------------------------------------------------------
(***************************************************************************)
(* The output.                                                             *)
(***************************************************************************)
\* start_output_stream() fails if the pcm does not open; the route stays.
start_output_stream(a, opens) ==
    LET started == [a EXCEPT !.active_output = TRUE]
        routed == IF a.mode = "IN_CALL" THEN started
                  ELSE select_output_device(started, in.source)
    IN  [routed EXCEPT !.active_output = opens]

VoIPInput == adev.active_input /\ in.source = "VOICE_COMMUNICATION"

\* Mutated OutWrite: a microphone that may have changed is not looked at.
OutWriteKeepsInput(opens) ==
    /\ ~adev.active_output /\ ~force
    /\ adev' = start_output_stream(adev, opens)
    /\ UNCHANGED <<board, in, force>>

\* out_write() in standby, up to where it releases the device's mutex.
OutWrite(opens) ==
    /\ ~adev.active_output /\ ~force
    /\ adev' = start_output_stream(adev, opens)
    /\ force' = (opens /\ VoIPInput)
    /\ UNCHANGED <<board, in>>

\* The end of out_write().
ForceInputStandby ==
    /\ force
    /\ adev' = do_input_standby(adev, in.source)
    /\ force' = FALSE
    /\ UNCHANGED <<board, in>>

out_standby ==
    /\ adev.active_output
    /\ adev' = do_output_standby(adev)
    /\ UNCHANGED <<board, in, force>>

\* Mutated out_set_parameters: the devices are stored only.
out_set_devices(outs) ==
    /\ outs # adev.outs
    /\ adev' = [adev EXCEPT !.outs = outs]
    /\ UNCHANGED <<board, in, force>>

\* out_set_parameters().  A running output gets standby, and then the input, too,
\* if it is VoIP's.
out_set_parameters(outs) ==
    /\ outs # adev.outs
    /\ LET quiet == do_output_standby(adev)
           routed == select_output_device([quiet EXCEPT !.outs = outs], in.source)
       IN  adev' = IF adev.active_output /\ VoIPInput
                   THEN do_input_standby(routed, in.source) ELSE routed
    /\ UNCHANGED <<board, in, force>>

-----------------------------------------------------------------------------
(***************************************************************************)
(* The input.                                                              *)
(***************************************************************************)
\* Mutated StartInput: the device used before is not cleared.
StartInputKeepsDevice(opens) ==
    /\ ~adev.active_input
    /\ LET a == [adev EXCEPT !.active_input = TRUE]
           routed == IF a.mode = "IN_CALL" THEN a
                     ELSE select_input_device([a EXCEPT !.ins = @ \union {in.device}],
                                              in.source)
       IN  adev' = [routed EXCEPT !.active_input = opens]
    /\ UNCHANGED <<board, in, force>>

\* in_read() in standby: start_input_stream(), whose pcm may not open.
StartInput(opens) ==
    /\ ~adev.active_input
    /\ LET a == [adev EXCEPT !.active_input = TRUE]
           routed == IF a.mode = "IN_CALL" THEN a
                     ELSE select_input_device([a EXCEPT !.ins = {in.device}], in.source)
       IN  adev' = [routed EXCEPT !.active_input = opens]
    /\ UNCHANGED <<board, in, force>>

in_standby ==
    /\ adev.active_input
    /\ adev' = do_input_standby(adev, in.source)
    /\ UNCHANGED <<board, in, force>>

\* Mutated in_set_parameters: a running input goes on with a new source.
in_set_source_running(device, source) ==
    /\ in' = [device |-> device, source |-> source]
    /\ in' # in
    /\ adev' = IF device = in.device THEN adev ELSE do_input_standby(adev, source)
    /\ UNCHANGED <<board, force>>

\* Mutated in_set_parameters: a running input goes on with a new device.
in_set_device_running(device, source) ==
    /\ in' = [device |-> device, source |-> source]
    /\ in' # in
    /\ adev' = IF source = in.source THEN adev ELSE do_input_standby(adev, source)
    /\ UNCHANGED <<board, force>>

\* in_set_parameters(): the new source is stored before the standby.
in_set_parameters(device, source) ==
    /\ in' = [device |-> device, source |-> source]
    /\ in' # in
    /\ adev' = do_input_standby(adev, source)
    /\ UNCHANGED <<board, force>>

Next ==
    \/ Restart
    \/ \E mode \in Modes : adev_set_mode(mode)
    \/ \E tty_mode \in {"OFF", "VCO", "HCO", "FULL"} : adev_set_tty_mode(tty_mode)
    \/ \E opens \in BOOLEAN : OutWrite(opens) \/ StartInput(opens)
    \/ ForceInputStandby \/ out_standby \/ in_standby
    \/ \E outs \in OutSets : out_set_parameters(outs)
    \/ \E device \in InDevices, source \in Sources : in_set_parameters(device, source)

Spec == Init /\ [][Next]_vars

-----------------------------------------------------------------------------
(***************************************************************************)
(* Properties.                                                             *)
(***************************************************************************)
Mics == {Off, "Main_Mic", "Headset_Mic", "Sub_Mic"}

\* The state is well formed: there is at most one input device, every control has
\* one of its items, and the call is what the mode says.
TypeOK ==
    /\ board \in Boards /\ force \in BOOLEAN
    /\ in \in [device : InDevices, source : Sources]
    /\ adev.board_type = board /\ adev.mode \in Modes
    /\ adev.outs \subseteq OutDevices /\ adev.outs # {}
    /\ adev.ins \in {{}} \union {{d} : d \in InDevices \union {"BUILTIN_MIC"}}
    /\ adev.in_call = (adev.mode = "IN_CALL")
    /\ DOMAIN adev.mixer = Controls
    /\ adev.mixer.hs \in {Off, "HS_DAC"} /\ adev.mixer.hf \in {Off, "HF_DAC"}
    /\ adev.mixer.left_capture \in Mics /\ adev.mixer.right_capture \in Mics
    /\ adev.mixer.mux_ul \in {Off, "BT_Left", "AMIC0", "AMIC1", "DMIC0L"}
    /\ adev.mixer.mux_vx \in {Off, "BT_Left", "AMIC0", "AMIC1", "DMIC0L"}
    /\ adev.mixer.amic_ul \in 0 .. 26 /\ adev.mixer.dmic1_ul \in 0 .. 26

On(c) == adev.mixer[c] # Off
Driven(d) == d \in adev.outs

\* Music that is being written outside of a call comes out where the framework
\* wants it and nowhere else, whatever standby, calls and failed starts have
\* done to the stages before (start_output_stream, out_set_parameters).
OutputRouted ==
    adev.active_output /\ adev.mode # "IN_CALL" =>
        IF board = "PANDA" THEN On("mm_dl1") /\ On("hs")
        ELSE /\ On("mm_dl2") = Driven("SPEAKER") /\ On("hf") = Driven("SPEAKER")
             /\ On("mm_dl1") = (\E d \in OutDevices \ {"SPEAKER", "AUX_DIGITAL"} : Driven(d))
             /\ On("hs") = (Driven("HEADSET") \/ Driven("HEADPHONE"))
             /\ On("earpiece_enable") = Driven("EARPIECE")
             /\ On("dl1_bt") = Driven("SCO")

\* The voice of the modem is heard in calls only, even if the process ended in
\* one and the mixer stayed as it was (LeaveCall, adev_open).
VoiceOnlyInCall == adev.mode # "IN_CALL" => ~On("vx_dl1") /\ ~On("vx_dl2")

\* What a call without bluetooth plays on and listens to, by TTY mode: the other
\* party's text or voice on the headset or the speaker, and the microphone that
\* stands for the half that is not TTY.  Streams that start and stop during the
\* call change none of it.
CallPlays ==
    /\ On("vx_dl2") = On("hf") /\ On("mm_dl2") = On("hf")
    /\ On("hf") = \/ adev.tty_mode = "HCO"
                  \/ adev.tty_mode = "OFF" /\ (Driven("SPEAKER") \/ Driven("AUX_DIGITAL"))
    /\ On("hs") = \/ adev.tty_mode \in {"FULL", "VCO"}
                  \/ adev.tty_mode = "OFF" /\ (Driven("HEADSET") \/ Driven("HEADPHONE"))

CallListens ==
    LET main == adev.tty_mode = "OFF" /\ (Driven("EARPIECE") \/ Driven("HEADPHONE"))
        headset == adev.tty_mode \in {"FULL", "HCO"}
        sub == \/ adev.tty_mode = "VCO"
               \/ adev.tty_mode = "OFF" /\ adev.outs \subseteq {"SPEAKER", "AUX_DIGITAL"}
    IN  /\ main => /\ adev.mixer.mux_vx = "AMIC0"
                   /\ board = "BLAZE" => adev.mixer.left_capture = "Main_Mic"
        /\ headset => adev.mixer.left_capture = "Headset_Mic" /\ adev.mixer.mux_vx = "AMIC0"
        /\ sub => IF board = "BLAZE" THEN /\ adev.mixer.right_capture = "Sub_Mic"
                                          /\ adev.mixer.mux_vx = "AMIC1"
                  ELSE adev.mixer.mux_vx = "DMIC0L"

CallRouted ==
    adev.in_call /\ board # "PANDA" =>
        IF Driven("SCO") THEN On("dl1_bt") /\ On("vx_dl1") /\ adev.mixer.mux_vx = "BT_Left"
        ELSE CallPlays /\ CallListens

\* A VoIP call on the speaker is picked up by the sub microphone, one that is not
\* by another: out_write() and out_set_parameters() force the input into standby
\* so that its next read selects the microphone anew.
MicFollowsSpeaker ==
    /\ board = "BLAZE" /\ adev.mode # "IN_CALL" /\ ~force
    /\ adev.active_output /\ VoIPInput /\ "SCO_MIC" \notin adev.ins
    => (adev.mixer.right_capture = "Sub_Mic") = Driven("SPEAKER")

\* An input that records outside of a call records from its device, and what is
\* captured is what the front end reads: one microphone, on its side.
InputRouted ==
    adev.active_input /\ adev.mode # "IN_CALL" =>
        /\ adev.ins = {in.device}
        /\ board # "PANDA" /\ in.device = "SCO_MIC" => adev.mixer.mux_ul = "BT_Left"
        /\ board = "BLAZE" /\ in.device # "SCO_MIC" =>
             /\ On("left_capture") # On("right_capture")
             /\ adev.mixer.mux_ul = IF On("left_capture") THEN "AMIC0" ELSE "AMIC1"
        /\ board = "TABLET" /\ in.device # "SCO_MIC" =>
             /\ adev.input_requires_stereo = (adev.mixer.mux_ul = "DMIC0L")
             /\ adev.mixer.mux_ul = "AMIC0" => adev.mixer.left_capture = "Headset_Mic"

\* A microphone that records has the gain of the use case it records for, not of
\* the one it recorded for before, nor that of a call.
VolumeForSource ==
    adev.active_input /\ adev.mode # "IN_CALL" /\ board = "BLAZE" =>
        adev.mixer.amic_ul =
            CASE in.device = "SCO_MIC" -> 0
              [] in.device # "SCO_MIC" /\ in.source = "VOICE_RECOGNITION" -> 25
              [] in.device # "SCO_MIC"
                 /\ in.source \in {"MIC", "CAMCORDER", "VOICE_COMMUNICATION"} -> 15
              [] OTHER -> 0

\* do_output_standby() leaves the output stage of a stream that goes to standby in
\* a call on: "This will be done when the call is ended" (audio_hw.c:1545).
CallEndTurnsStageOff ==
    [][(\E mode \in Modes : adev_set_mode(mode)) /\ adev.in_call /\ ~adev'.in_call
           => adev'.mixer.hs = Off /\ adev'.mixer.hf = Off]_vars
=============================================================================
