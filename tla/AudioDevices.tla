----------------------------- MODULE AudioDevices -----------------------------
(***************************************************************************)
(* The microphones and speakers one may choose: rtc::google::audio_devices *)
(* over the audio device module of webrtc, audio_device_settings, and the  *)
(* lists of audio_video_settings_model.  A device is chosen by its row,    *)
(* the library takes an index into what is plugged in at that moment.      *)
(* Rows and indices count from 1, the code's from 0.                       *)
(***************************************************************************)
EXTENDS Naturals, Sequences, FiniteSets, SequencesExt

CONSTANTS Microphones, Speakers, NoDevice

ASSUME AudioDevicesAssumption ==
    /\ IsFiniteSet(Microphones) /\ IsFiniteSet(Speakers)
    /\ NoDevice \notin Microphones \cup Speakers

VARIABLES
    ports,    \* devices the computer has, as the library counts them
    listed,     \* recording_devices, playout_devices
    offered,    \* devices of the models, and available
    setting,    \* current_recording_device, current_output_device
    index,      \* audio_input_device_index, audio_output_device_index
    module,     \* the library: device in use, and whether it runs
    polling,    \* audio_devices_timer
    choice      \* history: what was chosen, when the list was true, what failed

devicesVars == <<ports, listed, offered, setting, index, module, polling, choice>>

Directions == {"recording", "playout"}
Kinds == [d \in Directions |-> IF d = "recording" THEN Microphones ELSE Speakers]
NoChoice == [device |-> NoDevice, true |-> FALSE, failed |-> FALSE]

-----------------------------------------------------------------------------
(* enumerate and the models                                                *)

\* The place of a number among others.
Rank(i, S) == Cardinality({j \in S : j <= i})

\* The names of the devices; one whose name cannot be had is left out.
Names(d, unnamed) ==
    LET named == {i \in DOMAIN ports[d] : ports[d][i] \notin unnamed}
        at == [row \in 1..Cardinality(named) |-> CHOOSE i \in named : Rank(i, named) = row]
    IN  [row \in DOMAIN at |-> [index |-> at[row], name |-> ports[d][at[row]]]]

NamesFound(unnamed) == [d \in Directions |-> Names(d, unnamed)]

\* Mutant: a list that changes is not available by that.
RefreshedRowsOnly(new) == [d \in Directions |-> [offered[d] EXCEPT !.devices = new[d]]]

\* refresh of both models; an empty list that stays empty is not available.
Refreshed(new) ==
    [d \in Directions |->
        IF new[d] = offered[d].devices THEN offered[d] ELSE [devices |-> new[d], available |-> TRUE]]

UpdateAudioDevices ==
    \E unnamed \in SUBSET (Microphones \cup Speakers) :
        /\ listed' = NamesFound(unnamed)
        /\ offered' = Refreshed(listed')
        /\ index' = setting
        /\ UNCHANGED <<ports, setting, module, polling, choice>>

Tick == polling /\ UpdateAudioDevices

EnablePolling ==
    /\ polling' = ~polling
    /\ UNCHANGED <<ports, listed, offered, setting, index, module, choice>>

-----------------------------------------------------------------------------
(* choosing                                                                *)

\* set_recording_device_on_thread and set_output_device_on_thread: stop, set,
\* init, start; the first call that fails ends it.  The results of the four.
Steps == {"stop", "set", "init", "start", "none"}

\* Mutant: a device that ran is not started again.
ModuleSetOnly(d, i, failing) ==
    LET m == module[d]
        stopped == IF m.runs /\ failing # "stop" THEN FALSE ELSE m.runs
    IN  [device |-> IF failing \in {"stop", "set"} THEN m.device ELSE ports[d][i],
         runs |-> stopped]

ModuleSet(d, i, failing) ==
    LET m == module[d]
    IN  [device |-> IF failing \in {"stop", "set"} THEN m.device ELSE ports[d][i],
         runs |-> m.runs /\ failing \in {"stop", "none"}]

Possible(d, i) ==
    {step \in Steps :
        /\ step \in {"stop", "init", "start"} => module[d].runs
        /\ step \notin {"stop", "set"} => i \in DOMAIN ports[d]}

\* onAudioInputDeviceActivated, onAudioOutputDeviceActivated: the setting is
\* the row, whether the library takes it or not.
Activate(d) ==
    \E i \in DOMAIN offered[d].devices : \E failing \in Possible(d, i) :
        /\ setting' = [setting EXCEPT ![d] = i]
        /\ module' = [module EXCEPT ![d] = ModuleSet(d, i, failing)]
        /\ choice' = [choice EXCEPT ![d] =
                        [device |-> offered[d].devices[i].name,
                         true |-> offered[d].devices = Names(d, {}),
                         failed |-> @.failed \/ failing # "none"]]
        /\ UNCHANGED <<ports, listed, offered, index, polling>>

-----------------------------------------------------------------------------
(* The library                                                             *)

\* The first track that is sent or heard starts the module, on its default.
ModuleStarts(d) ==
    /\ ~module[d].runs /\ ports[d] # <<>>
    /\ module' = [module EXCEPT ![d] = [device |-> IF @.device = NoDevice THEN ports[d][1] ELSE @.device,
                                        runs |-> TRUE]]
    /\ UNCHANGED <<ports, listed, offered, setting, index, polling, choice>>

PlugIn(d) ==
    \E x \in Kinds[d] \ ToSet(ports[d]) :
        \E at \in 1..(Len(ports[d]) + 1) :
            /\ ports' = [ports EXCEPT ![d] = InsertAt(@, at, x)]
            /\ UNCHANGED <<listed, offered, setting, index, module, polling, choice>>

Unplug(d) ==
    \E at \in DOMAIN ports[d] :
        /\ ports' = [ports EXCEPT ![d] = RemoveAt(@, at)]
        /\ UNCHANGED <<listed, offered, setting, index, module, polling, choice>>

-----------------------------------------------------------------------------
\* Devices in any order, each once.
Orders(S) == UNION {Injection(1..n, S) : n \in 0..Cardinality(S)}

\* The constructor of audio_video_settings_model enumerates.
DevicesInit ==
    /\ ports \in [Directions -> Orders(Microphones) \cup Orders(Speakers)]
    /\ \A d \in Directions : ports[d] \in Orders(Kinds[d])
    /\ listed = NamesFound({})
    /\ offered = [d \in Directions |-> [devices |-> listed[d], available |-> listed[d] # <<>>]]
    /\ setting = [d \in Directions |-> 1] /\ index = setting
    /\ module = [d \in Directions |-> [device |-> NoDevice, runs |-> FALSE]]
    /\ polling = FALSE
    /\ choice = [d \in Directions |-> NoChoice]

DevicesNext ==
    \/ Tick \/ EnablePolling
    \/ \E d \in Directions : Activate(d) \/ ModuleStarts(d) \/ PlugIn(d) \/ Unplug(d)

DevicesSpec == DevicesInit /\ [][DevicesNext]_devicesVars

-----------------------------------------------------------------------------
(* Every variable has its type.                                            *)
DevicesTypeOK ==
    /\ \A d \in Directions :
        /\ ports[d] \in Seq(Kinds[d]) /\ IsInjective(ports[d])
        /\ module[d].device \in Kinds[d] \cup {NoDevice}
        /\ choice[d].device \in Kinds[d] \cup {NoDevice}
    /\ polling \in BOOLEAN

(* Who chose a device from a list that was true uses it, however the       *)
(* devices are counted afterwards, unless a call failed                    *)
(* (rtc/google/audio_devices.cpp:47, :73).                                 *)
ChosenIsUsed ==
    \A d \in Directions :
        LET c == choice[d] IN c.true /\ ~c.failed => module[d].device = c.device

(* The offered are the devices of the last enumeration, in ascending       *)
(* order, and can be read: none is offered by a list that says there are   *)
(* none                                                                    *)
(* (app/audio_video_settings_devices_model.hpp:91, :105).                  *)
RowsCanBeRead ==
    \A d \in Directions :
        /\ offered[d].devices = listed[d]
        /\ offered[d].devices # <<>> => offered[d].available
        /\ \A i, j \in DOMAIN listed[d] : i < j => listed[d][i].index < listed[d][j].index

(* The devices one may choose, and the one in use, are those of the list.  *)
DevicesAreSound == DevicesTypeOK /\ ChosenIsUsed /\ RowsCanBeRead

(* Choosing another device does not stop the sound: what ran runs on,      *)
(* unless a call of the library failed in between                          *)
(* (rtc/google/audio_devices.cpp:57).                                      *)
SoundGoesOn ==
    [][\A d \in Directions : module[d].runs /\ ~module'[d].runs => choice'[d].failed]_devicesVars

=============================================================================
