------------------------------- MODULE Media --------------------------------
(***************************************************************************)
(* The studio (src/media_bridge.rs): devices that the mixer and the media  *)
(* bridges of the pool share, cameras, displays, the director's console,   *)
(* and the video streams that are throttled when the machine is loaded.    *)
(* Nothing of it talks to a device yet: the operations change the tables.  *)
(* The program sets it up with an empty configuration; here any may be.    *)
(*                                                                         *)
(* Cameras and streams are lists: one that is added again under its name   *)
(* does not shadow the first, which is found.  One display stands for any. *)
(***************************************************************************)
EXTENDS Naturals, Sequences

CONSTANTS
    Devices, Scenes,
    MaxEntries      \* bound: cameras added, streams registered

VARIABLES
    devices,        \* each device: its system, scene, and whether it streams
    cameras,        \* whether each camera streams; all have one name
    displays,       \* what each display shows, and whether it is active
    director,       \* the scene of the console: its sources and the active one
    control         \* the throttled streams

mediaVars == <<devices, cameras, displays, director, control>>
studioVars == <<cameras, displays, director, control>>

Systems == {"Obs", "Rtmp"}   \* an NDI device has nothing that changes
NoDevice == [system |-> "none", scene |-> "none", streaming |-> FALSE]
Outputs == {"tv"}
Priorities == {"Critical", "Low"}   \* High, Normal act as Critical; Background as Low

MediaInit ==
    /\ devices = [d \in Devices |-> NoDevice]
    /\ cameras = <<>>
    /\ displays = [o \in Outputs |-> [source |-> "none", active |-> FALSE]]
    /\ director = [sources |-> {}, active |-> "none"]
    /\ control = <<>>

-----------------------------------------------------------------------------
(* The devices.                                                            *)

(* A second device of a name replaces the first, whatever its system.      *)
register_device(d, s) ==
    /\ devices' = [devices EXCEPT ![d] = [system |-> s, scene |-> "none", streaming |-> FALSE]]
    /\ UNCHANGED studioVars

(* obs_switch_scene of the mixer, switch_scene of a bridge: all of them.   *)
SwitchAll(scene) == devices' =
    [d \in Devices |-> IF devices[d].system = "Obs"
                       THEN [devices[d] EXCEPT !.scene = scene] ELSE devices[d]]

(* An OBS bridge without a scene in its command switches to "default".     *)
Call(scene) == SwitchAll(scene) /\ UNCHANGED studioVars

(* start_rtmp_stream, stop_stream: the platform that is named is not asked *)
(* for.  A command to an RTMP bridge says so too, and changes nothing.     *)
RtmpStream(on) ==
    /\ devices' = [d \in Devices |-> IF devices[d].system = "Rtmp"
                       THEN [devices[d] EXCEPT !.streaming = on] ELSE devices[d]]
    /\ UNCHANGED studioVars

(* process_finding: scenes and commands of agents.                         *)
process_finding ==
    \/ \E scene \in Scenes : SwitchAll(scene) /\ UNCHANGED studioVars
    \/ \E on \in BOOLEAN : RtmpStream(on)

-----------------------------------------------------------------------------
(* Cameras: add_camera asks not whether the name is taken.                 *)

add_camera ==
    /\ Len(cameras) < MaxEntries
    /\ cameras' = Append(cameras, FALSE)
    /\ UNCHANGED <<devices, displays, director, control>>

Find == 1

Stream(on) ==
    /\ cameras # <<>>
    /\ cameras' = [cameras EXCEPT ![Find] = on]
    /\ UNCHANGED <<devices, displays, director, control>>

-----------------------------------------------------------------------------
(* The director's console and the displays.                                *)

(* The active source need not be one of the scene's.                       *)
switch_source(s) ==
    /\ director' = [director EXCEPT !.active = s]
    /\ UNCHANGED <<devices, cameras, displays, control>>

add_source(s) ==
    /\ director' = [director EXCEPT !.sources = @ \cup {s}]
    /\ UNCHANGED <<devices, cameras, displays, control>>

route(s, o) ==
    /\ displays' = [displays EXCEPT ![o] = [source |-> s, active |-> TRUE]]
    /\ UNCHANGED <<devices, cameras, director, control>>

disconnect(o) ==
    /\ displays' = [displays EXCEPT ![o] = [source |-> "none", active |-> FALSE]]
    /\ UNCHANGED <<devices, cameras, director, control>>

-----------------------------------------------------------------------------
(* VideoAgentManager.                                                      *)

register_stream(p) ==
    /\ Len(control) < MaxEntries
    /\ control' = Append(control, [priority |-> p, enabled |-> TRUE, fps |-> 30, kbps |-> 10000])
    /\ UNCHANGED <<devices, cameras, displays, director>>

(* Mutant: throttling goes on while there are frames.                      *)
SpareAll(s) == s.fps > 0
Spare(s) == s.fps > 5

(* Nothing restores what was stopped or halved.                            *)
Throttled(s) ==
    IF ~s.enabled THEN s
    ELSE IF s.priority = "Low" THEN [s EXCEPT !.enabled = FALSE]
    ELSE IF Spare(s) THEN [s EXCEPT !.fps = @ \div 2, !.kbps = @ \div 2]
    ELSE s

(* throttle_if_needed, when the processor or the memory is loaded.         *)
throttle_if_needed ==
    /\ control' = [i \in DOMAIN control |-> Throttled(control[i])]
    /\ UNCHANGED <<devices, cameras, displays, director>>

MediaNext ==
    \/ process_finding \/ add_camera \/ throttle_if_needed
    \/ \E d \in Devices, s \in Systems : register_device(d, s)
    \/ \E scene \in Scenes \cup {"default"} : Call(scene)
    \/ \E on \in BOOLEAN : Stream(on)
    \/ switch_source("camera") \/ add_source("camera")
    \/ \E o \in Outputs : route("camera", o) \/ disconnect(o)
    \/ \E p \in Priorities : register_stream(p)

MediaSpec == MediaInit /\ [][MediaNext]_mediaVars

-----------------------------------------------------------------------------
(* However long the load lasts, a stream above Low priority keeps running, *)
(* with three frames a second and an eighth of its bitrate at least        *)
(* (throttle_if_needed).                                                   *)
StreamFloor == \A i \in DOMAIN control : control[i].priority # "Low" =>
    /\ control[i].enabled /\ control[i].fps >= 3 /\ control[i].kbps >= 10000 \div 8

(* A stream of Critical priority is "always the full stream" (the comment  *)
(* of StreamPriority): it keeps the rates it was registered with.          *)
CriticalKeepsFull == \A i \in DOMAIN control : control[i].priority = "Critical" =>
    control[i].enabled /\ control[i].fps = 30 /\ control[i].kbps = 10000
=============================================================================
