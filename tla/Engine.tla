------------------------------- MODULE Engine -------------------------------
(***************************************************************************)
(* SIPEngineInitialize (SIPEngine/sipengine.c): the settings are read,     *)
(* then the address book, then the devices are started one after the       *)
(* other; only when all of it has worked can calls be made and the         *)
(* contact menu be used.  Composes ConfigFile, ContactList and Media.      *)
(*                                                                         *)
(* Whether a module, a driver or a device starts is chosen freely at each  *)
(* step; the wait for the USB cable ends when it is plugged in, or never.  *)
(***************************************************************************)
EXTENDS Media, ContactList

VARIABLES
    phase,    \* the step SIPEngineInitialize is at, "running" or "failed"
    usb       \* the USB drivers that run, in the order they were started

engineVars == <<phase, usb>>

allVars == <<vars, listVars, mediaVars, engineVars>>

EngineInit ==
    /\ Init /\ BookInit /\ MediaInit
    /\ phase = "parseConfigFile" /\ usb = << >>

config_use_usb == "usb" \in switches

restVars == <<mediaVars, usb>>

\* The result of parseConfigFile is not looked at.
Parsing ==
    \/ /\ phase = "parseConfigFile" /\ Next
       /\ phase' = IF rc' = "reading" THEN phase ELSE "parseAddressbook"
       /\ UNCHANGED <<listVars, restVars>>
    \/ /\ phase = "parseAddressbook" /\ (ParseLine \/ Deliver \/ NotFound)
       /\ phase' = IF status' = "ready" THEN "LoadModules" ELSE phase
       /\ UNCHANGED <<vars, restVars>>

\* AudioFreq.prx, and with a USB device usbacc and the module of the device.
LoadModules ==
    /\ phase = "LoadModules"
    /\ phase' \in {"failed", IF config_use_usb THEN "StartUsb" ELSE "initAudio"}
    /\ UNCHANGED <<vars, listVars, restVars>>

\* The drivers StartUsb starts, in order.
Drivers ==
    <<"usbbus", "usbacc">>
    \o IF config_get_use_video THEN <<"usbcam", "usbcammic">> ELSE <<"usbmic">>

\* A driver that fails ends the startup and leaves those before it running.
StartUsb ==
    /\ phase = "StartUsb"
    /\ \E n \in 0 .. Len(Drivers) :
          /\ usb' = SubSeq(Drivers, 1, n)
          /\ phase' = IF n = Len(Drivers) THEN "sceUsbActivate" ELSE "failed"
    /\ UNCHANGED <<vars, listVars, mediaVars>>

sceUsbActivate ==
    /\ phase = "sceUsbActivate"
    /\ phase' \in {"failed", "sceUsbGetState"}
    /\ UNCHANGED <<vars, listVars, restVars>>

\* The device is connected.  A camera that does not start leaves
\* isVidAvailable down and the startup goes on.
initVideo ==
    /\ phase = "sceUsbGetState"
    /\ isVidAvailable' \in {FALSE, config_get_use_video}
    /\ phase' = "initAudio"
    /\ UNCHANGED <<vars, listVars, usb, portCount, audioPort, videoPort, local, remote,
                  session, videoSession, stopVideo, over>>

\* A microphone, a headset or audio.wav may fail; with no input nothing can.
initAudio ==
    /\ phase = "initAudio"
    /\ phase' \in {"eXosip_init"}
                  \cup IF switches \cap {"usb", "headset", "file"} = {} THEN {} ELSE {"failed"}
    /\ UNCHANGED <<vars, listVars, restVars>>

\* eXosip_init, ortp_init, eXosip_listen_addr (eXosip_quit when it fails),
\* the credentials and setupCallThread.
Listen ==
    /\ phase = "eXosip_init"
    /\ phase' \in {"failed", "running"}
    /\ UNCHANGED <<vars, listVars, restVars>>

\* main leaves SIPEngineInitialize: the keys and CallThread act from now on.
Running ==
    /\ phase = "running" /\ status = "ready"
    /\ \/ (Down \/ Up \/ Cross) /\ UNCHANGED mediaVars
       \/ MediaNext /\ UNCHANGED listVars
    /\ UNCHANGED <<vars, engineVars>>

EngineNext ==
    \/ Parsing \/ LoadModules \/ StartUsb \/ sceUsbActivate \/ initVideo \/ initAudio
    \/ Listen \/ Running

EngineSpec == EngineInit /\ [][EngineNext]_allVars

-----------------------------------------------------------------------------
\* A video stream is opened only over a camera whose drivers run: the settings
\* that ask for video ask for USB as well, the camera's own drivers were started
\* for it and no step on the way was skipped.  The calls come long after the
\* line of sipcfg.ini that decides it.
VideoOverCamera ==
    videoSession # None =>
        config_use_usb /\ \E k \in 1 .. Len(usb) : usb[k] = "usbcam"
=============================================================================
