----------------------------- MODULE ConfigFile -----------------------------
(***************************************************************************)
(* SIPEngine/config_file.c and config.c: sipcfg.ini is read line by line   *)
(* and every line that names an option sets it at once.                    *)
(*                                                                         *)
(* A line is a comment, a line in which strtok finds no option or no value *)
(* (an empty line is one), or an option with its value.  What a text       *)
(* option says is the number of its line, 0 before it is set, and whether  *)
(* that was the whole value, nothing, or the part before a second '='      *)
(* where strtok stops.  The limits of the buffers are left out.            *)
(***************************************************************************)
EXTENDS Integers, Sequences

CONSTANT
    MaxLines     \* bound: lines of sipcfg.ini

ASSUME ConfigConstants == MaxLines \in Nat

\* Options that are stored as they are.
TextOption == {"server", "username", "password", "stunserver", "stunport", "logfile"}

Input == {"usbcam", "usbmic", "headset", "file", "other"}

Form == {"whole", "cut", "empty"}

Line ==
    [option : {"comment", "nooption", "novalue", "unknown", "test"}]
    \cup [option : {"disablenat"}, value : {"yes", "other"}]
    \cup [option : {"input"}, value : Input]
    \cup [option : TextOption, form : Form]

VARIABLES
    file,        \* sipcfg.ini
    found,       \* whether it could be opened
    line,        \* the next line to read
    rc,          \* "reading", or what parseConfigFile returned
    text,        \* configServer, configUser, ...: [from, form] of each option
    configNat,
    switches     \* those of useVideo, useUsb, useHeadset, useInputFile,
                 \* useTestMode that are 1

vars == <<file, found, line, rc, text, configNat, switches>>

TypeOK ==
    /\ file \in Seq(Line) /\ found \in BOOLEAN
    /\ line \in 1 .. Len(file) + 1
    /\ rc \in {"reading", "0", "-1", "-2", "-3"}
    /\ text \in [TextOption -> [from : Nat, form : Form]]
    /\ configNat \in BOOLEAN
    /\ switches \subseteq {"video", "usb", "headset", "file", "test"}

Init ==
    /\ \E n \in 0 .. MaxLines : file \in [1 .. n -> Line]
    /\ found \in BOOLEAN
    /\ line = 1
    /\ rc = "reading"
    /\ text = [o \in TextOption |-> [from |-> 0, form |-> "empty"]]
    /\ configNat = FALSE
    /\ switches = {}

-----------------------------------------------------------------------------
\* The switches that an input turns on; none is ever turned off.
SwitchesOf(input) ==
    CASE input = "usbcam"  -> {"usb", "video"}
      [] input = "usbmic"  -> {"usb"}
      [] input = "headset" -> {"headset"}
      [] input = "file"    -> {"file"}
      [] OTHER             -> {}

\* Faulty variant of HandleText: the first value stays.
HandleTextFirst(l) ==
    /\ l.option \in TextOption
    /\ text' = IF text[l.option].from = 0
               THEN [text EXCEPT ![l.option] = [from |-> line, form |-> l.form]]
               ELSE text
    /\ configNat' = (configNat \/ l.option = "stunserver")
    /\ UNCHANGED switches

\* config_set_server, config_set_user, ...; a STUN server turns NAT traversal on.
HandleText(l) ==
    /\ l.option \in TextOption
    /\ text' = [text EXCEPT ![l.option] = [from |-> line, form |-> l.form]]
    /\ configNat' = (configNat \/ l.option = "stunserver")
    /\ UNCHANGED switches

\* config_set_nat_traversal(0) on "yes".
HandleDisableNat(l) ==
    /\ l.option = "disablenat"
    /\ configNat' = (configNat /\ l.value # "yes")
    /\ UNCHANGED <<text, switches>>

HandleInput(l) ==
    /\ l.option = "input"
    /\ switches' = switches \cup SwitchesOf(l.value)
    /\ UNCHANGED <<text, configNat>>

HandleTest(l) ==
    /\ l.option = "test"
    /\ switches' = switches \cup {"test"}
    /\ UNCHANGED <<text, configNat>>

\* handleOption: one of the above; an option it does not know is ignored.
HandleOption(l) ==
    \/ HandleText(l) \/ HandleDisableNat(l) \/ HandleInput(l) \/ HandleTest(l)
    \/ l.option = "unknown" /\ UNCHANGED <<text, configNat, switches>>

Reading == rc = "reading" /\ found /\ line <= Len(file)

\* One turn of the loop of parseConfigFile.
ReadOption ==
    /\ Reading
    /\ HandleOption(file[line])
    /\ line' = line + 1
    /\ UNCHANGED <<file, found, rc>>

SkipComment ==
    /\ Reading
    /\ file[line].option = "comment"
    /\ line' = line + 1
    /\ UNCHANGED <<file, found, rc, text, configNat, switches>>

\* A line without an option or a value ends the parse; the caller ignores the
\* result.
GiveUp ==
    /\ Reading
    /\ \/ file[line].option = "nooption" /\ rc' = "-2"
       \/ file[line].option = "novalue" /\ rc' = "-3"
    /\ UNCHANGED <<file, found, line, text, configNat, switches>>

EndOfFile ==
    /\ rc = "reading"
    /\ \/ ~found /\ rc' = "-1"
       \/ found /\ line > Len(file) /\ rc' = "0"
    /\ UNCHANGED <<file, found, line, text, configNat, switches>>

Next == ReadOption \/ SkipComment \/ GiveUp \/ EndOfFile

Spec == Init /\ [][Next]_vars

-----------------------------------------------------------------------------
\* The lines read so far that set an option to one of these values.
Says(P(_)) == {k \in 1 .. line - 1 : P(file[k])}

\* Each text option has the value of the last line read that names it (whole,
\* cut or empty as that line was), and nothing read before it shows: what
\* handleOption accumulates is the file read as a set of settings.
LastLineWins ==
    \A o \in TextOption :
        LET Names(l) == l.option = o
            lines == Says(Names)
        IN  IF lines = {} THEN text[o].from = 0
            ELSE /\ text[o].from \in lines
                 /\ \A k \in lines : k <= text[o].from
                 /\ text[o].form = file[text[o].from].form

\* Of the lines that name a STUN server and those that say disablenat=yes, the
\* last one decides about NAT traversal: a stunserver line turns it on again
\* below a disablenat line, and without one createLocalSdp asks no server.
NatIsLastLine ==
    LET Server(l) == l.option = "stunserver"
        Disable(l) == l.option = "disablenat" /\ l.value = "yes"
    IN  configNat <=> \E k \in Says(Server) : \A j \in Says(Disable) : j < k

\* Video is on only together with USB: createLocalSdp offers the camera's stream
\* only when SIPEngineInitialize has started the camera.
VideoHasUsb == "video" \in switches => "usb" \in switches

=============================================================================
