---------------------------------- MODULE Core ----------------------------------
(***************************************************************************)
(* core/core.cpp and core/usb/usb_gadget.cpp: the steps of Core::Run(),    *)
(* from the constructor to the running pipeline, and the USB gadget that   *)
(* they leave in configfs.                                                 *)
(*                                                                         *)
(* The gadget outlives the process: any exception ends the program, which  *)
(* can be started again and then finds what it has left behind.  Nothing   *)
(* but a reboot empties configfs; RemoveGadgets() has no caller.           *)
(***************************************************************************)
EXTENDS Integers

CONSTANTS
    Mice,             \* the mice that can be plugged in
    Vendor, Product,  \* their identifiers
    NoMouse,
    MaxDisturbances   \* bound: how often the environment disturbs the program

ASSUME MiceAssumption ==
    /\ NoMouse \notin Mice
    /\ Vendor \in [Mice -> Nat \ {0}]
    /\ Product \in [Mice -> Nat \ {0}]
    /\ MaxDisturbances \in Nat

VARIABLES
    plugged,       \* the mice that are plugged in
    disturbances,  \* how often the environment has disturbed the program
    stage,         \* configfs: how far the gadget has been created
    vid, pid,      \* configfs: the gadget's identifiers
    phase,         \* where Core::Run() is
    u_gadget,      \* usbg_get_gadget() has found a gadget
    identifier,    \* what Open() is to look for
    mouse,         \* the mouse that Open() has claimed
    found,         \* history: the stage in which this process has found the gadget
    served         \* history: the mice forwarded through the gadget since the last boot

environment == <<plugged, disturbances>>
configfs == <<stage, vid, pid>>
process == <<phase, u_gadget, identifier, mouse, found>>
vars == <<environment, configfs, process, served>>

\* The stages of the gadget.
Absent == 0
Empty == 1        \* mkdir
HasVendor == 2    \* idVendor is written
HasAttrs == 3     \* idProduct and the strings too: usbg_create_gadget() is done
HasFunction == 4
HasConfig == 5
Linked == 6
Enabled == 7

Init ==
    /\ plugged \in SUBSET Mice /\ disturbances = 0
    /\ stage = Absent /\ vid = 0 /\ pid = 0
    /\ phase = "off" /\ u_gadget = FALSE
    /\ identifier = <<0, 0>> /\ mouse = NoMouse
    /\ found = Absent /\ served = {}

-------------------------------------------------------------------------------
(* The steps of the program.                                               *)

Disturb == disturbances < MaxDisturbances /\ disturbances' = disturbances + 1

\* The end of the process, by an exception that nobody catches or by a signal.
Ends ==
    /\ phase' = "off" /\ u_gadget' = FALSE /\ identifier' = <<0, 0>> /\ mouse' = NoMouse
    /\ found' = Absent

Goto(from, to) == phase = from /\ phase' = to

\* Somebody starts the program: the constructor looks for the gadget.
Construct ==
    /\ Goto("off", "setup")
    /\ u_gadget' = (stage # Absent)
    /\ found' = stage
    /\ UNCHANGED <<environment, configfs, identifier, mouse, served>>

\* GetConfiguredIdentifier(), when it can read the attributes.
ConfiguredIdentifier == IF u_gadget THEN <<vid, pid>> ELSE <<0, 0>>

\* Mutant of Setup: any mouse will do.
SetupAnyMouse ==
    /\ Goto("setup", "open")
    /\ UNCHANGED <<environment, configfs, u_gadget, identifier, mouse, found, served>>

Setup ==
    /\ Goto("setup", "open")
    /\ identifier' = ConfiguredIdentifier
    /\ UNCHANGED <<environment, configfs, u_gadget, mouse, found, served>>

\* The attributes cannot be read, which looks as if there were no gadget.  (When
\* CheckExistingGadget() cannot read them, nothing matches: that is a failure.)
SetupUnread ==
    /\ Disturb
    /\ Goto("setup", "open")
    /\ u_gadget
    /\ identifier' = <<0, 0>>
    /\ UNCHANGED <<plugged, configfs, u_gadget, mouse, found, served>>

\* Open() filters by the identifier only if both of its parts are there.
Candidates(id) ==
    {m \in plugged : id[1] # 0 /\ id[2] # 0 => Vendor[m] = id[1] /\ Product[m] = id[2]}

Open ==
    /\ phase = "open"
    /\ \/ /\ Candidates(identifier) = {}  \* "USB device not found"
          /\ Ends
       \/ \E m \in Candidates(identifier) :
             mouse' = m /\ phase' = "configure" /\ UNCHANGED <<u_gadget, identifier, found>>
    /\ UNCHANGED <<environment, configfs, served>>

\* CheckExistingGadget()
IsGadgetOf(m) == ConfiguredIdentifier = <<Vendor[m], Product[m]>>

\* Mutant of Configure: a gadget that is there is taken for the mouse's own.
ConfigureTrusting ==
    /\ phase = "configure"
    /\ phase' = IF u_gadget THEN "connect" ELSE "create"
    /\ UNCHANGED <<environment, configfs, u_gadget, identifier, mouse, found, served>>

\* Mutant of Configure: a gadget of another device is completed.
ConfigureCompletes ==
    /\ phase = "configure"
    /\ phase' = IF u_gadget /\ IsGadgetOf(mouse) THEN "connect" ELSE "create"
    /\ UNCHANGED <<environment, configfs, u_gadget, identifier, mouse, found, served>>

Configure ==
    /\ phase = "configure"
    /\ \/ u_gadget /\ ~IsGadgetOf(mouse) /\ Ends
       \/ /\ phase' = IF u_gadget THEN "connect" ELSE "create"
          /\ u_gadget => IsGadgetOf(mouse)
          /\ UNCHANGED <<u_gadget, identifier, mouse, found>>
    /\ UNCHANGED <<environment, configfs, served>>

\* Mutant of CreateGadget: the product is written with the configuration.
CreateProductLate ==
    /\ phase = "create" /\ stage < Enabled
    /\ stage' = stage + 1
    /\ phase' = IF stage' = Enabled THEN "connect" ELSE phase
    /\ vid' = IF stage' = HasVendor THEN Vendor[mouse] ELSE vid
    /\ pid' = IF stage' = HasConfig THEN Product[mouse] ELSE pid
    /\ u_gadget' = TRUE
    /\ UNCHANGED <<environment, identifier, mouse, found, served>>

\* CreateGadget(), one change of configfs at a time.
CreateGadget ==
    /\ phase = "create" /\ stage < Enabled
    /\ stage' = stage + 1
    /\ phase' = IF stage' = Enabled THEN "connect" ELSE phase
    /\ vid' = IF stage' = HasVendor THEN Vendor[mouse] ELSE vid
    /\ pid' = IF stage' = HasAttrs THEN Product[mouse] ELSE pid
    /\ u_gadget' = TRUE
    /\ UNCHANGED <<environment, identifier, mouse, found, served>>

\* /dev/hidg0 is there only when the gadget is enabled.
ConnectOutput ==
    /\ phase = "connect"
    /\ \/ stage # Enabled /\ Ends
       \/ stage = Enabled /\ phase' = "read" /\ UNCHANGED <<u_gadget, identifier, mouse, found>>
    /\ UNCHANGED <<environment, configfs, served>>

\* From here on the mouse's reports are forwarded.
StartReadInput ==
    /\ Goto("read", "load")
    /\ served' = served \cup {mouse}
    /\ UNCHANGED <<environment, configfs, u_gadget, identifier, mouse, found>>

\* LoadModel(), SetMoveCallback() and the start of the aimbot's Run().
RunAimbot ==
    /\ Goto("load", "running")
    /\ UNCHANGED <<environment, configfs, u_gadget, identifier, mouse, found, served>>

-------------------------------------------------------------------------------
(* The environment.                                                        *)

\* The process is killed between two steps.
Crash ==
    /\ Disturb
    /\ phase # "off"
    /\ Ends
    /\ UNCHANGED <<plugged, configfs, served>>

\* A call fails and its exception ends the program.  Only usbg_create_gadget()
\* cleans up after itself; where it cannot, because it has made the directory of
\* the strings, the gadget is left with its attributes, as by the next call.
Fail ==
    /\ Disturb
    /\ phase # "off"
    /\ Ends
    /\ IF phase = "create" /\ stage < HasAttrs
       THEN stage' = Absent /\ vid' = 0 /\ pid' = 0
       ELSE UNCHANGED configfs
    /\ UNCHANGED <<plugged, served>>

\* A mouse is plugged in or out.  The process is not told.
Plug ==
    /\ Disturb
    /\ \E m \in Mice : plugged' = IF m \in plugged THEN plugged \ {m} ELSE plugged \cup {m}
    /\ UNCHANGED <<configfs, process, served>>

Reboot ==
    /\ Disturb
    /\ Ends
    /\ stage' = Absent /\ vid' = 0 /\ pid' = 0
    /\ served' = {}
    /\ UNCHANGED plugged

-------------------------------------------------------------------------------
Program ==
    \/ Construct \/ Setup \/ Open \/ Configure \/ CreateGadget \/ ConnectOutput
    \/ StartReadInput \/ RunAimbot

Next == Program \/ SetupUnread \/ Crash \/ Fail \/ Plug \/ Reboot

Spec == Init /\ [][Next]_vars

\* The process runs, and is started again whenever it has ended.
FairSpec == Spec /\ WF_vars(Program)

-------------------------------------------------------------------------------
(* Correctness.                                                            *)

Phases == {"off", "setup", "open", "configure", "create", "connect", "read", "load", "running"}

\* Every variable has its type, and the identifiers are there from their stage on.
TypeOK ==
    /\ plugged \subseteq Mice /\ served \subseteq Mice
    /\ disturbances \in 0..MaxDisturbances
    /\ stage \in Absent..Enabled /\ found \in Absent..Enabled
    /\ vid \in Nat /\ (vid # 0 <=> stage >= HasVendor)
    /\ pid \in Nat /\ (pid # 0 <=> stage >= HasAttrs)
    /\ phase \in Phases /\ u_gadget \in BOOLEAN
    /\ identifier \in Nat \X Nat
    /\ mouse \in Mice \cup {NoMouse}
    /\ mouse = NoMouse <=> phase \in {"off", "setup", "open"}

\* The host behind the gadget sees one device from boot to boot: through all
\* crashes and restarts, every mouse that was forwarded has the identifiers of
\* the gadget, and the gadget was complete before its first report.
ServedAlike == \A m \in served : stage = Enabled /\ vid = Vendor[m] /\ pid = Product[m]

\* A gadget that some process has left unfinished: none is at work on it, or the
\* one that is running has found it so.
Unfinished == stage \in Empty..Linked /\ (phase = "off" \/ found # Absent)

\* No restart repairs or removes an unfinished gadget: it stays until a reboot.
UnfinishedStays == [][Unfinished /\ stage' # stage => Reboot]_vars

\* Once nothing disturbs the program any more its restarts get it to run, unless
\* an unfinished gadget is left or no mouse with the gadget's identifiers is there.
EventuallyRuns ==
    \/ <>[](phase = "running")
    \/ <>[]Unfinished
    \/ <>[](Candidates(<<vid, pid>>) = {})
===============================================================================
