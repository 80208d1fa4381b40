------------------------------- MODULE CoreProofs -------------------------------
(***************************************************************************)
(* Proofs about Core: what survives any number of crashes, failures and    *)
(* restarts, for any mice.                                                 *)
(***************************************************************************)
EXTENDS Core, TLAPS

Connected == {"read", "load", "running"}

\* What the process knows of configfs is still true, and the gadget it works on
\* is its own mouse's.
GadgetInv ==
    /\ phase \in {"setup", "open", "configure"} =>
          (u_gadget <=> stage # Absent) /\ (u_gadget <=> found # Absent)
    /\ phase = "create" =>
          /\ found = Absent
          /\ stage >= HasVendor => vid = Vendor[mouse]
          /\ stage >= HasAttrs => pid = Product[mouse]
    /\ phase \in Connected \cup {"connect"} => vid = Vendor[mouse] /\ pid = Product[mouse]
    /\ phase \in Connected => stage = Enabled

\* The inductive invariant.
IInv == TypeOK /\ GadgetInv /\ ServedAlike

NoIdentifier == <<0, 0>>

LEMMA NoIdentifierType == NoIdentifier \in Nat \X Nat
  BY DEF NoIdentifier

LEMMA EndsTyped ==
    ASSUME Ends
    PROVE  /\ phase' = "off" /\ mouse' = NoMouse
           /\ u_gadget' \in BOOLEAN
           /\ identifier' \in Nat \X Nat
           /\ found' \in Absent..Enabled
<1>1. identifier' \in Nat \X Nat
  BY NoIdentifierType DEF Ends, NoIdentifier
<1>2. u_gadget' \in BOOLEAN
  BY DEF Ends
<1>3. found' \in Absent..Enabled
  BY DEF Ends, Absent, Enabled
<1> QED
  BY <1>1, <1>2, <1>3 DEF Ends

LEMMA InitIInv == Init => IInv
<1> SUFFICES ASSUME Init
             PROVE  IInv
  OBVIOUS
<1> USE MiceAssumption DEF Init, Absent, Empty, HasVendor, HasAttrs, Enabled
<1>1. TypeOK
  <2>1. identifier \in Nat \X Nat
    BY NoIdentifierType DEF NoIdentifier
  <2>2. disturbances \in 0..MaxDisturbances
    OBVIOUS
  <2>3. /\ plugged \subseteq Mice /\ served \subseteq Mice
        /\ phase \in Phases /\ u_gadget \in BOOLEAN
        /\ mouse \in Mice \cup {NoMouse}
        /\ mouse = NoMouse <=> phase \in {"off", "setup", "open"}
    BY DEF Phases
  <2>4. /\ stage \in Absent..Enabled /\ found \in Absent..Enabled
        /\ vid \in Nat /\ (vid # 0 <=> stage >= HasVendor)
        /\ pid \in Nat /\ (pid # 0 <=> stage >= HasAttrs)
    OBVIOUS
  <2> QED
    BY <2>1, <2>2, <2>3, <2>4 DEF TypeOK
<1>2. GadgetInv /\ ServedAlike
  BY DEF GadgetInv, ServedAlike, Connected
<1> QED
  BY <1>1, <1>2 DEF IInv

\* Every step keeps the types.
LEMMA StepTypeOK == IInv /\ [Next]_vars => TypeOK'
<1> SUFFICES ASSUME IInv, [Next]_vars
             PROVE  TypeOK'
  OBVIOUS
<1> USE MiceAssumption
    DEF IInv, TypeOK, Phases, Absent, Empty, HasVendor, HasAttrs, Enabled,
        environment, configfs, process, vars, Goto
<1>1. CASE Construct
  BY <1>1 DEF Construct
<1>2. CASE Setup
  BY <1>2 DEF Setup, ConfiguredIdentifier
<1>3. CASE Open
  <2>1. CASE Ends
    BY <1>3, <2>1, EndsTyped DEF Open
  <2>2. CASE ~Ends
    BY <1>3, <2>2 DEF Open, Candidates
  <2> QED
    BY <2>1, <2>2
<1>4. CASE Configure
  <2>1. CASE Ends
    BY <1>4, <2>1, EndsTyped DEF Configure
  <2>2. CASE ~Ends
    BY <1>4, <2>2 DEF Configure
  <2> QED
    BY <2>1, <2>2
<1>5. CASE CreateGadget
  BY <1>5 DEF CreateGadget, GadgetInv, ServedAlike
<1>6. CASE ConnectOutput
  <2>1. CASE Ends
    BY <1>6, <2>1, EndsTyped DEF ConnectOutput
  <2>2. CASE ~Ends
    BY <1>6, <2>2 DEF ConnectOutput
  <2> QED
    BY <2>1, <2>2
<1>7. CASE StartReadInput
  BY <1>7 DEF StartReadInput
<1>8. CASE RunAimbot
  BY <1>8 DEF RunAimbot
<1>9. CASE Crash
  BY <1>9, EndsTyped DEF Crash, Disturb
<1>10. CASE Fail
  BY <1>10, EndsTyped DEF Fail, Disturb
<1>11. CASE Plug
  BY <1>11 DEF Plug, Disturb
<1>12. CASE Reboot
  BY <1>12, EndsTyped DEF Reboot, Disturb
<1>13. CASE SetupUnread
  BY <1>13, NoIdentifierType DEF SetupUnread, Disturb, NoIdentifier
<1>14. CASE UNCHANGED vars
  BY <1>14
<1> QED
  BY <1>1, <1>2, <1>3, <1>4, <1>5, <1>6, <1>7, <1>8, <1>9, <1>10, <1>11, <1>12, <1>13, <1>14 DEF Next, Program

\* Every step keeps what the process knows, and the gadget of the mice served.
LEMMA StepGadget == IInv /\ [Next]_vars => GadgetInv' /\ ServedAlike'
<1> SUFFICES ASSUME IInv, [Next]_vars
             PROVE  GadgetInv' /\ ServedAlike'
  OBVIOUS
<1> USE MiceAssumption
    DEF IInv, TypeOK, GadgetInv, ServedAlike, Connected, Phases, Absent, Empty, HasVendor,
        HasAttrs, Enabled, environment, configfs, process, vars, Ends, Goto
<1>1. CASE Construct
  BY <1>1 DEF Construct
<1>2. CASE Setup
  BY <1>2 DEF Setup, ConfiguredIdentifier
<1>3. CASE Open
  BY <1>3 DEF Open, Candidates
<1>4. CASE Configure
  BY <1>4 DEF Configure, ConfiguredIdentifier, IsGadgetOf
<1>5. CASE CreateGadget
  BY <1>5 DEF CreateGadget
<1>6. CASE ConnectOutput
  BY <1>6 DEF ConnectOutput
<1>7. CASE StartReadInput
  BY <1>7 DEF StartReadInput
<1>8. CASE RunAimbot
  BY <1>8 DEF RunAimbot
<1>9. CASE Crash
  BY <1>9 DEF Crash, Disturb
<1>10. CASE Fail
  BY <1>10 DEF Fail, Disturb
<1>11. CASE Plug
  BY <1>11 DEF Plug, Disturb
<1>12. CASE Reboot
  BY <1>12 DEF Reboot, Disturb
<1>13. CASE SetupUnread
  BY <1>13, NoIdentifierType DEF SetupUnread, Disturb, NoIdentifier
<1>14. CASE UNCHANGED vars
  BY <1>14
<1> QED
  BY <1>1, <1>2, <1>3, <1>4, <1>5, <1>6, <1>7, <1>8, <1>9, <1>10, <1>11, <1>12, <1>13, <1>14 DEF Next, Program

LEMMA Invariant == Spec => []IInv
<1>1. IInv /\ [Next]_vars => IInv'
  BY StepTypeOK, StepGadget DEF IInv
<1> QED
  BY InitIInv, <1>1, PTL DEF Spec

\* The state has its types, and configfs its identifiers.
THEOREM TypeCorrect == Spec => []TypeOK
<1>1. IInv => TypeOK
  BY DEF IInv
<1> QED
  BY <1>1, Invariant, PTL

\* Every mouse forwarded since the last boot is the device that the gadget shows.
THEOREM OneDeviceServed == Spec => []ServedAlike
<1>1. IInv => ServedAlike
  BY DEF IInv
<1> QED
  BY <1>1, Invariant, PTL

\* An unfinished gadget stays as it is until a reboot.
THEOREM UnfinishedIsKept == Spec => UnfinishedStays
<1>1. IInv /\ [Next]_vars => [Unfinished /\ stage' # stage => Reboot]_vars
  <2> SUFFICES ASSUME IInv, Next, Unfinished, stage' # stage
               PROVE  Reboot
    BY DEF vars, configfs
  <2>1. phase # "create"
    BY DEF IInv, GadgetInv, Unfinished, Absent
  <2> QED
    BY <2>1 DEF Next, Program, Construct, Setup, SetupUnread, Open, Configure, CreateGadget, ConnectOutput,
                StartReadInput, RunAimbot, Crash, Fail, Plug, configfs
<1> QED
  BY <1>1, Invariant, PTL DEF Spec, UnfinishedStays
===============================================================================
