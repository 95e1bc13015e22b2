------------------------------- MODULE Device -------------------------------
(***************************************************************************)
(* The start of the renderer: main, output_mpd_init, upnp_renderer_new,    *)
(* getIfInfo and upnp_device_init run one after the other in the main      *)
(* thread, and from a point on beside libupnp's worker threads, which      *)
(* serve the virtual files (WebServer) and answer GetProtocolInfo with     *)
(* what connmgr_init has written (ConnectionManager).  Neither list has a  *)
(* lock: the order of the start is all that keeps the threads apart.       *)
(*                                                                         *)
(* stage is the place main has reached.  Every stage may fail and end the  *)
(* program; libupnp is then stopped, if it was started.                    *)
(***************************************************************************)
EXTENDS WebServer, ConnectionManager, SequencesExt

CONSTANTS
  Interfaces,      \* lists of network interfaces the host may have
  MaxInterfaces,   \* MAX_INTERFACES
  Names,           \* values of the if-name option, None for not given
  Ethers,          \* the interfaces main looks for without it, in order
  Macs             \* address of each interface, 17 characters from 0 on

ASSUME HostsAssumption ==
  /\ Interfaces \subseteq Seq([name : STRING, usable : BOOLEAN, inet : BOOLEAN])
  /\ MaxInterfaces \in Nat /\ Ethers \in Seq(STRING)

VARIABLES
  stage,
  ifName, interfaces,  \* the if-name option and the interfaces of the host
  libupnp,             \* what has been set up in it; {} when it is not running
  udn,                 \* the unique device name
  turn, named,         \* getIfInfo: turns of its loop, gIF_NAME while it counts
  address,             \* the interface whose address libupnp is started with
  told                 \* the protocol infos control points were told

addressVars == <<turn, named, address>>
deviceVars == <<stage, ifName, interfaces, libupnp, udn, addressVars, told>>
allVars == <<vars, cmVars, deviceVars>>

\* A mutation: libupnp is started before the files are registered.
OrderServeFirst ==
  <<"config", "mac", "types", "mpd", "interface", "services",
    "UpnpInit", "UpnpEnableWebserver", "UpnpSetVirtualDirCallbacks",
    "UpnpAddVirtualDir", "files", "UpnpRegisterRootDevice2",
    "UpnpSendAdvertisement", "loop">>

\* A mutation: the services are initialised once the device is registered.
OrderServicesLast ==
  <<"config", "mac", "types", "mpd", "interface", "files",
    "UpnpInit", "UpnpEnableWebserver", "UpnpSetVirtualDirCallbacks",
    "UpnpAddVirtualDir", "UpnpRegisterRootDevice2", "services",
    "UpnpSendAdvertisement", "loop">>

\* The stages in the order of main and the functions it calls.
Order ==
  <<"config", "mac", "types", "mpd", "interface", "services", "files",
    "UpnpInit", "UpnpEnableWebserver", "UpnpSetVirtualDirCallbacks",
    "UpnpAddVirtualDir", "UpnpRegisterRootDevice2",
    "UpnpSendAdvertisement", "loop">>

LibCalls ==
  {"UpnpInit", "UpnpEnableWebserver", "UpnpSetVirtualDirCallbacks",
   "UpnpAddVirtualDir", "UpnpRegisterRootDevice2", "UpnpSendAdvertisement"}

After(s) == Order[(CHOOSE i \in 1 .. Len(Order) : Order[i] = s) + 1]
-----------------------------------------------------------------------------
(* upnp_renderer_new: the hardware address in the device name.             *)

\* A mutation: the colons of the address are taken for digits.
MergeWithColons(mac) ==
  [i \in 0 .. 41 |-> IF i \in 29 .. 40 THEN mac[i - 29] ELSE <<"template", i>>]

\* The digits of the address go to 29..40 of the template; its own digits
\* stand at 30..41, so the second dash is lost and the last f stays.
Merge(mac) ==
  [i \in 0 .. 41 |->
     IF i \in 29 .. 40 THEN mac[3 * ((i - 29) \div 2) + ((i - 29) % 2)]
                       ELSE <<"template", i>>]

\* The digits of an address, which it has at all places but the colons.
Digits(mac) == [k \in 0 .. 5 |-> <<mac[3 * k], mac[3 * k + 1]>>]
-----------------------------------------------------------------------------
(* getIfInfo.                                                              *)

\* A mutation: a name that was given is not compared.
ConsiderAny(i) ==
  IF i.usable THEN named' = i.name /\ address' = i.name
              ELSE UNCHANGED <<named, address>>

\* One turn of its loop: loopback, down and non-multicast interfaces are
\* skipped; the first one left names the interface if no option does. One
\* without an IPv4 address takes the name away again.
Consider(i) ==
  IF ~i.usable \/ named \notin {None, i.name} THEN UNCHANGED <<named, address>>
  ELSE IF i.inet THEN named' = i.name /\ address' = i.name
  ELSE named' = None /\ UNCHANGED address

\* The interfaces there is room for.
Listed == Smaller(MaxInterfaces, Len(interfaces))

\* The interfaces whose hardware address main tries to read, in order.
Wanted == IF ifName = None THEN Ethers ELSE <<ifName>>

Exists(n) == \E i \in ToSet(interfaces) : i.name = n
-----------------------------------------------------------------------------
(* The start.                                                              *)

DeviceInit ==
  /\ Init /\ CMInit
  /\ stage = Head(Order)
  /\ ifName \in Names
  /\ interfaces \in Interfaces
  /\ libupnp = {}
  /\ udn = None
  /\ turn = 0 /\ named = ifName /\ address = None
  /\ told = {}

Goto(s) == stage' = s

\* A mutation: the callers of UpnpFinish forget it.
ExitAtOnce ==
  /\ Goto("exit")
  /\ UNCHANGED libupnp

\* A failed start; upnp_err_out stops libupnp.
Exit ==
  /\ Goto("exit")
  /\ libupnp' = {}

\* Option and configuration errors; a missing configuration file is none.
Config ==
  /\ stage = "config"
  /\ Goto(After("config")) \/ Goto("exit")
  /\ UNCHANGED <<vars, cmVars, ifName, interfaces, libupnp, udn, addressVars, told>>

\* The hardware address becomes part of the device name; "Bad MAC address"
\* and "No usable network interface" end the program.
ReadMac ==
  /\ stage = "mac"
  /\ \/ /\ \E k \in 1 .. Len(Wanted) :
             /\ Exists(Wanted[k]) /\ \A j \in 1 .. k - 1 : ~Exists(Wanted[j])
             /\ udn' = Merge(Macs[Wanted[k]])
        /\ Goto(After("mac"))
     \/ Goto("exit") /\ UNCHANGED udn
  /\ UNCHANGED <<vars, cmVars, ifName, interfaces, libupnp, addressVars, told>>

\* output_mpd_init registers its types ...
RegisterTypes ==
  /\ stage = "types"
  /\ \/ RegisterMimeType /\ UNCHANGED stage
     \/ todo = <<>> /\ Goto(After("types")) /\ UNCHANGED cmVars
  /\ UNCHANGED <<vars, ifName, interfaces, libupnp, udn, addressVars, told>>

\* ... and connects to MPD, except in test mode.
ConnectMpd ==
  /\ stage = "mpd"
  /\ Goto(After("mpd")) \/ Goto("exit")
  /\ UNCHANGED <<vars, cmVars, ifName, interfaces, libupnp, udn, addressVars, told>>

\* getIfInfo, which may also fail for other reasons before it has an address.
FindAddress ==
  /\ stage = "interface"
  /\ \/ /\ address = None /\ turn < Listed
        /\ Consider(interfaces[turn + 1])
        /\ turn' = turn + 1
        /\ UNCHANGED stage
     \/ address # None /\ Goto(After("interface")) /\ UNCHANGED addressVars
     \/ address = None /\ Goto("exit") /\ UNCHANGED addressVars
  /\ UNCHANGED <<vars, cmVars, ifName, interfaces, libupnp, udn, told>>

\* upnp_renderer_init; its failure returns before upnp_err_out.
InitServices ==
  /\ stage = "services"
  /\ \/ (WriteEntry \/ Terminate \/ NoMemory) /\ UNCHANGED stage
     \/ initRc = "ok" /\ Goto(After("services")) /\ UNCHANGED cmVars
     \/ initRc = "failed" /\ Goto("exit") /\ UNCHANGED cmVars
  /\ UNCHANGED <<vars, ifName, interfaces, libupnp, udn, addressVars, told>>

RegisterFiles ==
  /\ stage = "files"
  /\ \/ (\E f \in Files : Register(f)) /\ UNCHANGED stage
     \/ pending = {} /\ Goto(After("files")) /\ UNCHANGED vars
  /\ UNCHANGED <<cmVars, ifName, interfaces, libupnp, udn, addressVars, told>>

\* The calls into libupnp; each but the first needs the ones before it.
CallLib ==
  /\ stage \in LibCalls
  /\ \/ Goto(After(stage)) /\ libupnp' = libupnp \cup {stage}
     \/ Exit
  /\ UNCHANGED <<vars, cmVars, ifName, interfaces, udn, addressVars, told>>

Start ==
  \/ Config \/ ReadMac \/ RegisterTypes \/ ConnectMpd \/ FindAddress
  \/ InitServices \/ RegisterFiles \/ CallLib
-----------------------------------------------------------------------------
(* libupnp's threads.                                                      *)

\* libupnp serves the files once it has the callbacks and the directory.
Serving ==
  {"UpnpEnableWebserver", "UpnpSetVirtualDirCallbacks", "UpnpAddVirtualDir"}
    \subseteq libupnp

Serve(t) ==
  /\ Serving
  /\ \/ \E f \in Files : GetInfo(t, f)
     \/ Open(t) \/ Reads(t) \/ Close(t)
     \/ \E offset \in Offsets, origin \in Origins : Seek(t, offset, origin)
  /\ UNCHANGED <<cmVars, deviceVars>>

\* get_protocol_info, for a control point that found the device.
TellProtocolInfo ==
  /\ "UpnpRegisterRootDevice2" \in libupnp
  /\ told' = told \cup {info}
  /\ UNCHANGED <<vars, cmVars, stage, ifName, interfaces, libupnp, udn, addressVars>>

\* The process is gone.
Gone == stage = "exit" /\ UNCHANGED allVars

DeviceNext == Start \/ TellProtocolInfo \/ (\E t \in Transfers : Serve(t)) \/ Gone

DeviceSpec == DeviceInit /\ [][DeviceNext]_allVars
-----------------------------------------------------------------------------
(* Properties.                                                             *)

DeviceTypeOK ==
  /\ WSTypeOK /\ CMTypeOK
  /\ stage \in {Order[i] : i \in 1 .. Len(Order)} \cup {"exit"}
  /\ libupnp \subseteq LibCalls
  /\ turn \in Nat /\ named \in Names \cup STRING \cup {None}
  /\ address \in {i.name : i \in ToSet(interfaces)} \cup {None}

\* webserver.c walks its list without a lock: while libupnp can serve a file
\* no file is added to it (upnp_device_init).
ListAtRest == [][Serving => UNCHANGED virtualFiles]_allVars

\* connmgr_values has no lock in connmgr_init: all control points are told
\* the same types, the registered ones, audio/x-mpeg beside audio/mpeg
\* (get_protocol_info, main, upnp_renderer_init).
ToldTheTruth ==
  \A i \in told :
    /\ supported # <<>> => i = supported
    /\ Mpeg \in ToSet(i) /\ supported # <<>> => XMpeg \in ToSet(i)

\* A device that is announced is whole: its name holds the hardware address
\* of one of the host's interfaces, digit for digit, and no file is missing
\* that could be read (main, upnp_renderer_new, upnp_device_init).
AnnouncedWhole ==
  "UpnpSendAdvertisement" \in libupnp =>
    /\ pending = {} /\ initRc = "ok"
    /\ \E i \in ToSet(interfaces) :
         /\ ifName \in {None, i.name}
         /\ [k \in 0 .. 5 |-> <<udn[29 + 2 * k], udn[30 + 2 * k]>>] = Digits(Macs[i.name])

\* libupnp listens on an address of the interface that was asked for, on
\* hosts where every interface has an IPv4 address (getIfInfo).
AddressAsked ==
  address # None =>
    /\ \E i \in ToSet(interfaces) : i.name = address /\ i.usable /\ i.inet
    /\ (\A i \in ToSet(interfaces) : i.inet) => ifName \in {None, address}

\* However the start fails, libupnp is not left running: its threads would
\* call handlers while exit tears the process down (upnp_err_out).
StoppedOnExit == stage = "exit" => libupnp = {}
=============================================================================
