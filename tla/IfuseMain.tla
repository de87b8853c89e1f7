------------------------------ MODULE IfuseMain ------------------------------
(***************************************************************************)
(* src/src/main.rs on Linux: the program that reads its command line,      *)
(* lists apps or mounts, waits for a signal or for the end of the mount,   *)
(* unmounts and leaves.  It is the only user of the MountHandle of         *)
(* LinuxMount; what LinuxMount leaves open in mount() and Backend in       *)
(* connect is decided here by Options and Connection.                      *)
(*                                                                         *)
(* A program of its own on the library, which sets up a builder that the   *)
(* command line has no way to ask for and then does as run does, is        *)
(* modelled along with it: it starts at mount().                           *)
(***************************************************************************)
EXTENDS LinuxMount, Connection, FiniteSets

CONSTANTS Main,          \* the thread of main: the only User
          CommandLines,  \* what clap accepts: records with the fields of Cli
          Builders       \* the builders of programs on the library

\* A builder holds what is at its mount point, the items of each -o, and the
\* tokens of an address; clap gives a command line its -o's and positionals, and
\* lets no more than one of --root, --documents and --container pass.
MountPoints == {"dir", "file", "nothing", ""}
Item == STRING

ASSUME InputAssumption ==
    /\ None \notin CommandLines
    /\ \A c \in CommandLines :
          /\ c.positional \in Seq(MountPoints)
          /\ c.mount_options \in Seq(Seq(Item))
          /\ c.list_apps \in BOOLEAN /\ c.root \in BOOLEAN
          /\ c.root => c.documents = None /\ c.container = None
          /\ c.documents = None \/ c.container = None
    /\ \A b \in Builders :
          /\ b.mount_point \in MountPoints \union {None}
          /\ b.mount_options \in Seq(Seq(Item))
          /\ b.target.kind = "Network" => b.target.address \in Seq(Token)

VARIABLES main,          \* where run() is; "killed" when a signal ended the process
          signal,        \* SIGINT or SIGTERM has come
          cli,           \* the command line, None for a program on the library
          builder,       \* the IfuseBuilder, None before there is one
          devices,       \* what usbmuxd listed, None when it was not asked
          conn,          \* the connection: to which device, for which service
          acl,           \* who may use the mount: the SessionACL it was made with
          printed        \* the apps that were printed

askedVars == <<cli, builder>>
connVars == <<devices, conn, acl, printed>>
programVars == <<vars, main, signal, askedVars, connVars>>

ProgramInit ==
    /\ Init
    /\ signal = FALSE
    /\ devices = None
    /\ conn = None
    /\ acl = None
    /\ printed = None
    /\ \/ main = "parsed" /\ cli \in CommandLines /\ builder = None
       \/ main = "mounting" /\ cli = None /\ builder \in Builders
-----------------------------------------------------------------------------
(***************************************************************************)
(* run, up to the mount.                                                   *)
(***************************************************************************)
CliTarget ==
    [kind |-> IF cli.network THEN "UsbmuxdNetwork" ELSE "Usb", udid |-> cli.udid]

CliSource ==
    CASE cli.root -> [kind |-> "Root"]
      [] ~cli.root /\ cli.documents # None ->
            [kind |-> "Documents", bundle_id |-> cli.documents]
      [] ~cli.root /\ cli.documents = None /\ cli.container # None ->
            [kind |-> "Container", bundle_id |-> cli.container]
      [] OTHER -> [kind |-> "Media"]

\* The last positional is the mountpoint; --list-apps takes none.
Run ==
    /\ main = "parsed"
    /\ IF (cli.positional = <<>>) # cli.list_apps
       THEN main' = "exit" /\ UNCHANGED builder
       ELSE /\ main' = IF cli.list_apps THEN "listing" ELSE "mounting"
            /\ builder' = IF cli.list_apps THEN None
                          ELSE [with_target(CliTarget) EXCEPT
                                   !.mount_point = Last(cli.positional),
                                   !.source = CliSource,
                                   !.mount_options = cli.mount_options]
    /\ UNCHANGED <<vars, signal, cli, connVars>>

\* usbmuxd_provider, the question: on the worker's thread for a mount, on
\* main's own for the list of apps.
GetDevices ==
    /\ devices = None
    /\ \/ main = "listing"
       \/ main = "mounting" /\ worker = "connecting" /\ ByUsbmuxd(builder.target)
    /\ devices' \in DeviceLists
    /\ UNCHANGED <<vars, main, signal, askedVars, conn, acl, printed>>

\* list_apps, which validates nothing.  Any of its calls may fail.
ListApps ==
    /\ main = "listing"
    /\ main' = "exit"
    /\ devices' = None
    /\ LET provider == Provider(CliTarget, devices)
       IN  \/ UNCHANGED <<conn, printed>>
           \/ /\ provider # None
              /\ conn' = [to |-> provider, for |-> [service |-> "installation_proxy"]]
              /\ \E sharing \in [App -> FileSharing] : printed' = list_apps(sharing)
    /\ UNCHANGED <<vars, signal, askedVars, acl>>

\* mount(): it fails before anything is started when validate objects.
Mount ==
    /\ main = "mounting"
    /\ MountStep
    /\ phase = "new" => (phase' = "failed" <=> validate(builder) # "Ok")
    /\ acl' = IF phase = "session" /\ phase' = "mounted" THEN fuser_config(builder).acl
              ELSE acl
    /\ UNCHANGED <<main, signal, askedVars, devices, conn, printed>>

\* The worker; its connect may fail at any call, and does without a device.
Worker ==
    /\ WorkerStep
    /\ IF worker = "connecting"
       THEN /\ devices' = None
            /\ LET provider == Provider(builder.target, devices)
               IN  IF ready' = "ok"
                   THEN /\ provider # None
                        /\ conn' = [to |-> provider, for |-> connect_source(builder.source)]
                   ELSE UNCHANGED conn
       ELSE UNCHANGED <<devices, conn>>
    /\ UNCHANGED <<main, signal, askedVars, acl, printed>>
-----------------------------------------------------------------------------
(***************************************************************************)
(* run, from the mount on.                                                 *)
(***************************************************************************)
\* .mount().await?
MountReturns ==
    /\ main = "mounting"
    /\ phase \in {"mounted", "failed"}
    /\ main' = IF phase = "mounted" THEN "select" ELSE "exit"
    /\ UNCHANGED <<vars, signal, askedVars, connVars>>

\* The handlers of the signals are there from the first turn of the select on.
SignalArrives ==
    /\ main \in {"select", "unmounting", "leaving"}
    /\ signal' = TRUE
    /\ UNCHANGED <<vars, main, askedVars, connVars>>

\* Before that a signal does what it does by default: it ends the process.
\* The kernel keeps the mount point.
SignalKills ==
    /\ main \in {"parsed", "listing", "mounting"}
    /\ signal' = TRUE
    /\ main' = "killed"
    /\ UNCHANGED <<vars, askedVars, connVars>>

OnSignal ==
    /\ main = "select"
    /\ signal
    /\ TakeSession(Main)
    /\ main' = "unmounting"
    /\ UNCHANGED <<signal, askedVars, connVars>>

\* handle.unmount().await? - Ok breaks the loop, an error returns from run.
Unmounted ==
    /\ main = "unmounting"
    /\ at[Main] = "idle"
    /\ main' = "leaving"
    /\ UNCHANGED <<vars, signal, askedVars, connVars>>

\* (Mutant: the end of the mount is not noticed.)
PollNever == FALSE /\ UNCHANGED vars

\* Every 100 ms: leave when the mount is gone.
Poll ==
    /\ main = "select"
    /\ ~IsMounted
    /\ main' = "leaving"
    /\ UNCHANGED <<vars, signal, askedVars, connVars>>

\* (Mutant: run returns and nothing is dropped.)
LeaveAtOnce ==
    /\ main = "leaving"
    /\ main' = "exit"
    /\ UNCHANGED <<vars, signal, askedVars, connVars>>

\* run returns: the handle is dropped.
Leave ==
    /\ main = "leaving"
    /\ DropHandle(Main)
    /\ main' = "dropping"
    /\ UNCHANGED <<signal, askedVars, connVars>>

Exit ==
    /\ main = "dropping"
    /\ outcome[Main] = "dropped"
    /\ main' = "exit"
    /\ UNCHANGED <<vars, signal, askedVars, connVars>>

Over == main \in {"exit", "killed"}

MainStep ==
    \/ Run \/ ListApps \/ MountReturns
    \/ OnSignal \/ Unmounted \/ Poll \/ Leave \/ Exit

ProgramUnchanged == UNCHANGED <<main, signal, askedVars, connVars>>

\* The process and its threads are there until main is done.
Unmount == ~Over /\ UserStep(Main) /\ ProgramUnchanged
Session == ~Over /\ (Served \/ SessionEnds) /\ ProgramUnchanged
Requests == ~Over /\ (Serve \/ ExternalUnmount) /\ ProgramUnchanged

ProgramNext ==
    \/ MainStep \/ SignalArrives \/ SignalKills
    \/ GetDevices \/ Mount
    \/ ~Over /\ Worker
    \/ Unmount \/ Session \/ Requests

ProgramSpec == ProgramInit /\ [][ProgramNext]_programVars

\* The threads of LinuxMount are fair as there; main is a thread too.
ProgramFairness ==
    /\ WF_programVars(MainStep)
    /\ WF_programVars(Mount)
    /\ WF_programVars(~Over /\ Worker)
    /\ WF_programVars(Unmount)
    /\ WF_programVars(Session)

FairProgramSpec == ProgramSpec /\ ProgramFairness
-----------------------------------------------------------------------------
(***************************************************************************)
(* "SIGINT/SIGTERM on Linux ... cleanly unmount the filesystem"            *)
(* (src/README.md:33-35): when the program is over, it has no mount.       *)
(***************************************************************************)
ExitUnmounts == Over /\ ~umountFailed => ~mounted

(***************************************************************************)
(* When the program has left by itself, no worker is at the device, and no *)
(* file system and no session is left - unless the umount failed.          *)
(***************************************************************************)
ExitLeavesNothing ==
    main = "exit" =>
        /\ worker \in {"unborn", "returning", "exited"}
        /\ mounted \/ sessionThread = "serving" => umountFailed

(***************************************************************************)
(* The device that is connected to is the one that was asked for: reached  *)
(* by the transport, of the udid, the first such of the list; or at the    *)
(* address that was written, in brackets or not, with its scope.  No other *)
(* text is an address.  The service and the root are those of the source,  *)
(* for a list of apps the one that knows them (main.rs:76-106,             *)
(* backend.rs:157-231, options.rs:230-259).                                *)
(***************************************************************************)
AskedTransport ==
    IF cli # None THEN IF cli.network THEN "network" ELSE "usb"
    ELSE IF builder.target.kind = "Usb" THEN "usb" ELSE "network"

AskedUdid == IF cli # None THEN cli.udid ELSE builder.target.udid

AddressTexts ==
    {<<"v4">>, <<"v6">>, <<"v6", "%", "num">>}

\* (clap has seen to it that at most one of the three is there.)
ServesAsked(service) ==
    /\ service = "installation_proxy" <=> cli.list_apps
    /\ ~cli.list_apps =>
          /\ service = "afc2" <=> cli.root
          /\ service = "vend_documents" <=> cli.documents # None
          /\ service = "vend_container" <=> cli.container # None

IsAsked(device) ==
    device.transport = AskedTransport /\ (AskedUdid = None \/ device.udid = AskedUdid)

ConnectsAsAsked ==
    [][conn' = conn \/
       /\ cli # None => ServesAsked(conn'.for.service)
       /\ "root" \in DOMAIN conn'.for =>
              (conn'.for.root = "/Documents" <=> conn'.for.service = "vend_documents")
       /\ IF cli = None /\ builder.target.kind = "Network"
          THEN \E text \in AddressTexts :
                  /\ builder.target.address \in {text, <<"[">> \o text \o <<"]">>}
                  /\ conn'.to = [address |-> text[1], scoped |-> "num" \in Range(text)]
          ELSE \E k \in DOMAIN devices :
                  /\ conn'.to = devices[k]
                  /\ IsAsked(devices[k])
                  /\ \A j \in 1..(k - 1) : ~IsAsked(devices[j])]_programVars

(***************************************************************************)
(* Who may use a mount is what the last word on it says, over all -o's and *)
(* their items; nobody but the owner when there is none.  And there is a   *)
(* mount only on a directory (options.rs:123-181, 184-227).                *)
(***************************************************************************)
MountedAsAsked ==
    phase = "mounted" =>
        /\ builder.mount_point = "dir"
        /\ LET items == FlattenSeq(builder.mount_options)
               Word(who) == IF who = "All" THEN "allow_other" ELSE "allow_root"
               Silent(from) == \A k \in from..Len(items) :
                                  items[k] \notin {"allow_other", "allow_root"}
           IN  IF acl = "Owner" THEN Silent(1)
               ELSE \E k \in DOMAIN items : items[k] = Word(acl) /\ Silent(k + 1)

(***************************************************************************)
(* A signal ends the program, whatever the session and the umount do, and  *)
(* so does an unmount from outside (main.rs:117-136).                      *)
(***************************************************************************)
ProgramEnds == signal \/ (main = "select" /\ ~mounted) ~> Over
=============================================================================
