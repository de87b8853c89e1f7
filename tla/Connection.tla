----------------------------- MODULE Connection -----------------------------
(***************************************************************************)
(* src/src/backend.rs, connect and list_apps: how a DeviceTarget becomes a *)
(* device and a MountSource a service on it.                               *)
(***************************************************************************)
EXTENDS Options

CONSTANTS Udid,          \* the devices
          App,           \* bundle ids, numbers in their order
          MaxDevices     \* how many entries usbmuxd lists at most

\* usbmuxd lists a device once for each transport it is reached by, in any order.
Device == [udid : Udid, transport : {"usb", "network"}]
DeviceLists == {l \in BoundedSeq(Device, MaxDevices) : IsInjective(l)}

\* (Mutant: the transport is not looked at when a udid is given.)
usbmuxd_provider_anyhow(udid, transport, devices) ==
    LET matches == {k \in DOMAIN devices :
                      IF udid = None THEN devices[k].transport = transport
                                     ELSE devices[k].udid = udid}
    IN  IF matches = {} THEN None ELSE devices[Min(matches)]

\* The first candidate that matches, or None for DeviceNotFound.
usbmuxd_provider(udid, transport, devices) ==
    LET matches == {k \in DOMAIN devices :
                      devices[k].transport = transport /\ udid \in {None, devices[k].udid}}
    IN  IF matches = {} THEN None ELSE devices[Min(matches)]

\* The provider for a target; devices is None until usbmuxd has been asked.
Provider(target, devices) ==
    IF target.kind = "Network" THEN parse_network_address(target.address)
    ELSE IF devices = None THEN None
    ELSE LET transport == IF target.kind = "Usb" THEN "usb" ELSE "network"
         IN  usbmuxd_provider(target.udid, transport, devices)

\* The service a source is served by, and the root of its paths.
connect_source(source) ==
    CASE source.kind = "Media" -> [service |-> "afc", root |-> "/"]
      [] source.kind = "Root" -> [service |-> "afc2", root |-> "/"]
      [] source.kind = "Documents" ->
            [service |-> "vend_documents", bundle_id |-> source.bundle_id,
             root |-> "/Documents"]
      [] OTHER ->
            [service |-> "vend_container", bundle_id |-> source.bundle_id, root |-> "/"]

\* list_apps_with_provider: what the device says of UIFileSharingEnabled for each
\* app it has ("none" when it is missing or not a Boolean) becomes a sorted list.
FileSharing == {"true", "false", "none"}
list_apps(sharing) == SetToSortSeq({a \in DOMAIN sharing : sharing[a] = "true"}, <)
=============================================================================
