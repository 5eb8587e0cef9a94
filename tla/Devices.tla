------------------------------- MODULE Devices -------------------------------
(***************************************************************************)
(* The page of paired devices (settings.rs): the list read from the daemon *)
(* over HTTP, one-time pairing offers, and revoking with two clicks.  One  *)
(* task and one flag serve all three; the flag disables every button.      *)
(*                                                                         *)
(* A phone pairs with an offer at any time, under a new id, and the daemon *)
(* may execute a call nobody waits for any more.                           *)
(***************************************************************************)
EXTENDS Naturals

CONSTANTS
    DeviceIds,
    MaxDeviceCalls,     \* bound on calls and on sessions
    None

DevicesAssumption == None \notin DeviceIds /\ MaxDeviceCalls \in Nat

VARIABLES
    online,
    supported,      \* server_info lists the feature devicePairing
    devices,        \* the list shown
    call,           \* device_task: NoDeviceCall or what it waits for
    inFlight,       \* device_operation_in_flight
    pending,        \* pending_revoke_device_id
    offer,          \* pairing_offer: "none", "valid" or "used"
    paired,         \* the daemon's devices
    open,           \* the daemon's offers that nobody has used
    late,           \* devices whose revocation was cut off: it may still come
    unsure,         \* history: devices whose revocation failed, as the user was told,
                    \* and the list was not read since
    calls

view == <<online, supported, devices, call, inFlight, pending, offer>>
vars == <<view, paired, open, late, unsure, calls>>

NoDeviceCall == [kind |-> "none"]

Init ==
    /\ online = TRUE /\ supported \in BOOLEAN
    /\ devices = {} /\ call = NoDeviceCall /\ inFlight = FALSE
    /\ pending = None /\ offer = "none"
    /\ paired \in SUBSET DeviceIds /\ open = FALSE /\ late = {} /\ unsure = {}
    /\ calls = 0

-----------------------------------------------------------------------------
(* What the page offers: nothing without the feature; no button while a     *)
(* call runs, and only the revocation while the session is down.            *)

Offered == supported /\ ~inFlight

Start(c) ==
    /\ calls < MaxDeviceCalls /\ calls' = calls + 1
    /\ call' = c /\ inFlight' = TRUE
    /\ UNCHANGED <<online, supported, devices, paired, open, late, unsure>>

\* load_devices, from the page's opening and from the button.
LoadDevices ==
    /\ Offered /\ online
    /\ Start([kind |-> "load", phase |-> "sent", answer |-> {}])
    /\ UNCHANGED <<pending, offer>>

\* create_pairing_offer: the offer before is not shown any longer.
CreatePairingOffer ==
    /\ Offered /\ online
    /\ Start([kind |-> "pair", phase |-> "sent"])
    /\ offer' = "none"
    /\ UNCHANGED pending

ArmRevoke(x) ==
    /\ Offered /\ x \in devices /\ pending # x
    /\ pending' = x
    /\ UNCHANGED <<online, supported, devices, call, inFlight, offer, paired, open, late,
                   unsure, calls>>

\* request_device_revoke at the second click.
RevokeDevice(x) ==
    /\ Offered /\ x \in devices /\ pending = x
    /\ Start([kind |-> "revoke", phase |-> "sent", device |-> x])
    /\ UNCHANGED <<pending, offer>>

-----------------------------------------------------------------------------
(* The daemon.                                                              *)

DaemonExecutes ==
    /\ call.kind # "none" /\ call.phase = "sent"
    /\ CASE call.kind = "load" ->
              call' = [call EXCEPT !.phase = "done", !.answer = paired]
              /\ UNCHANGED <<paired, open>>
         [] call.kind = "pair" ->
              call' = [call EXCEPT !.phase = "done"] /\ open' = TRUE /\ UNCHANGED paired
         [] call.kind = "revoke" ->
              call' = [call EXCEPT !.phase = "done"]
              /\ paired' = paired \ {call.device} /\ UNCHANGED open
    /\ UNCHANGED <<online, supported, devices, inFlight, pending, offer, late, unsure, calls>>

\* A phone uses the offer, once.
PhonePairs(x) ==
    /\ open /\ x \notin paired \cup late
    /\ open' = FALSE /\ paired' = paired \cup {x}
    /\ offer' = IF offer = "valid" THEN "used" ELSE offer
    /\ UNCHANGED <<online, supported, devices, call, inFlight, pending, late, unsure, calls>>

LateRevocation(x) ==
    /\ x \in late
    /\ paired' = paired \ {x}
    /\ UNCHANGED <<view, open, late, unsure, calls>>

-----------------------------------------------------------------------------
(* The callbacks.                                                           *)

Release == call' = NoDeviceCall /\ inFlight' = FALSE

DevicesLoaded ==
    /\ call.kind = "load" /\ call.phase = "done"
    /\ Release
    /\ devices' = call.answer
    /\ pending' = None
    /\ unsure' = {}
    /\ UNCHANGED <<online, supported, offer, paired, open, late, calls>>

OfferCreated ==
    /\ call.kind = "pair" /\ call.phase = "done"
    /\ Release
    /\ offer' = IF open THEN "valid" ELSE "used"
    /\ UNCHANGED <<online, supported, devices, pending, paired, open, late, unsure, calls>>

\* Mutant: the device goes with the next reading of the list.
DeviceRevokedOnly ==
    /\ call.kind = "revoke" /\ call.phase = "done"
    /\ Release
    /\ pending' = None
    /\ UNCHANGED <<online, supported, devices, offer, paired, open, late, unsure, calls>>

DeviceRevoked ==
    /\ call.kind = "revoke" /\ call.phase = "done"
    /\ Release
    /\ devices' = devices \ {call.device}
    /\ pending' = None
    /\ UNCHANGED <<online, supported, offer, paired, open, late, unsure, calls>>

\* Refused, or the answer did not come: the confirmation stays armed.
CallFails ==
    /\ call.kind # "none"
    /\ Release
    /\ unsure' = unsure \cup (IF call.kind = "revoke" THEN {call.device} ELSE {})
    /\ \/ UNCHANGED late
       \/ call.kind = "revoke" /\ call.phase = "sent" /\ late' = late \cup {call.device}
    /\ UNCHANGED <<online, supported, devices, pending, offer, paired, open, calls>>

\* clear_connection_bound_state: the page is empty until it is read again.
Disconnect ==
    /\ online /\ calls < MaxDeviceCalls /\ calls' = calls + 1
    /\ online' = FALSE /\ supported' = FALSE
    /\ Release
    /\ devices' = {} /\ pending' = None /\ offer' = "none"
    /\ \/ UNCHANGED late
       \/ call.kind = "revoke" /\ call.phase = "sent" /\ late' = late \cup {call.device}
    /\ UNCHANGED <<paired, open, unsure>>

Reconnect ==
    /\ ~online
    /\ online' = TRUE /\ supported' \in BOOLEAN
    /\ UNCHANGED <<devices, call, inFlight, pending, offer, paired, open, late, unsure, calls>>

Next ==
    \/ LoadDevices \/ CreatePairingOffer
    \/ \E x \in DeviceIds : ArmRevoke(x) \/ RevokeDevice(x) \/ PhonePairs(x) \/ LateRevocation(x)
    \/ DaemonExecutes \/ DevicesLoaded \/ OfferCreated \/ DeviceRevoked \/ CallFails
    \/ Disconnect \/ Reconnect

Spec == Init /\ [][Next]_vars

-----------------------------------------------------------------------------
\* Every device in the list can connect, except one whose own revocation is
\* running, or failed, as the user was told, with no list read since, or was cut
\* off and may come at any later time.  A failed or successful call of another
\* kind, or for another device, excuses nothing.
ShownDevicesArePaired ==
    \A x \in devices \ paired :
        \/ call.kind = "revoke" /\ call.device = x
        \/ x \in unsure \cup late
=============================================================================
