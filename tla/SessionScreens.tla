---------------------------- MODULE SessionScreens ----------------------------
(***************************************************************************)
(* The list of sessions the profile shows, from which the user closes and  *)
(* trusts them: listSessions and mapSession of                             *)
(* services/profile-service/session.service.js.  Sessions that a client    *)
(* began, with its address; the fall-back on refresh_tokens is left out.   *)
(***************************************************************************)
EXTENDS Sessions

\* listSessions
Listed == {s \in SessionIds : Active(s)}

\* getDeviceTrustFields: the trust of the device, or that of the session, which has no end.
ShownTrusted(s) == DeviceTrusted(devices[sessions[s].device]) \/ sessions[s].trusted

\* mapSession
Shown(s) ==
  [device   |-> sessions[s].device,
   trusted  |-> ShownTrusted(s),
   canTrust |-> ~ShownTrusted(s) /\ sessions[s].trustAt <= now]

-------------------------------------------------------------------------------
\* The list shows each device once, and the session it shows is the one that the next
\* sign-in on the device continues: closing it leaves none behind.
DeviceListedOnce ==
  \A s \in Listed : BestReusable(Shown(s).device) = {s}

\* What the list shows as trusted, or offers to trust, is on a device first seen the
\* waiting time ago, and none has to wait for longer than that.
ListShowsTrust ==
  \A s \in Listed :
    /\ Shown(s).trusted \/ Shown(s).canTrust =>
         /\ devices[Shown(s).device] # None
         /\ devices[Shown(s).device].first + TrustWait <= now
    /\ sessions[s].trustAt <= now + TrustWait

ListTellsTrue == OneSessionPerDevice /\ DeviceListedOnce /\ ListShowsTrust
===============================================================================
