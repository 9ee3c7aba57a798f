---------------------------- MODULE WifiProfiles ----------------------------
(***************************************************************************)
(* WifiProfilePolicy (src/src/service/wifi_profile_policy.cpp) over the    *)
(* wpa_supplicant commands of src/src/platform/wifi_backend.cpp.           *)
(*                                                                         *)
(* Every function is a set of outcomes over the supplicant's state s:      *)
(*   nets    its configured networks by id, NoProfile where there is none  *)
(*   saved   the networks of the configuration file it restarts from       *)
(*   up      the interface is up                                           *)
(*   barred  DISCONNECT keeps it from associating until the next           *)
(*           RECONNECT or SELECT_NETWORK                                   *)
(*   link    the network it is associated with, or NoId                    *)
(*   news    what waits on the monitor's socket                            *)
(* and the fault budget.  A request fails because the supplicant refuses   *)
(* it, or because its answer does not come in time: then it was executed.  *)
(***************************************************************************)
EXTENDS Outcomes, Sequences, FiniteSetsExt

CONSTANTS
    Ssids,    \* networks within reach
    NoSsid,   \* ssid of a profile that was just added
    MaxId     \* bound: the largest network id

ASSUME IdAssumption == MaxId \in Nat
ASSUME SsidAssumption == NoSsid \notin Ssids

Ids  == 0..MaxId
NoId == -1

\* fate is history: "active" once an activation of the profile succeeded (or it
\* came with the configuration file), "stuck" if the service could not remove it.
Profile == [ssid : Ssids \cup {NoSsid}, on : BOOLEAN, fate : {"new", "active", "stuck"}]
NoProfile == [ssid |-> NoSsid, on |-> FALSE, fate |-> "none"]

Used(s) == {i \in Ids : s.nets[i] # NoProfile}
Drop(s) == IF s.link = NoId THEN s
           ELSE [s EXCEPT !.link = NoId, !.news = Append(@, "down")]
DropUnless(s, ids) == IF s.link \in ids THEN s ELSE Drop(s)

-----------------------------------------------------------------------------
(* wpa_supplicant: what its commands do when they are executed. *)
next_id(s) == IF Used(s) = {} THEN 0 ELSE Max(Used(s)) + 1
ADD_NETWORK(s, fate) ==
    [s EXCEPT !.nets[next_id(s)] = [ssid |-> NoSsid, on |-> FALSE, fate |-> fate]]
SET_NETWORK(s, id, ssid) == [s EXCEPT !.nets[id].ssid = ssid]
ENABLE_NETWORK(s, id) == [s EXCEPT !.nets[id].on = TRUE]
DISABLE_NETWORK(s, ids) ==
    DropUnless([s EXCEPT !.nets = [i \in Ids |-> [s.nets[i] EXCEPT !.on = @ /\ i \notin ids]]],
               Ids \ ids)
SELECT_NETWORK(s, id) ==
    [ENABLE_NETWORK(DISABLE_NETWORK(s, Ids \ {id}), id) EXCEPT !.barred = FALSE]
REMOVE_NETWORK(s, id) == DropUnless([s EXCEPT !.nets[id] = NoProfile], Ids \ {id})
SAVE_CONFIG(s) == [s EXCEPT !.saved = s.nets]
DISCONNECT(s) == [Drop(s) EXCEPT !.barred = TRUE]
RECONNECT(s) == [s EXCEPT !.barred = FALSE]

(***************************************************************************)
(* wifi_backend.cpp.                                                       *)
(***************************************************************************)
\* One request on a socket of its own; t is what executing it leads to.
wpa_ok(s, t) == Ok(t) \cup Failed(s) \cup Failed(t)

\* Without the answer the id of the new network is not known.
wpa_add_network(s) == Ok(ADD_NETWORK(s, "new")) \cup Failed(s) \cup Failed(ADD_NETWORK(s, "stuck"))

wifi_ensure_interface_up(s) == Ok([s EXCEPT !.up = TRUE]) \cup Failed(s)

\* Mutant: a timeout or a refusal is turned into success.
wifi_disconnect_Optimistic(s) == Always(wpa_ok(s, DISCONNECT(s)), Ok)

wifi_disconnect(s) == wpa_ok(s, DISCONNECT(s))

wifi_disable_all_profiles(s) == wpa_ok(s, DISABLE_NETWORK(s, Ids))

wifi_set_profile_enabled(s, id, on) ==
    wpa_ok(s, IF on THEN ENABLE_NETWORK(s, id) ELSE DISABLE_NETWORK(s, {id}))

wifi_select_profile(s, id) == wpa_ok(s, SELECT_NETWORK(s, id))

wifi_remove_profile(s, id) ==
    LET kept == [s EXCEPT !.nets[id].fate = IF @ = "new" THEN "stuck" ELSE @]
        gone == REMOVE_NETWORK(s, id)
    IN  Ok(gone) \cup Failed(kept) \cup Failed(gone)

wifi_save_profiles(s) == wpa_ok(s, SAVE_CONFIG(s))

\* LIST_NETWORKS, whose lines are in the order of the ids; the first one wins.
Matching(s, ssid) == {i \in Used(s) : s.nets[i].ssid = ssid}
wifi_find_profile(s, ssid) ==
    Failed(s) \cup IF Matching(s, ssid) = {} THEN {[ok |-> FALSE, s |-> s]} ELSE Ok(s)

\* Mutant: the failure of the second SET_NETWORK leaves the new network behind.
wifi_create_profile_Leak(s, ssid) ==
    LET id == next_id(s)
    IN  Then(wpa_add_network(s), LAMBDA a :
        Then(Rollback(wpa_ok(a, SET_NETWORK(a, id, ssid)), LAMBDA f : wifi_remove_profile(f, id)),
             LAMBDA b : wpa_ok(b, b)))

\* The second SET_NETWORK gives the key or says there is none.
wifi_create_profile(s, ssid) ==
    LET id == next_id(s)
    IN  Then(wpa_add_network(s), LAMBDA a :
        Rollback(Then(wpa_ok(a, SET_NETWORK(a, id, ssid)), LAMBDA b : wpa_ok(b, b)),
                 LAMBDA f : wifi_remove_profile(f, id)))

wifi_set_enabled(s, enabled) ==
    IF enabled
    THEN Then(wifi_ensure_interface_up(s), LAMBDA a : Always(wpa_ok(a, RECONNECT(a)), Ok))
    ELSE Always(wifi_disconnect(s), LAMBDA a :
                Ok([Drop(a) EXCEPT !.up = FALSE]) \cup Failed(a))

(***************************************************************************)
(* wifi_profile_policy.cpp.                                                *)
(***************************************************************************)
\* The history note that the activation of profile id succeeded.
Activated(s, id) == [s EXCEPT !.nets[id].fate = "active"]

\* Mutant: the profile is enabled, and the supplicant left to choose.
activate_profile_NoSelect(s, id, persist) ==
    Then(wifi_set_profile_enabled(s, id, TRUE), LAMBDA c :
    IF persist THEN Always(wifi_save_profiles(Activated(c, id)), Ok)
               ELSE Ok(Activated(c, id)))

activate_profile(s, id, persist) ==
    Always(wifi_disable_all_profiles(s), LAMBDA a :
    Then(wifi_set_profile_enabled(a, id, TRUE), LAMBDA b :
    Then(wifi_select_profile(b, id), LAMBDA c :
    IF persist THEN Always(wifi_save_profiles(Activated(c, id)), Ok)
               ELSE Ok(Activated(c, id)))))

connect_new(s, ssid) ==
    LET id == next_id(s)
    IN  Then(wifi_ensure_interface_up(s), LAMBDA a :
        Then(wifi_create_profile(a, ssid), LAMBDA b :
        Rollback(activate_profile(b, id, TRUE),
                 LAMBDA f : Then(wifi_remove_profile(f, id), wifi_save_profiles))))

connect_saved(s, ssid) ==
    Then(wifi_ensure_interface_up(s), LAMBDA a :
    Then(wifi_find_profile(a, ssid), LAMBDA b :
        activate_profile(b, Min(Matching(b, ssid)), FALSE)))

forget(s, ssid) ==
    Then(wifi_find_profile(s, ssid), LAMBDA a :
    Then(wifi_remove_profile(a, Min(Matching(a, ssid))), wifi_save_profiles))

set_autoconnect(s, ssid, enabled) ==
    Then(wifi_find_profile(s, ssid), LAMBDA a :
    Then(wifi_set_profile_enabled(a, Min(Matching(a, ssid)), enabled), wifi_save_profiles))
=============================================================================
