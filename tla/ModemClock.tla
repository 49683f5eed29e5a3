----------------------------- MODULE ModemClock -----------------------------
(***************************************************************************)
(* The clocks of the radio (components/esp_hw_support/modem_clock.c):      *)
(* modules need devices, devices need clocks, and modules share devices as *)
(* devices share clocks.  A device is counted, and its clocks are switched *)
(* on with the first reference and, for most, off with the last, all under *)
(* one lock: a call is a step.                                             *)
(***************************************************************************)
EXTENDS Integers, FiniteSets

CONSTANTS
    MaxUses,    \* how often a module is enabled
    Liberties   \* "bt154": BT is disabled while IEEE 802.15.4 stays enabled

ModemAssumption == MaxUses \in Nat \ {0}

\* modem_clock_device_t; the data dump is no module's.
Devices == {"fe", "coexist", "i2c_master", "wifi_mac", "wifi_bb", "etm",
            "ble_mac", "ble_bb", "802154_mac"}

\* ..._CLOCK_DEPS.
Deps == [wifi       |-> {"wifi_mac", "fe", "wifi_bb", "coexist"},
         bt         |-> {"ble_mac", "fe", "ble_bb", "etm", "coexist"},
         ieee802154 |-> {"802154_mac", "fe", "ble_bb", "etm", "coexist"},
         coex       |-> {"coexist"},
         phy        |-> {"i2c_master", "fe"}]
Modules == DOMAIN Deps

\* The clocks that the configure function of a device switches, each named for
\* the device it belongs to, and the devices whose function switches none off.
ClocksOf(d) == IF d = "ble_mac" THEN {"etm", "ble_mac"} ELSE {d}
Lasting == {"fe", "wifi_mac", "wifi_bb"}

VARIABLES
    refs,  \* of each device, dev[].refs
    on,    \* the clocks that are on
    uses   \* history: of each module, how often it is enabled

vars == <<refs, on, uses>>

Init ==
    /\ refs = [d \in Devices |-> 0]
    /\ on = {}
    /\ uses = [m \in Modules |-> 0]

ClocksOfAll(ds) == UNION {ClocksOf(d) : d \in ds}

-----------------------------------------------------------------------------
\* modem_clock_module_enable, modem_clock_device_enable.
Enable(m) ==
    /\ uses[m] < MaxUses
    /\ uses' = [uses EXCEPT ![m] = @ + 1]
    /\ refs' = [d \in Devices |-> IF d \in Deps[m] THEN refs[d] + 1 ELSE refs[d]]
    /\ on' = on \cup ClocksOfAll({d \in Deps[m] : refs[d] = 0})

\* Mutant: a device goes with the module.
GoesAnyway(d) == TRUE

\* Of the devices of a module that is disabled, those that go.
Goes(d) == refs[d] = 1

\* modem_clock_module_disable, modem_clock_device_disable.
Disable(m) ==
    /\ uses[m] > 0
    /\ m = "bt" /\ uses["bt"] = 1 /\ uses["ieee802154"] > 0 =>
          "bt154" \in Liberties
    /\ uses' = [uses EXCEPT ![m] = @ - 1]
    /\ refs' = [d \in Devices |-> IF d \in Deps[m] THEN refs[d] - 1 ELSE refs[d]]
    /\ on' = on \ ClocksOfAll({d \in Deps[m] \ Lasting : Goes(d)})

Next == \E m \in Modules : Enable(m) \/ Disable(m)

Spec == Init /\ [][Next]_vars

-----------------------------------------------------------------------------
\* Types of the counts.
TypeOK ==
    /\ refs \in [Devices -> Nat]
    /\ on \subseteq Devices
    /\ uses \in [Modules -> 0 .. MaxUses]

\* A module that is enabled has the clocks of all its devices, whatever others
\* do that share a device, or a clock, with it; and apart from those that last
\* no clock stays on that nobody needs.
ClocksMatch ==
    LET needed == UNION {Deps[m] : m \in {n \in Modules : uses[n] > 0}}
    IN  /\ needed \subseteq on
        /\ on \ Lasting \subseteq ClocksOfAll(needed)
==============================================================================
