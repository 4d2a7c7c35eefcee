--------------------------- MODULE DeviceRegistry ---------------------------
(***************************************************************************)
(* What the META vault promises as the account's list of devices: every    *)
(* step changes the entry of one device, a device is added once, renamed   *)
(* at will, and once tombstoned stays so.                                  *)
(***************************************************************************)
CONSTANTS Devices, Names, Absent

VARIABLE entry  \* of each device, [name, deleted] or Absent

Init == entry = [d \in Devices |-> Absent]

Register(d, n) ==
    /\ entry[d] = Absent
    /\ entry' = [entry EXCEPT ![d] = [name |-> n, deleted |-> FALSE]]

Rename(d, n) ==
    /\ entry[d] # Absent
    /\ entry' = [entry EXCEPT ![d].name = n]

Tombstone(d) ==
    /\ entry[d] # Absent
    /\ entry' = [entry EXCEPT ![d].deleted = TRUE]

Next == \E d \in Devices :
    \/ \E n \in Names : Register(d, n) \/ Rename(d, n)
    \/ Tombstone(d)

Spec == Init /\ [][Next]_entry
=============================================================================
