-------------------------- MODULE MCZoneSupervision --------------------------
(* An instance of ZoneSupervision for TLC: one alarm system, and two       *)
(* devices of one type whose power is watched.                             *)
EXTENDS ZoneSupervision, TLC

CONSTANTS bas, mains1, mains2,     (* zones                                 *)
          siren, power1, power2,   (* their lines                           *)
          BAS, IAS                 (* types                                 *)

ThreeZones == {bas, mains1, mains2}
TwoDevices == {mains1, mains2}
ThreeLines == {siren, power1, power2}
Wires  == siren :> bas @@ power1 :> mains1 @@ power2 :> mains2
Kinds3 == siren :> "active" @@ power1 :> "power" @@ power2 :> "power"
Places == siren :> 0 @@ power1 :> 0 @@ power2 :> 1
TwoTypes == {BAS, IAS}
OnlyIAS == {IAS}
NoneProbed == {}
AllBAS == [z \in ThreeZones |-> BAS]
AllOn == {[z \in ThreeZones |-> [on |-> TRUE, type |-> BAS]]}
=============================================================================
