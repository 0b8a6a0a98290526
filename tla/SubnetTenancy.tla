--------------------------- MODULE SubnetTenancy ---------------------------
(***************************************************************************)
(* What the ANDs are promised about subnets: an AND rents a subnet that no *)
(* other rents, its bridge has that subnet and no other's, and neither is  *)
(* exchanged while the bridge is there.  Nothing is promised to one whose  *)
(* tenancy was forgotten, until it is back in the subnet it rents.         *)
(***************************************************************************)
CONSTANTS Tenants, Space, Nowhere   (* the subnets, and none                *)

VARIABLES rent,     (* the subnet each tenant rents                         *)
          home,     (* the one it lives in                                  *)
          lost      (* the tenants of which the landlord knows no more      *)

tenancyVars == <<rent, home, lost>>

TenancyInit ==
    /\ rent = [t \in Tenants |-> Nowhere]
    /\ home = [t \in Tenants |-> Nowhere]
    /\ lost = {}

Rentable(t, x) == \A u \in Tenants \ {t} : rent[u] # x
Vacant(t, y)   == \A u \in Tenants \ {t} : home[u] # y

(* A tenant comes to rent x and to live in y. *)
Change(t, x, y) ==
    /\ x \in {rent[t], Nowhere} \/ Rentable(t, x)
    /\ y \in {home[t], Nowhere} \/ (home[t] = Nowhere /\ Vacant(t, y))
    /\ lost' \in {lost, lost \ {t}}
    /\ t \notin lost' => y \in {x, Nowhere}
    /\ rent' = [rent EXCEPT ![t] = x]
    /\ home' = [home EXCEPT ![t] = y]

Forget ==
    /\ lost \subseteq lost' /\ lost' \subseteq Tenants
    /\ UNCHANGED <<rent, home>>

TenancyNext == Forget \/ \E t \in Tenants, x, y \in Space \cup {Nowhere} : Change(t, x, y)

TenancySpec == TenancyInit /\ [][TenancyNext]_tenancyVars

(* It follows that a subnet is rented once and lived in once, and that who *)
(* is not lost lives nowhere else than where he rents.                     *)
Apart ==
    /\ \A t, u \in Tenants : t # u =>
          /\ rent[t] = rent[u] => rent[t] = Nowhere
          /\ home[t] = home[u] => home[t] = Nowhere
    /\ \A t \in Tenants \ lost : home[t] \in {rent[t], Nowhere}
=============================================================================
